------------------------------ MODULE Rehearsal -------------------------------
(***************************************************************************)
(* A cycle that works and writes its audit journal, and the evidence that  *)
(* a rehearsal draws from that journal when the cycle has returned         *)
(* (run_rehearsal of rehearsal.py).                                        *)
(*                                                                         *)
(* The cycle is the dry run without repairs that a rehearsal configures,   *)
(* reduced to the steps its evidence is about and the appends that go with *)
(* them; RunCycle has the others.  Any append may fail, in the handlers    *)
(* and in the middle of a line too.                                        *)
(***************************************************************************)
EXTENDS AuditJournal

CONSTANT MaxFaults   \* bound: appends that fail

ASSUME RehearsalAssumption == MaxFaults \in Nat

AgentStages == <<"planning", "implementation", "review">>

VARIABLES
  pc,          \* where the cycle is
  journal,     \* its audit journal
  stage,       \* of its outcome
  raised,      \* an exception is on its way out of _run_cycle
  degraded,    \* _RunTelemetry.degraded
  done,        \* the agents' stages that really ended well, in order
  approved,    \* the tests have passed and the patch is approved
  workspace,   \* there is a workspace
  containers,  \* there is a container that may still run
  report,      \* what the rehearsal says
  faults

outcome == <<stage, raised>>
facts == <<done, approved, workspace, containers>>
runVars == <<pc, journal, outcome, degraded, facts, report, faults>>

RunInit ==
  /\ pc = "starting" /\ journal = EmptyJournal
  /\ stage = "running" /\ raised = FALSE /\ degraded = FALSE
  /\ done = <<>> /\ approved = FALSE /\ workspace = FALSE /\ containers = FALSE
  /\ report = "none" /\ faults = 0

GoTo(p) == pc' = p

-------------------------------------------------------------------------------
\* The cycle.

\* An append that returns, and one that raises.
Journals(event) == journal' = Appended(journal, event) /\ UNCHANGED faults

JournalFails(event) ==
  /\ faults < MaxFaults /\ faults' = faults + 1
  /\ journal' \in NotAppended(journal, event)

\* run(): the first record is written outside every handler.
Schedule ==
  /\ pc = "starting"
  /\ \/ Journals("scheduled") /\ GoTo("planning")
     \/ JournalFails("scheduled") /\ GoTo("over")
  /\ UNCHANGED <<outcome, degraded, facts, report>>

\* Before there is a workspace the run may be deferred.
Defer ==
  /\ pc = "planning"
  /\ stage' = "deferred"
  /\ \/ Journals("deferred") /\ GoTo("returned") /\ UNCHANGED raised
     \/ JournalFails("deferred") /\ GoTo("settled") /\ raised' = TRUE
  /\ UNCHANGED <<degraded, facts, report>>

Following(s) ==
  CASE s = "planning" -> "implementation"
    [] s = "implementation" -> "review"
    [] s = "review" -> "approving"

\* An agent's stage, in the workspace and in a container whose removal may not
\* be proven.  Its result is written to the journal before its status counts.
Work ==
  /\ pc \in ToSet(AgentStages)
  /\ \/ /\ workspace' \in {workspace, TRUE} /\ GoTo("failing")
        /\ UNCHANGED <<journal, faults, done>>
     \/ /\ workspace' = TRUE
        /\ \/ Journals(pc) /\ GoTo(Following(pc)) /\ done' = Append(done, pc)
           \/ Journals(pc) /\ GoTo("failing") /\ UNCHANGED done
           \/ JournalFails(pc) /\ GoTo("failing") /\ UNCHANGED done
  /\ containers' \in {containers, workspace'}
  /\ UNCHANGED <<outcome, degraded, approved, report>>

\* The tests have passed, the patch is the one that was reviewed, and the
\* approval is bound to it; or one of these failed.
Approve ==
  /\ pc = "approving"
  /\ \/ /\ approved' = TRUE
        /\ \/ Journals("approved") /\ GoTo("completing")
           \/ JournalFails("approved") /\ GoTo("failing")
     \/ GoTo("failing") /\ UNCHANGED <<journal, faults, approved>>
  /\ UNCHANGED <<outcome, degraded, done, workspace, containers, report>>

\* The outcome is complete before the journal says so.
Complete ==
  /\ pc = "completing"
  /\ stage' = "complete"
  /\ \/ Journals("dry_run_complete") /\ GoTo("disposing")
     \/ JournalFails("dry_run_complete") /\ GoTo("failing")
  /\ UNCHANGED <<raised, degraded, facts, report>>

\* The except clauses of _run_cycle.
Fail ==
  /\ pc = "failing"
  /\ stage' = "failed"
  /\ \/ Journals("failed") /\ UNCHANGED raised
     \/ JournalFails("failed") /\ raised' = TRUE
  /\ GoTo(IF workspace THEN "disposing" ELSE "settled")
  /\ UNCHANGED <<degraded, facts, report>>

\* Its finally clause: the containers, then the workspace, each proven or not.
Dispose ==
  /\ pc = "disposing"
  /\ \/ containers' = FALSE /\ workspace' = FALSE /\ UNCHANGED stage
     \/ containers' \in {containers, FALSE} /\ stage' = "cleanup_pending"
        /\ UNCHANGED workspace
  /\ GoTo("cleaning")
  /\ UNCHANGED <<journal, faults, raised, degraded, done, approved, report>>

\* The two records of the cleanup: an error of the first one skips the second,
\* and neither changes the outcome.
Cleaning ==
  /\ pc = "cleaning"
  /\ \/ Journals("cleaning") /\ GoTo("receipt")
     \/ JournalFails("cleaning") /\ GoTo("settled")
  /\ UNCHANGED <<outcome, degraded, facts, report>>

Receipt ==
  /\ pc = "receipt"
  /\ LET event == IF stage = "cleanup_pending" THEN "cleanup_failed"
                  ELSE "cleanup_receipt"
     IN Journals(event) \/ JournalFails(event)
  /\ GoTo("settled")
  /\ UNCHANGED <<outcome, degraded, facts, report>>

\* run(): an exception that comes through has a handler of its own, whose
\* append may raise once more.
Settle ==
  /\ pc = "settled"
  /\ \/ /\ ~raised /\ GoTo("returned")
        /\ UNCHANGED <<journal, faults, stage>>
     \/ /\ raised /\ stage' = "failed"
        /\ \/ Journals("failed") /\ GoTo("returned")
           \/ JournalFails("failed") /\ GoTo("over")
  /\ UNCHANGED <<raised, degraded, facts, report>>

\* _degrade(): the first telemetry write that fails is told to the journal,
\* whose error is suppressed.
Degrade ==
  /\ pc # "over" /\ ~degraded
  /\ degraded' = TRUE
  /\ Journals("telemetry_degraded") \/ JournalFails("telemetry_degraded")
  /\ UNCHANGED <<pc, outcome, facts, report>>

-------------------------------------------------------------------------------
\* The rehearsal's checks.

Told == Events(journal.file)

\* Bug: the records are believed as long as each line is one.
ChainOfLines ==
  \A k \in DOMAIN journal.file : journal.file[k].form # "torn" /\ OwnLine(journal.file, k)

\* audit_chain.
Chain == Verified(journal.file)

\* full_agent_lifecycle: the agents' results, in the order of their stages.
AgentsInOrder == SelectSeq(Told, LAMBDA e : e \in ToSet(AgentStages)) = AgentStages

\* approval.
Approval == {"approved", "dry_run_complete"} \subseteq ToSet(Told)

\* container_cleanup and workspace_cleanup look once more at what is there.
NothingRemains == ~workspace /\ ~containers

\* run_rehearsal: success means that every check passed.
Success ==
  /\ stage = "complete"
  /\ Chain /\ AgentsInOrder /\ Approval
  /\ "cleanup_receipt" \in ToSet(Told) /\ NothingRemains

\* The cycle has returned: the rehearsal writes its report.
Report ==
  /\ pc = "returned"
  /\ report' = IF Success THEN "success" ELSE "failure"
  /\ GoTo("over")
  /\ UNCHANGED <<journal, faults, outcome, degraded, facts>>

-------------------------------------------------------------------------------
\* What a kill leaves of the journal: it may come in the middle of an append.
CutShort == IF pc = "over" THEN {journal} ELSE {journal} \cup NotAppended(journal, "cut")

\* The process is killed.
RunKilled ==
  /\ journal' \in CutShort
  /\ GoTo("over")
  /\ UNCHANGED <<outcome, degraded, facts, report, faults>>

\* The machine stops, and may lose what was not synchronised.
RunLost ==
  /\ journal' \in UNION {Survivors(j) : j \in CutShort}
  /\ GoTo("over")
  /\ UNCHANGED <<outcome, degraded, facts, report, faults>>

RunStep ==
  \/ Schedule \/ Defer \/ Work \/ Approve \/ Complete \/ Fail \/ Dispose
  \/ Cleaning \/ Receipt \/ Settle \/ Degrade \/ Report

-------------------------------------------------------------------------------
\* Properties.

RunTypeOK ==
  /\ pc \in ToSet(AgentStages) \cup
       {"starting", "approving", "completing", "failing", "disposing", "cleaning",
        "receipt", "settled", "returned", "over"}
  /\ journal.synced \in 0 .. Len(journal.file)
  /\ journal.previous \in 0 .. journal.tries
  /\ \A k \in DOMAIN journal.file : journal.file[k].form \in Forms
  /\ stage \in {"running", "complete", "failed", "deferred", "cleanup_pending"}
  /\ {raised, degraded, approved, workspace, containers} \subseteq BOOLEAN
  /\ report \in {"none", "success", "failure"}
  /\ faults \in 0 .. MaxFaults

\* Nothing but the acknowledged history, and perhaps one record at its end
\* whose append raised or was cut short.
Faithful ==
  \/ Ids(journal.file) = journal.acked
  \/ journal.file # <<>> /\ Ids(Front(journal.file)) = journal.acked

\* Whatever failed, was cut short or was lost when the machine stopped: a journal
\* that verifies (rehearsal.py:521) is the acknowledged history, and no
\* acknowledged record leaves the file (the fsync of audit.py:88).
JournalTellsTruth ==
  /\ Verified(journal.file) => Faithful
  /\ \A id \in ToSet(journal.acked) :
       \E k \in DOMAIN journal.file : journal.file[k].id = id /\ journal.file[k].form = "line"

\* A rehearsal that says success had its agents succeed in their order and its
\* patch approved, left nothing behind, and has a journal that lacks nothing
\* (docs/OPERATIONS.md:33: "Exit status 0 requires every evidence check to pass").
SuccessIsEarned ==
  report = "success" =>
    /\ done = AgentStages /\ approved
    /\ ~workspace /\ ~containers
    /\ Faithful
===============================================================================
