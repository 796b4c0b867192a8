-------------------------------- MODULE RunCycle --------------------------------
(***************************************************************************)
(* One contribution run: ContributionOrchestrator.run and _run_cycle of    *)
(* orchestrator.py, from the schedule to the outcome it returns.           *)
(*                                                                         *)
(* `pc' is the place in the code, `stage' and `code' are the outcome that  *)
(* the caller will see.  Every step may fail with one of the errors that   *)
(* its calls raise, and so may every append to the audit journal; a        *)
(* failure goes through the except clauses and the finally clause as in    *)
(* the code.  The process may be interrupted or killed at every step.      *)
(*                                                                         *)
(* A workspace's content is a number: an agent's edit, or a disturbance    *)
(* from outside, makes a content that was never seen before.               *)
(***************************************************************************)
EXTENDS Naturals

CONSTANTS
  Configurations,  \* the configurations of the run, see Configuration
  MaxRepairs,      \* bound: agent.max_repair_cycles
  MaxDisturbances, \* bound: changes of the workspace that nobody ordered
  HandlerAudit     \* may the journal fail while a failure is being recorded?

Configuration ==
  [execute : BOOLEAN,       \* --execute
   publish : BOOLEAN,       \* --publish
   authorized : BOOLEAN,    \* assert_authorized() accepts the publication
   tests : BOOLEAN,         \* the repository has test commands
   setup : BOOLEAN,         \* ... and setup commands
   github : BOOLEAN,        \* the issue source is a GitHubClient
   repairs : 0..MaxRepairs] \* agent.max_repair_cycles

ASSUME RunAssumption ==
  /\ MaxRepairs \in Nat /\ MaxDisturbances \in Nat
  /\ HandlerAudit \in BOOLEAN
  /\ Configurations \subseteq Configuration

\* Contents of the workspace: 0 is the clone of the upstream branch.
Contents == 0..(MaxRepairs + 1 + MaxDisturbances)
None == MaxRepairs + 2 + MaxDisturbances

TerminalStages ==
  {"complete", "deferred", "skipped", "failed", "aborted", "cleanup_pending"}

Stages == TerminalStages \cup
  {"scheduled", "budget_check", "discovering", "selected", "preflight",
   "sandbox_ready", "planning", "implementing", "verifying", "reviewing",
   "publishing", "pr_open"}

FailureCodes ==
  {"none", "budget_exhausted", "policy_denied", "no_candidate",
   "no_reproduction", "test_failed", "review_rejected", "upstream_moved",
   "rate_limited", "auth_failed", "publish_partial", "cleanup_failed",
   "runtime_unavailable", "agent_failed", "invalid_output"}

\* Errors that the except clauses know, by the code they lead to.  "local" is
\* OSError, sqlite3.Error, SubprocessError, WorkspaceError and RunnerError.
Errors == {"local", "no_runtime", "output", "github_retry", "github_auth",
           "publication"}

\* Inside the try statement of _run_cycle, in the order of the code.
Guarded == {"lease", "clone", "plan", "implement", "inspect", "verify",
            "postcheck", "review", "approve", "upstream", "slot", "publish",
            "writing", "record"}

Early == {"authorize", "budget", "admission", "discover", "select", "prepare",
          "reserve", "deadline"}

Final == {"returned", "raised", "dead"}

Places == {"start"} \cup Early \cup Guarded \cup Final
            \cup {"containers", "workspace", "settle", "handling", "telemetry"}

VARIABLES
  cfg,          \* the configuration of this run
  pc,           \* the place in the code
  stage, code,  \* outcome.stage and outcome.failure_code
  raised,       \* the exception on its way up: "none", "os" or "interrupt"
  row,          \* the run's row in the budget ledger: "none" or its status
  slot,         \* the run's publication slot: "none" or its status
  lease,        \* the workspace: "none", "leased", "unmarked" or "gone"
  containers,   \* may a container of this run exist?
  content,      \* the content of the workspace
  diff,         \* the patch that the controller inspected last
  cycle,        \* repair_cycle
  accepted,     \* contents that passed the policy's diff gate
  tested,       \* contents on which every test command passed when last run
  reviewed,     \* contents that the review approved
  approval,     \* the content that the approval bundle pins
  committed,    \* the content of the publication commit
  remote,       \* GitHub: "none", "branch" (pushed) or "open" (pull request)
  url,          \* is outcome.pr_url set?
  cleanup,      \* telemetry's cleanup status
  recorded,     \* the run's row in telemetry: its stage and cleanup status
  disturbances  \* how often the workspace has changed by itself so far

outcome == <<stage, code, raised>>
ledgers == <<row, slot>>
evidence == <<accepted, tested, reviewed>>
patch == <<content, diff, cycle, approval, committed, disturbances>>
residue == <<lease, containers>>
report == <<url, cleanup, recorded>>

vars == <<cfg, pc, outcome, ledgers, residue, patch, evidence, remote, report>>

-------------------------------------------------------------------------------
\* How a step ends.

\* Bug: an error of the local system during the publication is no reason to
\* suspect a remote write.
CodeOfErrorOnly(error, at) ==
  CASE error = "publication"  -> "publish_partial"
    [] error = "github_retry" -> "rate_limited"
    [] error = "github_auth"  -> "auth_failed"
    [] error = "output"       -> "invalid_output"
    [] error = "no_runtime"   -> "runtime_unavailable"
    [] OTHER                  -> "agent_failed"

\* The except clauses: an error that escapes during the publication counts as
\* a partial publication, whatever it is.
CodeOf(error, at) ==
  IF at \in {"publishing", "pr_open"} \/ error = "publication"
  THEN "publish_partial"
  ELSE CASE error = "github_retry" -> "rate_limited"
         [] error = "github_auth"  -> "auth_failed"
         [] error = "output"       -> "invalid_output"
         [] error = "no_runtime"   -> "runtime_unavailable"
         [] OTHER                  -> "agent_failed"

\* The finally clause, which removes nothing when there is nothing to remove.
Cleaning == IF lease' = "none" THEN "settle" ELSE "containers"

\* The step is done, and the next one follows.
Continue(to) ==
  /\ pc' = to
  /\ UNCHANGED <<code, raised>>

\* A return before the workspace exists.  The journal records it first.
Return(st, c) ==
  /\ stage' = st /\ code' = c
  /\ \/ pc' = "telemetry" /\ UNCHANGED raised
     \/ pc' = "handling" /\ raised' = "os"

\* An error before the workspace exists: run() handles it.
EscapeEarly ==
  /\ pc' = "handling" /\ raised' = "os"
  /\ UNCHANGED code

\* The except clauses of _run_cycle append to the journal last; if that fails
\* the new error replaces the one being handled.
Handled(st, c) ==
  /\ stage' = st /\ code' = c
  /\ pc' = Cleaning
  /\ \/ UNCHANGED raised
     \/ HandlerAudit /\ raised' = "os"

\* RunAbort.
Abort(st, c) == Handled(st, c)

\* One of the errors that the second except clause knows, raised in stage at.
Fail(error, at) == Handled("failed", CodeOf(error, at))

-------------------------------------------------------------------------------
\* Before the workspace exists.

Init ==
  /\ cfg \in Configurations
  /\ pc = "start"
  /\ stage = "scheduled" /\ code = "none" /\ raised = "none"
  /\ row = "none" /\ slot = "none"
  /\ lease = "none" /\ containers = FALSE
  /\ content = 0 /\ diff = None /\ cycle = 0
  /\ accepted = {} /\ tested = {} /\ reviewed = {}
  /\ approval = None /\ committed = None
  /\ remote = "none"
  /\ url = FALSE /\ cleanup = "not_started"
  /\ recorded = [stage |-> "scheduled", cleanup |-> "not_started"]
  /\ disturbances = 0

\* The journal's first entry comes before the try statement of run().
Start ==
  /\ pc = "start"
  /\ \/ pc' = "authorize" /\ UNCHANGED raised
     \/ pc' = "raised" /\ raised' = "os"
  /\ UNCHANGED <<cfg, stage, code, ledgers, residue, patch, evidence, remote, report>>

\* --publish needs --execute and an authorized configuration.  A controller
\* that runs as root executes nothing.
Authorize ==
  /\ pc = "authorize"
  /\ \/ cfg.publish /\ ~(cfg.execute /\ cfg.authorized)
        /\ Return("aborted", "policy_denied")
     \/ ~(cfg.publish /\ ~(cfg.execute /\ cfg.authorized))
        /\ cfg.execute /\ Return("aborted", "policy_denied")
     \/ ~(cfg.publish /\ ~(cfg.execute /\ cfg.authorized))
        /\ Continue("budget") /\ UNCHANGED stage
  /\ UNCHANGED <<cfg, ledgers, residue, patch, evidence, remote, report>>

\* The quota snapshot.
Budget ==
  /\ pc = "budget"
  /\ \/ Return("deferred", "budget_exhausted")
     \/ stage' = "budget_check" /\ (Continue("admission") \/ EscapeEarly)
  /\ UNCHANGED <<cfg, ledgers, residue, patch, evidence, remote, report>>

\* The ledger opens, and can_start() compares the snapshot with the estimate.
Admission ==
  /\ pc = "admission"
  /\ \/ Return("failed", "agent_failed")
     \/ Return("deferred", "budget_exhausted")
     \/ stage' = "discovering" /\ (Continue("discover") \/ EscapeEarly)
  /\ UNCHANGED <<cfg, ledgers, residue, patch, evidence, remote, report>>

\* scout() ranks the candidates.
Discover ==
  /\ pc = "discover"
  /\ \/ Return("deferred", "rate_limited")
     \/ Return("failed", "agent_failed")
     \/ UNCHANGED stage /\ (Continue("select") \/ EscapeEarly)
  /\ UNCHANGED <<cfg, ledgers, residue, patch, evidence, remote, report>>

\* The first eligible candidate (which the publication ledger does not refuse,
\* when the run is to publish) is selected.
Select ==
  /\ pc = "select"
  /\ \/ Return("skipped", "no_candidate")
     \/ stage' = "selected" /\ (Continue("prepare") \/ EscapeEarly)
  /\ UNCHANGED <<cfg, ledgers, residue, patch, evidence, remote, report>>

\* A run that only selects ends here.  Others need test commands and a
\* container runtime.
Prepare ==
  /\ pc = "prepare"
  /\ \/ ~cfg.execute /\ Continue("telemetry") /\ UNCHANGED stage
     \/ cfg.execute /\ ~cfg.tests /\ Return("aborted", "policy_denied")
     \/ cfg.execute /\ cfg.tests
        /\ \/ Return("failed", "runtime_unavailable")
           \/ UNCHANGED stage /\ Continue("reserve")
  /\ UNCHANGED <<cfg, ledgers, residue, patch, evidence, remote, report>>

\* BudgetLedger.reserve().  The journal may fail after the row was written.
Reserve ==
  /\ pc = "reserve"
  /\ \/ Return("deferred", "budget_exhausted") /\ UNCHANGED row
     \/ EscapeEarly /\ UNCHANGED <<stage, row>>
     \/ row' = "reserved" /\ UNCHANGED stage /\ (Continue("deadline") \/ EscapeEarly)
  /\ UNCHANGED <<cfg, slot, residue, patch, evidence, remote, report>>

\* The run's deadline, which may have passed already.
Deadline ==
  /\ pc = "deadline"
  /\ \/ Return("deferred", "budget_exhausted")
     \/ UNCHANGED stage /\ Continue("lease")
  /\ UNCHANGED <<cfg, ledgers, residue, patch, evidence, remote, report>>

-------------------------------------------------------------------------------
\* In the workspace.

\* WorkspaceLease.__enter__: when it fails it removes what it made, and when
\* that fails too the directory stays without its marker.
Lease ==
  /\ pc = "lease"
  /\ \/ lease' = "leased" /\ stage' = "preflight" /\ Continue("clone")
     \/ lease' = "leased" /\ Fail("local", "preflight")
     \/ lease' \in {"none", "unmarked"} /\ Fail("local", stage)
  /\ UNCHANGED <<cfg, ledgers, containers, patch, evidence, remote, report>>

Clone ==
  /\ pc = "clone"
  /\ UNCHANGED lease
  /\ \/ stage' = "sandbox_ready" /\ Continue("plan")
     \/ Fail("local", stage)
  /\ UNCHANGED <<cfg, ledgers, containers, patch, evidence, remote, report>>

\* An agent's or a test's container may outlive a step that fails, never one
\* that succeeds: _execute_container fails unless its removal was proven.
ContainerFails(error) ==
  /\ containers' \in BOOLEAN
  /\ Fail(error, stage)

Plan ==
  /\ pc = "plan"
  /\ UNCHANGED lease
  /\ \/ stage' = "implementing" /\ Continue("implement") /\ UNCHANGED containers
     \/ Abort("aborted", "no_reproduction") /\ UNCHANGED containers
     \/ Abort("deferred", "budget_exhausted") /\ UNCHANGED containers
     \/ \E e \in {"local", "no_runtime", "output"} : ContainerFails(e)
  /\ UNCHANGED <<cfg, ledgers, patch, evidence, remote, report>>

\* The implementation agent, for the plan, for failed tests or for findings of
\* the review.
Implement ==
  /\ pc = "implement"
  /\ UNCHANGED lease
  /\ content' \in {content, content + 1}
  /\ \/ Continue("inspect") /\ UNCHANGED <<stage, containers>>
     \/ Abort("aborted", "agent_failed") /\ UNCHANGED containers
     \/ \E e \in {"local", "no_runtime", "output"} : ContainerFails(e)
  /\ UNCHANGED <<cfg, ledgers, diff, cycle, approval, committed, disturbances,
                 evidence, remote, report>>

\* The top of the repair loop: inspect_diff and diff_gate.  An unchanged
\* workspace never passes, a content that passed once passes again.
Inspect ==
  /\ pc = "inspect"
  /\ UNCHANGED lease
  /\ diff' = content
  /\ \/ /\ content # 0
        /\ accepted' = accepted \cup {content}
        /\ stage' = "verifying" /\ Continue("verify")
     \/ /\ content \notin accepted
        /\ Abort("aborted", "policy_denied")
        /\ UNCHANGED accepted
     \/ Fail("local", stage) /\ UNCHANGED accepted
  /\ UNCHANGED <<cfg, ledgers, containers, content, cycle, approval, committed,
                 disturbances, tested, reviewed, remote, report>>

\* The setup commands, in the first cycle only, and the test commands.
Verify ==
  /\ pc = "verify"
  /\ UNCHANGED lease
  /\ \/ cfg.setup /\ cycle = 0
        /\ Abort("aborted", "test_failed") /\ UNCHANGED <<containers, tested>>
     \/ tested' \in {tested \cup {content}, tested \ {content}}
        /\ Continue("postcheck") /\ UNCHANGED <<stage, containers>>
     \/ \E e \in {"local", "no_runtime"} : ContainerFails(e) /\ UNCHANGED tested
  /\ UNCHANGED <<cfg, ledgers, patch, accepted, reviewed, remote, report>>

\* Bug: the workspace is not compared with the patch again.
NotInspectedAgain == TRUE

\* post_test_diff and final_diff: the workspace holds the inspected patch.
StillInspected == content = diff

\* repair_limit_hit.
MayRepair == cycle < cfg.repairs

\* After the tests: the workspace must still hold the inspected patch; failed
\* tests are repaired as long as the repair limit allows.
PostCheck ==
  /\ pc = "postcheck"
  /\ UNCHANGED lease
  /\ \/ /\ ~StillInspected
        /\ Abort("aborted", "policy_denied") /\ UNCHANGED cycle
     \/ /\ StillInspected /\ content \in tested
        /\ stage' = "reviewing" /\ Continue("review") /\ UNCHANGED cycle
     \/ /\ StillInspected /\ content \notin tested /\ ~MayRepair
        /\ Abort("aborted", "test_failed") /\ UNCHANGED cycle
     \/ /\ StillInspected /\ content \notin tested /\ MayRepair
        /\ cycle' = cycle + 1
        /\ stage' = "implementing" /\ Continue("implement")
     \/ Fail("local", stage) /\ UNCHANGED cycle
  /\ UNCHANGED <<cfg, ledgers, containers, content, diff, approval, committed,
                 disturbances, evidence, remote, report>>

\* The independent review of the inspected patch.
Review ==
  /\ pc = "review"
  /\ UNCHANGED lease
  /\ \/ /\ reviewed' = reviewed \cup {diff}
        /\ Continue("approve") /\ UNCHANGED <<stage, containers, cycle>>
     \/ /\ Abort("aborted", "review_rejected")
        /\ UNCHANGED <<containers, cycle, reviewed>>
     \/ /\ MayRepair
        /\ cycle' = cycle + 1
        /\ stage' = "implementing" /\ Continue("implement")
        /\ UNCHANGED <<containers, reviewed>>
     \/ /\ \E e \in {"local", "no_runtime", "output"} : ContainerFails(e)
        /\ UNCHANGED <<cycle, reviewed>>
  /\ UNCHANGED <<cfg, ledgers, content, diff, approval, committed, disturbances,
                 accepted, tested, remote, report>>

\* The last look at the workspace, and the approval bundle.  A run that is not
\* to publish is complete.
Approve ==
  /\ pc = "approve"
  /\ UNCHANGED lease
  /\ \/ ~StillInspected /\ Abort("aborted", "policy_denied") /\ UNCHANGED approval
     \/ Fail("local", stage) /\ UNCHANGED approval
     \/ /\ StillInspected
        /\ approval' = content
        /\ \/ cfg.publish /\ Continue("upstream") /\ UNCHANGED stage
           \/ ~cfg.publish /\ stage' = "complete" /\ Continue("containers")
           \/ Fail("local", stage)
  /\ UNCHANGED <<cfg, ledgers, containers, content, diff, cycle, committed,
                 disturbances, evidence, remote, report>>

-------------------------------------------------------------------------------
\* Publication.

\* The issue, its policy gates and the base branch are read again.  Policy
\* denies what needs a human's approval, and what no GitHubClient can refresh.
Upstream ==
  /\ pc = "upstream"
  /\ UNCHANGED lease
  /\ \/ Abort("aborted", "policy_denied")
     \/ cfg.github /\ Abort("aborted", "upstream_moved")
     \/ cfg.github /\ Continue("slot") /\ UNCHANGED stage
     \/ cfg.github /\ \E e \in {"github_retry", "github_auth", "local"} : Fail(e, stage)
  /\ UNCHANGED <<cfg, ledgers, containers, patch, evidence, remote, report>>

\* Bug: a refused slot does not stop the publication.
SlotIgnored ==
  /\ pc = "slot"
  /\ slot' \in {slot, "reserved"}
  /\ stage' = "publishing" /\ Continue("publish")
  /\ UNCHANGED <<cfg, row, residue, patch, evidence, remote, report>>

\* PublicationLedger.reserve().
Slot ==
  /\ pc = "slot"
  /\ UNCHANGED lease
  /\ \/ Abort("aborted", "policy_denied") /\ UNCHANGED slot
     \/ Fail("local", stage) /\ UNCHANGED slot
     \/ /\ slot' = "reserved"
        /\ \/ stage' = "publishing" /\ Continue("publish")
           \/ Fail("local", stage)
           \/ Fail("local", "publishing")
  /\ UNCHANGED <<cfg, row, containers, patch, evidence, remote, report>>

\* publish(): the approval is validated, the patch is committed, and the
\* commit is compared with the patch.
Publish ==
  /\ pc = "publish"
  /\ UNCHANGED lease
  /\ \/ content # approval /\ Fail("publication", stage) /\ UNCHANGED committed
     \/ /\ content = approval
        /\ committed' = content
        /\ Continue("writing") /\ UNCHANGED stage
     \/ \E e \in {"publication", "local"} : Fail(e, stage) /\ UNCHANGED committed
  /\ UNCHANGED <<cfg, ledgers, containers, content, diff, cycle, approval,
                 disturbances, evidence, remote, report>>

\* GitHub carries out the push or opens the pull request.  The approval of the
\* commit is checked before each of the two requests is sent.
RemoteWrite ==
  /\ pc = "writing"
  /\ content = committed
  /\ \/ remote = "none" /\ remote' = "branch"
     \/ remote = "branch" /\ remote' = "open"
  /\ UNCHANGED <<cfg, pc, outcome, ledgers, residue, patch, evidence, report>>

\* publish() answers with the pull request's address, or it raises: a request
\* was refused, its answer was lost, or what it made could not be verified.
Written ==
  /\ pc = "writing"
  /\ UNCHANGED lease
  /\ \/ /\ remote = "open"
        /\ url' = TRUE
        /\ stage' = "pr_open" /\ Continue("record")
     \/ \E e \in {"publication", "local"} : Fail(e, stage) /\ UNCHANGED url
  /\ UNCHANGED <<cfg, ledgers, containers, patch, evidence, remote, cleanup, recorded>>

\* PublicationLedger.finish() and the journal's last entry.
Record ==
  /\ pc = "record"
  /\ UNCHANGED lease
  /\ \/ slot' = "published" /\ Continue("containers") /\ UNCHANGED stage
     \/ slot' \in {slot, "published"} /\ Fail("local", stage)
  /\ UNCHANGED <<cfg, row, containers, patch, evidence, remote, report>>

-------------------------------------------------------------------------------
\* The finally clause, and what follows it.

\* Bug: an earlier failure hides that the cleanup failed.
MarkCleanupPendingUnlessFailed ==
  /\ stage' = IF code = "none" THEN "cleanup_pending" ELSE stage
  /\ code' = IF code = "none" THEN "cleanup_failed" ELSE code
  /\ cleanup' = "failed"

\* _mark_cleanup_pending keeps the code of an earlier failure.
MarkCleanupPending ==
  /\ stage' = "cleanup_pending"
  /\ code' = IF code = "none" THEN "cleanup_failed" ELSE code
  /\ cleanup' = "failed"

\* runner.cleanup_job(): only a proven removal lets the workspace go.
CleanContainers ==
  /\ pc = "containers"
  /\ \/ /\ containers' = FALSE
        /\ pc' = "workspace"
        /\ UNCHANGED <<stage, code, cleanup>>
     \/ /\ containers' \in {containers, FALSE}
        /\ pc' = "settle"
        /\ MarkCleanupPending
  /\ UNCHANGED <<cfg, raised, ledgers, lease, patch, evidence, remote, url, recorded>>

\* Bug: a cleanup that fails is tried again.
CleanWorkspaceAgain ==
  /\ pc = "workspace"
  /\ \/ lease = "leased" /\ lease' = "gone" /\ pc' = "settle"
     \/ lease' \in {lease, "unmarked"} /\ pc' = "containers"
  /\ UNCHANGED <<cfg, outcome, ledgers, containers, patch, evidence, remote, report>>

\* lease.cleanup() refuses a directory without its marker, and it may fail
\* half-way, when the marker is gone or still there.
CleanWorkspace ==
  /\ pc = "workspace"
  /\ pc' = "settle"
  /\ \/ /\ lease = "leased"
        /\ lease' = "gone"
        /\ cleanup' = "proven"
        /\ stage' = IF stage = "pr_open" THEN "complete" ELSE stage
        /\ UNCHANGED code
     \/ /\ lease' \in {lease, "unmarked"}
        /\ MarkCleanupPending
  /\ UNCHANGED <<cfg, raised, ledgers, containers, patch, evidence, remote, url, recorded>>

\* BudgetLedger.finish(), whose errors are ignored.
Settle ==
  /\ pc = "settle"
  /\ row' \in {row, stage}
  /\ pc' = IF raised = "os" THEN "handling" ELSE "telemetry"
  /\ UNCHANGED <<cfg, outcome, slot, residue, patch, evidence, remote, report>>

\* The except clause of run().  When the journal fails here the error leaves
\* run().
Handle ==
  /\ pc = "handling"
  /\ stage' = "failed"
  /\ code' = CodeOf("local", stage)
  /\ pc' = "telemetry"
  /\ raised' \in {"none", "os"}
  /\ UNCHANGED <<cfg, ledgers, residue, patch, evidence, remote, report>>

\* Bug: an unfinished lifecycle counts as a complete one.
RecordedStageOptimistic == IF stage \in TerminalStages THEN stage ELSE "complete"

\* Selection alone completes a run that only selects; an unfinished lifecycle
\* is a failure.
RecordedStage ==
  IF stage = "selected" /\ ~cfg.execute THEN "complete"
  ELSE IF stage \in TerminalStages THEN stage ELSE "failed"

\* The finally clause of run(): telemetry gets the outcome, or misses it.
FinishTelemetry ==
  /\ pc = "telemetry"
  /\ pc' = IF raised = "none" THEN "returned" ELSE "raised"
  /\ \/ recorded' =
          [stage   |-> RecordedStage,
           cleanup |-> IF stage = "cleanup_pending" THEN "failed" ELSE cleanup]
     \/ UNCHANGED recorded
  /\ UNCHANGED <<cfg, outcome, ledgers, residue, patch, evidence, remote, url, cleanup>>

-------------------------------------------------------------------------------
\* The environment.

\* KeyboardInterrupt, or an error that no except clause knows: only the
\* finally clauses run.
Interrupt ==
  /\ pc \in Early \cup Guarded \cup {"containers", "workspace", "settle", "handling"}
  /\ raised' = "interrupt"
  /\ UNCHANGED lease
  /\ pc' = IF pc \in Guarded THEN Cleaning ELSE "telemetry"
  /\ UNCHANGED <<cfg, stage, code, ledgers, containers, patch, evidence, remote, report>>

\* The process is killed.  A container that it was waiting for lives on.
Crash ==
  /\ pc \notin Final
  /\ pc' = "dead"
  /\ containers' \in IF pc \in {"plan", "implement", "verify", "review"}
                     THEN BOOLEAN ELSE {containers}
  /\ UNCHANGED <<cfg, outcome, ledgers, lease, patch, evidence, remote, report>>

\* Something else than the controller changes the workspace.
Disturb ==
  /\ disturbances < MaxDisturbances
  /\ pc \in Guarded /\ lease = "leased"
  /\ disturbances' = disturbances + 1
  /\ content' = content + 1
  /\ UNCHANGED <<cfg, pc, outcome, ledgers, residue, diff, cycle, approval,
                 committed, evidence, remote, report>>

Step ==
  \/ Start \/ Authorize \/ Budget \/ Admission \/ Discover \/ Select \/ Prepare
  \/ Reserve \/ Deadline \/ Lease \/ Clone \/ Plan \/ Implement \/ Inspect
  \/ Verify \/ PostCheck \/ Review \/ Approve \/ Upstream \/ Slot \/ Publish
  \/ Written \/ Record \/ CleanContainers \/ CleanWorkspace \/ Settle \/ Handle
  \/ FinishTelemetry

Next == Step \/ RemoteWrite \/ Interrupt \/ Crash \/ Disturb

\* Every call that a step waits for has a timeout.
Fairness == WF_vars(Step)

Spec == Init /\ [][Next]_vars /\ Fairness

-------------------------------------------------------------------------------
\* Properties.

TypeOK ==
  /\ cfg \in Configurations
  /\ pc \in Places
  /\ stage \in Stages /\ code \in FailureCodes
  /\ raised \in {"none", "os", "interrupt"}
  /\ row \in {"none", "reserved"} \cup Stages
  /\ slot \in {"none", "reserved", "published"}
  /\ lease \in {"none", "leased", "unmarked", "gone"}
  /\ containers \in BOOLEAN
  /\ content \in Contents /\ cycle \in 0..cfg.repairs
  /\ {diff, approval, committed} \subseteq Contents \cup {None}
  /\ accepted \cup tested \cup reviewed \subseteq Contents
  /\ remote \in {"none", "branch", "open"}
  /\ url \in BOOLEAN
  /\ cleanup \in {"not_started", "proven", "failed"}
  /\ recorded \in [stage : TerminalStages \cup {"scheduled"},
                   cleanup : {"not_started", "proven", "failed"}]
  /\ disturbances \in 0..MaxDisturbances

\* Whatever reaches GitHub is a content that passed the diff gate, on which
\* the tests passed when they last ran, and that the review approved, however
\* the repair loop ran and whatever changed the workspace in between.
PublishedWasVerified ==
  remote # "none" => /\ committed = approval
                     /\ committed \in accepted \cap tested \cap reviewed

\* A caller that gets an outcome learns of every remote write: the run is
\* complete, or only its cleanup is pending and it names the pull request, or
\* it says publish_partial (docs/GITHUB_INTEGRATION.md:72).
RemoteWriteReported ==
  pc = "returned" /\ remote # "none" =>
    \/ code = "publish_partial"
    \/ /\ remote = "open" /\ url /\ slot = "published"
       /\ \/ stage = "complete" /\ code = "none"
          \/ stage = "cleanup_pending" /\ code = "cleanup_failed"

\* ... and of every container or workspace that may be left behind.
ResidueReported ==
  pc = "returned" /\ (containers \/ lease \in {"leased", "unmarked"})
    => stage = "cleanup_pending"

\* The dashboard never shows a cleanup as proven when it was not, nor a pull
\* request as complete before the run has disposed of its workspace
\* (ARCHITECTURE.md:50), nor a run as complete without a verified patch.
TelemetryNeverFlatters ==
  /\ recorded.cleanup = "proven" => lease = "gone" /\ ~containers
  /\ recorded.stage = "complete" /\ cfg.execute
       => approval \in accepted \cap tested \cap reviewed
  /\ recorded.stage = "complete" /\ cfg.publish
       => remote = "open" /\ url /\ lease = "gone" /\ ~containers

\* A run writes to GitHub only behind its three gates, in their order.
Gated == INSTANCE GatedWrite WITH
  gates <- {g \in {"budget", "patch", "slot"} :
              CASE g = "budget" -> row # "none"
                [] g = "patch"  -> approval # None
                [] g = "slot"   -> slot # "none"}

ImplementsGatedWrite == Gated!Spec

\* Every run ends, whatever fails and however often it repairs.
Terminates == <>(pc \in Final)

===============================================================================
