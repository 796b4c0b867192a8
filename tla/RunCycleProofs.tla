----------------------------- MODULE RunCycleProofs -----------------------------
(***************************************************************************)
(* What a run tells is true: theorems of RunCycle for every set of         *)
(* configurations, every repair limit and every number of disturbances.    *)
(*                                                                         *)
(* The invariant says what holds at each place of the code.  Its first     *)
(* part does not ask whether the journal may fail while a failure is being *)
(* recorded; what the caller learns, ReportInv, holds only if it may not.  *)
(***************************************************************************)
EXTENDS RunCycle, TLAPS

\* The places before the approval, and those behind it on the way to GitHub.
Unapproved ==
  {"start"} \cup Early \cup
    {"lease", "clone", "plan", "implement", "inspect", "verify", "postcheck", "review", "approve"}

Publishing == {"upstream", "slot", "publish", "writing", "record"}

\* Each agent's edit has its repair cycle, so no content is None.
ContentInv ==
  /\ content <= cycle + disturbances + 1
  /\ pc \in {"start"} \cup Early \cup {"lease", "clone", "plan", "implement"}
       => content <= cycle + disturbances

\* The evidence for the inspected patch grows with the loop, and the approval
\* has all of it: the tests do not run again behind it.
EvidenceInv ==
  /\ pc \in {"verify", "postcheck", "review", "approve"} => diff \in accepted
  /\ pc \in {"review", "approve"} => diff \in tested
  /\ pc = "approve" => diff \in reviewed
  /\ approval # None => pc \notin Unapproved /\ approval \in accepted \cap tested \cap reviewed
  /\ committed # None => committed = approval
  /\ pc \in {"writing", "record"} \/ remote # "none" => committed # None

\* The three gates, in their order.
GateInv ==
  /\ pc \in {"deadline", "containers", "workspace", "settle"} \cup Guarded => row # "none"
  /\ pc \in Publishing => approval # None
  /\ pc \in {"publish", "writing", "record"} => slot # "none"
  /\ approval # None => row # "none"
  /\ slot # "none" => approval # None
  /\ remote # "none" => slot # "none"

\* What a stage of the outcome says, and what telemetry will make of it.
OutcomeInv ==
  /\ pc \in Early \ {"authorize"} \/ stage = "selected" => (cfg.publish => cfg.execute)
  /\ stage = "pr_open" => approval # None /\ remote = "open" /\ url
  /\ stage = "complete" =>
       /\ approval # None
       /\ cfg.publish => remote = "open" /\ url /\ lease = "gone" /\ ~containers
  /\ pc = "workspace" => ~containers
  /\ lease = "gone" => pc \in {"settle", "handling", "telemetry"} \cup Final /\ ~containers
  /\ cleanup = "proven" => lease = "gone"
  /\ pc \notin Final => recorded = [stage |-> "scheduled", cleanup |-> "not_started"]
  /\ TelemetryNeverFlatters

IInv == TypeOK /\ ContentInv /\ EvidenceInv /\ GateInv /\ OutcomeInv

\* The outcome as a published run's caller should see it.
Told ==
  \/ code = "publish_partial"
  \/ /\ remote = "open" /\ url /\ slot = "published"
     /\ \/ stage = "complete" /\ code = "none"
        \/ stage = "cleanup_pending" /\ code = "cleanup_failed"

\* An error of the local system is on its way only where nothing was begun.
RaisedInv ==
  /\ raised = "os" => pc \in {"handling", "telemetry", "raised", "dead"}
  /\ raised = "interrupt" =>
       pc \in {"containers", "workspace", "settle", "telemetry", "raised", "dead"}
  /\ pc = "returned" => raised = "none"
  /\ pc \in {"start"} \cup Early \cup Guarded => code = "none"

\* What may be left behind, place by place.
ResidueInv ==
  /\ pc \in {"start", "handling", "lease"} \cup Early => lease = "none" /\ ~containers
  /\ pc \in Guarded \ {"lease"} => lease = "leased"
  /\ pc \in {"containers", "workspace"} => lease \in {"leased", "unmarked"}
  /\ pc \in {"settle", "telemetry", "returned"} /\ raised # "interrupt" =>
       stage = "cleanup_pending" \/ (lease \in {"none", "gone"} /\ ~containers)

\* What the outcome says of GitHub, place by place.
RemoteInv ==
  /\ remote # "none" => pc \notin {"handling"} \cup (Guarded \ {"writing", "record"}) \cup Unapproved
  /\ pc \in {"publish", "writing"} => stage = "publishing"
  /\ pc = "record" => stage = "pr_open"
  /\ remote # "none" /\ pc \in {"containers", "workspace"} /\ raised # "interrupt" =>
       \/ code = "publish_partial"
       \/ remote = "open" /\ url /\ slot = "published" /\ stage = "pr_open" /\ code = "none"
  /\ remote # "none" /\ pc \in {"settle", "telemetry", "returned"} /\ raised # "interrupt" => Told

ReportInv == RaisedInv /\ ResidueInv /\ RemoteInv

-------------------------------------------------------------------------------
\* The proofs.

\* The actions, by the part of the code that they belong to.
EarlyStep ==
  \/ Start \/ Authorize \/ Budget \/ Admission \/ Discover \/ Select \/ Prepare
  \/ Reserve \/ Deadline

WorkStep ==
  \/ Lease \/ Clone \/ Plan \/ Implement \/ Inspect \/ Verify \/ PostCheck
  \/ Review \/ Approve

PublicationStep ==
  \/ Upstream \/ Slot \/ Publish \/ RemoteWrite \/ Written \/ Record

FinalStep ==
  \/ CleanContainers \/ CleanWorkspace \/ Settle \/ Handle \/ FinishTelemetry

EnvironmentStep ==
  \/ Interrupt \/ Crash \/ Disturb

LEMMA ConfigurationFacts == TypeOK =>
  /\ cfg.repairs \in Nat /\ cfg.repairs <= MaxRepairs
  /\ cfg.execute \in BOOLEAN /\ cfg.publish \in BOOLEAN
BY RunAssumption DEF TypeOK, Configuration

LEMMA ContainersCleaned ==
  ASSUME containers \in BOOLEAN, CleanContainers
  PROVE  containers' \in BOOLEAN /\ (containers' => containers)
<1>1. CASE containers' = FALSE
  BY <1>1
<1>2. CASE containers' = containers
  BY <1>2
<1> QED BY <1>1, <1>2, Zenon DEF CleanContainers

LEMMA UrlWritten == ASSUME url \in BOOLEAN, Written PROVE url' \in BOOLEAN
<1>1. url' = TRUE \/ url' = url
  BY DEF Written
<1>2. CASE url' = TRUE
  BY <1>2
<1>3. CASE url' = url
  BY <1>3
<1> QED BY <1>1, <1>2, <1>3

LEMMA InitInv == Init => IInv /\ ReportInv
<1> SUFFICES ASSUME Init PROVE IInv /\ ReportInv
  OBVIOUS
<1>1. TypeOK
  <2>1. cfg.repairs \in Nat
    BY RunAssumption DEF Init, Configuration
  <2>2. /\ content \in Contents /\ cycle \in 0..cfg.repairs
        /\ {diff, approval, committed} \subseteq Contents \cup {None}
        /\ disturbances \in 0..MaxDisturbances
    BY <2>1, RunAssumption DEF Init, Contents
  <2> QED BY <2>2 DEF Init, TypeOK, Places, Stages, TerminalStages, FailureCodes
<1>2. ContentInv /\ EvidenceInv /\ GateInv /\ OutcomeInv
  BY RunAssumption DEF Init, ContentInv, EvidenceInv, GateInv, OutcomeInv, TelemetryNeverFlatters,
     Early, Guarded, Final, Publishing
<1>3. ReportInv
  BY DEF Init, ReportInv, RaisedInv, ResidueInv, RemoteInv, Guarded, Early
<1> QED BY <1>1, <1>2, <1>3 DEF IInv

\* Before there is a workspace: the types are kept.
LEMMA EarlyTypes == ASSUME TypeOK, ContentInv, EvidenceInv, EarlyStep PROVE TypeOK'
<1> USE RunAssumption, ConfigurationFacts
    DEF TypeOK, ContentInv, EvidenceInv, Places, Early, Guarded, Final, Stages, TerminalStages,
        FailureCodes, Contents, None, outcome, ledgers, residue, patch, evidence, report, Continue,
        Return, EscapeEarly
<1>1. CASE Start
  BY <1>1 DEF Start
<1>2. CASE Authorize
  BY <1>2 DEF Authorize
<1>3. CASE Budget
  BY <1>3 DEF Budget
<1>4. CASE Admission
  BY <1>4 DEF Admission
<1>5. CASE Discover
  BY <1>5 DEF Discover
<1>6. CASE Select
  BY <1>6 DEF Select
<1>7. CASE Prepare
  BY <1>7 DEF Prepare
<1>8. CASE Reserve
  BY <1>8 DEF Reserve
<1>9. CASE Deadline
  BY <1>9 DEF Deadline
<1> QED BY <1>1, <1>2, <1>3, <1>4, <1>5, <1>6, <1>7, <1>8, <1>9 DEF EarlyStep

\* Before there is a workspace: evidence, gates and outcome.
LEMMA EarlyInv == ASSUME IInv, EarlyStep PROVE (ContentInv /\ EvidenceInv /\ GateInv /\ OutcomeInv)'
<1> USE RunAssumption, ConfigurationFacts
    DEF IInv, TypeOK, ContentInv, EvidenceInv, GateInv, OutcomeInv, TelemetryNeverFlatters,
        Unapproved, Publishing, Early, Guarded, Final, Stages, TerminalStages, Contents, None,
        outcome, ledgers, residue, patch, evidence, report, Continue, Return, EscapeEarly
<1>1. CASE Start
  BY <1>1 DEF Start
<1>2. CASE Authorize
  BY <1>2 DEF Authorize
<1>3. CASE Budget
  BY <1>3 DEF Budget
<1>4. CASE Admission
  BY <1>4 DEF Admission
<1>5. CASE Discover
  BY <1>5 DEF Discover
<1>6. CASE Select
  BY <1>6 DEF Select
<1>7. CASE Prepare
  BY <1>7 DEF Prepare
<1>8. CASE Reserve
  BY <1>8 DEF Reserve
<1>9. CASE Deadline
  BY <1>9 DEF Deadline
<1> QED BY <1>1, <1>2, <1>3, <1>4, <1>5, <1>6, <1>7, <1>8, <1>9 DEF EarlyStep

\* Before there is a workspace: what the caller will learn.
LEMMA EarlyReport == ASSUME IInv, ReportInv, ~HandlerAudit, EarlyStep PROVE ReportInv'
<1> USE RunAssumption, ConfigurationFacts
    DEF IInv, TypeOK, GateInv, OutcomeInv, ReportInv, RaisedInv, ResidueInv, RemoteInv, Told,
        Unapproved, Early, Guarded, Final, outcome, ledgers, residue, patch, evidence, report,
        Continue, Return, EscapeEarly
<1>1. CASE Start
  BY <1>1 DEF Start
<1>2. CASE Authorize
  BY <1>2 DEF Authorize
<1>3. CASE Budget
  BY <1>3 DEF Budget
<1>4. CASE Admission
  BY <1>4 DEF Admission
<1>5. CASE Discover
  BY <1>5 DEF Discover
<1>6. CASE Select
  BY <1>6 DEF Select
<1>7. CASE Prepare
  BY <1>7 DEF Prepare
<1>8. CASE Reserve
  BY <1>8 DEF Reserve
<1>9. CASE Deadline
  BY <1>9 DEF Deadline
<1> QED BY <1>1, <1>2, <1>3, <1>4, <1>5, <1>6, <1>7, <1>8, <1>9 DEF EarlyStep

\* In the workspace: the types are kept.
LEMMA WorkTypes == ASSUME TypeOK, ContentInv, EvidenceInv, WorkStep PROVE TypeOK'
<1> USE RunAssumption, ConfigurationFacts
    DEF TypeOK, ContentInv, EvidenceInv, Places, Early, Guarded, Final, Stages, TerminalStages,
        FailureCodes, Contents, None, outcome, ledgers, residue, patch, evidence, report, Continue,
        Abort, Fail, Handled, Cleaning, CodeOf
<1>1. CASE Lease
  BY <1>1 DEF Lease
<1>2. CASE Clone
  BY <1>2 DEF Clone
<1>3. CASE Plan
  BY <1>3 DEF Plan, ContainerFails
<1>4. CASE Implement
  BY <1>4 DEF Implement, ContainerFails
<1>5. CASE Inspect
  BY <1>5 DEF Inspect
<1>6. CASE Verify
  BY <1>6 DEF Verify, ContainerFails
<1>7. CASE PostCheck
  BY <1>7 DEF PostCheck, StillInspected, MayRepair
<1>8. CASE Review
  BY <1>8 DEF Review, ContainerFails, MayRepair
<1>9. CASE Approve
  BY <1>9 DEF Approve, StillInspected
<1> QED BY <1>1, <1>2, <1>3, <1>4, <1>5, <1>6, <1>7, <1>8, <1>9 DEF WorkStep

\* In the workspace: evidence, gates and outcome.
LEMMA WorkInv == ASSUME IInv, WorkStep PROVE (ContentInv /\ EvidenceInv /\ GateInv /\ OutcomeInv)'
<1> USE RunAssumption, ConfigurationFacts
    DEF IInv, TypeOK, ContentInv, EvidenceInv, GateInv, OutcomeInv, TelemetryNeverFlatters,
        Unapproved, Publishing, Early, Guarded, Final, Stages, TerminalStages, Contents, None,
        outcome, ledgers, residue, patch, evidence, report, Continue, Abort, Fail, Handled, Cleaning,
        CodeOf
<1>1. CASE Lease
  BY <1>1 DEF Lease
<1>2. CASE Clone
  BY <1>2 DEF Clone
<1>3. CASE Plan
  BY <1>3 DEF Plan, ContainerFails
<1>4. CASE Implement
  BY <1>4 DEF Implement, ContainerFails
<1>5. CASE Inspect
  BY <1>5 DEF Inspect
<1>6. CASE Verify
  BY <1>6 DEF Verify, ContainerFails
<1>7. CASE PostCheck
  BY <1>7 DEF PostCheck, StillInspected, MayRepair
<1>8. CASE Review
  BY <1>8 DEF Review, ContainerFails, MayRepair
<1>9. CASE Approve
  BY <1>9 DEF Approve, StillInspected
<1> QED BY <1>1, <1>2, <1>3, <1>4, <1>5, <1>6, <1>7, <1>8, <1>9 DEF WorkStep

\* In the workspace: what the caller will learn.
LEMMA WorkReport == ASSUME IInv, ReportInv, ~HandlerAudit, WorkStep PROVE ReportInv'
<1> USE RunAssumption, ConfigurationFacts
    DEF IInv, TypeOK, GateInv, OutcomeInv, ReportInv, RaisedInv, ResidueInv, RemoteInv, Told,
        Unapproved, Early, Guarded, Final, outcome, ledgers, residue, patch, evidence, report,
        Continue, Abort, Fail, Handled, Cleaning, CodeOf
<1>1. CASE Lease
  BY <1>1 DEF Lease
<1>2. CASE Clone
  BY <1>2 DEF Clone
<1>3. CASE Plan
  BY <1>3 DEF Plan, ContainerFails
<1>4. CASE Implement
  BY <1>4 DEF Implement, ContainerFails
<1>5. CASE Inspect
  BY <1>5 DEF Inspect
<1>6. CASE Verify
  BY <1>6 DEF Verify, ContainerFails
<1>7. CASE PostCheck
  BY <1>7 DEF PostCheck, StillInspected, MayRepair
<1>8. CASE Review
  BY <1>8 DEF Review, ContainerFails, MayRepair
<1>9. CASE Approve
  BY <1>9 DEF Approve, StillInspected
<1> QED BY <1>1, <1>2, <1>3, <1>4, <1>5, <1>6, <1>7, <1>8, <1>9 DEF WorkStep

\* On the way to GitHub: the types are kept.
LEMMA PublicationTypes == ASSUME TypeOK, ContentInv, EvidenceInv, PublicationStep PROVE TypeOK'
<1> USE RunAssumption, ConfigurationFacts
    DEF TypeOK, ContentInv, EvidenceInv, Places, Early, Guarded, Final, Stages, TerminalStages,
        FailureCodes, Contents, None, outcome, ledgers, residue, patch, evidence, report, Continue,
        Abort, Fail, Handled, Cleaning, CodeOf
<1>1. CASE Upstream
  BY <1>1 DEF Upstream
<1>2. CASE Slot
  BY <1>2 DEF Slot
<1>3. CASE Publish
  BY <1>3 DEF Publish
<1>4. CASE RemoteWrite
  BY <1>4 DEF RemoteWrite
<1>5. CASE Written
  <2>1. url' \in BOOLEAN
    BY <1>5, UrlWritten
  <2> QED BY <1>5, <2>1 DEF Written
<1>6. CASE Record
  BY <1>6 DEF Record
<1> QED BY <1>1, <1>2, <1>3, <1>4, <1>5, <1>6 DEF PublicationStep

\* On the way to GitHub: evidence, gates and outcome.
LEMMA PublicationInv == ASSUME IInv, PublicationStep PROVE (ContentInv /\ EvidenceInv /\ GateInv /\ OutcomeInv)'
<1> USE RunAssumption, ConfigurationFacts
    DEF IInv, TypeOK, ContentInv, EvidenceInv, GateInv, OutcomeInv, TelemetryNeverFlatters,
        Unapproved, Publishing, Early, Guarded, Final, Stages, TerminalStages, Contents, None,
        outcome, ledgers, residue, patch, evidence, report, Continue, Abort, Fail, Handled, Cleaning,
        CodeOf
<1>1. CASE Upstream
  BY <1>1 DEF Upstream
<1>2. CASE Slot
  BY <1>2 DEF Slot
<1>3. CASE Publish
  BY <1>3 DEF Publish
<1>4. CASE RemoteWrite
  BY <1>4 DEF RemoteWrite
<1>5. CASE Written
  BY <1>5 DEF Written
<1>6. CASE Record
  BY <1>6 DEF Record
<1> QED BY <1>1, <1>2, <1>3, <1>4, <1>5, <1>6 DEF PublicationStep

\* On the way to GitHub: what the caller will learn.
LEMMA PublicationReport == ASSUME IInv, ReportInv, ~HandlerAudit, PublicationStep PROVE ReportInv'
<1> USE RunAssumption, ConfigurationFacts
    DEF IInv, TypeOK, GateInv, OutcomeInv, ReportInv, RaisedInv, ResidueInv, RemoteInv, Told,
        Unapproved, Early, Guarded, Final, outcome, ledgers, residue, patch, evidence, report,
        Continue, Abort, Fail, Handled, Cleaning, CodeOf
<1>1. CASE Upstream
  BY <1>1 DEF Upstream
<1>2. CASE Slot
  BY <1>2 DEF Slot
<1>3. CASE Publish
  BY <1>3 DEF Publish
<1>4. CASE RemoteWrite
  BY <1>4 DEF RemoteWrite
<1>5. CASE Written
  BY <1>5 DEF Written
<1>6. CASE Record
  BY <1>6 DEF Record
<1> QED BY <1>1, <1>2, <1>3, <1>4, <1>5, <1>6 DEF PublicationStep

\* The finally clauses and what follows them: the types are kept.
LEMMA FinalTypes == ASSUME TypeOK, ContentInv, EvidenceInv, FinalStep PROVE TypeOK'
<1> USE RunAssumption, ConfigurationFacts
    DEF TypeOK, ContentInv, EvidenceInv, Places, Early, Guarded, Final, Stages, TerminalStages,
        FailureCodes, Contents, None, outcome, ledgers, residue, patch, evidence, report,
        MarkCleanupPending, RecordedStage, CodeOf
<1>1. CASE CleanContainers
  <2>1. containers' \in BOOLEAN /\ (containers' => containers)
    BY <1>1, ContainersCleaned
  <2>2. CASE pc' = "workspace"
    BY <1>1, <2>1, <2>2 DEF CleanContainers
  <2>3. CASE pc' = "settle"
    BY <1>1, <2>1, <2>3 DEF CleanContainers
  <2> QED BY <1>1, <2>2, <2>3 DEF CleanContainers
<1>2. CASE CleanWorkspace
  BY <1>2 DEF CleanWorkspace
<1>3. CASE Settle
  BY <1>3 DEF Settle
<1>4. CASE Handle
  BY <1>4 DEF Handle
<1>5. CASE FinishTelemetry
  BY <1>5 DEF FinishTelemetry
<1> QED BY <1>1, <1>2, <1>3, <1>4, <1>5 DEF FinalStep

\* The finally clauses and what follows them: evidence, gates and outcome.
LEMMA FinalInv == ASSUME IInv, FinalStep PROVE (ContentInv /\ EvidenceInv /\ GateInv /\ OutcomeInv)'
<1> USE RunAssumption, ConfigurationFacts
    DEF IInv, TypeOK, ContentInv, EvidenceInv, GateInv, OutcomeInv, TelemetryNeverFlatters,
        Unapproved, Publishing, Early, Guarded, Final, Stages, TerminalStages, Contents, None,
        outcome, ledgers, residue, patch, evidence, report, MarkCleanupPending, RecordedStage,
        CodeOf
<1>1. CASE CleanContainers
  <2>1. containers' \in BOOLEAN /\ (containers' => containers)
    BY <1>1, ContainersCleaned
  <2>2. CASE pc' = "workspace"
    BY <1>1, <2>1, <2>2 DEF CleanContainers
  <2>3. CASE pc' = "settle"
    BY <1>1, <2>1, <2>3 DEF CleanContainers
  <2> QED BY <1>1, <2>2, <2>3 DEF CleanContainers
<1>2. CASE CleanWorkspace
  BY <1>2 DEF CleanWorkspace
<1>3. CASE Settle
  BY <1>3 DEF Settle
<1>4. CASE Handle
  BY <1>4 DEF Handle
<1>5. CASE FinishTelemetry
  BY <1>5 DEF FinishTelemetry
<1> QED BY <1>1, <1>2, <1>3, <1>4, <1>5 DEF FinalStep

\* The finally clauses and what follows them: what the caller will learn.
LEMMA FinalReport == ASSUME IInv, ReportInv, ~HandlerAudit, FinalStep PROVE ReportInv'
<1> USE RunAssumption, ConfigurationFacts
    DEF IInv, TypeOK, GateInv, OutcomeInv, ReportInv, RaisedInv, ResidueInv, RemoteInv, Told,
        Unapproved, Early, Guarded, Final, outcome, ledgers, residue, patch, evidence, report,
        MarkCleanupPending, RecordedStage, CodeOf
<1>1. CASE CleanContainers
  <2>1. containers' \in BOOLEAN /\ (containers' => containers)
    BY <1>1, ContainersCleaned
  <2>2. CASE pc' = "workspace"
    BY <1>1, <2>1, <2>2 DEF CleanContainers
  <2>3. CASE pc' = "settle"
    BY <1>1, <2>1, <2>3 DEF CleanContainers
  <2> QED BY <1>1, <2>2, <2>3 DEF CleanContainers
<1>2. CASE CleanWorkspace
  BY <1>2 DEF CleanWorkspace
<1>3. CASE Settle
  BY <1>3 DEF Settle
<1>4. CASE Handle
  BY <1>4 DEF Handle
<1>5. CASE FinishTelemetry
  BY <1>5 DEF FinishTelemetry
<1> QED BY <1>1, <1>2, <1>3, <1>4, <1>5 DEF FinalStep

\* The environment: the types are kept.
LEMMA EnvironmentTypes == ASSUME TypeOK, ContentInv, EvidenceInv, EnvironmentStep PROVE TypeOK'
<1> USE RunAssumption, ConfigurationFacts
    DEF TypeOK, ContentInv, EvidenceInv, Places, Early, Guarded, Final, Stages, TerminalStages,
        FailureCodes, Contents, None, outcome, ledgers, residue, patch, evidence, report, Cleaning
<1>1. CASE Interrupt
  BY <1>1 DEF Interrupt
<1>2. CASE Crash
  BY <1>2 DEF Crash
<1>3. CASE Disturb
  BY <1>3 DEF Disturb
<1> QED BY <1>1, <1>2, <1>3 DEF EnvironmentStep

\* The environment: evidence, gates and outcome.
LEMMA EnvironmentInv == ASSUME IInv, EnvironmentStep PROVE (ContentInv /\ EvidenceInv /\ GateInv /\ OutcomeInv)'
<1> USE RunAssumption, ConfigurationFacts
    DEF IInv, TypeOK, ContentInv, EvidenceInv, GateInv, OutcomeInv, TelemetryNeverFlatters,
        Unapproved, Publishing, Early, Guarded, Final, Stages, TerminalStages, Contents, None,
        outcome, ledgers, residue, patch, evidence, report, Cleaning
<1>1. CASE Interrupt
  BY <1>1 DEF Interrupt
<1>2. CASE Crash
  BY <1>2 DEF Crash
<1>3. CASE Disturb
  BY <1>3 DEF Disturb
<1> QED BY <1>1, <1>2, <1>3 DEF EnvironmentStep

\* The environment: what the caller will learn.
LEMMA EnvironmentReport == ASSUME IInv, ReportInv, ~HandlerAudit, EnvironmentStep PROVE ReportInv'
<1> USE RunAssumption, ConfigurationFacts
    DEF IInv, TypeOK, GateInv, OutcomeInv, ReportInv, RaisedInv, ResidueInv, RemoteInv, Told,
        Unapproved, Early, Guarded, Final, outcome, ledgers, residue, patch, evidence, report,
        Cleaning
<1>1. CASE Interrupt
  BY <1>1 DEF Interrupt
<1>2. CASE Crash
  BY <1>2 DEF Crash
<1>3. CASE Disturb
  BY <1>3 DEF Disturb
<1> QED BY <1>1, <1>2, <1>3 DEF EnvironmentStep

\* Every step, and every stutter.
LEMMA StepInv == IInv /\ [Next]_vars => IInv'
<1> SUFFICES ASSUME IInv, [Next]_vars PROVE IInv'
  OBVIOUS
<1>1. CASE UNCHANGED vars
  BY <1>1 DEF vars, outcome, ledgers, residue, patch, evidence, report, IInv, TypeOK,
     ContentInv, EvidenceInv, GateInv, OutcomeInv, TelemetryNeverFlatters, Contents, None
<1> QED
  BY <1>1, EarlyTypes, EarlyInv, WorkTypes, WorkInv, PublicationTypes, PublicationInv,
     FinalTypes, FinalInv, EnvironmentTypes, EnvironmentInv
     DEF IInv, Next, Step, EarlyStep, WorkStep, PublicationStep, FinalStep, EnvironmentStep

LEMMA StepReport == IInv /\ ReportInv /\ ~HandlerAudit /\ [Next]_vars => ReportInv'
<1> SUFFICES ASSUME IInv, ReportInv, ~HandlerAudit, [Next]_vars PROVE ReportInv'
  OBVIOUS
<1>1. CASE UNCHANGED vars
  BY <1>1 DEF vars, outcome, ledgers, residue, patch, evidence, report,
     ReportInv, RaisedInv, ResidueInv, RemoteInv, Told
<1> QED
  BY <1>1, EarlyReport, WorkReport, PublicationReport, FinalReport, EnvironmentReport
     DEF Next, Step, EarlyStep, WorkStep, PublicationStep, FinalStep, EnvironmentStep

-------------------------------------------------------------------------------
\* The theorems.

\* The invariant, whatever the journal does.
THEOREM RunInvariant == Spec => []IInv
BY InitInv, StepInv, PTL DEF Spec

\* Type correctness, for every set of configurations and every bound.
THEOREM RunTypes == Spec => []TypeOK
<1>1. IInv => TypeOK
  BY DEF IInv
<1> QED BY <1>1, RunInvariant, PTL

\* What reaches GitHub is what was inspected, tested and reviewed.
THEOREM PublishedIsVerified == Spec => []PublishedWasVerified
<1>1. IInv => PublishedWasVerified
  BY DEF IInv, EvidenceInv, PublishedWasVerified
<1> QED BY <1>1, RunInvariant, PTL

\* The dashboard is never told better than it was.
THEOREM TelemetryIsHonest == Spec => []TelemetryNeverFlatters
<1>1. IInv => TelemetryNeverFlatters
  BY DEF IInv, OutcomeInv
<1> QED BY <1>1, RunInvariant, PTL

\* Every remote write is in the outcome that the caller gets, as long as the
\* journal does not fail while a failure is being recorded.
THEOREM RemoteWritesAreReported == ~HandlerAudit => (Spec => []RemoteWriteReported)
<1> SUFFICES ASSUME ~HandlerAudit PROVE Spec => []RemoteWriteReported
  OBVIOUS
<1>1. IInv /\ ReportInv /\ [Next]_vars => ReportInv'
  BY StepReport
<1>2. ReportInv => RemoteWriteReported
  BY DEF ReportInv, RaisedInv, RemoteInv, Told, RemoteWriteReported
<1> QED BY <1>1, <1>2, InitInv, RunInvariant, PTL DEF Spec

\* ... and so is every container and workspace that may be left behind.
THEOREM ResidueIsReported == ~HandlerAudit => (Spec => []ResidueReported)
<1> SUFFICES ASSUME ~HandlerAudit PROVE Spec => []ResidueReported
  OBVIOUS
<1>1. IInv /\ ReportInv /\ [Next]_vars => ReportInv'
  BY StepReport
<1>2. ReportInv => ResidueReported
  BY DEF ReportInv, RaisedInv, ResidueInv, ResidueReported
<1> QED BY <1>1, <1>2, InitInv, RunInvariant, PTL DEF Spec

-------------------------------------------------------------------------------
\* The refinement.

\* What a step does to the gates and to GitHub.
GatesStay ==
  /\ row' # "none" <=> row # "none"
  /\ approval' # None <=> approval # None
  /\ slot' # "none" <=> slot # "none"

LEMMA GateStep ==
  ASSUME IInv, [Next]_vars
  PROVE  \/ GatesStay /\ remote' = remote
         \/ /\ GatesStay /\ slot # "none"
            /\ \/ remote = "none" /\ remote' = "branch"
               \/ remote = "branch" /\ remote' = "open"
         \/ /\ row = "none" /\ row' # "none" /\ UNCHANGED <<approval, slot, remote>>
         \/ /\ approval = None /\ approval' # None /\ row # "none"
            /\ UNCHANGED <<row, slot, remote>>
         \/ /\ slot = "none" /\ slot' # "none" /\ approval # None
            /\ UNCHANGED <<row, approval, remote>>
<1> USE DEF outcome, ledgers, residue, patch, evidence, report, GatesStay
<1>1. CASE UNCHANGED vars
  BY <1>1 DEF vars
<1>2. CASE UNCHANGED <<row, approval, slot, remote>>
  BY <1>2
<1>3. CASE Reserve
  BY <1>3 DEF Reserve
<1>4. CASE Approve
  <2>1. approval = None /\ row # "none"
    BY <1>4 DEF Approve, IInv, EvidenceInv, Unapproved, GateInv, Guarded
  <2>2. content # None
    BY RunAssumption DEF IInv, TypeOK, Contents, None
  <2>3. approval' = approval \/ approval' = content
    BY <1>4 DEF Approve
  <2>4. UNCHANGED <<row, slot, remote, None>>
    BY <1>4 DEF Approve, None
  <2> QED BY <2>1, <2>2, <2>3, <2>4
<1>5. CASE Slot
  BY <1>5 DEF Slot, IInv, GateInv, Publishing
<1>6. CASE RemoteWrite
  BY <1>6 DEF RemoteWrite, IInv, GateInv
<1>7. CASE Record
  BY <1>7 DEF Record, IInv, GateInv
<1>8. CASE Settle
  BY <1>8 DEF Settle, IInv, TypeOK, GateInv, Stages, TerminalStages
<1>9. ASSUME Start \/ Authorize \/ Budget \/ Admission \/ Discover \/ Select \/ Prepare \/ Deadline
             \/ Lease \/ Clone \/ Plan \/ Implement \/ Inspect
      PROVE  UNCHANGED <<row, approval, slot, remote>>
  BY <1>9 DEF Start, Authorize, Budget, Admission, Discover, Select, Prepare, Deadline, Lease,
     Clone, Plan, Implement, Inspect
<1>10. ASSUME Verify \/ PostCheck \/ Review \/ Upstream \/ Publish \/ Written \/ CleanContainers
              \/ CleanWorkspace \/ Handle \/ FinishTelemetry \/ Interrupt \/ Crash \/ Disturb
       PROVE  UNCHANGED <<row, approval, slot, remote>>
  BY <1>10 DEF Verify, PostCheck, Review, Upstream, Publish, Written, CleanContainers,
     CleanWorkspace, Handle, FinishTelemetry, Interrupt, Crash, Disturb
<1> QED
  BY <1>1, <1>2, <1>3, <1>4, <1>5, <1>6, <1>7, <1>8, <1>9, <1>10 DEF Next, Step

\* A run implements the gated write: every step passes the next gate, writes
\* behind all three, or is a stutter.
THEOREM RunImplementsGatedWrite == Spec => ImplementsGatedWrite
<1> DEFINE bar == {g \in {"budget", "patch", "slot"} :
                     CASE g = "budget" -> row # "none"
                       [] g = "patch"  -> approval # None
                       [] g = "slot"   -> slot # "none"}
<1>1. ASSUME Init PROVE Gated!Init
  BY <1>1 DEF Init, Gated!Init
<1>2. ASSUME IInv, [Next]_vars PROVE [Gated!Next]_<<bar, remote>>
  <2>1. CASE GatesStay /\ remote' = remote
    BY <2>1 DEF GatesStay
  <2>2. CASE /\ GatesStay /\ slot # "none"
             /\ \/ remote = "none" /\ remote' = "branch"
                \/ remote = "branch" /\ remote' = "open"
    <3>1. bar = Gated!Gates /\ bar' = bar
      BY <1>2, <2>2 DEF IInv, GateInv, GatesStay, Gated!Gates
    <3> QED BY <2>2, <3>1 DEF Gated!Next, Gated!Write
  <2>3. CASE row = "none" /\ row' # "none" /\ UNCHANGED <<approval, slot, remote>>
    <3>1. "budget" \notin bar /\ bar' = bar \cup {"budget"}
      BY <2>3
    <3> QED BY <2>3, <3>1 DEF Gated!Next, Gated!Pass, Gated!Before, Gated!Gates
  <2>4. CASE approval = None /\ approval' # None /\ row # "none" /\ UNCHANGED <<row, slot, remote>>
    <3>1. "patch" \notin bar /\ "budget" \in bar /\ bar' = bar \cup {"patch"}
      BY <2>4
    <3> QED BY <2>4, <3>1 DEF Gated!Next, Gated!Pass, Gated!Before, Gated!Gates
  <2>5. CASE slot = "none" /\ slot' # "none" /\ approval # None /\ UNCHANGED <<row, approval, remote>>
    <3>1. "slot" \notin bar /\ {"budget", "patch"} \subseteq bar /\ bar' = bar \cup {"slot"}
      BY <1>2, <2>5 DEF IInv, GateInv
    <3> QED BY <2>5, <3>1 DEF Gated!Next, Gated!Pass, Gated!Before, Gated!Gates
  <2> QED BY <1>2, <2>1, <2>2, <2>3, <2>4, <2>5, GateStep
<1> QED BY <1>1, <1>2, RunInvariant, PTL DEF Spec, ImplementsGatedWrite, Gated!Spec
===============================================================================
