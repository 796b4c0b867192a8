----------------------------- MODULE WorkspaceProofs ----------------------------
(***************************************************************************)
(* A run's workspace: when it may be deleted, and what may be published    *)
(* from it.  Two components, each with an inductive invariant of its own,  *)
(* for every set of runs and of files, every period and every limit.       *)
(*                                                                         *)
(* Disposal.  The cleanup command reads three things one after the other,  *)
(* so what protects a run depends on when it began: a run that is live     *)
(* when the rows are read is among them, and one that begins later is too  *)
(* young for the cutoff.                                                   *)
(*                                                                         *)
(* PatchInspection.  An inspection's parts may contradict each other when  *)
(* the work tree changes under it.  The one that counts is the committed   *)
(* diff, of two trees that nobody changes, and it has to be equal in every *)
(* part to the diff that passed the gate.                                  *)
(***************************************************************************)
EXTENDS Disposal, PatchInspection, FiniteSetTheorems, TLAPS

-------------------------------------------------------------------------------
\* Disposal.

\* A live run's row is there and young enough for active_run_ids(), and its
\* workspace, which no run has before it leases one, is no older than the row.
LiveInv ==
  \A r \in Runs :
    /\ phase[r] = "idle" => row[r] = "none" /\ age[r] = 0
    /\ phase[r] \in {"idle", "reserved"} => workspace[r] = "none" /\ wsAge[r] = 0
    /\ phase[r] \in Live => row[r] = "reserved" /\ age[r] <= MaxWork /\ wsAge[r] <= age[r]

\* The lease of a running command's container outlasts the command.
LeaseInv ==
  \A r \in Runs :
    phase[r] = "running" => container[r] <= ContainerLease /\ command[r] < container[r]

\* What the cleanup command has read so far does not hand it a live run, nor one
\* that is yet to begin.
CleanupReadInv ==
  /\ janitor # "idle" => older \in ReapAges
  /\ janitor = "cutoff" =>
       \A r \in Runs : phase[r] \in Live => r \in protected \/ age[r] <= asking
  /\ janitor = "sweep" =>
       \A r \in Runs : phase[r] \in Live \cup {"idle"} => r \in protected \/ r \notin expired

\* A container of a run that the cleanup command did not see has been started
\* since it asked, when the run's workspace was no older than the longest run.
\* What is young enough then is too young for the cutoff.
MountInv ==
  /\ \A r \in Runs :
       phase[r] \in {"idle", "reserved", "working", "disposing"} => container[r] = NoContainer
  /\ janitor \in {"rows", "cutoff"} =>
       \A r \in Runs : \/ container[r] = NoContainer \/ r \in protected
                       \/ wsAge[r] <= MaxWork + asking
  /\ janitor = "sweep" =>
       \A r \in Runs : \/ container[r] = NoContainer \/ r \in protected
                       \/ r \notin expired \/ older < MaxWork + CleanupTime

WorkInv == TypeOK /\ LiveInv /\ LeaseInv /\ CleanupReadInv /\ LiveWorkKept /\ MountInv

LEMMA WorkInit == Init => WorkInv
<1> SUFFICES ASSUME Init PROVE WorkInv
  OBVIOUS
<1>1. MaxReapAge \in 1..MaxReapAge
  <2>1. PICK a \in ReapAges : a \in 1..MaxReapAge
    BY DisposalAssumption
  <2> QED BY <2>1, DisposalAssumption
<1>2. TypeOK
  BY <1>1, DisposalAssumption DEF Init, TypeOK, Live, NoContainer
<1>3. LiveInv /\ LeaseInv /\ CleanupReadInv /\ LiveWorkKept /\ MountInv
  BY DEF Init, LiveInv, LeaseInv, CleanupReadInv, LiveWorkKept, MountInv, Live
<1> QED BY <1>2, <1>3 DEF WorkInv

LEMMA TickInv == WorkInv /\ Tick => WorkInv'
<1> SUFFICES ASSUME WorkInv, Tick PROVE WorkInv'
  OBVIOUS
<1> USE DisposalAssumption, PeriodsAreOrdered
<1>1. TypeOK'
  <2>1. age' \in [Runs -> 0..(Horizon + 1)] /\ wsAge' \in [Runs -> 0..(MaxReapAge + 1)]
    BY DEF WorkInv, TypeOK, Tick, Older
  <2>2. container' \in [Runs -> 0..NoContainer]
    BY DEF WorkInv, TypeOK, Tick, NoContainer
  <2>3. command' \in [Runs -> 0..CommandTimeout]
    <3> SUFFICES ASSUME NEW r \in Runs PROVE command'[r] \in 0..CommandTimeout
      BY DEF Tick
    <3> QED BY DEF WorkInv, TypeOK, Tick
  <2>4. asking' \in 0..CleanupTime
    BY DEF WorkInv, TypeOK, Tick, Asking
  <2> QED BY <2>1, <2>2, <2>3, <2>4 DEF WorkInv, TypeOK, Tick
<1>2. LiveInv'
  <2> SUFFICES ASSUME NEW r \in Runs
               PROVE  /\ phase'[r] = "idle" => row'[r] = "none" /\ age'[r] = 0
                      /\ phase'[r] \in {"idle", "reserved"} =>
                           workspace'[r] = "none" /\ wsAge'[r] = 0
                      /\ phase'[r] \in Live =>
                           row'[r] = "reserved" /\ age'[r] <= MaxWork /\ wsAge'[r] <= age'[r]
    BY DEF LiveInv
  <2>1. age[r] \in Nat /\ wsAge[r] \in Nat
    BY DEF WorkInv, TypeOK
  <2>2. phase'[r] = phase[r] /\ row'[r] = row[r] /\ workspace'[r] = workspace[r]
    BY DEF Tick
  <2>3. CASE phase[r] = "idle"
    <3>1. age'[r] = 0 /\ wsAge'[r] = 0
      BY <2>3 DEF WorkInv, LiveInv, Tick
    <3> QED BY <2>2, <2>3, <3>1 DEF WorkInv, LiveInv, Live
  <2>4. CASE phase[r] \in Live
    <3>1. age'[r] = age[r] + 1
      BY <2>1, <2>4 DEF WorkInv, LiveInv, Tick, Older
    <3>2. wsAge'[r] \in {wsAge[r], wsAge[r] + 1}
      BY DEF Tick, Older
    <3>3. phase[r] = "reserved" => wsAge'[r] = 0
      BY DEF WorkInv, LiveInv, Tick
    <3> QED BY <2>1, <2>2, <2>4, <3>1, <3>2, <3>3 DEF WorkInv, LiveInv, Tick, Live
  <2> QED BY <2>2, <2>3, <2>4 DEF Live
<1>3. LeaseInv'
  BY DEF WorkInv, TypeOK, LeaseInv, Tick, Live
<1>4. CleanupReadInv'
  BY DEF WorkInv, TypeOK, LiveInv, CleanupReadInv, Tick, Older, Asking, Live
<1>5. LiveWorkKept'
  BY <1>3 DEF WorkInv, TypeOK, LiveWorkKept, LeaseInv, Tick, NoContainer
<1>6. MountInv'
  <2>1. ASSUME NEW r \in Runs, container[r] = NoContainer PROVE container'[r] = NoContainer
    BY <2>1 DEF Tick, NoContainer
  <2>2. ASSUME NEW r \in Runs PROVE wsAge'[r] \in {wsAge[r], wsAge[r] + 1}
    BY DEF Tick, Older
  <2>3. UNCHANGED <<phase, janitor, older, protected, expired>>
    BY DEF Tick
  <2>4. ASSUME janitor \in {"rows", "cutoff"}, NEW r \in Runs, container[r] # NoContainer,
               r \notin protected
        PROVE  wsAge'[r] <= MaxWork + asking'
    <3>1. wsAge[r] <= MaxWork + asking /\ asking' = asking + 1
      BY <2>4 DEF WorkInv, MountInv, Tick, Asking
    <3> QED BY <2>2, <3>1 DEF WorkInv, TypeOK, Tick
  <2> QED BY <2>1, <2>3, <2>4 DEF WorkInv, MountInv
<1> QED BY <1>1, <1>2, <1>3, <1>4, <1>5, <1>6 DEF WorkInv

\* A controller's own steps, and its crash.
ControllerActs(r) ==
  Reserve(r) \/ ControllerStep(r) \/ StartContainer(r) \/ Crash(r) \/ ContainerExits(r)

LEMMA ControllerInv == ASSUME NEW r \in Runs, WorkInv, ControllerActs(r) PROVE WorkInv'
<1> USE DisposalAssumption, PeriodsAreOrdered DEF WorkInv, TypeOK, LiveInv, LeaseInv, CleanupReadInv,
        LiveWorkKept, MountInv, Live, Enter, Drop, NoContainer, controllers, reaper
<1>1. CASE Reserve(r)
  BY <1>1 DEF Reserve
<1>2. CASE Lease(r)
  BY <1>2 DEF Lease
<1>3. CASE StartContainer(r)
  BY <1>3 DEF StartContainer
<1>4. CASE EndContainer(r)
  BY <1>4 DEF EndContainer
<1>5. CASE EndWork(r)
  BY <1>5 DEF EndWork
<1>6. CASE CleanContainers(r)
  BY <1>6 DEF CleanContainers
<1>7. CASE CleanWorkspace(r)
  BY <1>7 DEF CleanWorkspace, Removal
<1>8. CASE Settle(r)
  BY <1>8 DEF Settle
<1>9. CASE Crash(r)
  BY <1>9 DEF Crash
<1>10. CASE ContainerExits(r)
  BY <1>10 DEF ContainerExits
<1> QED
  BY <1>1, <1>2, <1>3, <1>4, <1>5, <1>6, <1>7, <1>8, <1>9, <1>10
     DEF ControllerActs, ControllerStep

\* A step of the cleanup command.
CleanupActs ==
  CleanupStep \/ ReapFails \/ StopCleanup \/ \E r \in Runs : ReapWorkspace(r)

LEMMA CleanupInv == WorkInv /\ CleanupActs => WorkInv'
<1> SUFFICES ASSUME WorkInv, CleanupActs PROVE WorkInv'
  OBVIOUS
<1> USE DisposalAssumption, PeriodsAreOrdered DEF WorkInv, TypeOK, LiveInv, LeaseInv, CleanupReadInv,
        LiveWorkKept, MountInv, Live, NoContainer, controllers
<1>1. CASE StartCleanup
  BY <1>1 DEF StartCleanup
<1>2. CASE ReapContainers
  BY <1>2 DEF ReapContainers, Expired
<1>3. CASE ReapFails
  BY <1>3 DEF ReapFails, Expired
<1>4. CASE ReadJobs
  BY <1>4 DEF ReadJobs
<1>5. CASE ReadRows
  BY <1>5 DEF ReadRows, ActiveRunIds
<1>6. CASE SetCutoff
  BY <1>6 DEF SetCutoff
<1>7. ASSUME NEW r \in Runs, ReapWorkspace(r) PROVE WorkInv'
  BY <1>7 DEF ReapWorkspace, Reapable, Gone, reaper
<1>8. CASE EndSweep
  BY <1>8 DEF EndSweep
<1>9. CASE StopCleanup
  BY <1>9 DEF StopCleanup, Reapable
<1> QED
  BY <1>1, <1>2, <1>3, <1>4, <1>5, <1>6, <1>7, <1>8, <1>9 DEF CleanupActs, CleanupStep

LEMMA WorkStep == WorkInv /\ [Next]_vars => WorkInv'
<1> SUFFICES ASSUME WorkInv, [Next]_vars PROVE WorkInv'
  OBVIOUS
<1>1. CASE UNCHANGED vars
  BY <1>1 DEF vars, controllers, reaper, WorkInv, TypeOK, LiveInv, LeaseInv, CleanupReadInv, LiveWorkKept,
     MountInv
<1> QED
  BY <1>1, TickInv, ControllerInv, CleanupInv DEF Next, ControllerActs, CleanupActs

\* The cleanup command, in whatever step it is, leaves the workspace and the
\* container of every controller at work alone.
THEOREM LiveWorkIsKept == Spec => []LiveWorkKept
<1>1. WorkInv => LiveWorkKept
  BY DEF WorkInv
<1> QED BY <1>1, WorkInit, WorkStep, PTL DEF Spec

\* No workspace goes while a container may still have it mounted: its own
\* controller has the removal proven first, and a cleanup command that is told an
\* age beyond the longest run and its own questions finds none that is both old
\* enough and unseen.
THEOREM MountsAreOutlived == Spec => MountsOutlived
<1> DEFINE Outlived ==
      \A r \in Runs :
        /\ workspace[r] # Gone /\ workspace'[r] = Gone
        /\ phase'[r] # phase[r] \/ older >= MaxWork + CleanupTime
        => container[r] = NoContainer
<1>1. WorkInv /\ [Next]_vars => [Outlived]_vars
  <2> SUFFICES ASSUME WorkInv, Next, NEW r \in Runs,
                      workspace[r] # Gone, workspace'[r] = Gone,
                      phase'[r] # phase[r] \/ older >= MaxWork + CleanupTime
               PROVE  container[r] = NoContainer
    OBVIOUS
  <2>1. CASE Tick \/ CleanupStep \/ ReapFails \/ StopCleanup
    BY <2>1 DEF Tick, CleanupStep, StartCleanup, ReapContainers, ReadJobs, ReadRows,
       SetCutoff, EndSweep, ReapFails, StopCleanup, Gone, WorkInv, TypeOK
  <2>2. ASSUME NEW s \in Runs, Reserve(s) \/ ControllerStep(s) \/ StartContainer(s) \/ Crash(s)
                               \/ ContainerExits(s)
        PROVE  container[r] = NoContainer
    <3>1. s = r /\ CleanWorkspace(r)
      BY <2>2 DEF Reserve, ControllerStep, Lease, EndContainer, EndWork, CleanContainers,
         CleanWorkspace, Settle, StartContainer, Crash, ContainerExits, Removal, Gone,
         WorkInv, TypeOK
    <3> QED BY <3>1 DEF CleanWorkspace, WorkInv, MountInv
  <2>3. ASSUME NEW s \in Runs, ReapWorkspace(s) PROVE container[r] = NoContainer
    <3>1. s = r /\ UNCHANGED phase
      BY <2>3 DEF ReapWorkspace, WorkInv, TypeOK, controllers
    <3>2. older >= MaxWork + CleanupTime
      BY <3>1
    <3>3. \/ container[r] = NoContainer \/ r \in protected
          \/ r \notin expired \/ older < MaxWork + CleanupTime
      BY <2>3 DEF ReapWorkspace, WorkInv, MountInv
    <3> QED
      BY <2>3, <3>1, <3>2, <3>3, DisposalAssumption
         DEF ReapWorkspace, Reapable, WorkInv, TypeOK
  <2> QED BY <2>1, <2>2, <2>3 DEF Next
<1> QED BY <1>1, WorkInit, WorkStep, PTL DEF Spec, MountsOutlived

\* Type correctness, for every set of runs and every period.
THEOREM DisposalTypes == Spec => []TypeOK
<1>1. WorkInv => TypeOK
  BY DEF WorkInv
<1> QED BY <1>1, WorkInit, WorkStep, PTL DEF Spec

-------------------------------------------------------------------------------
\* PatchInspection: what is pushed is what was reviewed.

\* What an inspection puts together always has all its parts.
SeenInv ==
  seen = [files |-> seen.files, lines |-> seen.lines, patch |-> seen.patch,
          truncated |-> seen.truncated, failures |-> seen.failures]

\* A patch that the gate's inspection did not cut is as small as it should be.
SmallUnlessTruncated == seen.truncated \/ ~TooLarge(seen.patch, MaxPatchBytes)

ReadInv ==
  pc = "gate" =>
    /\ step = "modes" => SmallUnlessTruncated
    /\ step = "found" => seen.failures # {} \/ SmallUnlessTruncated

\* From the gate on there is a diff that passed it, and from the review on the
\* reviewer was shown its patch.
Reviewing == {"review", "final", "validate", "publish", "add", "clean", "approved", "recheck", "pushed"}

DiffInv ==
  /\ pc \in Reviewing \cup {"postcheck"} =>
       Passes(diff) /\ ~TooLarge(diff.patch, MaxPatchBytes)
  /\ pc \in Reviewing => reviewed = diff.patch

\* From the commit on, HEAD differs from the base by exactly that diff.
CommitInv ==
  pc \in {"clean", "approved", "recheck", "pushed"} =>
    Committed(head, Size(diff.patch)) = diff

InspectedInv == SeenInv /\ ReadInv /\ DiffInv /\ CommitInv

-------------------------------------------------------------------------------
\* A committed diff that was not cut has the whole patch.
LEMMA UncutIsWhole ==
  ASSUME NEW tree, NEW maximum, ~Committed(tree, maximum).truncated
  PROVE  Committed(tree, maximum).patch = Patch(Base, tree, Changed(Base, tree, Paths))
BY DEF Committed, Kept

\* The gate's checks on a committed diff are the rules on the two trees.
LEMMA PassingIsAcceptable ==
  ASSUME NEW tree, NEW maximum,
         Passes(Committed(tree, maximum)),
         ~TooLarge(Committed(tree, maximum).patch, MaxPatchBytes)
  PROVE  Acceptable(Base, tree)
<1> DEFINE changed == {p \in Paths : Base[p] # tree[p]}
           found == Committed(tree, maximum)
<1>1. changed = Changed(Base, tree, Paths)
  BY DEF Changed
<1>2. /\ found.files = changed
      /\ found.lines = ChangedLines(Base, tree, changed)
      /\ found.failures = ModeFailures(Base, tree, changed)
      /\ found.patch = Patch(Base, tree, changed)
  <2>1. ~found.truncated
    BY DEF Passes
  <2> QED BY <2>1, <1>1, UncutIsWhole DEF Committed
<1> HIDE DEF found
<1>3. Passes(found) /\ ~TooLarge(found.patch, MaxPatchBytes)
  BY DEF found
<1>4. changed # {} /\ changed \cap ForbiddenPaths = {}
  BY <1>2, <1>3 DEF Passes
<1>5. \A limit \in {PolicyMaxFiles, RepositoryMaxFiles} \ {0} : Cardinality(changed) <= limit
  BY <1>2, <1>3 DEF Passes, Within
<1>6. \A limit \in {PolicyMaxLines, RepositoryMaxLines} \ {0} :
        ChangedLines(Base, tree, changed) <= limit
  BY <1>2, <1>3 DEF Passes, Within
<1>7. \A p \in changed : tree[p].mode \in {"none", "100644"}
  <2> SUFFICES ASSUME NEW p \in changed PROVE tree[p].mode \in {"none", "100644"}
    OBVIOUS
  <2>1. ~ModeFails(Base[p].mode, tree[p].mode)
    BY <1>2, <1>3 DEF Passes, ModeFailures
  <2>2. Base[p].mode \in {"none", "100644"}
    BY PatchAssumption
  <2> QED BY <2>1, <2>2 DEF ModeFails
<1>8. \A p \in changed : \A mark \in {"invalid", "binary", "secret"} :
        Base[p].text # mark /\ tree[p].text # mark
  <2> SUFFICES ASSUME NEW p \in changed, NEW mark \in {"invalid", "binary", "secret"}
               PROVE  Base[p].text # mark /\ tree[p].text # mark
    OBVIOUS
  <2>1. ~Tells(found.patch, mark)
    BY <1>3 DEF Passes
  <2>2. [path |-> p, old |-> Base[p], new |-> tree[p]] \in found.patch
    BY <1>2 DEF Patch
  <2> QED BY <2>1, <2>2 DEF Tells
<1>9. ~TooLarge(Patch(Base, tree, changed), MaxPatchBytes)
  BY <1>2, <1>3
<1> QED
  BY <1>4, <1>5, <1>6, <1>7, <1>8, <1>9 DEF Acceptable

-------------------------------------------------------------------------------
LEMMA InspectedInit == InspectionInit => InspectedInv
BY DEF InspectionInit, InspectedInv, SeenInv, ReadInv, DiffInv, CommitInv, Reviewing, Nothing

LEMMA InspectedStep == InspectedInv /\ [InspectionNext]_inspectionVars => InspectedInv'
<1> SUFFICES ASSUME InspectedInv, [InspectionNext]_inspectionVars PROVE InspectedInv'
  OBVIOUS
<1> USE DEF InspectedInv, Reviewing
<1>1. CASE UNCHANGED inspectionVars
  BY <1>1 DEF inspectionVars, outside, git, verdicts, SeenInv, ReadInv, DiffInv, CommitInv,
     SmallUnlessTruncated
\* An inspection's reads disturb only what was seen, and the index.
<1>2. CASE Inspection
  <2>1. UNCHANGED <<head, diff, reviewed>> /\ (pc' = pc \/ pc' = "refused")
    BY <1>2 DEF Inspection, ListUntracked, Intend, ReadNames, ReadNumstat, ReadPatch,
       ReadModes, Reads, Goto, outside, git, verdicts
  <2>2. DiffInv' /\ CommitInv'
    BY <2>1 DEF DiffInv, CommitInv
  <2>3. CASE ListUntracked
    BY <2>2, <2>3 DEF ListUntracked, SeenInv, ReadInv, SmallUnlessTruncated, Refused, Nothing
  <2>4. CASE Intend
    BY <2>2, <2>4 DEF Intend, Reads, Goto, SeenInv, ReadInv, SmallUnlessTruncated, Nothing
  <2>5. CASE ReadNames
    BY <2>2, <2>5 DEF ReadNames, Reads, SeenInv, ReadInv, SmallUnlessTruncated, Refused, Nothing
  <2>6. CASE ReadNumstat
    BY <2>2, <2>6 DEF ReadNumstat, Reads, SeenInv, ReadInv, SmallUnlessTruncated
  <2>7. CASE ReadPatch
    BY <2>2, <2>7 DEF ReadPatch, Reads, SeenInv, ReadInv, SmallUnlessTruncated, Kept, Maximum
  <2>8. CASE ReadModes
    BY <2>2, <2>8 DEF ReadModes, Reads, SeenInv, ReadInv, SmallUnlessTruncated
  <2> QED BY <1>2, <2>3, <2>4, <2>5, <2>6, <2>7, <2>8 DEF Inspection
\* What follows on an inspection starts the next one from nothing.
<1>3. ASSUME NEW p, Goto(p) PROVE SeenInv' /\ ReadInv'
  BY <1>3 DEF Goto, SeenInv, ReadInv, Nothing
<1>4. CASE Gate
  <2>1. SeenInv' /\ ReadInv'
    BY <1>3, <1>4 DEF Gate
  <2>2. CASE Passes(seen)
    BY <1>4, <2>1, <2>2 DEF Gate, Found, Goto, ReadInv, SmallUnlessTruncated, Passes,
       DiffInv, CommitInv
  <2>3. CASE ~Passes(seen)
    BY <1>4, <2>1, <2>3 DEF Gate, Goto, DiffInv, CommitInv
  <2> QED BY <2>2, <2>3
<1>5. CASE PostCheck
  BY <1>3, <1>5 DEF PostCheck, Repair, Goto, DiffInv, CommitInv
<1>6. CASE Review
  BY <1>3, <1>6 DEF Review, Repair, Goto, verdicts, DiffInv, CommitInv
<1>7. CASE FinalCheck
  BY <1>3, <1>7 DEF FinalCheck, Found, Goto, DiffInv, CommitInv
<1>8. CASE Validate
  BY <1>3, <1>8 DEF Validate, Found, Goto, verdicts, DiffInv, CommitInv
<1>9. CASE Publish
  BY <1>3, <1>9 DEF Publish, Goto, verdicts, DiffInv, CommitInv
<1>10. ASSUME NEW p \in Paths, AddFile(p) PROVE InspectedInv'
  BY <1>10 DEF AddFile, verdicts, SeenInv, ReadInv, SmallUnlessTruncated, DiffInv, CommitInv
\* The commit becomes HEAD whatever it holds, and goes on only as the diff.
<1>11. CASE Commit
  BY <1>3, <1>11 DEF Commit, Goto, verdicts, DiffInv, CommitInv
<1>12. CASE Clean
  BY <1>3, <1>12 DEF Clean, Found, git, Goto, verdicts, DiffInv, CommitInv
<1>13. CASE RecheckCommit
  BY <1>3, <1>13 DEF RecheckCommit, git, Goto, verdicts, DiffInv, CommitInv
<1>14. CASE RecheckClean
  BY <1>3, <1>14 DEF RecheckClean, Found, git, Goto, verdicts, DiffInv, CommitInv
<1>15. CASE Disturb
  BY <1>15 DEF Disturb, git, verdicts, SeenInv, ReadInv, SmallUnlessTruncated, DiffInv, CommitInv
<1> QED
  BY <1>1, <1>2, <1>4, <1>5, <1>6, <1>7, <1>8, <1>9, <1>10, <1>11, <1>12, <1>13, <1>14,
     <1>15 DEF InspectionNext

-------------------------------------------------------------------------------
\* However the work tree changed while it was inspected, what is pushed is file
\* by file the patch that was reviewed, and obeys every rule (SECURITY.md:28).
THEOREM PushedWasReviewed == InspectionSpec => []PushedIsReviewed
<1>1. InspectedInv => PushedIsReviewed
  <2> SUFFICES ASSUME InspectedInv, pc = "pushed"
               PROVE  /\ Patch(Base, head, {p \in Paths : Base[p] # head[p]}) = reviewed
                      /\ Acceptable(Base, head)
    BY DEF PushedIsReviewed
  <2> DEFINE maximum == Size(diff.patch)
  <2>1. /\ Committed(head, maximum) = diff /\ reviewed = diff.patch
        /\ Passes(diff) /\ ~TooLarge(diff.patch, MaxPatchBytes)
    BY DEF InspectedInv, DiffInv, CommitInv, Reviewing
  <2> HIDE DEF maximum
  <2>2. ~Committed(head, maximum).truncated
    BY <2>1 DEF Passes
  <2>3. reviewed = Patch(Base, head, Changed(Base, head, Paths))
    BY <2>1, <2>2, UncutIsWhole
  <2>4. Acceptable(Base, head)
    BY <2>1, PassingIsAcceptable
  <2> QED BY <2>3, <2>4 DEF Changed
<1> QED BY <1>1, InspectedInit, InspectedStep, PTL DEF InspectionSpec

-------------------------------------------------------------------------------
\* PatchInspection: what obeys the rules, and is left alone, passes.

\* What a whole and undisturbed inspection of the work tree finds.
Whole == Changed(Base, worktree, Paths)

WholeDiff ==
  [files |-> Whole, lines |-> ChangedLines(Base, worktree, Whole),
   patch |-> Patch(Base, worktree, Whole), truncated |-> FALSE, failures |-> {}]

GoodWork ==
  Acceptable(Base, worktree) /\ ~TooLarge(Patch(Base, worktree, Whole), DefaultPatchBytes)

LEMMA CandidatesAreFiles ==
  ASSUME NEW p \in Paths
  PROVE  Candidates[p] \subseteq Files /\ Base[p] \in Files
<1> DEFINE sets == {Candidates[q] : q \in Paths}
           base == {Base[q] : q \in Paths}
<1>1. Candidates[p] \in sets /\ Base[p] \in base
  OBVIOUS
<1>2. Files = (UNION sets) \cup base
  BY DEF Files
<1> HIDE DEF sets, base
<1> QED BY <1>1, <1>2

\* The size of a patch is a number, so that none is larger than itself.
LEMMA SizeIsNat ==
  ASSUME NEW w \in Works, NEW paths \in SUBSET Paths
  PROVE  Size(Patch(Base, w, paths)) \in Nat
<1> DEFINE patch == Patch(Base, w, paths)
           bytes == {BytesOf(h) : h \in patch}
<1>1. IsFiniteSet(paths)
  BY FS_Subset, PatchAssumption
<1>2. IsFiniteSet(bytes)
  <2> DEFINE f == [p \in paths |-> BytesOf([path |-> p, old |-> Base[p], new |-> w[p]])]
  <2>1. f \in Surjection(paths, bytes)
    BY DEF Surjection, Patch
  <2> QED BY <1>1, <2>1, FS_Surjection
<1>3. ASSUME NEW h \in patch PROVE IsFiniteSet(BytesOf(h))
  <2>1. PICK p \in paths : h = [path |-> p, old |-> Base[p], new |-> w[p]]
    BY DEF Patch
  <2>2. h.old \in Files /\ h.new \in Files
    <3>1. p \in Paths /\ w[p] \in Candidates[p]
      BY DEF Works
    <3> QED BY <2>1, <3>1, CandidatesAreFiles
  <2> DEFINE count == Bytes[h.old.text] + Bytes[h.new.text]
  <2>3. count \in Int
    BY <2>2, PatchAssumption
  <2> HIDE DEF count
  <2>4. IsFiniteSet(1 .. count)
    BY <2>3, FS_Interval
  <2>5. IsFiniteSet({h} \X (1 .. count))
    BY <2>4, FS_Singleton, FS_Product
  <2> QED BY <2>5 DEF BytesOf, count
<1>4. IsFiniteSet(UNION bytes)
  BY <1>2, <1>3, FS_UNION
<1> QED BY <1>4, FS_CardinalityType DEF Size

\* The rules are what the gate asks of the whole diff.
LEMMA GoodWorkIsPassed ==
  ASSUME GoodWork, worktree \in Works
  PROVE  /\ Passes(WholeDiff) /\ Whole # {} /\ Cardinality(Whole) <= MaxInspectedPaths
         /\ ModeFailures(Base, worktree, Whole) = {}
         /\ ~TooLarge(WholeDiff.patch, MaxPatchBytes)
         /\ ~TooLarge(WholeDiff.patch, DefaultPatchBytes)
<1> DEFINE after == {worktree[p] : p \in Whole}
           texts == {h.text : h \in after \cup {Base[p] : p \in Whole}}
<1>1. /\ Whole # {} /\ Whole \cap ForbiddenPaths = {}
      /\ \A limit \in {PolicyMaxFiles, RepositoryMaxFiles} \ {0} : Cardinality(Whole) <= limit
      /\ \A limit \in {PolicyMaxLines, RepositoryMaxLines} \ {0} :
           ChangedLines(Base, worktree, Whole) <= limit
      /\ ~TooLarge(Patch(Base, worktree, Whole), MaxPatchBytes)
      /\ {h.mode : h \in after} \subseteq {"none", "100644"}
      /\ texts \cap {"invalid", "binary", "secret"} = {}
  BY DEF GoodWork, Acceptable, Whole, Changed
<1>2. ASSUME NEW p \in Whole
      PROVE  /\ Base[p].mode \in {"none", "100644"} /\ worktree[p].mode \in {"none", "100644"}
             /\ {Base[p].text, worktree[p].text} \cap {"invalid", "binary", "secret"} = {}
  <2>1. p \in Paths /\ worktree[p] \in after
    BY DEF Whole, Changed
  <2>2. {Base[p].text, worktree[p].text} \subseteq texts
    BY <2>1
  <2> QED BY <1>1, <2>1, <2>2, PatchAssumption
<1> HIDE DEF after, texts
<1>3. ModeFailures(Base, worktree, Whole) = {}
  BY <1>2 DEF ModeFailures, ModeFails
<1>4. PolicyMaxFiles # 0 /\ PolicyMaxLines # 0
  BY PatchAssumption
<1>5. /\ Within(Cardinality(Whole), PolicyMaxFiles, RepositoryMaxFiles)
      /\ Within(ChangedLines(Base, worktree, Whole), PolicyMaxLines, RepositoryMaxLines)
  BY <1>1, <1>4 DEF Within
<1>6. ASSUME NEW h \in WholeDiff.patch
      PROVE  /\ h.old.mode \in {"none", "100644"} /\ h.new.mode \in {"none", "100644"}
             /\ {h.old.text, h.new.text} \cap {"invalid", "binary", "secret"} = {}
  <2>1. PICK p \in Whole : h = [path |-> p, old |-> Base[p], new |-> worktree[p]]
    BY DEF WholeDiff, Patch
  <2> QED BY <1>2, <2>1
<1>7. /\ \A mark \in {"invalid", "binary", "secret"} : ~Tells(WholeDiff.patch, mark)
      /\ \A mode \in {"120000", "160000", "100755"} : ~NewMode(WholeDiff.patch, mode)
  BY <1>6 DEF Tells, NewMode
<1>8. Cardinality(Whole) <= MaxInspectedPaths
  <2>1. Cardinality(Whole) \in Nat
    BY FS_Subset, FS_CardinalityType, PatchAssumption DEF Whole, Changed
  <2>2. Cardinality(Whole) <= PolicyMaxFiles
    BY <1>1, <1>4
  <2> QED BY <2>1, <2>2, PatchAssumption
<1>9. Passes(WholeDiff)
  BY <1>1, <1>5, <1>7 DEF Passes, WholeDiff
<1> QED BY <1>1, <1>3, <1>8, <1>9 DEF GoodWork, WholeDiff

\* What git knows while nobody disturbs it.  Until the commit HEAD is the base,
\* `git add' has seen the files as they are, and an inspection has every file in
\* the index from the names on; afterwards HEAD is the work tree.
BeforeCommit == {"gate", "postcheck", "review", "final", "validate", "publish", "add"}
AfterCommit == {"clean", "approved", "recheck", "pushed"}

Present(files) == {p \in Paths : files[p] # Absent}

QuietInv ==
  /\ disturbances \in Nat
  /\ disturbances = 0 =>
       /\ unsafe = FALSE /\ worktree \in Works /\ tracked \subseteq Paths
       /\ staged = [p \in DOMAIN staged |-> worktree[p]] /\ DOMAIN staged \subseteq Paths
       /\ pc # "add" => DOMAIN staged = {}
       /\ pc \in BeforeCommit => head = Base /\ Present(Base) \subseteq tracked
       /\ pc \in AfterCommit => head = worktree /\ tracked = Present(worktree)
       /\ Inspecting /\ step = "intend" => untracked = Present(worktree) \ tracked
       /\ Inspecting /\ step \in {"names", "numstat", "patch", "modes"} =>
            Present(worktree) \subseteq tracked

\* What has been read so far of work that obeys the rules: of the work tree, the
\* parts of the whole diff one after the other; of what was committed, nothing.
WholeSoFar ==
  /\ step \in {"numstat", "patch", "modes", "found"} => seen.files = Whole
  /\ step \in {"patch", "modes", "found"} => seen.lines = WholeDiff.lines
  /\ step \in {"modes", "found"} => seen.patch = WholeDiff.patch /\ seen.truncated = FALSE
  /\ step = "found" => seen.failures = {}

GoodInv ==
  disturbances = 0 /\ GoodWork =>
    /\ pc \in BeforeCommit \cup AfterCommit
    /\ pc # "gate" => diff = WholeDiff
    /\ pc \in {"validate", "publish", "add"} \cup AfterCommit => approval = WholeDiff.patch
    /\ Inspecting /\ pc \in BeforeCommit => WholeSoFar
    /\ Inspecting /\ pc \in AfterCommit =>
         (step \in {"numstat", "patch", "modes", "found"} => seen.files = {})

GoodWorkInv == SeenInv /\ QuietInv /\ GoodInv

\* Once the index has every file, git's own list of changes is the whole one.
LEMMA IndexIsEnough ==
  ASSUME tracked \subseteq Paths, Present(Base) \subseteq tracked, Present(worktree) \subseteq tracked
  PROVE  Changed(Base, worktree, tracked) = Whole
BY DEF Changed, Whole, Present

LEMMA QuietInit == InspectionInit => GoodWorkInv
<1> SUFFICES ASSUME InspectionInit PROVE GoodWorkInv
  OBVIOUS
<1>1. SeenInv
  BY InspectedInit DEF InspectedInv
<1>2. DOMAIN staged = {} /\ staged = [p \in DOMAIN staged |-> worktree[p]]
  BY DEF InspectionInit
<1>3. QuietInv
  BY <1>2 DEF InspectionInit, QuietInv, Inspecting, BeforeCommit, AfterCommit, Present
<1>4. GoodInv
  BY DEF InspectionInit, GoodInv, BeforeCommit, AfterCommit, WholeSoFar, Inspecting
<1> QED BY <1>1, <1>3, <1>4 DEF GoodWorkInv

LEMMA QuietStep ==
  ASSUME GoodWorkInv, InspectionNext, SeenInv'
  PROVE  QuietInv'
<1> USE DEF GoodWorkInv, QuietInv, Inspecting, BeforeCommit, AfterCommit
<1>1. CASE ListUntracked
  BY <1>1 DEF ListUntracked, outside, git, Present
<1>2. CASE Intend
  BY <1>2 DEF Intend, Reads, Goto, outside, Present
<1>3. CASE ReadNames \/ ReadNumstat \/ ReadPatch \/ ReadModes
  BY <1>3 DEF ReadNames, ReadNumstat, ReadPatch, ReadModes, Reads, outside, git
<1>4. CASE Gate
  BY <1>4 DEF Gate, Found, Goto, outside, git
<1>5. CASE PostCheck
  BY <1>5 DEF PostCheck, Repair, Goto, outside, git
<1>6. CASE Review
  BY <1>6 DEF Review, Repair, Goto, outside, git
<1>7. CASE FinalCheck
  BY <1>7 DEF FinalCheck, Found, Goto, outside, git
<1>8. CASE Validate
  BY <1>8 DEF Validate, Found, Goto, outside, git
<1>9. CASE Publish
  BY <1>9 DEF Publish, Goto, outside, git
<1>10. ASSUME NEW p \in Paths, AddFile(p) PROVE QuietInv'
  <2>1. DOMAIN staged' = DOMAIN staged \cup {p}
    BY <1>10 DEF AddFile
  <2>2. ASSUME disturbances = 0 PROVE staged' = [q \in DOMAIN staged' |-> worktree[q]]
    <3>1. staged = [q \in DOMAIN staged |-> worktree[q]]
      BY <2>2
    <3>2. ASSUME NEW q \in DOMAIN staged \cup {p}
          PROVE  (IF q = p THEN worktree[p] ELSE staged[q]) = worktree[q]
      BY <3>1
    <3>3. staged' = [q \in DOMAIN staged \cup {p} |-> IF q = p THEN worktree[p] ELSE staged[q]]
      BY <1>10 DEF AddFile
    <3> QED BY <2>1, <3>2, <3>3
  <2> QED BY <1>10, <2>1, <2>2 DEF AddFile, outside
<1>11. CASE Commit
  <2>1. DOMAIN staged' = {} /\ staged' = [p \in DOMAIN staged' |-> worktree'[p]]
    BY <1>11 DEF Commit
  <2>2. ASSUME disturbances = 0
        PROVE  head' = worktree /\ tracked' = Present(worktree) /\ worktree \in Works
    <3>1. staged = [p \in Paths |-> worktree[p]] /\ worktree \in Works
      BY <1>11, <2>2 DEF Commit
    <3>2. staged = worktree
      BY <3>1 DEF Works
    <3> QED BY <1>11, <3>1, <3>2 DEF Commit, Present
  <2>3. pc' \in {"clean", "refused"} /\ step' = "config" /\ UNCHANGED outside
    BY <1>11 DEF Commit, Goto
  <2>4. Present(worktree) \subseteq Paths
    BY DEF Present
  <2> QED BY <2>1, <2>2, <2>3, <2>4 DEF outside
<1>12. CASE Clean
  BY <1>12 DEF Clean, Found, Goto, outside, git
<1>13. CASE RecheckCommit
  BY <1>13 DEF RecheckCommit, Goto, outside, git
<1>14. CASE RecheckClean
  BY <1>14 DEF RecheckClean, Found, Goto, outside, git
<1>15. CASE Disturb
  BY <1>15 DEF Disturb
<1> QED
  BY <1>1, <1>2, <1>3, <1>4, <1>5, <1>6, <1>7, <1>8, <1>9, <1>10, <1>11, <1>12, <1>13, <1>14,
     <1>15 DEF InspectionNext, Inspection

LEMMA GoodStep ==
  ASSUME GoodWorkInv, InspectionNext
  PROVE  GoodInv'
<1> SUFFICES ASSUME disturbances' = 0, GoodWork' PROVE GoodInv'
  BY DEF GoodInv
<1> USE DEF GoodInv, BeforeCommit, AfterCommit
<1>1. disturbances = 0 /\ (Repair \/ UNCHANGED outside)
  <2>1. CASE Disturb
    BY <2>1 DEF Disturb, GoodWorkInv, QuietInv
  <2>2. CASE Inspection
    BY <2>2 DEF Inspection, ListUntracked, Intend, ReadNames, ReadNumstat, ReadPatch, ReadModes,
       outside
  <2>3. CASE PostCheck \/ Review
    BY <2>3 DEF PostCheck, Review, Repair, outside
  <2>4. CASE Gate \/ FinalCheck \/ Validate \/ Clean \/ RecheckClean
    BY <2>4 DEF Gate, FinalCheck, Validate, Clean, RecheckClean, Found, outside
  <2>5. CASE Publish \/ (\E p \in Paths : AddFile(p)) \/ Commit \/ RecheckCommit
    BY <2>5 DEF Publish, AddFile, Commit, RecheckCommit, outside
  <2> QED BY <2>1, <2>2, <2>3, <2>4, <2>5 DEF InspectionNext
\* A repair makes other work of it, and all begins again.
<1>2. CASE Repair
  BY <1>2 DEF Repair, Goto, WholeSoFar, Inspecting
\* Otherwise the work stays, and with it what the rules say of it.
<1>3. ASSUME UNCHANGED outside
      PROVE  Whole' = Whole /\ WholeDiff' = WholeDiff /\ GoodWork
  BY <1>3 DEF Whole, WholeDiff, GoodWork, outside
<1>4. ASSUME GoodWork
      PROVE  /\ Passes(WholeDiff) /\ Whole # {} /\ Cardinality(Whole) <= MaxInspectedPaths
             /\ ModeFailures(Base, worktree, Whole) = {}
             /\ ~TooLarge(WholeDiff.patch, MaxPatchBytes)
             /\ ~TooLarge(WholeDiff.patch, DefaultPatchBytes)
  BY <1>1, <1>4, GoodWorkIsPassed DEF GoodWorkInv, QuietInv
<1>5. /\ unsafe = FALSE /\ worktree \in Works /\ tracked \subseteq Paths
      /\ staged = [p \in DOMAIN staged |-> worktree[p]]
      /\ pc \in BeforeCommit => head = Base /\ Present(Base) \subseteq tracked
      /\ pc \in AfterCommit => head = worktree /\ tracked = Present(worktree)
      /\ Inspecting /\ step = "intend" => untracked = Present(worktree) \ tracked
      /\ Inspecting /\ step \in {"names", "numstat", "patch", "modes"} =>
           Present(worktree) \subseteq tracked
  BY <1>1 DEF GoodWorkInv, QuietInv
\* A diff that is found whole: what the reads see of the work tree.
<1>6. ASSUME GoodWork, Inspecting, step \in {"names", "numstat", "patch", "modes"}
      PROVE  /\ pc \in BeforeCommit => Changed(head, worktree, tracked) = Whole
             /\ pc \in AfterCommit => Changed(head, worktree, tracked) = {}
  <2>1. CASE pc \in BeforeCommit
    BY <1>5, <1>6, <2>1, IndexIsEnough
  <2>2. CASE pc \in AfterCommit
    BY <1>5, <1>6, <2>2 DEF Changed
  <2> QED BY <2>1, <2>2
<1>7. CASE UNCHANGED outside
  <2> USE <1>3, <1>7
  <2>1. ~(Cardinality(Present(worktree) \ tracked) > MaxInspectedPaths)
    <3>1. CASE pc \in BeforeCommit
      <4>1. Present(worktree) \ tracked \subseteq Whole
        BY <1>5, <3>1 DEF Present, Whole, Changed
      <4>2. IsFiniteSet(Whole) /\ Whole \subseteq Paths
        BY FS_Subset, PatchAssumption DEF Whole, Changed
      <4>3. Cardinality(Present(worktree) \ tracked) <= Cardinality(Whole)
        BY <4>1, <4>2, FS_Subset
      <4>4. Cardinality(Present(worktree) \ tracked) \in Nat /\ Cardinality(Whole) \in Nat
        BY <4>1, <4>2, FS_Subset, FS_CardinalityType
      <4> QED BY <1>4, <4>3, <4>4, PatchAssumption
    <3>2. CASE pc \in AfterCommit
      <4>1. Present(worktree) \ tracked = {}
        BY <1>5, <3>2
      <4>2. Cardinality(Present(worktree) \ tracked) = 0
        BY <4>1, FS_EmptySet
      <4> QED BY <4>2, PatchAssumption
    <3> QED BY <1>1, <3>1, <3>2 DEF GoodWorkInv
  <2>2. CASE ListUntracked
    <3>1. {p \in Paths \ tracked : worktree[p] # Absent} = Present(worktree) \ tracked
      BY DEF Present
    <3>2. step' = "intend" /\ UNCHANGED <<pc, diff, approval>>
      BY <1>5, <2>1, <2>2, <3>1 DEF ListUntracked, verdicts
    <3> QED BY <1>1, <3>2 DEF GoodWorkInv, WholeSoFar, Inspecting
  <2>3. CASE Intend
    <3>1. step' = "names" /\ UNCHANGED <<pc, diff, approval>>
      BY <1>5, <2>3 DEF Intend, Reads, verdicts, Present
    <3> QED BY <1>1, <3>1 DEF GoodWorkInv, WholeSoFar, Inspecting
  <2>4. CASE ReadNames
    <3>1. step = "names" /\ UNCHANGED <<pc, diff, approval>>
      BY <2>4 DEF ReadNames, Reads, verdicts
    <3>2. CASE pc \in BeforeCommit
      <4>1. Changed(head, worktree, tracked) = Whole
        BY <1>6, <2>4, <3>1, <3>2 DEF ReadNames
      <4>2. ~(Cardinality(Whole) > MaxInspectedPaths)
        <5>1. Cardinality(Whole) \in Nat
          BY FS_Subset, FS_CardinalityType, PatchAssumption DEF Whole, Changed
        <5> QED BY <1>4, <5>1, PatchAssumption
      <4>3. step' = "numstat" /\ seen'.files = Whole
        BY <2>4, <4>1, <4>2 DEF ReadNames, Reads, GoodWorkInv, SeenInv
      <4> QED BY <1>1, <3>1, <3>2, <4>3 DEF GoodWorkInv, WholeSoFar, Inspecting
    <3>3. CASE pc \in AfterCommit
      <4>1. Changed(head, worktree, tracked) = {}
        BY <1>6, <2>4, <3>1, <3>3 DEF ReadNames
      <4>2. seen'.files = {}
        BY <2>4, <4>1 DEF ReadNames, GoodWorkInv, SeenInv, Refused, Nothing
      <4> QED BY <1>1, <3>1, <3>3, <4>2 DEF GoodWorkInv, Inspecting
    <3> QED BY <1>1, <3>2, <3>3 DEF GoodWorkInv
  <2>5. CASE ReadNumstat \/ ReadPatch \/ ReadModes
    <3>1. /\ Inspecting /\ step \in {"numstat", "patch", "modes"} /\ UNCHANGED <<pc, diff, approval>>
          /\ seen'.files = seen.files
      BY <2>5 DEF ReadNumstat, ReadPatch, ReadModes, Reads, verdicts, GoodWorkInv, SeenInv
    <3>2. CASE pc \in BeforeCommit
      <4>1. Changed(head, worktree, tracked) = Whole /\ head = Base /\ WholeSoFar
        BY <1>1, <1>5, <1>6, <3>1, <3>2 DEF GoodWorkInv
      <4>2. ~TooLarge(WholeDiff.patch, Maximum)
        BY <1>4 DEF Maximum
      <4>3. CASE ReadNumstat
        <5>1. step = "numstat" /\ step' = "patch" /\ seen'.lines = WholeDiff.lines
          BY <4>1, <4>3 DEF ReadNumstat, Reads, WholeDiff, GoodWorkInv, SeenInv
        <5> QED BY <1>1, <3>1, <3>2, <4>1, <5>1 DEF GoodWorkInv, WholeSoFar, Inspecting
      <4>4. CASE ReadPatch
        <5>1. /\ step = "patch" /\ step' = "modes" /\ seen'.lines = seen.lines
              /\ seen'.patch = WholeDiff.patch /\ seen'.truncated = FALSE
          BY <4>1, <4>2, <4>4 DEF ReadPatch, Reads, WholeDiff, Kept, GoodWorkInv, SeenInv
        <5> QED BY <1>1, <3>1, <3>2, <4>1, <5>1 DEF GoodWorkInv, WholeSoFar, Inspecting
      <4>5. CASE ReadModes
        <5>1. /\ step = "modes" /\ step' = "found" /\ seen'.lines = seen.lines
              /\ seen'.patch = seen.patch /\ seen'.truncated = seen.truncated
              /\ seen'.failures = {}
          BY <1>4, <4>1, <4>5 DEF ReadModes, Reads, WholeSoFar, GoodWorkInv, SeenInv
        <5> QED BY <1>1, <3>1, <3>2, <4>1, <5>1 DEF GoodWorkInv, WholeSoFar, Inspecting
      <4> QED BY <2>5, <4>3, <4>4, <4>5
    <3>3. CASE pc \in AfterCommit
      BY <1>1, <3>1, <3>3 DEF GoodWorkInv, Inspecting
    <3> QED BY <1>1, <3>2, <3>3 DEF GoodWorkInv
\* A whole inspection's diff is the one that counts.
  <2>6. ASSUME Inspecting, pc \in BeforeCommit, step = "found" PROVE seen = WholeDiff
    BY <1>1, <2>6 DEF GoodWorkInv, SeenInv, WholeSoFar, WholeDiff
  <2>7. CASE Gate
    <3>1. seen = WholeDiff
      BY <2>6, <2>7 DEF Gate, Found, Inspecting
    <3>2. Goto("postcheck") /\ diff' = WholeDiff
      BY <1>4, <2>7, <3>1 DEF Gate
    <3> QED BY <3>2 DEF Goto, WholeSoFar
  <2>8. CASE PostCheck
    <3>1. seen = WholeDiff /\ diff = WholeDiff
      BY <1>1, <2>6, <2>8 DEF PostCheck, Inspecting, GoodWorkInv
    <3>2. CASE Goto("review")
      BY <2>8, <3>1, <3>2 DEF PostCheck, Goto, Inspecting
    <3> QED BY <1>2, <1>4, <2>8, <3>1, <3>2 DEF PostCheck
  <2>9. CASE Review
    <3>1. CASE Goto("final")
      BY <1>1, <2>9, <3>1 DEF Review, Goto, WholeSoFar, verdicts, GoodWorkInv
    <3> QED BY <1>2, <2>9, <3>1 DEF Review
  <2>10. CASE FinalCheck
    <3>1. seen = WholeDiff /\ diff = WholeDiff
      BY <1>1, <2>6, <2>10 DEF FinalCheck, Found, Inspecting, GoodWorkInv
    <3> QED BY <2>10, <3>1 DEF FinalCheck, Goto, WholeSoFar
  <2>11. CASE Validate
    <3>1. seen = WholeDiff /\ diff = WholeDiff /\ approval = WholeDiff.patch
      BY <1>1, <2>6, <2>11 DEF Validate, Found, Inspecting, GoodWorkInv
    <3> QED BY <2>11, <3>1 DEF Validate, Goto, verdicts, Inspecting
  <2>12. CASE Publish
    BY <1>1, <1>5, <2>12 DEF Publish, Goto, verdicts, Inspecting, GoodWorkInv
  <2>13. ASSUME NEW p \in Paths, AddFile(p) PROVE GoodInv'
    BY <1>1, <2>13 DEF AddFile, verdicts, Inspecting, GoodWorkInv
\* What is committed is the work tree, and neither git nor its own size refuses it.
  <2>14. Committed(worktree, Size(WholeDiff.patch)) = WholeDiff
    <3>1. Size(WholeDiff.patch) \in Nat
      BY <1>5, SizeIsNat DEF WholeDiff, Whole, Changed
    <3> DEFINE maximum == Size(WholeDiff.patch)
               patch == Patch(Base, worktree, Whole)
    <3>2. TooLarge(patch, maximum) = FALSE
      BY <3>1 DEF TooLarge, WholeDiff
    <3> HIDE DEF maximum
    <3>3. Kept(patch, maximum) = patch
      BY <3>2 DEF Kept
    <3>4. Changed(Base, worktree, Paths) = Whole /\ ModeFailures(Base, worktree, Whole) = {}
      BY <1>4 DEF Whole
    <3>5. Committed(worktree, maximum)
            = [files |-> Whole, lines |-> ChangedLines(Base, worktree, Whole),
               patch |-> patch, truncated |-> FALSE, failures |-> {}]
      BY <3>2, <3>3, <3>4 DEF Committed
    <3> QED BY <3>5 DEF WholeDiff, maximum
  <2>15. CASE Commit
    <3>1. staged = worktree /\ diff = WholeDiff /\ approval = WholeDiff.patch
      <4>1. staged = [p \in Paths |-> worktree[p]]
        BY <1>5, <2>15 DEF Commit
      <4> QED BY <1>1, <1>5, <2>15, <4>1 DEF Commit, Works, GoodWorkInv
    <3>2. staged # Base
      BY <1>4, <3>1 DEF Whole, Changed
    <3>3. Goto("clean")
      BY <1>5, <2>14, <2>15, <3>1, <3>2 DEF Commit
    <3> QED BY <2>15, <3>1, <3>3 DEF Commit, Goto, verdicts
  <2>16. CASE Clean
    <3>1. seen.files = {}
      BY <1>1, <2>16 DEF Clean, Found, Inspecting, GoodWorkInv
    <3> QED BY <1>1, <2>16, <3>1 DEF Clean, Found, Goto, verdicts, Inspecting, GoodWorkInv
  <2>17. CASE RecheckCommit
    <3>1. /\ unsafe = FALSE /\ head = worktree /\ diff = WholeDiff
          /\ approval = WholeDiff.patch
      BY <1>1, <1>5, <2>17 DEF RecheckCommit, GoodWorkInv
    <3>2. Committed(head, Size(diff.patch)).patch = approval
      BY <2>14, <3>1
    <3>3. Goto("recheck")
      BY <2>17, <3>1, <3>2 DEF RecheckCommit
    <3> QED BY <2>17, <3>1, <3>3 DEF RecheckCommit, Goto, verdicts
  <2>18. CASE RecheckClean
    <3>1. seen.files = {}
      BY <1>1, <2>18 DEF RecheckClean, Found, Inspecting, GoodWorkInv
    <3> QED BY <1>1, <2>18, <3>1 DEF RecheckClean, Found, Goto, verdicts, Inspecting, GoodWorkInv
  <2>19. ~Disturb
    BY <1>1 DEF Disturb, GoodWorkInv, QuietInv
  <2> QED
    BY <2>2, <2>3, <2>4, <2>5, <2>7, <2>8, <2>9, <2>10, <2>11, <2>12, <2>13, <2>15, <2>16, <2>17,
       <2>18, <2>19 DEF InspectionNext, Inspection
<1> QED BY <1>1, <1>2, <1>7

\* Work that obeys the rules and that nobody disturbs is never refused, whatever
\* the files, the limits and the repairs before it.
THEOREM GoodWorkIsNeverRefused == InspectionSpec => []GoodWorkPasses
<1>1. InspectedInv /\ GoodWorkInv /\ [InspectionNext]_inspectionVars => (InspectedInv /\ GoodWorkInv)'
  <2> SUFFICES ASSUME InspectedInv, GoodWorkInv, [InspectionNext]_inspectionVars
               PROVE  InspectedInv' /\ GoodWorkInv'
    OBVIOUS
  <2>1. InspectedInv'
    BY InspectedStep
  <2>2. CASE InspectionNext
    BY <2>1, <2>2, QuietStep, GoodStep DEF InspectedInv, GoodWorkInv
  <2>3. CASE UNCHANGED inspectionVars
    <3>1. SeenInv' /\ QuietInv'
      BY <2>1, <2>3 DEF InspectedInv, GoodWorkInv, QuietInv, inspectionVars, outside, git, Inspecting
    <3>2. GoodInv'
      BY <2>3 DEF GoodWorkInv, GoodInv, WholeSoFar, WholeDiff, Whole, GoodWork, inspectionVars,
         outside, git, verdicts, Inspecting
    <3> QED BY <2>1, <3>1, <3>2 DEF GoodWorkInv
  <2> QED BY <2>2, <2>3
<1>2. GoodWorkInv => GoodWorkPasses
  BY DEF GoodWorkInv, GoodInv, GoodWork, GoodWorkPasses, Whole, Changed, BeforeCommit, AfterCommit
<1>3. InspectionInit => InspectedInv /\ GoodWorkInv
  BY InspectedInit, QuietInit
<1> QED BY <1>1, <1>2, <1>3, PTL DEF InspectionSpec

\* What was added to the commit are files, so that HEAD is one for every path.
FilesInv == InspectionTypeOK /\ staged \in [DOMAIN staged -> Files] /\ worktree \in Works

\* Type correctness of the inspection: every tree has a file, or none, at each path.
THEOREM InspectionTypes == InspectionSpec => []InspectionTypeOK
<1> USE PatchAssumption DEF FilesInv, InspectionTypeOK
<1>1. Works \subseteq [Paths -> Files]
  BY DEF Works
<1>2. InspectionInit => FilesInv
  <2> SUFFICES ASSUME InspectionInit PROVE FilesInv
    OBVIOUS
  <2>1. DOMAIN staged = {} /\ staged \in [DOMAIN staged -> Files]
    BY DEF InspectionInit
  <2>2. worktree \in Works /\ worktree \in [Paths -> Files]
    BY <1>1 DEF InspectionInit
  <2>3. /\ pc = "gate" /\ step = "config" /\ unsafe = FALSE /\ disturbances = 0 /\ repairs = 0
        /\ tracked \subseteq Paths /\ untracked = {} /\ head = Base
    BY DEF InspectionInit
  <2>4. /\ disturbances \in 0 .. MaxDisturbances /\ repairs \in 0 .. MaxRepairs
        /\ head \in [Paths -> Files] /\ untracked \subseteq Paths /\ DOMAIN staged \subseteq Paths
    BY <2>1, <2>3
  <2>5. unsafe \in BOOLEAN
    BY <2>3
  <2> QED BY <2>1, <2>2, <2>3, <2>4, <2>5
<1>3. FilesInv /\ [InspectionNext]_inspectionVars => FilesInv'
  <2> SUFFICES ASSUME FilesInv, [InspectionNext]_inspectionVars PROVE FilesInv'
    OBVIOUS
  <2>1. CASE Inspection
    BY <2>1 DEF Inspection, ListUntracked, Intend, ReadNames, ReadNumstat, ReadPatch, ReadModes,
       Reads, Goto, outside, git
  <2>2. ASSUME Repair PROVE worktree' \in Works /\ worktree' \in [Paths -> Files] /\ repairs' \in 0 .. MaxRepairs
    BY <1>1, <2>2 DEF Repair
  <2>3. CASE PostCheck
    BY <2>2, <2>3 DEF PostCheck, Repair, Goto, outside, git
  <2>4. CASE Review
    BY <2>2, <2>4 DEF Review, Repair, Goto, outside, git
  <2>5. CASE Gate \/ FinalCheck \/ Validate \/ Clean \/ RecheckClean
    BY <2>5 DEF Gate, FinalCheck, Validate, Clean, RecheckClean, Found, Goto, outside, git
  <2>6. CASE Publish \/ RecheckCommit
    BY <2>6 DEF Publish, RecheckCommit, Goto, outside, git
  <2>7. ASSUME NEW p \in Paths, AddFile(p) PROVE FilesInv'
    <3>1. staged' \in [DOMAIN staged' -> Files] /\ DOMAIN staged' \subseteq Paths
      BY <2>7 DEF AddFile
    <3> QED BY <2>7, <3>1 DEF AddFile, outside
  <2>8. CASE Commit
    <3>1. head' \in [Paths -> Files] /\ tracked' \subseteq Paths
      BY <2>8 DEF Commit
    <3>2. DOMAIN staged' = {} /\ staged' \in [DOMAIN staged' -> Files]
      BY <2>8 DEF Commit
    <3> QED BY <2>8, <3>1, <3>2 DEF Commit, Goto, outside
  <2>9. CASE Disturb
    <3>1. worktree' \in Works
      <4>1. CASE UNCHANGED worktree
        BY <4>1
      <4>2. ASSUME NEW p \in Paths, NEW f \in Candidates[p], worktree' = [worktree EXCEPT ![p] = f]
            PROVE  worktree' \in Works
        BY <4>2, CandidatesAreFiles DEF Works
      <4> QED BY <2>9, <4>1, <4>2 DEF Disturb
    <3>2. worktree' \in [Paths -> Files] /\ disturbances' \in 0 .. MaxDisturbances
      BY <1>1, <2>9, <3>1 DEF Disturb
    <3>3. unsafe' \in BOOLEAN
      BY <2>9 DEF Disturb
    <3>4. UNCHANGED <<pc, step, repairs, git, untracked>>
      BY <2>9 DEF Disturb
    <3> QED BY <3>1, <3>2, <3>3, <3>4 DEF git
  <2>10. CASE UNCHANGED inspectionVars
    BY <2>10 DEF inspectionVars, outside, git
  <2> QED
    BY <2>1, <2>3, <2>4, <2>5, <2>6, <2>7, <2>8, <2>9, <2>10 DEF InspectionNext
<1>4. FilesInv => InspectionTypeOK
  OBVIOUS
<1> QED BY <1>2, <1>3, <1>4, PTL DEF InspectionSpec
===============================================================================
