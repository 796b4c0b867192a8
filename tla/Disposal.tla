------------------------------- MODULE Disposal -------------------------------
(***************************************************************************)
(* Disposal of workspaces and containers: the controllers that clean up    *)
(* after themselves (workspace.py, and cleanup_job of runner.py), and the  *)
(* `cleanup' command that clears away what crashed controllers left behind *)
(* (cli.py, reap_expired_containers and active_job_ids of runner.py,       *)
(* reap_expired of workspace.py), while other controllers are at work.     *)
(*                                                                         *)
(* A workspace and a container carry the name of their run, and the run's  *)
(* row in the budget ledger says that its controller may be alive.  Ages   *)
(* and leases are counted in ticks; an age stops counting once it exceeds  *)
(* every limit that it is compared with.                                   *)
(***************************************************************************)
EXTENDS Naturals

CONSTANTS
  Runs,
  Horizon,         \* active_run_ids(): how long a 'reserved' row protects
  MaxWork,         \* bound: from the reservation to the recorded outcome
  CommandTimeout,  \* of an agent or a test command
  ContainerLease,  \* lease_expires, counted from the container's start
  ReapAges,        \* what --older-than-hours may be
  MaxReapAge,      \* bound of those
  CleanupTime      \* bound: from the cleanup's first question to its cutoff

ASSUME DisposalAssumption ==
  /\ Horizon \in Nat /\ MaxWork \in Nat /\ CommandTimeout \in Nat
  /\ ContainerLease \in Nat /\ MaxReapAge \in Nat /\ CleanupTime \in Nat
  /\ ReapAges # {} /\ ReapAges \subseteq 1..MaxReapAge

\* The horizon covers every live controller (LiveRunsProtected of
\* BudgetLedger), the lease outlasts the longest command, and the cleanup's
\* few questions, each with its timeout of seconds, take less than the hour
\* that --older-than-hours is at least.
ASSUME PeriodsAreOrdered ==
  /\ MaxWork <= Horizon /\ CommandTimeout < ContainerLease
  /\ \A a \in ReapAges : CleanupTime <= a

NoContainer == ContainerLease + 1
Gone == "gone"

Live == {"reserved", "working", "running", "cleaning", "disposing", "settling"}

VARIABLES
  phase,      \* phase[r]: what controller r is doing
  age,        \* age[r]: time since r's reservation
  row,        \* row[r]: r's row in the budget ledger
  workspace,  \* workspace[r]: "none", "marked", "unmarked" or "gone"
  wsAge,      \* wsAge[r]: time since the marker's created_at
  container,  \* container[r]: what is left of its lease, or NoContainer
  command,    \* command[r]: what is left of the running command's time
  janitor,    \* what the cleanup command is doing
  older,      \* its --older-than-hours
  asking,     \* time since it asked for the containers
  protected,  \* the runs that the cleanup command must leave alone
  expired     \* the workspaces created before its cutoff

controllers == <<phase, age, row, wsAge, command>>
reaper == <<janitor, older, asking, protected, expired>>
vars == <<controllers, workspace, container, reaper>>

Init ==
  /\ phase = [r \in Runs |-> "idle"]
  /\ age = [r \in Runs |-> 0]
  /\ row = [r \in Runs |-> "none"]
  /\ workspace = [r \in Runs |-> "none"]
  /\ wsAge = [r \in Runs |-> 0]
  /\ container = [r \in Runs |-> NoContainer]
  /\ command = [r \in Runs |-> 0]
  /\ janitor = "idle" /\ older = MaxReapAge /\ asking = 0 /\ protected = {} /\ expired = {}

-------------------------------------------------------------------------------
\* The controllers.

Enter(r, p) == phase' = [phase EXCEPT ![r] = p]

Drop(r) == container' = [container EXCEPT ![r] = NoContainer]

\* The ledger's row is written before the workspace is made.
Reserve(r) ==
  /\ phase[r] = "idle"
  /\ row' = [row EXCEPT ![r] = "reserved"]
  /\ Enter(r, "reserved")
  /\ UNCHANGED <<age, wsAge, command, workspace, container, reaper>>

\* __enter__: the directory and its marker.  When it fails the directory is
\* removed again, or it stays without a marker.
Lease(r) ==
  /\ phase[r] = "reserved"
  /\ \/ workspace' = [workspace EXCEPT ![r] = "marked"] /\ Enter(r, "working")
     \/ UNCHANGED workspace /\ Enter(r, "settling")
     \/ workspace' = [workspace EXCEPT ![r] = "unmarked"] /\ Enter(r, "cleaning")
  /\ UNCHANGED <<age, row, wsAge, command, container, reaper>>

\* A container starts, with the lease that its label carries.
StartContainer(r) ==
  /\ phase[r] = "working"
  /\ container' = [container EXCEPT ![r] = ContainerLease]
  /\ command' = [command EXCEPT ![r] = CommandTimeout]
  /\ Enter(r, "running")
  /\ UNCHANGED <<age, row, wsAge, workspace, reaper>>

\* The command ends or its time runs out.  The step fails unless the removal
\* of its container is proven.
EndContainer(r) ==
  /\ phase[r] = "running"
  /\ command' = [command EXCEPT ![r] = 0]
  /\ \/ Drop(r) /\ Enter(r, "working")
     \/ (Drop(r) \/ UNCHANGED container) /\ Enter(r, "cleaning")
  /\ UNCHANGED <<age, row, wsAge, workspace, reaper>>

\* The work is done, or it failed.
EndWork(r) ==
  /\ phase[r] = "working"
  /\ Enter(r, "cleaning")
  /\ UNCHANGED <<age, row, wsAge, command, workspace, container, reaper>>

\* Bug: the workspace goes although the removal is not proven.
CleanContainersUnproven(r) ==
  /\ phase[r] = "cleaning"
  /\ Drop(r) \/ UNCHANGED container
  /\ Enter(r, "disposing")
  /\ UNCHANGED <<age, row, wsAge, command, workspace, reaper>>

\* cleanup_job(): only a proven removal lets the workspace go.
CleanContainers(r) ==
  /\ phase[r] = "cleaning"
  /\ \/ Drop(r) /\ Enter(r, "disposing")
     \/ (Drop(r) \/ UNCHANGED container) /\ Enter(r, "settling")
  /\ UNCHANGED <<age, row, wsAge, command, workspace, reaper>>

\* cleanup() refuses a directory without a marker; otherwise the tree goes, or
\* only a part of it, with the marker or without.
Removal(r) ==
  \/ workspace[r] = "marked" /\ workspace' = [workspace EXCEPT ![r] = Gone]
  \/ workspace[r] = "marked" /\ workspace' = [workspace EXCEPT ![r] = "unmarked"]
  \/ UNCHANGED workspace

CleanWorkspace(r) ==
  /\ phase[r] = "disposing"
  /\ Removal(r)
  /\ Enter(r, "settling")
  /\ UNCHANGED <<age, row, wsAge, command, container, reaper>>

\* finish() of the budget ledger, whose errors are ignored.
Settle(r) ==
  /\ phase[r] = "settling"
  /\ \/ row' = [row EXCEPT ![r] = "ended"]
     \/ UNCHANGED row
  /\ Enter(r, "finished")
  /\ UNCHANGED <<age, wsAge, command, workspace, container, reaper>>

\* The controller is killed, perhaps between the making of the directory and
\* its marker, or in the middle of its removal.
Crash(r) ==
  /\ phase[r] \in Live
  /\ Enter(r, "crashed")
  /\ \/ UNCHANGED workspace
     \/ /\ phase[r] \in {"reserved", "disposing"}
        /\ workspace' = [workspace EXCEPT ![r] = "unmarked"]
  /\ command' = [command EXCEPT ![r] = 0]
  /\ UNCHANGED <<age, row, wsAge, container, reaper>>

\* The command of a container that nobody waits for ends; --rm removes it.
ContainerExits(r) ==
  /\ phase[r] \in {"finished", "crashed"} /\ container[r] # NoContainer
  /\ Drop(r)
  /\ UNCHANGED <<controllers, workspace, reaper>>

-------------------------------------------------------------------------------
\* The cleanup command.

\* It refuses to start when there is no container runtime.
StartCleanup ==
  /\ janitor = "idle"
  /\ janitor' = "containers" /\ older' \in ReapAges
  /\ protected' = {} /\ expired' = {}
  /\ UNCHANGED <<controllers, workspace, container, asking>>

Expired(r) == container[r] = 0

\* reap_expired_containers(): every container whose lease has expired goes.
ReapContainers ==
  /\ janitor = "containers"
  /\ container' = [r \in Runs |-> IF Expired(r) THEN NoContainer ELSE container[r]]
  /\ janitor' = "jobs"
  /\ UNCHANGED <<controllers, workspace, older, asking, protected, expired>>

\* It stops with an error half-way.
ReapFails ==
  /\ janitor = "containers"
  /\ \E removed \in SUBSET {r \in Runs : Expired(r)} :
       container' = [r \in Runs |-> IF r \in removed THEN NoContainer ELSE container[r]]
  /\ janitor' = "idle"
  /\ UNCHANGED <<controllers, workspace, older, asking, protected, expired>>

\* active_job_ids(): the runs that have a container.
ReadJobs ==
  /\ janitor = "jobs"
  /\ protected' = {r \in Runs : container[r] # NoContainer}
  /\ janitor' = "rows" /\ asking' = 0
  /\ UNCHANGED <<controllers, workspace, container, older, expired>>

\* Bug: only the runs that have a container are left alone.
NoActiveRunIds == {}

\* Bug: a row protects its run for ever.
ActiveForEver == {r \in Runs : row[r] = "reserved"}

\* active_run_ids(): the runs whose controller may be alive.
ActiveRunIds == {r \in Runs : row[r] = "reserved" /\ age[r] <= Horizon}

ReadRows ==
  /\ janitor = "rows"
  /\ protected' = protected \cup ActiveRunIds
  /\ janitor' = "cutoff"
  /\ UNCHANGED <<controllers, workspace, container, older, asking, expired>>

\* reap_expired(): the cutoff.
SetCutoff ==
  /\ janitor = "cutoff"
  /\ expired' = {r \in Runs : wsAge[r] > older}
  /\ janitor' = "sweep"
  /\ UNCHANGED <<controllers, workspace, container, older, asking, protected>>

Reapable(r) == workspace[r] = "marked" /\ r \in expired \ protected

\* One marked workspace after the other.
ReapWorkspace(r) ==
  /\ janitor = "sweep" /\ Reapable(r)
  /\ workspace' = [workspace EXCEPT ![r] = Gone]
  /\ UNCHANGED <<controllers, container, reaper>>

EndSweep ==
  /\ janitor = "sweep" /\ \A r \in Runs : ~Reapable(r)
  /\ janitor' = "idle"
  /\ UNCHANGED <<controllers, workspace, container, older, asking, protected, expired>>

\* An error, or a kill, in one of the other steps.
StopCleanup ==
  /\ janitor \in {"jobs", "rows", "cutoff", "sweep"}
  /\ janitor' = "idle"
  /\ \/ UNCHANGED workspace
     \/ /\ janitor = "sweep"
        /\ \E r \in Runs : /\ Reapable(r)
                           /\ workspace' = [workspace EXCEPT ![r] = "unmarked"]
  /\ UNCHANGED <<controllers, container, older, asking, protected, expired>>

-------------------------------------------------------------------------------
\* Time.

Older(n, limit) == IF n > limit THEN n ELSE n + 1

Asking == janitor \in {"rows", "cutoff"}

\* No controller works longer than MaxWork, no command outlives its time, and
\* no cleanup takes longer than CleanupTime to its cutoff.
Tick ==
  /\ \A r \in Runs : phase[r] \in Live => age[r] < MaxWork
  /\ \A r \in Runs : phase[r] = "running" => command[r] > 0
  /\ Asking => asking < CleanupTime
  /\ asking' = IF Asking THEN asking + 1 ELSE 0
  /\ age' = [r \in Runs |-> IF row[r] = "none" THEN 0 ELSE Older(age[r], Horizon)]
  /\ wsAge' = [r \in Runs |-> IF workspace[r] = "marked" THEN Older(wsAge[r], MaxReapAge)
                              ELSE wsAge[r]]
  /\ container' = [r \in Runs |-> IF container[r] \in 1..ContainerLease
                                  THEN container[r] - 1 ELSE container[r]]
  /\ command' = [r \in Runs |-> IF phase[r] = "running" THEN command[r] - 1
                                ELSE command[r]]
  /\ UNCHANGED <<phase, row, workspace, janitor, older, protected, expired>>

ControllerStep(r) ==
  \/ Lease(r) \/ EndContainer(r) \/ EndWork(r) \/ CleanContainers(r)
  \/ CleanWorkspace(r) \/ Settle(r)

CleanupStep ==
  \/ StartCleanup \/ ReapContainers \/ ReadJobs \/ ReadRows \/ SetCutoff \/ EndSweep

Next ==
  \/ Tick \/ CleanupStep \/ ReapFails \/ StopCleanup
  \/ \E r \in Runs : \/ Reserve(r) \/ ControllerStep(r) \/ StartContainer(r)
                     \/ Crash(r) \/ ContainerExits(r) \/ ReapWorkspace(r)

\* Controllers and time go on; the cleanup command is started again and again,
\* and it does not fail every time.
Fairness ==
  /\ WF_vars(Tick)
  /\ \A r \in Runs : WF_vars(ControllerStep(r)) /\ SF_vars(ReapWorkspace(r))
  /\ WF_vars(StartCleanup)
  /\ SF_vars(ReapContainers) /\ SF_vars(ReadJobs) /\ SF_vars(ReadRows)
  /\ SF_vars(SetCutoff) /\ SF_vars(EndSweep)

Spec == Init /\ [][Next]_vars /\ Fairness

-------------------------------------------------------------------------------
\* Properties.

TypeOK ==
  /\ phase \in [Runs -> Live \cup {"idle", "finished", "crashed"}]
  /\ age \in [Runs -> 0..(Horizon + 1)]
  /\ row \in [Runs -> {"none", "reserved", "ended"}]
  /\ workspace \in [Runs -> {"none", "marked", "unmarked", Gone}]
  /\ wsAge \in [Runs -> 0..(MaxReapAge + 1)]
  /\ container \in [Runs -> 0..NoContainer]
  /\ command \in [Runs -> 0..CommandTimeout]
  /\ janitor \in {"idle", "containers", "jobs", "rows", "cutoff", "sweep"}
  /\ older \in 1..MaxReapAge /\ asking \in 0..CleanupTime
  /\ protected \subseteq Runs /\ expired \subseteq Runs

\* The cleanup command never takes the workspace, or the container, of a
\* controller that is at work, however old it is and however far the command
\* got before the controller started.
LiveWorkKept ==
  \A r \in Runs :
    /\ phase[r] \in {"working", "running"} => workspace[r] = "marked"
    /\ phase[r] = "running" => container[r] # NoContainer

\* A workspace is not deleted while a container may still have it mounted, not
\* by its controller, and not by a cleanup command that is told an age beyond
\* the longest run and its own questions.  Below that age the command, which
\* says that it refuses to delete possibly mounted workspaces (cli.py:537),
\* may: it asks for the containers before it reads the rows, and a run that
\* starts its last container and ends between the two is in neither answer.
MountsOutlived ==
  [][\A r \in Runs :
       /\ workspace[r] # Gone /\ workspace'[r] = Gone
       /\ phase'[r] # phase[r] \/ older >= MaxWork + CleanupTime
       => container[r] = NoContainer]_vars

\* What a crashed controller left behind with its marker is reaped in the end.
MarkedIsReaped ==
  \A r \in Runs : phase[r] = "crashed" /\ workspace[r] = "marked"
                    ~> workspace[r] # "marked"

===============================================================================
