-------------------------------- MODULE Cycles --------------------------------
(***************************************************************************)
(* The processes that run cycles: RunLock says when they start, end or     *)
(* die, Rehearsal what one of them, Self, does and leaves in its journal.  *)
(* The journals of the others are files of their own.                      *)
(***************************************************************************)
EXTENDS RunLock, Rehearsal

CONSTANT Self

ASSUME CyclesAssumption == Self \in Cycles

vars == <<lockVars, runVars>>

Init == LockInit /\ RunInit

\* The script, up to the controller's first step.
Script(c) ==
  /\ Start(c) \/ TakeLock(c) \/ Exec(c)
  /\ UNCHANGED runVars

\* The controller.  When its cycle is over, the process ends.
Controller ==
  /\ process[Self] = "working" /\ pc # "over"
  /\ RunStep /\ UNCHANGED lockVars

Leave(c) ==
  /\ c = Self => pc = "over"
  /\ End(c) /\ UNCHANGED runVars

\* A process is killed: before exec there is no run yet.
Killed(c) ==
  /\ Kill(c)
  /\ IF c = Self /\ process[c] = "working" THEN RunKilled ELSE UNCHANGED runVars

Reboot ==
  /\ \E c \in Cycles : process[c] \in Alive
  /\ StopAll
  /\ IF process[Self] = "working" THEN RunLost ELSE UNCHANGED runVars

Next ==
  \/ Controller \/ Reboot
  \/ \E c \in Cycles : Script(c) \/ Leave(c) \/ Killed(c)

Spec == Init /\ [][Next]_vars

TypeOK == LockTypeOK /\ RunTypeOK
===============================================================================
