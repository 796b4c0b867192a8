------------------------------- MODULE RunLock --------------------------------
(***************************************************************************)
(* The run lock of scripts/run-cycle.sh, the scheduler's one entry point:  *)
(* a kernel lock on a file, taken without waiting, whose descriptor the    *)
(* controller inherits over exec.  Cycles that are started by hand, and    *)
(* rehearsals, do not take it.  The controller's own commands do not       *)
(* inherit the descriptor: subprocess closes it.                           *)
(***************************************************************************)
CONSTANTS Cycles, None

ASSUME RunLockAssumption == None \notin Cycles

VARIABLES
  process,    \* process[c]: where c's process is
  scheduled,  \* the cycles that the scheduler starts
  lock        \* the cycle whose process has the lock's descriptor

lockVars == <<process, scheduled, lock>>

LockInit ==
  /\ process = [c \in Cycles |-> "idle"]
  /\ scheduled \in SUBSET Cycles
  /\ lock = None

GoOn(c, p) == process' = [process EXCEPT ![c] = p] /\ UNCHANGED scheduled

\* The kernel closes the descriptors of a process that ends.
Closed(c) == lock' = IF lock = c THEN None ELSE lock

Start(c) ==
  /\ process[c] = "idle"
  /\ GoOn(c, IF c \in scheduled THEN "opened" ELSE "working")
  /\ UNCHANGED lock

\* flock with LOCK_EX and LOCK_NB; the cycle that finds it taken exits cleanly.
TakeLock(c) ==
  /\ process[c] = "opened"
  /\ \/ lock = None /\ lock' = c /\ GoOn(c, "locked")
     \/ lock # None /\ UNCHANGED lock /\ GoOn(c, "turned away")

\* Bug: the descriptor is not inheritable, and exec closes it.
ExecClosing(c) == process[c] = "locked" /\ GoOn(c, "working") /\ Closed(c)

\* execve, which keeps the inheritable descriptor; when it fails, the process
\* ends.
Exec(c) ==
  /\ process[c] = "locked"
  /\ \/ GoOn(c, "working") /\ UNCHANGED lock
     \/ GoOn(c, "ended") /\ Closed(c)

\* The controller's process ends by itself ...
End(c) == process[c] = "working" /\ GoOn(c, "ended") /\ Closed(c)

\* ... or any of the processes is killed.
Alive == {"opened", "locked", "working"}
Kill(c) == process[c] \in Alive /\ GoOn(c, "ended") /\ Closed(c)

\* The machine stops: no process and no kernel lock is left.
StopAll ==
  /\ process' = [c \in Cycles |-> IF process[c] \in Alive THEN "ended" ELSE process[c]]
  /\ lock' = None
  /\ UNCHANGED scheduled

-------------------------------------------------------------------------------
LockTypeOK ==
  /\ process \in [Cycles -> Alive \cup {"idle", "turned away", "ended"}]
  /\ scheduled \subseteq Cycles
  /\ lock \in Cycles \cup {None}

\* The lock protects the complete process lifetime, over exec, and no stale
\* lock is left by a process that ended in whichever way (run-cycle.sh:81): a
\* scheduled cycle works only while it has the lock, and whoever turns the
\* next one away is alive.
LockMeansLife ==
  /\ \A c \in scheduled : process[c] \in {"locked", "working"} => lock = c
  /\ lock # None => lock \in scheduled /\ process[lock] \in {"locked", "working"}
===============================================================================
