----------------------------- MODULE BudgetLedger -----------------------------
(***************************************************************************)
(* Budget admission: BudgetGate and BudgetLedger of budget.py, with the    *)
(* part of the orchestrator that calls them.  Any number of controllers    *)
(* share budget.sqlite3.  Each one reads the quota (a snapshot), spends    *)
(* an unbounded time discovering issues, asks the ledger for a             *)
(* reservation, works until its deadline, cleans up and records its        *)
(* outcome; each one can crash at any point.                               *)
(*                                                                         *)
(* Time is in units of an arbitrary tick.  `now' is the wall clock that    *)
(* the snapshots and the rows carry; it may be stepped by the system's     *)
(* administrator.  `left' is the monotonic time a controller may still     *)
(* spend in its phase.                                                     *)
(***************************************************************************)
EXTENDS Integers, LedgerSums

CONSTANTS
  MaxRuns,           \* how many controllers are ever started
  Readings,          \* what the quota source may report: tokens or Unknown
  Unknown,           \* the quota source reported nothing
  NoRow,             \* the run has no row in the reservations table
  Amounts,           \* ceil(estimated_tokens_p95 * safety_multiplier) of a run
  MaximumTokens,     \* budget.maximum_tokens
  ReserveTokens,     \* budget.reserve_tokens
  MinimumSpendable,  \* budget.minimum_spendable_tokens
  WindowLength,      \* a day or a week
  MaxRunTime,        \* budget.max_run_seconds
  ResetSafety,       \* budget.reset_safety_seconds
  SnapshotMaxAge,    \* 300 seconds
  SnapshotMaxSkew,   \* 60 seconds
  CompletionGrace,   \* _CONTROLLER_COMPLETION_GRACE_SECONDS
  AdmissionDelay,    \* bound: freshness check to deadline (SQLite's busy timeout)
  CleanupDelay,      \* bound: deadline to recorded outcome (clean-up commands)
  MaxClockSteps,     \* bound: ticks by which the wall clock is ever stepped
  MaxTime            \* bound: the wall clock stops here

Runs == 1..MaxRuns

ASSUME BudgetAssumption ==
  /\ MaxRuns \in Nat
  /\ Unknown \notin Int
  /\ Readings \subseteq Int \cup {Unknown}
  /\ Amounts \subseteq Nat \ {0}
  /\ MaximumTokens \in Nat /\ ReserveTokens \in Nat /\ MinimumSpendable \in Nat
  /\ WindowLength \in Nat \ {0}
  /\ MaxRunTime \in Nat /\ ResetSafety \in Nat /\ CompletionGrace \in Nat
  /\ SnapshotMaxAge \in Nat /\ SnapshotMaxSkew \in Nat
  /\ AdmissionDelay \in Nat /\ CleanupDelay \in Nat
  /\ MaxClockSteps \in Nat /\ MaxTime \in Nat

\* The safety margin is larger than what the wall clock is ever stepped by.
ASSUME SafetyCoversSteps == MaxClockSteps < ResetSafety

\* The completion grace covers everything that the run time does not.
ASSUME GraceCoversDelays ==
  SnapshotMaxAge + AdmissionDelay + CleanupDelay + MaxClockSteps
    <= ResetSafety + CompletionGrace

\* 'reserved', or the stage that finish() records.  SQL also looks for
\* 'released', which no code writes.
Statuses == {"reserved", "ended"}

Rows ==
  [window : Nat, tokens : Nat, status : Statuses, createdAt : Nat]

ASSUME NoRowIsNotARow == NoRow \notin Rows

Phases == {"idle", "discovering", "checked", "reserved", "working",
           "cleaning", "finished", "deferred", "failed", "crashed"}

VARIABLES
  now,     \* wall clock
  steps,   \* ticks by which the wall clock has been stepped so far
  phase,   \* phase[r]: what controller r is doing
  snap,    \* snap[r]: the quota snapshot that r took
  left,    \* left[r]: monotonic time that r may still spend in its phase
  rows     \* the reservations table

vars == <<now, steps, phase, snap, left, rows>>

-------------------------------------------------------------------------------
\* Windows.

\* budget_window_key: the window that holds the instant t.
WindowKey(t) == t \div WindowLength

\* The windows that begin while the model runs.
Windows == 0..(MaxTime \div WindowLength)

\* BudgetGate.next_reset: the first reset after the instant t.
NextReset(t) == (WindowKey(t) + 1) * WindowLength

-------------------------------------------------------------------------------
\* BudgetGate.

MaxOf(a, b) == IF a >= b THEN a ELSE b
MinOf(a, b) == IF a <= b THEN a ELSE b

\* Bug: a reading above budget.maximum_tokens is accepted.
UsableAboveMaximum(reading) == reading # Unknown /\ reading >= 0

\* The readings from which BudgetGate.snapshot makes a usable snapshot.  It
\* raises BudgetError on the others, or can_start refuses an unknown quota.
Usable(reading) ==
  /\ reading # Unknown
  /\ reading >= 0
  /\ reading <= MaximumTokens

Snapshot(reading, amount) ==
  [spendable  |-> MaxOf(0, reading - ReserveTokens),
   amount     |-> amount,
   observedAt |-> now,
   resetsAt   |-> NextReset(now)]

Required(amount) == MaxOf(MinimumSpendable, amount)

CanStart(s) ==
  /\ s.spendable >= Required(s.amount)
  /\ s.resetsAt - s.observedAt >= MaxRunTime + ResetSafety

-------------------------------------------------------------------------------
\* BudgetLedger.

\* The tokens that the row of run k takes from window w.
Charge(w) ==
  [k \in Nat |-> IF /\ k \in Runs
                    /\ rows[k] # NoRow
                    /\ rows[k].window = w
                    /\ rows[k].status # "released"
                 THEN rows[k].tokens
                 ELSE 0]

\* reserved_tokens(window_key): SELECT SUM(reserved_tokens) ...
Used(w) == SumUpTo(Charge(w))[MaxRuns]

\* Bug: the time after the deadline is forgotten.
LiveHorizonToDeadline == MaxRunTime + ResetSafety

\* active_run_ids(): the runs whose controller may still be alive.
LiveHorizon == MaxRunTime + ResetSafety + CompletionGrace

ActiveRunIds ==
  {r \in Runs : /\ rows[r] # NoRow
                /\ rows[r].status = "reserved"
                /\ \/ rows[r].createdAt > now
                   \/ now - rows[r].createdAt <= LiveHorizon}

\* The checks that reserve() makes before it opens its transaction.
Fresh(s) ==
  /\ now - s.observedAt >= -SnapshotMaxSkew
  /\ now - s.observedAt <= SnapshotMaxAge
  /\ WindowKey(now) = WindowKey(s.observedAt)
  /\ s.resetsAt - now >= MaxRunTime + ResetSafety

\* Bug: what other runs have reserved meanwhile is ignored.
AvailableToItself(s) == s.spendable

\* What the transaction finds unreserved in the window of the snapshot.
Available(s) == MaxOf(0, s.spendable - Used(WindowKey(s.observedAt)))

ReservedRow(s) ==
  [window    |-> WindowKey(s.observedAt),
   tokens    |-> s.amount,
   status    |-> "reserved",
   createdAt |-> s.observedAt]

-------------------------------------------------------------------------------
\* The controllers.

Init ==
  /\ now = 0
  /\ steps = 0
  /\ phase = [r \in Runs |-> "idle"]
  /\ snap = [r \in Runs |-> [spendable |-> 0, amount |-> 0,
                             observedAt |-> 0, resetsAt |-> 0]]
  /\ left = [r \in Runs |-> 0]
  /\ rows = [r \in Runs |-> NoRow]

\* The controller is gone: nothing bounds its time any more.
Stop(r, how) ==
  /\ phase' = [phase EXCEPT ![r] = how]
  /\ left' = [left EXCEPT ![r] = 0]

\* Phases that the code or an assumption on the environment bounds in time.
Timed(r) == phase[r] \in {"checked", "reserved", "working", "cleaning"}

\* Runs are numbered in the order in which they start.
MayStart(r) == phase[r] = "idle" /\ \A k \in Runs : k < r => phase[k] # "idle"

\* A controller starts: it takes a snapshot and asks can_start().
Observe(r) ==
  /\ MayStart(r)
  /\ \E reading \in Readings, amount \in Amounts :
       \/ /\ Usable(reading) /\ CanStart(Snapshot(reading, amount))
          /\ snap' = [snap EXCEPT ![r] = Snapshot(reading, amount)]
          /\ phase' = [phase EXCEPT ![r] = "discovering"]
       \/ /\ ~(Usable(reading) /\ CanStart(Snapshot(reading, amount)))
          /\ phase' = [phase EXCEPT ![r] = "deferred"]
          /\ UNCHANGED snap
  /\ UNCHANGED <<now, steps, left, rows>>

\* reserve() as far as BEGIN IMMEDIATE: the snapshot must still be fresh.
Check(r) ==
  /\ phase[r] = "discovering"
  /\ \/ /\ Fresh(snap[r])
        /\ phase' = [phase EXCEPT ![r] = "checked"]
        /\ left' = [left EXCEPT ![r] = AdmissionDelay]
     \/ /\ ~Fresh(snap[r])
        /\ Stop(r, "deferred")
  /\ UNCHANGED <<now, steps, snap, rows>>

\* The transaction of reserve(), for a run that has no row yet.
Reserve(r) ==
  /\ phase[r] = "checked"
  /\ rows[r] = NoRow
  /\ \/ /\ Available(snap[r]) >= Required(snap[r].amount)
        /\ rows' = [rows EXCEPT ![r] = ReservedRow(snap[r])]
        /\ phase' = [phase EXCEPT ![r] = "reserved"]
        /\ UNCHANGED left
     \/ /\ Available(snap[r]) < Required(snap[r].amount)
        /\ Stop(r, "deferred")
        /\ UNCHANGED rows
  /\ UNCHANGED <<now, steps, snap>>

\* The transaction of reserve(), for a run that already has its row: the
\* ledger answers with that row.
ReserveAgain(r) ==
  /\ phase[r] = "checked"
  /\ rows[r] # NoRow
  /\ phase' = [phase EXCEPT ![r] = "reserved"]
  /\ UNCHANGED <<now, steps, snap, left, rows>>

\* SQLite's lock stays busy for too long: sqlite3.Error ends the run.
LockTimeout(r) ==
  /\ phase[r] = "checked"
  /\ Stop(r, "failed")
  /\ UNCHANGED <<now, steps, snap, rows>>

\* A caller of reserve() that calls it a second time, as
\* tests/test_budget.py does; the orchestrator calls it once.
CallAgain(r) ==
  /\ phase[r] = "reserved"
  /\ Fresh(snap[r])
  /\ phase' = [phase EXCEPT ![r] = "checked"]
  /\ left' = [left EXCEPT ![r] = AdmissionDelay]
  /\ UNCHANGED <<now, steps, snap, rows>>

\* Bug: the run may use the safety margin before the reset.
RunTimeToReset(r) == MinOf(MaxRunTime, snap[r].resetsAt - now)

\* The orchestrator sets the run's deadline.  When no time is left it returns
\* at once, and the row keeps the status 'reserved'.
RunTime(r) == MinOf(MaxRunTime, snap[r].resetsAt - now - ResetSafety)

\* Bug: the run begins although its deadline has passed.
BeginTooLate(r) ==
  /\ phase[r] = "reserved"
  /\ phase' = [phase EXCEPT ![r] = "working"]
  /\ left' = [left EXCEPT ![r] = RunTime(r)]
  /\ UNCHANGED <<now, steps, snap, rows>>

Begin(r) ==
  /\ phase[r] = "reserved"
  /\ \/ /\ RunTime(r) >= 1
        /\ phase' = [phase EXCEPT ![r] = "working"]
        /\ left' = [left EXCEPT ![r] = RunTime(r)]
     \/ /\ RunTime(r) < 1
        /\ Stop(r, "deferred")
  /\ UNCHANGED <<now, steps, snap, rows>>

\* The work ends, at the latest when the deadline kills the last command.
EndWork(r) ==
  /\ phase[r] = "working"
  /\ phase' = [phase EXCEPT ![r] = "cleaning"]
  /\ left' = [left EXCEPT ![r] = CleanupDelay]
  /\ UNCHANGED <<now, steps, snap, rows>>

\* finish(run_id, status) records the outcome.  The orchestrator ignores an
\* error of the ledger here, and then the row stays as it is.
Finish(r) ==
  /\ phase[r] = "cleaning"
  /\ Stop(r, "finished")
  /\ \/ rows' = [rows EXCEPT ![r].status = "ended"]
     \/ UNCHANGED rows
  /\ UNCHANGED <<now, steps, snap>>

\* The controller is killed.
Crash(r) ==
  /\ phase[r] \in {"discovering", "checked", "reserved", "working", "cleaning"}
  /\ Stop(r, "crashed")
  /\ UNCHANGED <<now, steps, snap, rows>>

\* Time passes.  No controller overstays its phase.
Tick ==
  /\ now < MaxTime
  /\ \A r \in Runs : Timed(r) => left[r] > 0
  /\ now' = now + 1
  /\ left' = [r \in Runs |-> IF Timed(r) THEN left[r] - 1 ELSE left[r]]
  /\ UNCHANGED <<steps, phase, snap, rows>>

\* The wall clock is stepped forward or back; monotonic time is not.
StepClock ==
  /\ steps < MaxClockSteps
  /\ steps' = steps + 1
  /\ \/ now < MaxTime /\ now' = now + 1
     \/ now > 0 /\ now' = now - 1
  /\ UNCHANGED <<phase, snap, left, rows>>

RunNext(r) ==
  \/ Observe(r) \/ Check(r) \/ Reserve(r) \/ ReserveAgain(r) \/ LockTimeout(r)
  \/ CallAgain(r) \/ Begin(r) \/ EndWork(r) \/ Finish(r) \/ Crash(r)

Next == Tick \/ StepClock \/ \E r \in Runs : RunNext(r)

Spec == Init /\ [][Next]_vars

-------------------------------------------------------------------------------
\* Properties.

Instant == 0..MaxTime

SnapshotType ==
  [spendable : Nat, amount : Nat, observedAt : Nat, resetsAt : Nat]

TypeOK ==
  /\ now \in Instant
  /\ steps \in 0..MaxClockSteps
  /\ phase \in [Runs -> Phases]
  /\ snap \in [Runs -> SnapshotType]
  /\ left \in [Runs -> Nat]
  /\ rows \in [Runs -> Rows \cup {NoRow}]

\* No quota is spent twice: whatever the interleaving of the controllers, the
\* whole of what a window holds in reservations was spendable in the snapshot
\* of one run that took its reservation from that window
\* (docs/BUDGET_ADAPTERS.md, "Stateful reservations").
WindowCovered ==
  \A w \in Windows :
    Used(w) > 0 => \E r \in Runs : /\ rows[r] # NoRow
                                   /\ rows[r].window = w
                                   /\ Used(w) <= snap[r].spendable

\* A controller that may still run agents does so before the reset of the
\* window that its row is charged to, although its snapshot may have aged and
\* the wall clock may have been stepped since (run_seconds in _run_cycle).
WorkEndsBeforeReset ==
  \A r \in Runs : phase[r] = "working" => now < snap[r].resetsAt

\* The `cleanup' command takes every controller that is working or cleaning
\* up for alive, so that it never deletes the workspace of one.
LiveRunsProtected ==
  \A r \in Runs : phase[r] \in {"reserved", "working", "cleaning"}
                   => r \in ActiveRunIds

\* The ledger implements the abstract envelope: no window is ever charged more
\* than budget.maximum_tokens without the reserve, in whatever order and on
\* whatever snapshots the controllers are admitted; and no charge is given back,
\* neither by a failure, nor by a crash, nor by a recorded outcome.
Envelope == INSTANCE QuotaEnvelope WITH
  Windows <- Windows,
  Charges <- Amounts,
  Limit   <- MaxOf(0, MaximumTokens - ReserveTokens),
  charged <- [w \in Windows |-> Used(w)]

ImplementsEnvelope == Envelope!Spec

===============================================================================
