--------------------------- MODULE PublicationLedger ---------------------------
(***************************************************************************)
(* Publication slots: PublicationLedger of state.py, with the steps of     *)
(* _run_cycle that call it.  Controllers that share publications.sqlite3   *)
(* first ask, before any work, whether a repository is open for            *)
(* publication (check_available); much later, with a verified patch, they  *)
(* reserve a slot, write to GitHub, and record the pull request.  A slot   *)
(* is spent when it is reserved: the remote write may fail after it was    *)
(* carried out, so no outcome gives the slot back.                         *)
(*                                                                         *)
(* Time is in ticks.  created_at is compared as ISO text, whose order is   *)
(* that of the instants; the model compares the instants.                  *)
(***************************************************************************)
EXTENDS Integers, FiniteSets

CONSTANTS
  Runs,            \* the controllers that are ever started
  Repositories,    \* the configured repositories
  NoRepository,
  NoSlot,          \* the run has no row in publication_slots
  MaxPrsPerWindow, \* publication.max_prs_per_window
  Cooldown,        \* publication.repository_cooldown_days
  WindowLength,    \* of the budget windows
  MaxClockSteps,   \* bound: ticks by which the wall clock is ever stepped
  MaxTime          \* bound: the wall clock stops here

ASSUME PublicationAssumption ==
  /\ IsFiniteSet(Runs)
  /\ NoRepository \notin Repositories
  /\ MaxPrsPerWindow \in Nat \ {0}
  /\ Cooldown \in Nat
  /\ WindowLength \in Nat \ {0}
  /\ MaxClockSteps \in Nat /\ MaxTime \in Nat

\* SQL also looks for the status 'released', which no code writes.
Statuses == {"reserved", "published"}

\* The instants and the windows while the model runs.
Instants == 0..MaxTime
Windows == 0..(MaxTime \div WindowLength)

Slots == [window : Windows, repository : Repositories, status : Statuses,
          createdAt : Instants]

\* What a slot grants, whatever became of it.
Grants == [window : Windows, repository : Repositories, at : Instants]

ASSUME NoSlotIsNotASlot == NoSlot \notin Slots \cup Grants

Phases == {"idle", "selected", "clocked", "slotted", "pr_open",
           "skipped", "denied", "partial", "failed", "done", "crashed"}

VARIABLES
  now,      \* wall clock
  steps,    \* ticks by which the wall clock has been stepped so far
  phase,    \* phase[r]: what controller r is doing
  target,   \* target[r]: the window and the repository that r selected
  stamp,    \* stamp[r]: the `now' of r's call of reserve()
  slots,    \* the publication_slots table
  opened    \* the runs whose pull request exists on GitHub

vars == <<now, steps, phase, target, stamp, slots, opened>>

-------------------------------------------------------------------------------
\* PublicationLedger.

WindowKey(t) == t \div WindowLength

\* The runs whose row counts against a cap or a cooldown.
Held == {r \in Runs : slots[r] # NoSlot /\ slots[r].status # "released"}

\* Bug: a slot counts only once its pull request has been recorded.
HeldOncePublished(w) ==
  {r \in Held : slots[r].window = w /\ slots[r].status = "published"}

HeldInWindow(w) == {r \in Held : slots[r].window = w}

\* Bug: a row from the future is no obstacle.
CoolingFromThePast(repo, at) ==
  \E r \in Held :
    /\ slots[r].repository = repo
    /\ at - Cooldown <= slots[r].createdAt /\ slots[r].createdAt <= at

\* created_at BETWEEN now - cooldown AND now, or created_at > now.
Cooling(repo, at) ==
  \E r \in Held :
    /\ slots[r].repository = repo
    /\ \/ at - Cooldown <= slots[r].createdAt /\ slots[r].createdAt <= at
       \/ slots[r].createdAt > at

\* Bug: only the cap is checked.
IsBelowCap(w, repo, at) == Cardinality(HeldInWindow(w)) < MaxPrsPerWindow

\* _assert_available: the checks that check_available() and reserve() share.
IsAvailable(w, repo, at) ==
  /\ Cardinality(HeldInWindow(w)) < MaxPrsPerWindow
  /\ ~Cooling(repo, at)

-------------------------------------------------------------------------------
\* The controllers.

Init ==
  /\ now = 0
  /\ steps = 0
  /\ phase = [r \in Runs |-> "idle"]
  /\ target = [r \in Runs |-> [window |-> 0, repository |-> NoRepository]]
  /\ stamp = [r \in Runs |-> 0]
  /\ slots = [r \in Runs |-> NoSlot]
  /\ opened = {}

Enter(r, p) == phase' = [phase EXCEPT ![r] = p]

\* The publication preflight: the first eligible candidate, in the order of
\* their ranks, whose repository is open for publication.  Every order of the
\* eligible repositories is possible.
Preflight(r) ==
  /\ phase[r] = "idle"
  /\ \E eligible \in SUBSET Repositories :
       LET open == {repo \in eligible : IsAvailable(WindowKey(now), repo, now)}
       IN \/ \E repo \in open :
               /\ target' = [target EXCEPT ![r] =
                     [window |-> WindowKey(now), repository |-> repo]]
               /\ Enter(r, "selected")
          \/ /\ open = {}
             /\ Enter(r, "skipped")
             /\ UNCHANGED target
  /\ UNCHANGED <<now, steps, stamp, slots, opened>>

\* The run ends before it asks for a slot: its work, its tests, its review or
\* one of its upstream checks failed.
FailEarly(r) ==
  /\ phase[r] = "selected"
  /\ Enter(r, "failed")
  /\ UNCHANGED <<now, steps, target, stamp, slots, opened>>

\* reserve() reads the clock, and then waits for SQLite's write lock.
ReadClock(r) ==
  /\ phase[r] = "selected"
  /\ stamp' = [stamp EXCEPT ![r] = now]
  /\ Enter(r, "clocked")
  /\ UNCHANGED <<now, steps, target, slots, opened>>

NewSlot(r) ==
  [window     |-> target[r].window,
   repository |-> target[r].repository,
   status     |-> "reserved",
   createdAt  |-> stamp[r]]

\* The transaction of reserve().
Reserve(r) ==
  /\ phase[r] = "clocked"
  /\ slots[r] = NoSlot
  /\ \/ /\ IsAvailable(target[r].window, target[r].repository, stamp[r])
        /\ slots' = [slots EXCEPT ![r] = NewSlot(r)]
        /\ Enter(r, "slotted")
     \/ /\ ~IsAvailable(target[r].window, target[r].repository, stamp[r])
        /\ Enter(r, "denied")
        /\ UNCHANGED slots
  /\ UNCHANGED <<now, steps, target, stamp, opened>>

\* The transaction of reserve() when the run has a row: nothing is inserted.
ReserveAgain(r) ==
  /\ phase[r] = "clocked"
  /\ slots[r] # NoSlot
  /\ Enter(r, "slotted")
  /\ UNCHANGED <<now, steps, target, stamp, slots, opened>>

\* A caller of reserve() that calls it a second time, as tests/test_state.py
\* does; the orchestrator calls it once.
CallAgain(r) ==
  /\ phase[r] = "slotted"
  /\ stamp' = [stamp EXCEPT ![r] = now]
  /\ Enter(r, "clocked")
  /\ UNCHANGED <<now, steps, target, slots, opened>>

\* SQLite's lock stays busy for too long.
LockTimeout(r) ==
  /\ phase[r] = "clocked"
  /\ Enter(r, "failed")
  /\ UNCHANGED <<now, steps, target, stamp, slots, opened>>

\* publish() opens the draft pull request, or fails before GitHub carried the
\* write out, or fails after it: a lost answer, a failed verification.
Publish(r) ==
  /\ phase[r] = "slotted"
  /\ \/ opened' = opened \cup {r} /\ Enter(r, "pr_open")
     \/ opened' = opened \cup {r} /\ Enter(r, "partial")
     \/ UNCHANGED opened /\ Enter(r, "partial")
  /\ UNCHANGED <<now, steps, target, stamp, slots>>

\* Bug: a slot is recorded as published although publish() failed.
FinishAnyway(r) ==
  /\ phase[r] \in {"pr_open", "partial"}
  /\ slots' = [slots EXCEPT ![r].status = "published"]
  /\ Enter(r, "done")
  /\ UNCHANGED <<now, steps, target, stamp, opened>>

\* finish() records the pull request, or SQLite fails and the row stays.
Finish(r) ==
  /\ phase[r] = "pr_open"
  /\ \/ /\ slots' = [slots EXCEPT ![r].status = "published"]
        /\ Enter(r, "done")
     \/ /\ Enter(r, "partial")
        /\ UNCHANGED slots
  /\ UNCHANGED <<now, steps, target, stamp, opened>>

\* The controller is killed.
Crash(r) ==
  /\ phase[r] \in {"selected", "clocked", "slotted", "pr_open"}
  /\ Enter(r, "crashed")
  /\ UNCHANGED <<now, steps, target, stamp, slots, opened>>

Tick ==
  /\ now < MaxTime
  /\ now' = now + 1
  /\ UNCHANGED <<steps, phase, target, stamp, slots, opened>>

\* The wall clock is stepped forward or back.
StepClock ==
  /\ steps < MaxClockSteps
  /\ steps' = steps + 1
  /\ \/ now < MaxTime /\ now' = now + 1
     \/ now > 0 /\ now' = now - 1
  /\ UNCHANGED <<phase, target, stamp, slots, opened>>

RunNext(r) ==
  \/ Preflight(r) \/ FailEarly(r) \/ ReadClock(r) \/ Reserve(r)
  \/ ReserveAgain(r) \/ CallAgain(r) \/ LockTimeout(r) \/ Publish(r)
  \/ Finish(r) \/ Crash(r)

Next == Tick \/ StepClock \/ \E r \in Runs : RunNext(r)

Spec == Init /\ [][Next]_vars

-------------------------------------------------------------------------------
\* Properties.

Targets == [window : Windows, repository : Repositories \cup {NoRepository}]

TypeOK ==
  /\ now \in Instants
  /\ steps \in 0..MaxClockSteps
  /\ phase \in [Runs -> Phases]
  /\ target \in [Runs -> Targets]
  /\ stamp \in [Runs -> Instants]
  /\ slots \in [Runs -> Slots \cup {NoSlot}]
  /\ opened \subseteq Runs

\* No more pull requests of one budget window exist on GitHub than
\* publication.max_prs_per_window allows, although every run passed its
\* preflight before any other took its slot, and although a run that reports
\* a failure may have opened its pull request.
OpenedWithinCap ==
  \A w \in {target[r].window : r \in opened} :
    Cardinality({r \in opened : target[r].window = w}) <= MaxPrsPerWindow

\* Two pull requests for one repository come from slots more than a cooldown
\* apart, whatever order the ledger's transactions ran in and however the
\* clock was stepped between the reading of `now' and the transaction.
OpenedApart ==
  \A r, s \in opened :
    r # s /\ target[r].repository = target[s].repository
      => \/ slots[r].createdAt - slots[s].createdAt > Cooldown
         \/ slots[s].createdAt - slots[r].createdAt > Cooldown

\* A row that says 'published' is of a run that did open its pull request.
PublishedIsOpen ==
  \A r \in Runs : slots[r] # NoSlot /\ slots[r].status = "published"
                    => r \in opened

\* The grant that r's row stands for.
GrantOf(r) ==
  IF slots[r] = NoSlot \/ slots[r].status = "released" THEN NoSlot
  ELSE [window     |-> slots[r].window,
        repository |-> slots[r].repository,
        at         |-> slots[r].createdAt]

Calendar == INSTANCE PublicationCalendar WITH
  Holders  <- Runs,
  NoGrant  <- NoSlot,
  Cap      <- MaxPrsPerWindow,
  granted  <- [r \in Runs |-> GrantOf(r)]

\* The ledger implements the calendar of grants: a slot is granted only when
\* the cap and the cooldown allow it, and it is never taken back or changed.
ImplementsCalendar == Calendar!Spec

===============================================================================
