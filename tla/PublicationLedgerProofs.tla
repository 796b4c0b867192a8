------------------------ MODULE PublicationLedgerProofs ------------------------
(***************************************************************************)
(* Proofs about PublicationLedger, for every finite set of controllers,    *)
(* every set of repositories, every cap, cooldown and window length.       *)
(***************************************************************************)
EXTENDS PublicationLedger, FiniteSetTheorems, TLAPS

-------------------------------------------------------------------------------
\* A later instant lies in the same window or in a later one.
LEMMA WindowsInOrder ==
  ASSUME NEW t \in Nat, NEW m \in Nat, t <= m, NEW L \in Nat \ {0}
  PROVE  t \div L \in Nat /\ t \div L <= m \div L
<1> DEFINE a == t \div L
           b == m \div L
<1>1. a \in Nat /\ b \in Nat
  OBVIOUS
<1>2. L * a <= t /\ m < L * (b + 1)
  OBVIOUS
<1> HIDE DEF a, b
<1>3. ASSUME b + 1 <= a PROVE FALSE
  <2>1. L * (b + 1) <= L * a
    BY <1>1, <1>3
  <2>2. L * (b + 1) \in Int /\ L * a \in Int
    BY <1>1
  <2> QED BY <1>2, <2>1, <2>2
<1>4. a <= b
  BY <1>1, <1>3
<1> QED BY <1>1, <1>4 DEF a, b

-------------------------------------------------------------------------------
\* The inductive invariant.

HasSlot(r) == slots[r] # NoSlot

\* What a run's phase says of its row, of its target and of its pull request.
RunsInv ==
  \A r \in Runs :
    /\ phase[r] \in {"selected", "clocked", "slotted", "pr_open"}
         => target[r].repository \in Repositories
    /\ phase[r] \in {"idle", "selected"} => ~HasSlot(r)
    /\ phase[r] \in {"slotted", "pr_open"} => HasSlot(r)
    /\ phase[r] = "pr_open" => r \in opened
    /\ r \in opened => HasSlot(r)
    /\ HasSlot(r) => /\ slots[r].window = target[r].window
                     /\ slots[r].repository = target[r].repository
                     /\ slots[r].status = "published" => r \in opened

CapInv == \A w \in Windows : Cardinality(HeldInWindow(w)) <= MaxPrsPerWindow

Apart(s, t) == s - t > Cooldown \/ t - s > Cooldown

ApartInv ==
  \A r, s \in Runs :
    r # s /\ HasSlot(r) /\ HasSlot(s) /\ slots[r].repository = slots[s].repository
      => Apart(slots[r].createdAt, slots[s].createdAt)

IInv == TypeOK /\ RunsInv /\ CapInv /\ ApartInv

\* Every row counts: no row is 'released'.
LEMMA EveryRowCounts ==
  ASSUME TypeOK
  PROVE  /\ Held = {r \in Runs : HasSlot(r)}
         /\ \A w : HeldInWindow(w) = {r \in Runs : HasSlot(r) /\ slots[r].window = w}
         /\ \A r \in Runs : HasSlot(r) => slots[r] \in Slots /\ slots[r].status # "released"
<1>1. \A r \in Runs : HasSlot(r) => slots[r] \in Slots
  BY DEF TypeOK, HasSlot
<1>2. \A r \in Runs : HasSlot(r) => slots[r].status # "released"
  BY <1>1 DEF Slots, Statuses
<1> QED BY <1>1, <1>2 DEF Held, HasSlot, HeldInWindow

LEMMA CountType ==
  ASSUME TypeOK, NEW w
  PROVE  IsFiniteSet(HeldInWindow(w)) /\ Cardinality(HeldInWindow(w)) \in Nat
<1>1. HeldInWindow(w) \subseteq Runs /\ IsFiniteSet(Runs)
  BY PublicationAssumption DEF HeldInWindow, Held
<1> QED BY <1>1, FS_Subset, FS_CardinalityType

-------------------------------------------------------------------------------
\* Steps.

LEMMA WindowKeyType ==
  ASSUME NEW t \in Instants
  PROVE  WindowKey(t) \in Windows
<1>1. t \in Nat /\ MaxTime \in Nat /\ WindowLength \in Nat \ {0} /\ t <= MaxTime
  BY PublicationAssumption DEF Instants
<1>2. t \div WindowLength \in Nat /\ t \div WindowLength <= MaxTime \div WindowLength
  BY <1>1, WindowsInOrder
<1>3. MaxTime \div WindowLength \in Nat
  BY <1>1
<1> QED BY <1>2, <1>3 DEF WindowKey, Windows

LEMMA InvInit ==
  ASSUME Init
  PROVE  IInv
<1>1. \A r \in Runs : ~HasSlot(r)
  BY DEF Init, HasSlot
<1>2. TypeOK
  <2>1. 0 \in Instants /\ 0 \in 0..MaxClockSteps
    BY PublicationAssumption DEF Instants
  <2>2. 0 \in Windows
    <3>1. WindowKey(0) \in Windows
      BY <2>1, WindowKeyType
    <3>2. MaxTime \div WindowLength \in Nat
      BY PublicationAssumption
    <3> QED BY <3>2 DEF Windows
  <2> QED BY <2>1, <2>2 DEF Init, TypeOK, Targets, Phases
<1>3. RunsInv
  BY <1>1 DEF RunsInv, Init
<1>4. CapInv
  <2> SUFFICES ASSUME NEW w \in Windows
               PROVE  Cardinality(HeldInWindow(w)) <= MaxPrsPerWindow
    BY DEF CapInv
  <2>1. HeldInWindow(w) = {}
    BY <1>1 DEF HeldInWindow, Held, HasSlot
  <2> QED BY <2>1, FS_EmptySet, PublicationAssumption
<1>5. ApartInv
  BY <1>1 DEF ApartInv
<1> QED BY <1>2, <1>3, <1>4, <1>5 DEF IInv

\* Every step types the state.
LEMMA TypeStep ==
  ASSUME TypeOK, RunsInv, [Next]_vars
  PROVE  TypeOK'
<1>1. CASE UNCHANGED vars
  BY <1>1 DEF vars, TypeOK
<1>2. CASE Tick \/ StepClock
  <2>1. now' \in Instants /\ steps' \in 0..MaxClockSteps
    BY <1>2, PublicationAssumption DEF Tick, StepClock, TypeOK, Instants
  <2> QED BY <1>2, <2>1 DEF Tick, StepClock, TypeOK
<1>3. ASSUME NEW r \in Runs, Preflight(r) PROVE TypeOK'
  <2>1. WindowKey(now) \in Windows
    BY WindowKeyType DEF TypeOK
  <2>2. target' \in [Runs -> Targets]
    <3>1. ASSUME NEW repo \in Repositories,
                 target' = [target EXCEPT ![r] =
                     [window |-> WindowKey(now), repository |-> repo]]
          PROVE  target' \in [Runs -> Targets]
      BY <2>1, <3>1 DEF TypeOK, Targets
    <3> QED BY <1>3, <3>1 DEF Preflight, TypeOK
  <2>3. phase' \in [Runs -> Phases]
    BY <1>3 DEF Preflight, Enter, TypeOK, Phases
  <2> QED BY <1>3, <2>2, <2>3 DEF Preflight, TypeOK
<1>4. ASSUME NEW r \in Runs, Reserve(r) PROVE TypeOK'
  <2>1. phase' \in [Runs -> Phases]
    BY <1>4 DEF Reserve, Enter, TypeOK, Phases
  <2>2. NewSlot(r) \in Slots
    BY <1>4 DEF NewSlot, Reserve, RunsInv, Slots, Statuses, TypeOK, Targets
  <2>3. slots' \in [Runs -> Slots \cup {NoSlot}]
    BY <1>4, <2>2 DEF Reserve, TypeOK
  <2> QED BY <1>4, <2>1, <2>3 DEF Reserve, TypeOK
<1>5. ASSUME NEW r \in Runs, Finish(r) PROVE TypeOK'
  <2>1. phase' \in [Runs -> Phases]
    BY <1>5 DEF Finish, Enter, TypeOK, Phases
  <2>2. slots[r] \in Slots
    BY <1>5 DEF Finish, RunsInv, HasSlot, TypeOK
  <2>3. [slots[r] EXCEPT !.status = "published"] \in Slots
    BY <2>2 DEF Slots, Statuses
  <2>4. slots' \in [Runs -> Slots \cup {NoSlot}]
    BY <1>5, <2>3 DEF Finish, TypeOK
  <2> QED BY <1>5, <2>1, <2>4 DEF Finish, TypeOK
<1>6. ASSUME NEW r \in Runs,
             FailEarly(r) \/ ReadClock(r) \/ ReserveAgain(r) \/ CallAgain(r)
               \/ LockTimeout(r) \/ Publish(r) \/ Crash(r)
      PROVE  TypeOK'
  BY <1>6 DEF FailEarly, ReadClock, ReserveAgain, CallAgain, LockTimeout, Publish,
              Crash, Enter, TypeOK, Phases
<1> QED BY <1>1, <1>2, <1>3, <1>4, <1>5, <1>6 DEF Next, RunNext

LEMMA RunsStep ==
  ASSUME TypeOK, RunsInv, [Next]_vars
  PROVE  RunsInv'
<1>1. CASE UNCHANGED vars
  BY <1>1 DEF vars, RunsInv, HasSlot
<1>2. CASE Tick \/ StepClock
  BY <1>2 DEF Tick, StepClock, RunsInv, HasSlot
<1>3. ASSUME NEW r \in Runs, Preflight(r) PROVE RunsInv'
  <2>1. /\ ~HasSlot(r) /\ UNCHANGED <<slots, opened>>
        /\ \A s \in Runs : s # r => target'[s] = target[s] /\ phase'[s] = phase[s]
        /\ phase'[r] \in {"selected", "skipped"}
        /\ phase'[r] = "selected" => target'[r].repository \in Repositories
    <3>1. phase[r] = "idle" /\ UNCHANGED <<slots, opened>>
      BY <1>3 DEF Preflight
    <3>2. \/ phase' = [phase EXCEPT ![r] = "skipped"] /\ target' = target
          \/ \E repo \in Repositories :
               /\ target' = [target EXCEPT ![r] =
                     [window |-> WindowKey(now), repository |-> repo]]
               /\ phase' = [phase EXCEPT ![r] = "selected"]
      BY <1>3 DEF Preflight, Enter
    <3> QED BY <3>1, <3>2 DEF TypeOK, RunsInv
  <2> QED BY <2>1 DEF RunsInv, HasSlot
<1>4. ASSUME NEW r \in Runs, Reserve(r) PROVE RunsInv'
  <2>1. r \notin opened /\ phase[r] = "clocked" /\ slots[r] = NoSlot
    BY <1>4 DEF Reserve, RunsInv, HasSlot
  <2>2. CASE UNCHANGED slots /\ Enter(r, "denied")
    BY <1>4, <2>1, <2>2 DEF Reserve, Enter, RunsInv, HasSlot, TypeOK
  <2>3. CASE slots' = [slots EXCEPT ![r] = NewSlot(r)] /\ Enter(r, "slotted")
    <3>1. NewSlot(r) \in Slots
      BY <2>1 DEF NewSlot, RunsInv, Slots, Statuses, TypeOK, Targets
    <3>2. NewSlot(r) # NoSlot
      BY <3>1, NoSlotIsNotASlot
    <3> QED BY <1>4, <2>1, <2>3, <3>2
            DEF Reserve, Enter, RunsInv, HasSlot, TypeOK, NewSlot
  <2> QED BY <1>4, <2>2, <2>3 DEF Reserve
<1>5. ASSUME NEW r \in Runs, Finish(r) PROVE RunsInv'
  <2>1. CASE UNCHANGED slots
    BY <1>5, <2>1 DEF Finish, Enter, RunsInv, HasSlot, TypeOK
  <2>2. CASE slots' = [slots EXCEPT ![r].status = "published"]
    <3>1. slots[r] \in Slots /\ r \in opened
      BY <1>5 DEF Finish, RunsInv, HasSlot, TypeOK
    <3> DEFINE row == [slots[r] EXCEPT !.status = "published"]
    <3>2. /\ row \in Slots
          /\ row.window = slots[r].window
          /\ row.repository = slots[r].repository
      BY <3>1 DEF Slots, Statuses
    <3>3. slots' = [slots EXCEPT ![r] = row] /\ row # NoSlot
      BY <2>2, <3>2, NoSlotIsNotASlot
    <3> HIDE DEF row
    <3> QED BY <1>5, <3>1, <3>2, <3>3 DEF Finish, Enter, RunsInv, HasSlot, TypeOK
  <2> QED BY <1>5, <2>1, <2>2 DEF Finish
<1>6. ASSUME NEW r \in Runs,
             FailEarly(r) \/ ReadClock(r) \/ ReserveAgain(r) \/ CallAgain(r)
               \/ LockTimeout(r) \/ Publish(r) \/ Crash(r)
      PROVE  RunsInv'
  BY <1>6 DEF FailEarly, ReadClock, ReserveAgain, CallAgain, LockTimeout, Publish,
              Crash, Enter, RunsInv, HasSlot, TypeOK
<1> QED BY <1>1, <1>2, <1>3, <1>4, <1>5, <1>6 DEF Next, RunNext

\* A step either leaves every slot's window, repository and time alone, or
\* gives one run its slot, and then the cap and the cooldown allow it.
LEMMA SlotsStep ==
  ASSUME TypeOK, RunsInv, [Next]_vars
  PROVE  \/ \A r \in Runs :
              /\ HasSlot(r)' <=> HasSlot(r)
              /\ HasSlot(r) => /\ slots'[r].window = slots[r].window
                               /\ slots'[r].repository = slots[r].repository
                               /\ slots'[r].createdAt = slots[r].createdAt
         \/ \E r \in Runs :
              /\ ~HasSlot(r)
              /\ slots' = [slots EXCEPT ![r] = NewSlot(r)]
              /\ NewSlot(r) \in Slots
              /\ IsAvailable(NewSlot(r).window, NewSlot(r).repository,
                             NewSlot(r).createdAt)
<1>1. CASE UNCHANGED slots
  BY <1>1 DEF HasSlot
<1>2. ASSUME NEW r \in Runs, Reserve(r), ~UNCHANGED slots
      PROVE  /\ ~HasSlot(r)
             /\ slots' = [slots EXCEPT ![r] = NewSlot(r)]
             /\ NewSlot(r) \in Slots
             /\ IsAvailable(NewSlot(r).window, NewSlot(r).repository,
                            NewSlot(r).createdAt)
  <2>1. NewSlot(r) \in Slots
    BY <1>2 DEF NewSlot, Reserve, RunsInv, Slots, Statuses, TypeOK, Targets
  <2> QED BY <1>2, <2>1 DEF Reserve, NewSlot, HasSlot
<1>3. ASSUME NEW r \in Runs, Finish(r), ~UNCHANGED slots, NEW s \in Runs
      PROVE  /\ HasSlot(s)' <=> HasSlot(s)
             /\ HasSlot(s) => /\ slots'[s].window = slots[s].window
                              /\ slots'[s].repository = slots[s].repository
                              /\ slots'[s].createdAt = slots[s].createdAt
  <2>1. slots[r] \in Slots /\ HasSlot(r)
    BY <1>3 DEF Finish, RunsInv, HasSlot, TypeOK
  <2> DEFINE row == [slots[r] EXCEPT !.status = "published"]
  <2>2. /\ row \in Slots
        /\ row.window = slots[r].window
        /\ row.repository = slots[r].repository
        /\ row.createdAt = slots[r].createdAt
    BY <2>1 DEF Slots, Statuses
  <2>3. slots' = [slots EXCEPT ![r] = row] /\ row # NoSlot
    BY <1>3, <2>2, NoSlotIsNotASlot DEF Finish
  <2> HIDE DEF row
  <2> QED BY <2>1, <2>2, <2>3 DEF HasSlot, TypeOK
<1>4. CASE \E r \in Runs : RunNext(r)
  <2> PICK r \in Runs : RunNext(r)
    BY <1>4
  <2>1. CASE Reserve(r)
    BY <1>1, <1>2, <2>1
  <2>2. CASE Finish(r)
    BY <1>1, <1>3, <2>2
  <2> QED BY <1>1, <2>1, <2>2
          DEF RunNext, Preflight, FailEarly, ReadClock, ReserveAgain, CallAgain,
              LockTimeout, Publish, Crash
<1> QED BY <1>1, <1>4 DEF Next, Tick, StepClock, vars

\* The cap: the transaction counts the rows before it adds one.
LEMMA CapStep ==
  ASSUME IInv, TypeOK', [Next]_vars
  PROVE  CapInv'
<1> SUFFICES ASSUME NEW w \in Windows
             PROVE  Cardinality(HeldInWindow(w)') <= MaxPrsPerWindow
  BY DEF CapInv
<1>1. HeldInWindow(w) = {r \in Runs : HasSlot(r) /\ slots[r].window = w}
  BY EveryRowCounts DEF IInv
<1>2. HeldInWindow(w)' = {r \in Runs : HasSlot(r)' /\ slots'[r].window = w}
  <2>1. \A r \in Runs : HasSlot(r)' => slots'[r].status # "released"
    BY DEF TypeOK, HasSlot, Slots, Statuses
  <2> QED BY <2>1 DEF HeldInWindow, Held, HasSlot
<1>3. Cardinality(HeldInWindow(w)) <= MaxPrsPerWindow
  BY DEF IInv, CapInv
<1>4. CASE HeldInWindow(w)' = HeldInWindow(w)
  BY <1>3, <1>4
<1>5. ASSUME NEW r \in Runs, ~HasSlot(r),
             slots' = [slots EXCEPT ![r] = NewSlot(r)], NewSlot(r) \in Slots,
             IsAvailable(NewSlot(r).window, NewSlot(r).repository,
                         NewSlot(r).createdAt)
      PROVE  Cardinality(HeldInWindow(w)') <= MaxPrsPerWindow
  <2>1. slots'[r] = NewSlot(r) /\ \A s \in Runs : s # r => slots'[s] = slots[s]
    BY <1>5 DEF IInv, TypeOK
  <2>2. CASE NewSlot(r).window = w
    <3>1. HeldInWindow(w)' = HeldInWindow(w) \cup {r}
      BY <1>1, <1>2, <1>5, <2>1, <2>2, NoSlotIsNotASlot DEF HasSlot
    <3>2. r \notin HeldInWindow(w)
      BY <1>1, <1>5
    <3>3. Cardinality(HeldInWindow(w) \cup {r}) = Cardinality(HeldInWindow(w)) + 1
      BY <3>2, CountType, FS_AddElement DEF IInv
    <3>4. Cardinality(HeldInWindow(w)) < MaxPrsPerWindow
      BY <1>5, <2>2 DEF IsAvailable
    <3>5. Cardinality(HeldInWindow(w)) \in Nat
      BY CountType DEF IInv
    <3> QED BY <3>1, <3>3, <3>4, <3>5, PublicationAssumption
  <2>3. CASE NewSlot(r).window # w
    <3>1. HeldInWindow(w)' = HeldInWindow(w)
      BY <1>1, <1>2, <1>5, <2>1, <2>3 DEF HasSlot
    <3> QED BY <1>4, <3>1
  <2> QED BY <2>2, <2>3
<1>6. CASE \A r \in Runs :
              /\ HasSlot(r)' <=> HasSlot(r)
              /\ HasSlot(r) => slots'[r].window = slots[r].window
  BY <1>1, <1>2, <1>4, <1>6
<1> QED BY <1>5, <1>6, SlotsStep DEF IInv

\* The cooldown: a new slot is later than every other of its repository, and
\* by more than the cooldown.
LEMMA NewSlotApart ==
  ASSUME TypeOK, NEW r \in Runs, NEW s \in Runs, HasSlot(s),
         NewSlot(r) \in Slots,
         IsAvailable(NewSlot(r).window, NewSlot(r).repository,
                     NewSlot(r).createdAt),
         slots[s].repository = NewSlot(r).repository
  PROVE  NewSlot(r).createdAt - slots[s].createdAt > Cooldown
<1>1. s \in Held /\ slots[s] \in Slots
  BY EveryRowCounts
<1>2. /\ slots[s].createdAt \in Int /\ NewSlot(r).createdAt \in Int
      /\ Cooldown \in Int
  BY <1>1, PublicationAssumption DEF Slots, Instants
<1>3. ~Cooling(NewSlot(r).repository, NewSlot(r).createdAt)
  BY DEF IsAvailable
<1> QED BY <1>1, <1>2, <1>3 DEF Cooling

LEMMA ApartStep ==
  ASSUME IInv, TypeOK', [Next]_vars
  PROVE  ApartInv'
<1>1. ASSUME NEW r \in Runs, ~HasSlot(r),
             slots' = [slots EXCEPT ![r] = NewSlot(r)], NewSlot(r) \in Slots,
             IsAvailable(NewSlot(r).window, NewSlot(r).repository,
                         NewSlot(r).createdAt)
      PROVE  ApartInv'
  <2>1. slots'[r] = NewSlot(r) /\ \A s \in Runs : s # r => slots'[s] = slots[s]
    BY <1>1 DEF IInv, TypeOK
  <2>2. \A s \in Runs :
          HasSlot(s) /\ slots[s].repository = NewSlot(r).repository
            => NewSlot(r).createdAt - slots[s].createdAt > Cooldown
    BY <1>1, NewSlotApart DEF IInv
  <2> HIDE DEF NewSlot
  <2> QED BY <1>1, <2>1, <2>2 DEF IInv, ApartInv, Apart, HasSlot
<1>2. CASE \A r \in Runs :
              /\ HasSlot(r)' <=> HasSlot(r)
              /\ HasSlot(r) => /\ slots'[r].repository = slots[r].repository
                               /\ slots'[r].createdAt = slots[r].createdAt
  BY <1>2 DEF IInv, ApartInv, HasSlot
<1> QED BY <1>1, <1>2, SlotsStep DEF IInv

-------------------------------------------------------------------------------
\* Theorems.

\* The inductive invariant holds in every reachable state.
THEOREM PublicationInvariant == Spec => []IInv
<1>1. ASSUME IInv, [Next]_vars PROVE IInv'
  <2>1. TypeOK' /\ RunsInv'
    BY <1>1, TypeStep, RunsStep DEF IInv
  <2>2. CapInv'
    BY <1>1, <2>1, CapStep
  <2>3. ApartInv'
    BY <1>1, <2>1, ApartStep
  <2> QED BY <2>1, <2>2, <2>3 DEF IInv
<1> QED BY <1>1, InvInit, PTL DEF Spec

\* The state stays well-typed.
THEOREM PublicationTypes == Spec => []TypeOK
BY PublicationInvariant, PTL DEF IInv

\* No window has more pull requests on GitHub than the cap.
THEOREM CapHolds == Spec => []OpenedWithinCap
<1>1. ASSUME IInv PROVE OpenedWithinCap
  <2> SUFFICES ASSUME NEW w \in {target[r].window : r \in opened}
      PROVE  Cardinality({r \in opened : target[r].window = w}) <= MaxPrsPerWindow
    BY DEF OpenedWithinCap
  <2>1. opened \subseteq Runs
    BY <1>1 DEF IInv, TypeOK
  <2>2. {r \in opened : target[r].window = w} \subseteq HeldInWindow(w)
    <3>1. HeldInWindow(w) = {r \in Runs : HasSlot(r) /\ slots[r].window = w}
      BY <1>1, EveryRowCounts DEF IInv
    <3> QED BY <1>1, <2>1, <3>1 DEF IInv, RunsInv
  <2>3. w \in Windows
    BY <1>1, <2>1 DEF IInv, TypeOK, Targets
  <2>4. IsFiniteSet(HeldInWindow(w)) /\ Cardinality(HeldInWindow(w)) \in Nat
    BY <1>1, CountType DEF IInv
  <2>5. Cardinality({r \in opened : target[r].window = w})
          <= Cardinality(HeldInWindow(w))
    BY <2>2, <2>4, FS_Subset
  <2>6. Cardinality({r \in opened : target[r].window = w}) \in Nat
    BY <2>2, <2>4, FS_Subset, FS_CardinalityType
  <2>7. Cardinality(HeldInWindow(w)) <= MaxPrsPerWindow
    BY <1>1, <2>3 DEF IInv, CapInv
  <2> QED BY <2>4, <2>5, <2>6, <2>7, PublicationAssumption
<1> QED BY <1>1, PublicationInvariant, PTL

\* Two pull requests for one repository are more than a cooldown apart.
THEOREM CooldownHolds == Spec => []OpenedApart
<1>1. ASSUME IInv PROVE OpenedApart
  BY <1>1 DEF IInv, TypeOK, RunsInv, ApartInv, Apart, OpenedApart
<1> QED BY <1>1, PublicationInvariant, PTL

\* A row that says 'published' is of a run that opened its pull request.
THEOREM PublishedHolds == Spec => []PublishedIsOpen
<1>1. ASSUME IInv PROVE PublishedIsOpen
  BY <1>1 DEF IInv, RunsInv, HasSlot, PublishedIsOpen
<1> QED BY <1>1, PublicationInvariant, PTL

\* The ledger implements the calendar of grants.
LEMMA GrantFacts ==
  ASSUME TypeOK
  PROVE  /\ \A r \in Runs : ~HasSlot(r) => GrantOf(r) = NoSlot
         /\ \A r \in Runs : HasSlot(r) =>
              /\ GrantOf(r) = [window     |-> slots[r].window,
                               repository |-> slots[r].repository,
                               at         |-> slots[r].createdAt]
              /\ GrantOf(r) \in Grants
              /\ GrantOf(r) # NoSlot
<1>1. ASSUME NEW r \in Runs, HasSlot(r)
      PROVE  /\ GrantOf(r) = [window     |-> slots[r].window,
                              repository |-> slots[r].repository,
                              at         |-> slots[r].createdAt]
             /\ GrantOf(r) \in Grants
  <2>1. slots[r] \in Slots /\ slots[r].status # "released"
    BY <1>1, EveryRowCounts
  <2> QED BY <1>1, <2>1 DEF GrantOf, HasSlot, Slots, Grants
<1> QED BY <1>1, NoSlotIsNotASlot DEF GrantOf, HasSlot

\* The calendar counts as FiniteSets does.
LEMMA CalendarCardinality == \A S : Calendar!Cardinality(S) = Cardinality(S)
BY DEF Calendar!Cardinality, Cardinality

LEMMA GrantStep ==
  ASSUME IInv, TypeOK', NEW r \in Runs, ~HasSlot(r),
         slots' = [slots EXCEPT ![r] = NewSlot(r)], NewSlot(r) \in Slots,
         IsAvailable(NewSlot(r).window, NewSlot(r).repository,
                     NewSlot(r).createdAt)
  PROVE  Calendar!Grant(r)
<1> DEFINE bar == [k \in Runs |-> GrantOf(k)]
           g == [window     |-> NewSlot(r).window,
                 repository |-> NewSlot(r).repository,
                 at         |-> NewSlot(r).createdAt]
<1>1. g \in Grants
  BY DEF Slots, Grants
<1>2. /\ slots'[r] = NewSlot(r) /\ \A k \in Runs : k # r => slots'[k] = slots[k]
      /\ HasSlot(r)'
  BY NoSlotIsNotASlot DEF IInv, TypeOK, HasSlot
<1>3. \A k \in Runs : GrantOf(k)' = IF k = r THEN g ELSE GrantOf(k)
  <2>1. GrantOf(r)' = g
    <3>1. NewSlot(r).status = "reserved" /\ slots'[r] # NoSlot
      BY <1>2 DEF NewSlot, HasSlot
    <3> QED BY <1>2, <3>1 DEF GrantOf
  <2>2. \A k \in Runs : k # r => GrantOf(k)' = GrantOf(k)
    BY <1>2 DEF GrantOf
  <2> QED BY <2>1, <2>2
<1>4. bar' = [bar EXCEPT ![r] = g]
  <2> HIDE DEF g
  <2>1. bar' = [k \in Runs |-> IF k = r THEN g ELSE GrantOf(k)]
    <3>1. bar' = [k \in Runs |-> GrantOf(k)']
      OBVIOUS
    <3> QED BY <1>3, <3>1
  <2>2. [bar EXCEPT ![r] = g] = [k \in Runs |-> IF k = r THEN g ELSE GrantOf(k)]
    OBVIOUS
  <2> QED BY <2>1, <2>2
<1>5. bar[r] = NoSlot
  BY GrantFacts DEF IInv
<1>6. Calendar!Granted = {k \in Runs : HasSlot(k)}
  BY GrantFacts DEF IInv, Calendar!Granted
<1>7. {k \in Calendar!Granted : bar[k].window = g.window} = HeldInWindow(g.window)
  <2>1. HeldInWindow(g.window) = {k \in Runs : HasSlot(k) /\ slots[k].window = g.window}
    BY EveryRowCounts DEF IInv
  <2> HIDE DEF g
  <2> QED BY <1>6, <2>1, GrantFacts DEF IInv
<1>8. Calendar!Cardinality({k \in Calendar!Granted : bar[k].window = g.window})
        < MaxPrsPerWindow
  BY <1>7, CalendarCardinality DEF IsAvailable
<1>9. \A k \in Calendar!Granted :
        bar[k].repository = g.repository => Calendar!Apart(bar[k].at, g.at)
  <2> SUFFICES ASSUME NEW k \in Runs, HasSlot(k), bar[k].repository = g.repository
               PROVE  Calendar!Apart(bar[k].at, g.at)
    BY <1>6
  <2>1. bar[k].repository = slots[k].repository /\ bar[k].at = slots[k].createdAt
    BY GrantFacts DEF IInv
  <2>2. NewSlot(r).createdAt - slots[k].createdAt > Cooldown
    BY <2>1, NewSlotApart DEF IInv
  <2> QED BY <2>1, <2>2 DEF Calendar!Apart
<1> HIDE DEF g
<1> QED BY <1>1, <1>4, <1>5, <1>8, <1>9 DEF Calendar!Grant

THEOREM LedgerImplementsCalendar == Spec => ImplementsCalendar
<1> DEFINE bar == [r \in Runs |-> GrantOf(r)]
<1>1. ASSUME Init PROVE Calendar!Init
  BY <1>1 DEF Init, GrantOf, Calendar!Init
<1>2. ASSUME IInv, [Next]_vars PROVE [Calendar!Next]_bar
  <2>0. TypeOK'
    BY <1>2, TypeStep DEF IInv
  <2>1. CASE \A r \in Runs :
               /\ HasSlot(r)' <=> HasSlot(r)
               /\ HasSlot(r) => /\ slots'[r].window = slots[r].window
                                /\ slots'[r].repository = slots[r].repository
                                /\ slots'[r].createdAt = slots[r].createdAt
    <3>1. ASSUME NEW r \in Runs PROVE GrantOf(r)' = GrantOf(r)
      <4>1. CASE HasSlot(r)
        <5>1. GrantOf(r) = [window     |-> slots[r].window,
                            repository |-> slots[r].repository,
                            at         |-> slots[r].createdAt]
          BY <1>2, <4>1, GrantFacts DEF IInv
        <5>2. HasSlot(r)' /\ slots'[r].status # "released"
          BY <2>0, <2>1, <4>1 DEF TypeOK, HasSlot, Slots, Statuses
        <5> QED BY <2>1, <4>1, <5>1, <5>2 DEF GrantOf, HasSlot
      <4>2. CASE ~HasSlot(r)
        BY <2>1, <4>2 DEF GrantOf, HasSlot
      <4> QED BY <4>1, <4>2
    <3>2. bar' = [k \in Runs |-> GrantOf(k)']
      OBVIOUS
    <3>3. bar' = bar
      BY <3>1, <3>2
    <3> QED BY <3>3
  <2>2. ASSUME NEW r \in Runs, Calendar!Grant(r) PROVE Calendar!Next
    BY <2>2 DEF Calendar!Next
  <2> QED BY <1>2, <2>0, <2>1, <2>2, GrantStep, SlotsStep DEF IInv
<1> QED BY <1>1, <1>2, PublicationInvariant, PTL
        DEF Spec, ImplementsCalendar, Calendar!Spec

===============================================================================
