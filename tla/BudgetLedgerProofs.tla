--------------------------- MODULE BudgetLedgerProofs ---------------------------
(***************************************************************************)
(* Proofs about BudgetLedger, for every number of controllers, every       *)
(* quota source and every length of the periods that its named assumptions *)
(* allow.                                                                  *)
(***************************************************************************)
EXTENDS BudgetLedger, WellFoundedInduction, TLAPS

-------------------------------------------------------------------------------
\* Arithmetic: the division of time into windows, and sums over the rows of one.

\* A later instant lies in the same window or in a later one.
LEMMA DivMonotonic ==
  ASSUME NEW t \in Nat, NEW m \in Nat, t <= m, NEW L \in Nat \ {0}
  PROVE  t \div L \in Nat /\ t \div L <= m \div L
<1> DEFINE a == t \div L
           b == m \div L
<1>1. a \in Nat /\ b \in Nat
  OBVIOUS
<1>2. L * a <= t /\ m < L * (b + 1)
  OBVIOUS
<1> HIDE DEF a, b
<1>3. ASSUME b + 1 <= a PROVE FALSE
  <2>1. L * (b + 1) <= L * a
    BY <1>1, <1>3
  <2>2. L * (b + 1) \in Int /\ L * a \in Int
    BY <1>1
  <2> QED BY <1>2, <2>1, <2>2
<1>4. a <= b
  BY <1>1, <1>3
<1> QED BY <1>1, <1>4 DEF a, b

-------------------------------------------------------------------------------
LEMMA LeastNatural ==
  ASSUME NEW T, T \subseteq Nat, T # {}
  PROVE  \E n \in T : \A m \in T : n <= m
<1> DEFINE R == OpToRel(<, Nat)
<1>1. PICK n \in T : \A m \in T : ~ (<<m, n>> \in R)
  <2> HIDE DEF R
  <2>1. IsWellFoundedOn(R, Nat)
    BY NatLessThanWellFounded DEF R
  <2> QED BY <2>1, WFMin
<1>2. \A m \in T : ~(m < n)
  BY <1>1 DEF OpToRel
<1> QED BY <1>2

LEMMA InductionOnSet ==
  ASSUME NEW P, P \subseteq Nat, 0 \in P, \A n \in P : n + 1 \in P
  PROVE  \A n \in Nat : n \in P
<1> SUFFICES ASSUME NEW k \in Nat, k \notin P PROVE FALSE
  OBVIOUS
<1>1. PICK n \in Nat \ P : \A m \in Nat \ P : n <= m
  BY LeastNatural
<1>2. n # 0 /\ n - 1 \in Nat
  OBVIOUS
<1>3. n - 1 \in P
  BY <1>1, <1>2
<1> QED BY <1>2, <1>3

(* g follows the recursion of SumUpTo(v) as far as n. *)
Partial(v, n, g) ==
  /\ g \in [0..n -> Int]
  /\ g[0] = 0
  /\ \A k \in 1..n : g[k] = g[k - 1] + v[k]

LEMMA PartialExists ==
  ASSUME NEW v, \A k \in Nat : v[k] \in Int
  PROVE  \A n \in Nat : \E g : Partial(v, n, g)
<1> DEFINE P == {n \in Nat : \E g : Partial(v, n, g)}
<1>1. 0 \in P
  <2>1. Partial(v, 0, [k \in 0..0 |-> 0])
    BY DEF Partial
  <2> QED BY <2>1
<1>2. ASSUME NEW n \in P PROVE n + 1 \in P
  <2>1. PICK g : Partial(v, n, g)
    OBVIOUS
  <2> DEFINE h == [k \in 0..(n + 1) |-> IF k = n + 1 THEN g[n] + v[n + 1] ELSE g[k]]
  <2>2. g[n] \in Int /\ v[n + 1] \in Int
    BY <2>1 DEF Partial
  <2>3. h \in [0..(n + 1) -> Int]
    BY <2>1, <2>2 DEF Partial
  <2>4. h[0] = 0
    BY <2>1 DEF Partial
  <2>5. \A k \in 1..(n + 1) : h[k] = h[k - 1] + v[k]
    BY <2>1 DEF Partial
  <2>6. Partial(v, n + 1, h)
    BY <2>3, <2>4, <2>5 DEF Partial
  <2> QED BY <2>6
<1> HIDE DEF P
<1>3. P \subseteq Nat BY DEF P
<1>4. \A n \in Nat : n \in P
  BY <1>1, <1>2, <1>3, InductionOnSet
<1> QED BY <1>4 DEF P

LEMMA PartialAgree ==
  ASSUME NEW v, NEW m \in Nat, NEW n \in Nat, m <= n,
         NEW g, NEW h, Partial(v, m, g), Partial(v, n, h)
  PROVE  \A k \in 0..m : g[k] = h[k]
<1> DEFINE P == {k \in Nat : k <= m => g[k] = h[k]}
<1>1. 0 \in P
  BY DEF Partial
<1>2. ASSUME NEW k \in P PROVE k + 1 \in P
  <2>1. SUFFICES ASSUME k + 1 <= m PROVE g[k + 1] = h[k + 1]
    OBVIOUS
  <2>2. g[k] = h[k]
    BY <2>1
  <2>3. g[k + 1] = g[k] + v[k + 1]
    BY <2>1, k + 1 \in 1..m, (k + 1) - 1 = k DEF Partial
  <2>4. h[k + 1] = h[k] + v[k + 1]
    BY <2>1, k + 1 \in 1..n, (k + 1) - 1 = k DEF Partial
  <2> QED BY <2>2, <2>3, <2>4
<1> HIDE DEF P
<1>3. P \subseteq Nat BY DEF P
<1>4. \A k \in Nat : k \in P
  BY <1>1, <1>2, <1>3, InductionOnSet
<1> QED BY <1>4 DEF P

LEMMA SumUpToRecursion ==
  ASSUME NEW v, \A k \in Nat : v[k] \in Int
  PROVE  SumUpTo(v) = [n \in Nat |-> IF n = 0 THEN 0 ELSE SumUpTo(v)[n - 1] + v[n]]
<1> DEFINE G(n) == CHOOSE g : Partial(v, n, g)
           f == [n \in Nat |-> G(n)[n]]
<1>1. \A n \in Nat : Partial(v, n, G(n))
  BY PartialExists
<1> HIDE DEF G
<1>2. f[0] = 0
  BY <1>1 DEF Partial
<1>3. ASSUME NEW n \in Nat, n # 0 PROVE f[n] = f[n - 1] + v[n]
  <2>1. G(n)[n] = G(n)[n - 1] + v[n]
    BY <1>1, <1>3, n \in 1..n DEF Partial
  <2>2. n - 1 \in Nat /\ n - 1 <= n /\ n - 1 \in 0..(n - 1)
    BY <1>3
  <2>3. G(n - 1)[n - 1] = G(n)[n - 1]
    <3>1. Partial(v, n - 1, G(n - 1)) /\ Partial(v, n, G(n))
      BY <1>1, <2>2
    <3> QED BY <3>1, <2>2, PartialAgree
  <2> QED BY <2>1, <2>2, <2>3
<1>4. f = [n \in Nat |-> IF n = 0 THEN 0 ELSE f[n - 1] + v[n]]
  BY <1>2, <1>3
<1> HIDE DEF f
<1>5. \E g : g = [n \in Nat |-> IF n = 0 THEN 0 ELSE g[n - 1] + v[n]]
  BY <1>4
<1> QED BY <1>5 DEF SumUpTo

(* The recursion, pointwise. *)
LEMMA SumUpToStep ==
  ASSUME NEW v, \A k \in Nat : v[k] \in Int
  PROVE  /\ SumUpTo(v)[0] = 0
         /\ \A n \in Nat : SumUpTo(v)[n + 1] = SumUpTo(v)[n] + v[n + 1]
<1> DEFINE f == SumUpTo(v)
<1>1. f = [n \in Nat |-> IF n = 0 THEN 0 ELSE f[n - 1] + v[n]]
  BY SumUpToRecursion
<1> HIDE DEF f
<1>2. f[0] = 0
  BY <1>1
<1>3. ASSUME NEW n \in Nat PROVE f[n + 1] = f[n] + v[n + 1]
  <2>1. n + 1 \in Nat /\ n + 1 # 0 /\ (n + 1) - 1 = n
    OBVIOUS
  <2> QED BY <1>1, <2>1
<1> QED BY <1>2, <1>3 DEF f

(* A sum of naturals is a natural. *)
LEMMA SumUpToType ==
  ASSUME NEW v, \A k \in Nat : v[k] \in Nat
  PROVE  \A n \in Nat : SumUpTo(v)[n] \in Nat
<1> DEFINE f == SumUpTo(v)
           P == {n \in Nat : f[n] \in Nat}
<1>1. f[0] = 0 /\ \A n \in Nat : f[n + 1] = f[n] + v[n + 1]
  BY SumUpToStep
<1> HIDE DEF f
<1>2. 0 \in P /\ \A n \in P : n + 1 \in P
  BY <1>1
<1>3. P \subseteq Nat
  OBVIOUS
<1> HIDE DEF P
<1>4. \A n \in Nat : n \in P
  BY <1>2, <1>3, InductionOnSet
<1> QED BY <1>4 DEF P, f

(* Equal terms have equal sums. *)
LEMMA SumUpToEqual ==
  ASSUME NEW u, NEW v, \A k \in Nat : u[k] \in Nat /\ v[k] = u[k]
  PROVE  \A n \in Nat : SumUpTo(v)[n] = SumUpTo(u)[n]
<1> DEFINE f == SumUpTo(u)
           g == SumUpTo(v)
           P == {n \in Nat : g[n] = f[n]}
<1>1. f[0] = 0 /\ \A n \in Nat : f[n + 1] = f[n] + u[n + 1]
  BY SumUpToStep
<1>2. g[0] = 0 /\ \A n \in Nat : g[n + 1] = g[n] + v[n + 1]
  BY SumUpToStep
<1> HIDE DEF f, g
<1>3. 0 \in P /\ \A n \in P : n + 1 \in P
  BY <1>1, <1>2
<1>4. P \subseteq Nat
  OBVIOUS
<1> HIDE DEF P
<1>5. \A n \in Nat : n \in P
  BY <1>3, <1>4, InductionOnSet
<1> QED BY <1>5 DEF P, f, g

(* The naturals of v are those of u, but for a more at i. *)
AddsAt(u, v, i, a) ==
  /\ i \in Nat \ {0}
  /\ a \in Nat
  /\ \A k \in Nat : u[k] \in Nat /\ v[k] \in Nat
  /\ v[i] = u[i] + a
  /\ \A k \in Nat \ {i} : v[k] = u[k]

(* Adding a to one term adds a to every sum that reaches it. *)
LEMMA SumUpToAdd ==
  ASSUME NEW u, NEW v, NEW i, NEW a, AddsAt(u, v, i, a)
  PROVE  \A n \in Nat : SumUpTo(v)[n] = SumUpTo(u)[n] + (IF i <= n THEN a ELSE 0)
<1> DEFINE f == SumUpTo(u)
           g == SumUpTo(v)
           P == {n \in Nat : g[n] = f[n] + (IF i <= n THEN a ELSE 0)}
<1> USE DEF AddsAt
<1>1. f[0] = 0 /\ \A n \in Nat : f[n + 1] = f[n] + u[n + 1]
  BY SumUpToStep
<1>2. g[0] = 0 /\ \A n \in Nat : g[n + 1] = g[n] + v[n + 1]
  BY SumUpToStep
<1>3. \A n \in Nat : f[n] \in Nat /\ g[n] \in Nat
  BY SumUpToType
<1> HIDE DEF f, g
<1>4. 0 \in P
  BY <1>1, <1>2
<1>5. ASSUME NEW n \in P PROVE n + 1 \in P
  <2>1. g[n] = f[n] + (IF i <= n THEN a ELSE 0) /\ n \in Nat
    OBVIOUS
  <2>2. g[n + 1] = g[n] + v[n + 1] /\ f[n + 1] = f[n] + u[n + 1]
    BY <1>1, <1>2, <2>1
  <2>3. CASE n + 1 = i
    BY <2>1, <2>2, <2>3, <1>3
  <2>4. CASE n + 1 # i
    <3>1. v[n + 1] = u[n + 1]
      BY <2>1, <2>4
    <3>2. (i <= n + 1) <=> (i <= n)
      BY <2>1, <2>4
    <3> QED BY <2>1, <2>2, <3>1, <3>2, <1>3
  <2> QED BY <2>3, <2>4
<1>6. P \subseteq Nat
  OBVIOUS
<1> HIDE DEF P
<1>7. \A n \in Nat : n \in P
  BY <1>4, <1>5, <1>6, InductionOnSet
<1> QED BY <1>7 DEF P, f, g

-------------------------------------------------------------------------------
\* Windows.

\* Every instant lies in a window, and the next reset is later.
LEMMA WindowKeyType ==
  ASSUME NEW t \in Instant
  PROVE  WindowKey(t) \in Windows /\ NextReset(t) \in Nat
<1>1. t \in Nat /\ MaxTime \in Nat /\ WindowLength \in Nat \ {0} /\ t <= MaxTime
  BY BudgetAssumption DEF Instant
<1>2. t \div WindowLength \in Nat /\ t \div WindowLength <= MaxTime \div WindowLength
  BY <1>1, DivMonotonic
<1>3. MaxTime \div WindowLength \in Nat
  BY <1>1
<1>4. t \div WindowLength \in 0..(MaxTime \div WindowLength)
  BY <1>2, <1>3
<1> DEFINE q == t \div WindowLength
<1>5. (q + 1) * WindowLength \in Nat
  <2>1. q \in Nat
    BY <1>2
  <2> HIDE DEF q
  <2> QED BY <1>1, <2>1
<1> QED BY <1>4, <1>5 DEF WindowKey, Windows, NextReset

-------------------------------------------------------------------------------
\* The inductive invariant.

\* A snapshot that its controller is still going to use, or that stands behind
\* a row, is as Observe made it.
Limit == MaxOf(0, MaximumTokens - ReserveTokens)

Held(r) == rows[r] # NoRow

SnapshotsInv ==
  \A r \in Runs :
    (Held(r) \/ phase[r] \in {"discovering", "checked", "reserved", "working", "cleaning"})
      => /\ snap[r].amount \in Amounts
         /\ snap[r].spendable <= Limit
         /\ snap[r].observedAt \in Instant
         /\ snap[r].resetsAt = NextReset(snap[r].observedAt)

\* A row repeats its run's snapshot, and it is there while the run is alive.
RowsInv ==
  \A r \in Runs :
    /\ Held(r) => /\ rows[r].window = WindowKey(snap[r].observedAt)
                  /\ rows[r].tokens = snap[r].amount
                  /\ rows[r].createdAt = snap[r].observedAt
    /\ phase[r] \in {"idle", "discovering"} => ~Held(r)
    /\ phase[r] \in {"reserved", "working", "cleaning"} => Held(r)
    /\ phase[r] \in {"checked", "reserved", "working", "cleaning"} /\ Held(r)
         => rows[r].status = "reserved"

\* How late a controller can be, counted from its snapshot.
LatestBegin == SnapshotMaxAge + AdmissionDelay
LatestEnd == LatestBegin + MaxRunTime

TimingInv ==
  \A r \in Runs :
    /\ phase[r] \in {"checked", "reserved"}
         => now + left[r] <= snap[r].observedAt + LatestBegin + steps
    /\ phase[r] = "working"
         => /\ now + left[r] <= snap[r].observedAt + LatestEnd + steps
            /\ now + left[r] <= snap[r].resetsAt - ResetSafety + steps
    /\ phase[r] = "cleaning"
         => now + left[r] <= snap[r].observedAt + LatestEnd + CleanupDelay + steps

IInv == TypeOK /\ SnapshotsInv /\ RowsInv /\ TimingInv /\ WindowCovered

-------------------------------------------------------------------------------
\* The sum over the table.

LEMMA ChargeType ==
  ASSUME TypeOK, NEW w
  PROVE  \A k \in Nat : Charge(w)[k] \in Nat
<1> SUFFICES ASSUME NEW k \in Nat PROVE Charge(w)[k] \in Nat
  OBVIOUS
<1>1. CASE k \in Runs /\ rows[k] # NoRow
  <2>1. rows[k] \in Rows
    BY <1>1 DEF TypeOK
  <2>2. rows[k].tokens \in Nat
    BY <2>1 DEF Rows
  <2> QED BY <2>2 DEF Charge
<1>2. CASE ~(k \in Runs /\ rows[k] # NoRow)
  BY <1>2 DEF Charge
<1> QED BY <1>1, <1>2

LEMMA UsedType ==
  ASSUME TypeOK, NEW w
  PROVE  Used(w) \in Nat
<1>1. \A n \in Nat : SumUpTo(Charge(w))[n] \in Nat
  BY ChargeType, SumUpToType
<1> QED BY <1>1, BudgetAssumption DEF Used

\* An empty table charges nothing.
LEMMA UsedInit ==
  ASSUME Init, NEW w
  PROVE  Used(w) = 0
<1> DEFINE zero == [k \in Nat |-> 0]
           P == {n \in Nat : SumUpTo(zero)[n] = 0}
<1>1. Charge(w) = zero
  BY DEF Charge, Init
<1>2. SumUpTo(zero)[0] = 0
      /\ \A n \in Nat : SumUpTo(zero)[n + 1] = SumUpTo(zero)[n] + zero[n + 1]
  BY SumUpToStep
<1>3. 0 \in P /\ \A n \in P : n + 1 \in P
  BY <1>2
<1>4. P \subseteq Nat
  OBVIOUS
<1> HIDE DEF P
<1>5. \A n \in Nat : n \in P
  BY <1>3, <1>4, InductionOnSet
<1>6. MaxRuns \in P
  BY <1>5, BudgetAssumption
<1> QED BY <1>1, <1>6 DEF P, Used

\* A step that leaves the tokens of every row alone leaves every sum alone.
LEMMA UsedUnchanged ==
  ASSUME NEW w, UNCHANGED rows
  PROVE  Used(w)' = Used(w)
BY DEF Used, Charge

LEMMA UsedFinish ==
  ASSUME TypeOK, NEW r \in Runs, NEW w, Held(r),
         rows' = [rows EXCEPT ![r].status = "ended"]
  PROVE  Used(w)' = Used(w)
<1>1. rows[r] \in Rows
  BY DEF TypeOK, Held
<1>2. rows[r].status # "released"
  BY <1>1 DEF Rows, Statuses
<1>3. \A k \in Runs : k # r => rows'[k] = rows[k]
  BY DEF TypeOK
<1>4. rows'[r] = [rows[r] EXCEPT !.status = "ended"]
  BY DEF TypeOK
<1>5. /\ rows'[r].window = rows[r].window /\ rows'[r].tokens = rows[r].tokens
      /\ rows'[r].status = "ended"
  BY <1>1, <1>4 DEF Rows
<1>6. rows'[r] # NoRow
  <2>1. rows'[r] \in Rows
    BY <1>1, <1>4 DEF Rows, Statuses
  <2> QED BY <2>1, NoRowIsNotARow
<1> QED BY <1>2, <1>3, <1>5, <1>6 DEF Used, Charge, Held

\* What the transaction of an admitted run does to the sums.
Admitted(r) ==
  /\ phase[r] = "checked"
  /\ rows[r] = NoRow
  /\ Available(snap[r]) >= Required(snap[r].amount)
  /\ rows' = [rows EXCEPT ![r] = ReservedRow(snap[r])]
  /\ UNCHANGED snap

LEMMA UsedAdmitted ==
  ASSUME TypeOK, SnapshotsInv, NEW r \in Runs, Admitted(r)
  PROVE  LET own == WindowKey(snap[r].observedAt) IN
         /\ rows'[r] = ReservedRow(snap[r]) /\ rows'[r] \in Rows
         /\ \A k \in Runs \ {r} : rows'[k] = rows[k]
         /\ \A w : Used(w)' = Used(w) + (IF w = own THEN snap[r].amount ELSE 0)
         /\ snap[r].amount \in Nat /\ own \in Windows
         /\ \A w : w = own => Used(w)' <= snap[r].spendable
<1> DEFINE own == WindowKey(snap[r].observedAt)
<1>1. /\ snap[r].amount \in Nat /\ snap[r].spendable \in Nat
      /\ snap[r].observedAt \in Instant
  BY DEF TypeOK, SnapshotsInv, SnapshotType, Admitted
<1>2. own \in Windows /\ own \in Nat
  <2>1. own \in Windows
    BY <1>1, WindowKeyType
  <2> QED BY <2>1 DEF Windows
<1>3. rows'[r] = ReservedRow(snap[r]) /\ \A k \in Runs \ {r} : rows'[k] = rows[k]
  BY DEF Admitted, TypeOK
<1>4. rows'[r] \in Rows /\ rows'[r] # NoRow
  <2>1. snap[r].observedAt \in Nat
    BY <1>1 DEF Instant
  <2>2. ReservedRow(snap[r]) \in Rows
    BY <1>1, <1>2, <2>1 DEF ReservedRow, Rows, Statuses
  <2> QED BY <1>3, <2>2, NoRowIsNotARow
<1>5. ASSUME NEW w
      PROVE  Used(w)' = Used(w) + (IF w = own THEN snap[r].amount ELSE 0)
  <2> DEFINE u == Charge(w)
             v == Charge(w)'
             a == IF w = own THEN snap[r].amount ELSE 0
  <2>1. r \in Nat \ {0} /\ r <= MaxRuns
    BY BudgetAssumption DEF Runs
  <2>2. \A k \in Nat : u[k] \in Nat
    BY ChargeType
  <2>3. \A k \in Nat \ {r} : v[k] = u[k]
    BY <1>3 DEF Charge
  <2>4. u[r] = 0
    BY <2>1 DEF Charge, Admitted
  <2>5. v[r] = a
    BY <2>1, <1>3, <1>4 DEF Charge, ReservedRow
  <2>6. \A k \in Nat : v[k] \in Nat
    BY <2>2, <2>3, <2>5, <1>1
  <2>7. a \in Nat /\ v[r] = u[r] + a
    BY <1>1, <2>4, <2>5
  <2>8. SumUpTo(v)[MaxRuns] = SumUpTo(u)[MaxRuns] + a
    <3> HIDE DEF u, v, a
    <3>1. AddsAt(u, v, r, a)
      BY <2>1, <2>2, <2>3, <2>6, <2>7 DEF AddsAt
    <3>2. \A n \in Nat : SumUpTo(v)[n] = SumUpTo(u)[n] + (IF r <= n THEN a ELSE 0)
      BY <3>1, SumUpToAdd
    <3> QED BY <3>2, <2>1, BudgetAssumption
  <2> QED BY <2>8 DEF Used
<1>6. ASSUME NEW w, w = own PROVE Used(w)' <= snap[r].spendable
  <2>1. Used(w) \in Nat
    BY UsedType
  <2>2. Used(w)' = Used(w) + snap[r].amount
    BY <1>5, <1>6
  <2>3. MaxOf(0, snap[r].spendable - Used(w)) >= MaxOf(MinimumSpendable, snap[r].amount)
    BY <1>6 DEF Admitted, Available, Required
  <2>4. MinimumSpendable \in Nat
    BY BudgetAssumption
  <2>5. snap[r].amount # 0
    BY BudgetAssumption DEF Admitted, SnapshotsInv
  <2> QED BY <1>1, <2>1, <2>2, <2>3, <2>4, <2>5 DEF MaxOf
<1> QED BY <1>1, <1>2, <1>3, <1>4, <1>5, <1>6

-------------------------------------------------------------------------------
\* Every step keeps the invariant.

LEMMA SnapshotFacts ==
  ASSUME TypeOK, NEW reading \in Readings, NEW amount \in Amounts, Usable(reading)
  PROVE  LET s == Snapshot(reading, amount) IN
         /\ s \in SnapshotType
         /\ s.amount = amount /\ s.spendable <= Limit
         /\ s.observedAt = now /\ s.resetsAt = NextReset(now)
<1>1. reading \in Nat /\ reading <= MaximumTokens
  BY BudgetAssumption DEF Usable
<1>2. now \in Instant /\ now \in Nat /\ NextReset(now) \in Nat
  BY WindowKeyType DEF TypeOK, Instant
<1>3. MaxOf(0, reading - ReserveTokens) \in Nat
      /\ MaxOf(0, reading - ReserveTokens) <= MaxOf(0, MaximumTokens - ReserveTokens)
  BY <1>1, BudgetAssumption DEF MaxOf
<1>4. amount \in Nat
  BY BudgetAssumption
<1> QED BY <1>2, <1>3, <1>4 DEF Snapshot, SnapshotType, Limit

LEMMA TypeStep ==
  ASSUME IInv, Next
  PROVE  TypeOK'
<1> USE DEF IInv
<1>1. CASE Tick
  <2>1. left' \in [Runs -> Nat]
    BY <1>1 DEF Tick, TypeOK
  <2>2. now' \in Instant
    BY <1>1, BudgetAssumption DEF Tick, TypeOK, Instant
  <2> QED BY <1>1, <2>1, <2>2 DEF Tick, TypeOK
<1>2. CASE StepClock
  BY <1>2, BudgetAssumption DEF StepClock, TypeOK, Instant
<1>3. ASSUME NEW r \in Runs, RunNext(r) PROVE TypeOK'
  <2> USE DEF TypeOK, Phases
  <2>1. CASE Observe(r)
    <3>1. CASE UNCHANGED snap
      BY <2>1, <3>1 DEF Observe
    <3>2. CASE \E reading \in Readings, amount \in Amounts :
                 Usable(reading) /\ snap' = [snap EXCEPT ![r] = Snapshot(reading, amount)]
      BY <2>1, <3>2, SnapshotFacts DEF Observe
    <3> QED BY <2>1, <3>1, <3>2 DEF Observe
  <2>2. CASE Check(r)
    BY <2>2, BudgetAssumption DEF Check, Stop
  <2>3. CASE Reserve(r)
    <3>1. CASE UNCHANGED rows
      BY <2>3, <3>1 DEF Reserve, Stop
    <3>2. CASE Admitted(r)
      <4>1. rows' \in [Runs -> Rows \cup {NoRow}]
        BY <3>2, UsedAdmitted DEF Admitted
      <4> QED BY <2>3, <4>1 DEF Reserve, Stop
    <3> QED BY <2>3, <3>1, <3>2 DEF Reserve, Admitted
  <2>4. CASE ReserveAgain(r)
    BY <2>4 DEF ReserveAgain
  <2>5. CASE LockTimeout(r)
    BY <2>5 DEF LockTimeout, Stop
  <2>6. CASE CallAgain(r)
    BY <2>6, BudgetAssumption DEF CallAgain
  <2>7. CASE Begin(r)
    <3>1. RunTime(r) >= 1 => RunTime(r) \in Nat
      BY BudgetAssumption DEF RunTime, MinOf, SnapshotType, Instant
    <3> QED BY <2>7, <3>1 DEF Begin, Stop
  <2>8. CASE EndWork(r)
    BY <2>8, BudgetAssumption DEF EndWork
  <2>9. CASE Finish(r)
    <3>1. rows[r] \in Rows
      BY <2>9 DEF Finish, RowsInv, Held
    <3>2. [rows[r] EXCEPT !.status = "ended"] \in Rows
      BY <3>1 DEF Rows, Statuses
    <3> QED BY <2>9, <3>2 DEF Finish, Stop
  <2>10. CASE Crash(r)
    BY <2>10 DEF Crash, Stop
  <2> QED BY <1>3, <2>1, <2>2, <2>3, <2>4, <2>5, <2>6, <2>7, <2>8, <2>9, <2>10 DEF RunNext
<1> QED BY <1>1, <1>2, <1>3 DEF Next

LEMMA SnapshotsStep ==
  ASSUME IInv, Next
  PROVE  SnapshotsInv'
<1> USE DEF IInv
<1>1. CASE Tick
  BY <1>1 DEF Tick, SnapshotsInv, Held
<1>2. CASE StepClock
  BY <1>2 DEF StepClock, SnapshotsInv, Held
<1>3. ASSUME NEW r \in Runs, RunNext(r) PROVE SnapshotsInv'
  <2> USE DEF SnapshotsInv, Held
  <2>1. CASE Observe(r)
    <3>1. CASE UNCHANGED snap /\ phase' = [phase EXCEPT ![r] = "deferred"]
      BY <2>1, <3>1 DEF Observe, TypeOK, RowsInv
    <3>2. CASE \E reading \in Readings, amount \in Amounts :
                 Usable(reading) /\ snap' = [snap EXCEPT ![r] = Snapshot(reading, amount)]
      <4>1. /\ snap'[r].amount \in Amounts
            /\ snap'[r].spendable <= Limit
            /\ snap'[r].observedAt \in Instant
            /\ snap'[r].resetsAt = NextReset(snap'[r].observedAt)
        BY <3>2, SnapshotFacts DEF TypeOK
      <4>2. \A k \in Runs \ {r} : snap'[k] = snap[k] /\ phase'[k] = phase[k]
        BY <2>1, <3>2 DEF Observe, TypeOK
      <4> QED BY <2>1, <4>1, <4>2 DEF Observe
    <3> QED BY <2>1, <3>1, <3>2 DEF Observe
  <2>2. CASE Check(r)
    BY <2>2 DEF Check, Stop, TypeOK
  <2>3. CASE Reserve(r)
    <3>1. UNCHANGED snap /\ phase[r] = "checked"
          /\ \A k \in Runs \ {r} : rows'[k] = rows[k] /\ phase'[k] = phase[k]
      BY <2>3 DEF Reserve, Stop, TypeOK
    <3> QED BY <3>1
  <2>4. CASE ReserveAgain(r)
    BY <2>4 DEF ReserveAgain, TypeOK
  <2>5. CASE LockTimeout(r)
    BY <2>5 DEF LockTimeout, Stop, TypeOK
  <2>6. CASE CallAgain(r)
    BY <2>6 DEF CallAgain, TypeOK
  <2>7. CASE Begin(r)
    BY <2>7 DEF Begin, Stop, TypeOK
  <2>8. CASE EndWork(r)
    BY <2>8 DEF EndWork, TypeOK
  <2>9. CASE Finish(r)
    <3>1. UNCHANGED snap /\ phase[r] = "cleaning"
          /\ \A k \in Runs \ {r} : rows'[k] = rows[k] /\ phase'[k] = phase[k]
      BY <2>9 DEF Finish, Stop, TypeOK
    <3> QED BY <3>1
  <2>10. CASE Crash(r)
    BY <2>10 DEF Crash, Stop, TypeOK
  <2> QED BY <1>3, <2>1, <2>2, <2>3, <2>4, <2>5, <2>6, <2>7, <2>8, <2>9, <2>10 DEF RunNext
<1> QED BY <1>1, <1>2, <1>3 DEF Next

LEMMA RowsStep ==
  ASSUME IInv, Next
  PROVE  RowsInv'
<1> USE DEF IInv
<1>1. CASE Tick
  BY <1>1 DEF Tick, RowsInv, Held
<1>2. CASE StepClock
  BY <1>2 DEF StepClock, RowsInv, Held
<1>3. ASSUME NEW r \in Runs, RunNext(r) PROVE RowsInv'
  <2> USE DEF RowsInv, Held
  <2>1. CASE Observe(r)
    <3>1. \A k \in Runs \ {r} : snap'[k] = snap[k] /\ phase'[k] = phase[k]
      BY <2>1 DEF Observe, TypeOK
    <3>2. rows[r] = NoRow /\ UNCHANGED rows
      BY <2>1 DEF Observe, MayStart
    <3>3. phase'[r] \in {"discovering", "deferred"}
      BY <2>1 DEF Observe, TypeOK
    <3> QED BY <3>1, <3>2, <3>3
  <2>2. CASE Check(r)
    BY <2>2 DEF Check, Stop, TypeOK
  <2>3. CASE Reserve(r)
    <3>1. CASE UNCHANGED rows /\ phase' = [phase EXCEPT ![r] = "deferred"]
      BY <2>3, <3>1 DEF Reserve, TypeOK
    <3>2. CASE Admitted(r) /\ phase' = [phase EXCEPT ![r] = "reserved"]
      <4>1. /\ rows'[r] = ReservedRow(snap[r]) /\ rows'[r] # NoRow
            /\ \A k \in Runs \ {r} : rows'[k] = rows[k]
        BY <3>2, UsedAdmitted, NoRowIsNotARow
      <4>2. UNCHANGED snap /\ phase'[r] = "reserved"
            /\ \A k \in Runs \ {r} : phase'[k] = phase[k]
        BY <3>2 DEF Admitted, TypeOK
      <4> QED BY <4>1, <4>2 DEF ReservedRow
    <3> QED BY <2>3, <3>1, <3>2 DEF Reserve, Admitted, Stop
  <2>4. CASE ReserveAgain(r)
    <3>1. rows[r].status = "reserved"
      BY <2>4 DEF ReserveAgain, TypeOK
    <3> QED BY <2>4, <3>1 DEF ReserveAgain, TypeOK
  <2>5. CASE LockTimeout(r)
    BY <2>5 DEF LockTimeout, Stop, TypeOK
  <2>6. CASE CallAgain(r)
    BY <2>6 DEF CallAgain, TypeOK
  <2>7. CASE Begin(r)
    BY <2>7 DEF Begin, Stop, TypeOK
  <2>8. CASE EndWork(r)
    BY <2>8 DEF EndWork, TypeOK
  <2>9. CASE Finish(r)
    <3>1. rows[r] \in Rows
      BY <2>9 DEF Finish, TypeOK
    <3>2. /\ rows'[r] # NoRow
          /\ rows'[r].window = rows[r].window /\ rows'[r].tokens = rows[r].tokens
          /\ rows'[r].createdAt = rows[r].createdAt
          /\ \A k \in Runs \ {r} : rows'[k] = rows[k]
      <4>1. CASE UNCHANGED rows
        BY <2>9, <4>1 DEF Finish
      <4>2. CASE rows' = [rows EXCEPT ![r].status = "ended"]
        <5>1. rows'[r] = [rows[r] EXCEPT !.status = "ended"] /\ rows'[r] \in Rows
          BY <3>1, <4>2 DEF TypeOK, Rows, Statuses
        <5> QED BY <3>1, <4>2, <5>1, NoRowIsNotARow DEF TypeOK, Rows
      <4> QED BY <2>9, <4>1, <4>2 DEF Finish
    <3>3. phase'[r] = "finished" /\ UNCHANGED snap
          /\ \A k \in Runs \ {r} : phase'[k] = phase[k]
      BY <2>9 DEF Finish, Stop, TypeOK
    <3> QED BY <2>9, <3>2, <3>3 DEF Finish
  <2>10. CASE Crash(r)
    BY <2>10 DEF Crash, Stop, TypeOK
  <2> QED BY <1>3, <2>1, <2>2, <2>3, <2>4, <2>5, <2>6, <2>7, <2>8, <2>9, <2>10 DEF RunNext
<1> QED BY <1>1, <1>2, <1>3 DEF Next

LEMMA TimingStep ==
  ASSUME IInv, Next
  PROVE  TimingInv'
<1> USE DEF IInv
<1>1. CASE Tick
  <2>1. ASSUME NEW r \in Runs, Timed(r) PROVE now' + left'[r] = now + left[r]
    BY <1>1, <2>1 DEF Tick, TypeOK, Instant
  <2> QED BY <1>1, <2>1 DEF Tick, TimingInv, Timed
<1>2. CASE StepClock
  <2>1. now' <= now + 1 /\ steps' = steps + 1
    BY <1>2 DEF StepClock, TypeOK, Instant
  <2>2. now \in Int /\ now' \in Int /\ steps \in Int /\ MaxRunTime \in Int
        /\ SnapshotMaxAge \in Int /\ AdmissionDelay \in Int /\ CleanupDelay \in Int
        /\ ResetSafety \in Int
    BY <1>2, BudgetAssumption DEF StepClock, TypeOK, Instant
  <2>3. \A r \in Runs : left[r] \in Int /\ snap[r].observedAt \in Int
                        /\ snap[r].resetsAt \in Int
    BY DEF TypeOK, SnapshotType
  <2> QED BY <1>2, <2>1, <2>2, <2>3
       DEF StepClock, TimingInv, LatestBegin, LatestEnd
<1>3. ASSUME NEW r \in Runs, RunNext(r) PROVE TimingInv'
  <2> USE DEF TimingInv
  <2>1. UNCHANGED <<now, steps>>
    BY <1>3 DEF RunNext, Observe, Check, Reserve, ReserveAgain, LockTimeout,
                CallAgain, Begin, EndWork, Finish, Crash
  <2>2. \A k \in Runs \ {r} :
          snap'[k] = snap[k] /\ phase'[k] = phase[k] /\ left'[k] = left[k]
    BY <1>3 DEF RunNext, Observe, Check, Reserve, ReserveAgain, LockTimeout,
                CallAgain, Begin, EndWork, Finish, Crash, Stop, TypeOK
  <2>3. /\ now \in Int /\ steps \in Nat /\ MaxRunTime \in Nat
        /\ SnapshotMaxAge \in Nat /\ AdmissionDelay \in Nat /\ CleanupDelay \in Nat
        /\ ResetSafety \in Nat /\ left[r] \in Nat
        /\ snap[r].observedAt \in Nat /\ snap[r].resetsAt \in Nat
    BY BudgetAssumption DEF TypeOK, Instant, SnapshotType
  <2>4. CASE Check(r) \/ CallAgain(r)
    <3>1. CASE Fresh(snap[r]) /\ phase'[r] = "checked" /\ left'[r] = AdmissionDelay
               /\ UNCHANGED snap
      BY <2>1, <2>2, <2>3, <3>1 DEF Fresh, LatestBegin
    <3>2. CASE phase'[r] = "deferred"
      BY <2>1, <2>2, <3>2
    <3> QED BY <2>4, <3>1, <3>2 DEF Check, CallAgain, Stop, TypeOK
  <2>5. CASE Reserve(r) \/ ReserveAgain(r)
    <3>1. CASE phase'[r] = "reserved" /\ phase[r] = "checked" /\ UNCHANGED <<snap, left>>
      BY <2>1, <2>2, <3>1
    <3>2. CASE phase'[r] = "deferred"
      BY <2>1, <2>2, <3>2
    <3> QED BY <2>5, <3>1, <3>2 DEF Reserve, ReserveAgain, Stop, TypeOK
  <2>6. CASE Begin(r)
    <3>1. CASE phase'[r] = "deferred"
      BY <2>1, <2>2, <3>1
    <3>2. CASE phase'[r] = "working" /\ left'[r] = RunTime(r)
      <4>1. phase[r] = "reserved" /\ UNCHANGED snap
        BY <2>6 DEF Begin
      <4>2. now <= snap[r].observedAt + LatestBegin + steps
        BY <2>3, <4>1 DEF LatestBegin
      <4>3. RunTime(r) <= MaxRunTime /\ RunTime(r) <= snap[r].resetsAt - now - ResetSafety
            /\ RunTime(r) \in Int
        BY <2>3 DEF RunTime, MinOf
      <4> QED BY <2>1, <2>2, <2>3, <3>2, <4>1, <4>2, <4>3 DEF LatestBegin, LatestEnd
    <3> QED BY <2>6, <3>1, <3>2 DEF Begin, Stop, TypeOK
  <2>7. CASE EndWork(r)
    <3>1. phase[r] = "working" /\ phase'[r] = "cleaning" /\ left'[r] = CleanupDelay
          /\ UNCHANGED snap
      BY <2>7 DEF EndWork, TypeOK
    <3> QED BY <2>1, <2>2, <2>3, <3>1 DEF LatestBegin, LatestEnd
  <2>8. CASE Observe(r) \/ LockTimeout(r) \/ Finish(r) \/ Crash(r)
    <3>1. phase'[r] \in {"discovering", "deferred", "failed", "finished", "crashed"}
      BY <2>8 DEF Observe, LockTimeout, Finish, Crash, Stop, TypeOK
    <3> QED BY <2>1, <2>2, <3>1
  <2> QED BY <1>3, <2>4, <2>5, <2>6, <2>7, <2>8 DEF RunNext
<1> QED BY <1>1, <1>2, <1>3 DEF Next

\* A step that neither changes a row nor the snapshot behind one keeps every
\* window covered.
LEMMA CoveredKept ==
  ASSUME IInv, \A w : Used(w)' = Used(w),
         \A r \in Runs : Held(r) => /\ Held(r)'
                                   /\ rows'[r].window = rows[r].window
                                   /\ snap'[r].spendable = snap[r].spendable
  PROVE  WindowCovered'
BY DEF IInv, WindowCovered, Held

LEMMA CoveredStep ==
  ASSUME IInv, Next
  PROVE  WindowCovered'
<1> USE DEF IInv
<1>1. CASE UNCHANGED <<rows, snap>>
  <2>1. \A w : Used(w)' = Used(w)
    BY <1>1, UsedUnchanged
  <2> QED BY <1>1, <2>1, CoveredKept DEF Held
<1>2. ASSUME NEW r \in Runs, Observe(r) PROVE WindowCovered'
  <2>1. UNCHANGED rows /\ ~Held(r)
    BY <1>2 DEF Observe, MayStart, RowsInv
  <2>2. \A k \in Runs \ {r} : snap'[k] = snap[k]
    BY <1>2 DEF Observe, TypeOK
  <2>3. \A w : Used(w)' = Used(w)
    BY <2>1, UsedUnchanged
  <2> QED BY <2>1, <2>2, <2>3, CoveredKept DEF Held
<1>3. ASSUME NEW r \in Runs, Reserve(r) PROVE WindowCovered'
  <2>1. CASE UNCHANGED rows
    BY <1>1, <1>3, <2>1 DEF Reserve
  <2>2. CASE Admitted(r)
    <3> DEFINE own == WindowKey(snap[r].observedAt)
    <3>1. /\ rows'[r] = ReservedRow(snap[r]) /\ rows'[r] # NoRow
          /\ \A k \in Runs \ {r} : rows'[k] = rows[k]
          /\ \A w : Used(w)' = Used(w) + (IF w = own THEN snap[r].amount ELSE 0)
          /\ \A w : w = own => Used(w)' <= snap[r].spendable
      BY <2>2, UsedAdmitted, NoRowIsNotARow
    <3>2. rows[r] = NoRow /\ UNCHANGED snap
      BY <2>2 DEF Admitted
    <3> SUFFICES ASSUME NEW w \in Windows, Used(w)' > 0
                 PROVE  \E k \in Runs : /\ rows'[k] # NoRow
                                        /\ rows'[k].window = w
                                        /\ Used(w)' <= snap'[k].spendable
      BY DEF WindowCovered, Windows
    <3>3. CASE w = own
      <4>1. rows'[r].window = w
        BY <3>1, <3>3 DEF ReservedRow
      <4>2. Used(w)' <= snap'[r].spendable
        BY <3>1, <3>2, <3>3
      <4> QED BY <3>1, <4>1, <4>2
    <3>4. CASE w # own
      <4>1. Used(w)' = Used(w) /\ Used(w) > 0
        BY <3>1, <3>4, UsedType
      <4>2. PICK k \in Runs : rows[k] # NoRow /\ rows[k].window = w
                              /\ Used(w) <= snap[k].spendable
        BY <4>1 DEF WindowCovered
      <4>3. k # r
        BY <3>2, <4>2
      <4> QED BY <3>1, <3>2, <4>1, <4>2, <4>3
    <3> QED BY <3>3, <3>4
  <2> QED BY <1>3, <2>1, <2>2 DEF Reserve, Admitted
<1>4. ASSUME NEW r \in Runs, Finish(r) PROVE WindowCovered'
  <2>1. CASE UNCHANGED rows
    BY <1>1, <1>4, <2>1 DEF Finish
  <2>2. CASE rows' = [rows EXCEPT ![r].status = "ended"]
    <3>1. Held(r) /\ UNCHANGED snap
      BY <1>4 DEF Finish, RowsInv
    <3>2. \A w : Used(w)' = Used(w)
      BY <2>2, <3>1, UsedFinish
    <3>3. rows[r] \in Rows /\ rows'[r] = [rows[r] EXCEPT !.status = "ended"]
          /\ \A k \in Runs \ {r} : rows'[k] = rows[k]
      BY <2>2, <3>1 DEF Held, TypeOK
    <3>4. rows'[r] \in Rows /\ rows'[r].window = rows[r].window
      BY <3>3 DEF Rows, Statuses
    <3> QED BY <3>1, <3>2, <3>3, <3>4, CoveredKept, NoRowIsNotARow DEF Held
  <2> QED BY <1>4, <2>1, <2>2 DEF Finish
<1> QED BY <1>1, <1>2, <1>3, <1>4
     DEF Next, RunNext, Tick, StepClock, Check, ReserveAgain, LockTimeout,
         CallAgain, Begin, EndWork, Crash

LEMMA InvInit ==
  ASSUME Init
  PROVE  IInv
<1>1. TypeOK
  BY BudgetAssumption DEF Init, TypeOK, Instant, Phases, SnapshotType
<1>2. SnapshotsInv /\ RowsInv /\ TimingInv
  BY DEF Init, SnapshotsInv, RowsInv, TimingInv, Held
<1>3. WindowCovered
  BY UsedInit DEF WindowCovered
<1> QED BY <1>1, <1>2, <1>3 DEF IInv

LEMMA InvStutter ==
  ASSUME IInv, UNCHANGED vars
  PROVE  IInv'
<1> USE DEF IInv, vars
<1>1. TypeOK'
  BY DEF TypeOK
<1>2. SnapshotsInv' /\ RowsInv' /\ TimingInv'
  BY DEF SnapshotsInv, RowsInv, TimingInv, Held
<1>3. WindowCovered'
  <2>1. \A w : Used(w)' = Used(w)
    BY UsedUnchanged
  <2> QED BY <2>1, CoveredKept DEF Held
<1> QED BY <1>1, <1>2, <1>3

-------------------------------------------------------------------------------
\* Theorems.

\* IInv is an invariant of budget admission: the rows repeat the snapshots of
\* their runs, and each controller is on time.
THEOREM BudgetInvariant == Spec => []IInv
<1>1. Init => IInv
  BY InvInit
<1>2. IInv /\ [Next]_vars => IInv'
  <2>1. ASSUME IInv, Next PROVE IInv'
    BY <2>1, TypeStep, SnapshotsStep, RowsStep, TimingStep, CoveredStep DEF IInv
  <2> QED BY <2>1, InvStutter
<1> QED BY <1>1, <1>2, PTL DEF Spec

\* Every variable keeps its type.
THEOREM BudgetTypes == Spec => []TypeOK
BY BudgetInvariant, PTL DEF IInv

\* No quota is spent twice, whatever the number of concurrent controllers
\* (reserve in budget.py).
THEOREM EveryWindowCovered == Spec => []WindowCovered
BY BudgetInvariant, PTL DEF IInv

\* The work charged to a window ends before the window's reset, given that the
\* clock is never stepped by as much as reset_safety_seconds.
THEOREM WorkBeforeReset == Spec => []WorkEndsBeforeReset
<1>1. ASSUME IInv PROVE WorkEndsBeforeReset
  <2> SUFFICES ASSUME NEW r \in Runs, phase[r] = "working"
               PROVE  now < snap[r].resetsAt
    BY DEF WorkEndsBeforeReset
  <2>1. now + left[r] <= snap[r].resetsAt - ResetSafety + steps
    BY <1>1 DEF IInv, TimingInv
  <2>2. /\ now \in Nat /\ left[r] \in Nat /\ snap[r].resetsAt \in Nat
        /\ ResetSafety \in Nat /\ steps < ResetSafety /\ steps \in Nat
    BY <1>1, BudgetAssumption, SafetyCoversSteps DEF IInv, TypeOK, SnapshotType, Instant
  <2> QED BY <2>1, <2>2
<1> QED BY <1>1, BudgetInvariant, PTL

\* A controller that is alive is in active_run_ids(), so that the reaper keeps
\* its workspace, given that the completion grace covers the bounded delays.
THEOREM LiveProtected == Spec => []LiveRunsProtected
<1>1. ASSUME IInv PROVE LiveRunsProtected
  <2> SUFFICES ASSUME NEW r \in Runs, phase[r] \in {"reserved", "working", "cleaning"}
               PROVE  r \in ActiveRunIds
    BY DEF LiveRunsProtected
  <2>1. Held(r) /\ rows[r].status = "reserved" /\ rows[r].createdAt = snap[r].observedAt
    BY <1>1 DEF IInv, RowsInv
  <2>2. /\ now \in Nat /\ left[r] \in Nat /\ snap[r].observedAt \in Nat
        /\ steps \in Nat /\ steps <= MaxClockSteps /\ MaxClockSteps \in Nat
        /\ MaxRunTime \in Nat /\ SnapshotMaxAge \in Nat /\ AdmissionDelay \in Nat
        /\ CleanupDelay \in Nat /\ ResetSafety \in Nat /\ CompletionGrace \in Nat
    BY <1>1, BudgetAssumption DEF IInv, TypeOK, SnapshotType, Instant
  <2>3. now + left[r] <= snap[r].observedAt + LatestEnd + CleanupDelay + steps
    BY <1>1, <2>2 DEF IInv, TimingInv, LatestBegin, LatestEnd
  <2>4. now - snap[r].observedAt <= LiveHorizon
    BY <2>2, <2>3, GraceCoversDelays DEF LatestBegin, LatestEnd, LiveHorizon
  <2> QED BY <2>1, <2>4 DEF ActiveRunIds, Held
<1> QED BY <1>1, BudgetInvariant, PTL

\* What one step does to the sums: nothing, or one admission.
LEMMA UsedStep ==
  ASSUME IInv, [Next]_vars
  PROVE  \/ \A w : Used(w)' = Used(w)
         \/ \E own \in Windows, c \in Amounts :
              /\ \A w : Used(w)' = Used(w) + (IF w = own THEN c ELSE 0)
              /\ \A w : w = own => Used(w)' <= Limit
<1> USE DEF IInv
<1>1. CASE UNCHANGED rows
  BY <1>1, UsedUnchanged
<1>2. ASSUME NEW r \in Runs, Admitted(r)
      PROVE  \E own \in Windows, c \in Amounts :
              /\ \A w : Used(w)' = Used(w) + (IF w = own THEN c ELSE 0)
              /\ \A w : w = own => Used(w)' <= Limit
  <2> DEFINE own == WindowKey(snap[r].observedAt)
             c == snap[r].amount
  <2>1. /\ \A w : Used(w)' = Used(w) + (IF w = own THEN c ELSE 0)
        /\ \A w : w = own => Used(w)' <= snap[r].spendable
        /\ own \in Windows /\ c \in Nat
    BY <1>2, UsedAdmitted
  <2>2. c \in Amounts /\ snap[r].spendable <= Limit /\ snap[r].spendable \in Nat
    BY <1>2 DEF SnapshotsInv, Admitted, TypeOK, SnapshotType
  <2>3. Limit \in Nat
    BY BudgetAssumption DEF Limit, MaxOf
  <2>4. ASSUME NEW w, w = own PROVE Used(w)' <= Limit
    <3>1. Used(w) \in Nat /\ Used(w)' = Used(w) + c
      BY <2>1, <2>4, UsedType
    <3> QED BY <2>1, <2>2, <2>3, <2>4, <3>1
  <2> HIDE DEF own, c
  <2> QED BY <2>1, <2>2, <2>4
<1>3. ASSUME NEW r \in Runs, Finish(r), ~UNCHANGED rows
      PROVE  \A w : Used(w)' = Used(w)
  BY <1>3, UsedFinish DEF Finish, RowsInv
<1> QED BY <1>1, <1>2, <1>3
     DEF vars, Next, RunNext, Tick, StepClock, Observe, Check, Reserve, Admitted,
         ReserveAgain, LockTimeout, CallAgain, Begin, EndWork, Finish, Crash

\* No step returns quota to a window: neither finish() nor a crash does.
THEOREM NeverReturned == Spec => [][\A w \in Windows : Used(w)' >= Used(w)]_vars
<1>1. ASSUME IInv, [Next]_vars
      PROVE  [\A w \in Windows : Used(w)' >= Used(w)]_vars
  <2>1. ASSUME NEW w PROVE Used(w)' >= Used(w)
    <3>1. Used(w) \in Nat
      BY <1>1, UsedType DEF IInv
    <3>2. \A c \in Amounts : c \in Nat
      BY BudgetAssumption
    <3> QED BY <1>1, <3>1, <3>2, UsedStep
  <2> QED BY <2>1
<1> QED BY <1>1, BudgetInvariant, PTL DEF Spec

\* The ledger implements the abstract envelope.
THEOREM LedgerImplementsEnvelope == Spec => ImplementsEnvelope
<1> DEFINE bar == [w \in Windows |-> Used(w)]
<1>1. ASSUME Init PROVE Envelope!Init
  BY <1>1, UsedInit DEF Envelope!Init
<1>2. ASSUME IInv, [Next]_vars PROVE [Envelope!Next]_bar
  <2>1. CASE \A w : Used(w)' = Used(w)
    <3>1. bar' = bar
      BY <2>1 DEF Windows
    <3> QED BY <3>1
  <2>2. ASSUME NEW own \in Windows, NEW c \in Amounts,
               \A w : Used(w)' = Used(w) + (IF w = own THEN c ELSE 0),
               \A w : w = own => Used(w)' <= Limit
        PROVE  Envelope!Next
    <3>1. bar' = [w \in Windows |-> Used(w)']
      BY DEF Windows
    <3>2. \A w \in Windows : Used(w) \in Nat
      BY <1>2, UsedType DEF IInv
    <3>3. bar' = [bar EXCEPT ![own] = bar[own] + c]
      <4>1. \A w \in Windows :
              Used(w)' = [bar EXCEPT ![own] = bar[own] + c][w]
        BY <2>2, <3>2
      <4> DEFINE grown == [bar EXCEPT ![own] = bar[own] + c]
      <4>2. grown = [w \in Windows |-> grown[w]]
        OBVIOUS
      <4>3. \A w \in Windows : Used(w)' = grown[w]
        BY <4>1
      <4> HIDE DEF grown
      <4>4. [w \in Windows |-> Used(w)'] = [w \in Windows |-> grown[w]]
        BY <4>3
      <4>5. bar' = grown
        BY <3>1, <4>2, <4>4
      <4> QED BY <4>5 DEF grown
    <3>4. bar[own] + c <= Limit
      BY <2>2, <3>2
    <3>5. Envelope!Admit(own)
      BY <3>3, <3>4 DEF Envelope!Admit, Limit
    <3> QED BY <3>5 DEF Envelope!Next
  <2> QED BY <1>2, <2>1, <2>2, UsedStep
<1> QED BY <1>1, <1>2, BudgetInvariant, PTL DEF Spec, ImplementsEnvelope, Envelope!Spec

===============================================================================
