----------------------------- MODULE CyclesProofs ------------------------------
(***************************************************************************)
(* The run lock means a living cycle, a journal that verifies tells the    *)
(* truth, and a rehearsal's success is earned: for every set of cycles,    *)
(* whichever of them the scheduler starts, and for every number of         *)
(* appends that fail.                                                      *)
(***************************************************************************)
EXTENDS Cycles, SequenceTheorems, TLAPS

-------------------------------------------------------------------------------
\* The lock.

\* Only scheduled cycles open the lock's file: without this, the one that takes
\* the lock might be another.
OpenersAreScheduled ==
  \A c \in Cycles : process[c] \in {"opened", "locked"} => c \in scheduled

LockInv == LockTypeOK /\ OpenersAreScheduled /\ LockMeansLife

LEMMA LockInvInit == Init => LockInv
BY DEF Init, LockInit, LockInv, LockTypeOK, OpenersAreScheduled, LockMeansLife

\* No step of the script, no exit, no kill and no reboot breaks it.
LEMMA LockInvStep == LockInv /\ [Next]_vars => LockInv'
<1> USE RunLockAssumption, CyclesAssumption DEF LockInv, LockTypeOK, OpenersAreScheduled, LockMeansLife, Alive
<1> SUFFICES ASSUME LockInv, [Next]_vars PROVE LockInv'
  OBVIOUS
<1>1. CASE UNCHANGED lockVars
  BY <1>1 DEF lockVars
<1>2. ASSUME NEW c \in Cycles, Start(c) PROVE LockInv'
  BY <1>2 DEF Start, GoOn
<1>3. ASSUME NEW c \in Cycles, TakeLock(c) PROVE LockInv'
  BY <1>3 DEF TakeLock, GoOn
<1>4. ASSUME NEW c \in Cycles, Exec(c) PROVE LockInv'
  BY <1>4 DEF Exec, GoOn, Closed
<1>5. ASSUME NEW c \in Cycles, End(c) PROVE LockInv'
  BY <1>5 DEF End, GoOn, Closed
<1>6. ASSUME NEW c \in Cycles, Kill(c) PROVE LockInv'
  BY <1>6 DEF Kill, GoOn, Closed
<1>7. CASE StopAll
  BY <1>7 DEF StopAll
<1> QED
  BY <1>1, <1>2, <1>3, <1>4, <1>5, <1>6, <1>7
     DEF Next, vars, Controller, Reboot, Script, Leave, Killed

\* At every moment a scheduled cycle that works has the run lock, and the lock
\* that turns another away has a living owner (run-cycle.sh:81).
THEOREM LockHeldByTheLiving == Spec => []LockMeansLife
<1>1. LockInv => LockMeansLife
  BY DEF LockInv
<1> QED BY <1>1, LockInvInit, LockInvStep, PTL DEF Spec

-------------------------------------------------------------------------------
\* The journal.

Records ==
  {"scheduled", "deferred", "planning", "implementation", "review", "approved",
   "dry_run_complete", "failed", "cleaning", "cleanup_receipt", "cleanup_failed",
   "telemetry_degraded", "cut"}

Pieces == [id : Nat, previous : Nat, event : Records, form : Forms]

JournalTypes(j) ==
  /\ j \in [file : Seq(Pieces), synced : Nat, previous : Nat, tries : Nat, acked : Seq(Nat)]
  /\ j.synced <= Len(j.file)

\* The verifier's conditions, and the history, as far as the n-th piece.
ChainTo(file, n) ==
  \A k \in 1 .. n :
    /\ file[k].form # "torn" /\ OwnLine(file, k)
    /\ file[k].previous = IF k = 1 THEN NoHash ELSE file[k - 1].id

HistoryTo(file, n, acked) ==
  /\ Len(acked) = n \/ Len(acked) + 1 = n
  /\ \A k \in 1 .. Len(acked) : acked[k] = file[k].id

\* No two pieces have the same hash, the writer's is that of the last record
\* whose append returned, and those records are on the disk.  What may be left of
\* the file is the history, if it verifies.
JournalInv(j) ==
  /\ JournalTypes(j)
  /\ \A k \in 1 .. Len(j.file) : j.file[k].id \in 1 .. j.tries
  /\ \A k, m \in 1 .. Len(j.file) : j.file[k].id = j.file[m].id => k = m
  /\ j.previous = IF Len(j.acked) = 0 THEN NoHash ELSE j.acked[Len(j.acked)]
  /\ \A i \in 1 .. Len(j.acked) :
       \E k \in 1 .. j.synced : j.file[k].id = j.acked[i] /\ j.file[k].form = "line"
  /\ \A n \in j.synced .. Len(j.file) : ChainTo(j.file, n) => HistoryTo(j.file, n, j.acked)

\* A piece is written behind the file, with a hash that no other one has.
LEMMA LeftFacts ==
  ASSUME NEW j, JournalTypes(j), NEW event \in Records, NEW form \in Forms
  PROVE  /\ JournalTypes(Left(j, event, form))
         /\ Left(j, event, form).synced = j.synced
         /\ Left(j, event, form).previous = j.previous
         /\ Left(j, event, form).acked = j.acked
         /\ Left(j, event, form).tries = j.tries + 1
         /\ Len(Left(j, event, form).file) = Len(j.file) + 1
         /\ \A k \in 1 .. Len(j.file) : Left(j, event, form).file[k] = j.file[k]
         /\ Left(j, event, form).file[Len(j.file) + 1].id = j.tries + 1
         /\ Left(j, event, form).file[Len(j.file) + 1].previous = j.previous
         /\ Left(j, event, form).file[Len(j.file) + 1].form = form
<1> DEFINE piece == Piece(j.tries + 1, j.previous, event, form)
           file == Append(j.file, piece)
<1>1. /\ j.file \in Seq(Pieces) /\ j.tries \in Nat /\ j.previous \in Nat
      /\ j.synced \in Nat /\ j.synced <= Len(j.file) /\ Len(j.file) \in Nat
      /\ j.acked \in Seq(Nat)
  BY DEF JournalTypes
<1>2. piece \in Pieces /\ piece.id = j.tries + 1 /\ piece.previous = j.previous /\ piece.form = form
  BY <1>1 DEF Piece, Pieces
<1>3. j = [file |-> j.file, synced |-> j.synced, previous |-> j.previous,
           tries |-> j.tries, acked |-> j.acked]
  BY DEF JournalTypes
<1>4. Left(j, event, form) = [j EXCEPT !.file = file, !.tries = j.tries + 1]
  BY DEF Left
<1> HIDE DEF piece
<1>5. /\ file \in Seq(Pieces)
      /\ Len(file) = Len(j.file) + 1
      /\ \A k \in 1 .. Len(j.file) : file[k] = j.file[k]
      /\ file[Len(j.file) + 1] = piece
  BY <1>1, <1>2, AppendProperties
<1> HIDE DEF file
<1>6. Left(j, event, form) = [file |-> file, synced |-> j.synced, previous |-> j.previous,
                              tries |-> j.tries + 1, acked |-> j.acked]
  BY <1>3, <1>4
<1>7. JournalTypes(Left(j, event, form))
  BY <1>1, <1>5, <1>6 DEF JournalTypes
<1> QED BY <1>2, <1>5, <1>6, <1>7

\* A file that verifies with one more piece holds the acknowledged records
\* before that piece, and no other: the piece names the last of them.
LEMMA NewPieceLinks ==
  ASSUME NEW j, JournalInv(j), NEW event \in Records, NEW form \in Forms,
         ChainTo(Left(j, event, form).file, Len(j.file) + 1)
  PROVE  /\ Len(j.acked) = Len(j.file)
         /\ \A k \in 1 .. Len(j.file) : j.acked[k] = j.file[k].id
<1> DEFINE L == Len(j.file)
           A == Len(j.acked)
           new == Left(j, event, form).file
<1>1. JournalTypes(j) /\ L \in Nat /\ A \in Nat /\ j.synced \in 0 .. L /\ j.tries \in Nat
  BY DEF JournalInv, JournalTypes
<1>2. /\ \A k \in 1 .. L : new[k] = j.file[k]
      /\ new[L + 1].previous = j.previous
  BY <1>1, LeftFacts
<1> HIDE DEF new
<1>3. ChainTo(new, L + 1)
  BY DEF new
<1>4. ChainTo(j.file, L)
  BY <1>1, <1>2, <1>3 DEF ChainTo, OwnLine
<1>5. HistoryTo(j.file, L, j.acked)
  BY <1>1, <1>4 DEF JournalInv
<1>6. CASE L = 0
  BY <1>1, <1>5, <1>6 DEF HistoryTo
<1>7. CASE L # 0
  <2>1. j.file[L].id = j.previous /\ j.file[L].id # NoHash
    <3>1. new[L + 1].previous = new[L].id
      BY <1>1, <1>3, <1>7 DEF ChainTo
    <3> QED BY <1>1, <1>2, <1>7, <3>1 DEF JournalInv, NoHash
  <2>2. A # 0 /\ j.acked[A] = j.file[L].id
    BY <2>1 DEF JournalInv
  <2>3. j.acked[A] = j.file[A].id /\ A \in 1 .. L
    BY <1>1, <1>5, <2>2 DEF HistoryTo
  <2>4. A = L
    <3>1. \A k, m \in 1 .. L : j.file[k].id = j.file[m].id => k = m
      BY DEF JournalInv
    <3>2. L \in 1 .. L
      BY <1>1, <1>7
    <3>3. j.file[A].id = j.file[L].id
      BY <2>2, <2>3
    <3> QED BY <2>3, <3>1, <3>2, <3>3
  <2> QED BY <1>5, <2>4 DEF HistoryTo
<1> QED BY <1>6, <1>7

\* An append that raises, or is cut, keeps the invariant ...
LEMMA LeftKeeps ==
  ASSUME NEW j, JournalInv(j), NEW event \in Records, NEW form \in Forms
  PROVE  JournalInv(Left(j, event, form))
<1> DEFINE L == Len(j.file)
           new == Left(j, event, form)
<1>1. /\ JournalTypes(j) /\ L \in Nat /\ j.synced \in 0 .. L /\ j.tries \in Nat
      /\ Len(j.acked) \in Nat
  BY DEF JournalInv, JournalTypes
<1>2. /\ JournalTypes(new)
      /\ new.synced = j.synced /\ new.previous = j.previous /\ new.acked = j.acked
      /\ new.tries = j.tries + 1 /\ Len(new.file) = L + 1
      /\ \A k \in 1 .. L : new.file[k] = j.file[k]
      /\ new.file[L + 1].id = j.tries + 1
  BY <1>1, LeftFacts
<1>3. ChainTo(new.file, L + 1) => HistoryTo(new.file, L + 1, j.acked)
  BY <1>1, <1>2, NewPieceLinks DEF HistoryTo
<1> HIDE DEF new
<1>4. \A k \in 1 .. L : j.file[k].id \in 1 .. j.tries
  BY DEF JournalInv
<1>5. \A k, m \in 1 .. L : j.file[k].id = j.file[m].id => k = m
  BY DEF JournalInv
<1>6. \A i \in 1 .. Len(j.acked) :
        \E k \in 1 .. j.synced : j.file[k].id = j.acked[i] /\ j.file[k].form = "line"
  BY DEF JournalInv
<1>7. \A k \in 1 .. L + 1 : new.file[k].id \in 1 .. new.tries
  <2> SUFFICES ASSUME NEW k \in 1 .. L + 1 PROVE new.file[k].id \in 1 .. j.tries + 1
    BY <1>2
  <2>1. CASE k = L + 1
    BY <1>1, <1>2, <2>1
  <2>2. CASE k # L + 1
    <3>1. k \in 1 .. L /\ new.file[k].id = j.file[k].id
      BY <1>1, <1>2, <2>2
    <3>2. j.file[k].id \in 1 .. j.tries
      BY <1>4, <3>1
    <3> QED BY <1>1, <3>1, <3>2
  <2> QED BY <2>1, <2>2
<1>8. ASSUME NEW k \in 1 .. L + 1, NEW m \in 1 .. L + 1, new.file[k].id = new.file[m].id
      PROVE  k = m
  <2>1. \A i \in 1 .. L : new.file[i].id # new.file[L + 1].id
    <3> SUFFICES ASSUME NEW i \in 1 .. L PROVE j.file[i].id # j.tries + 1
      BY <1>2
    <3>1. j.file[i].id \in 1 .. j.tries
      BY <1>4
    <3> QED BY <1>1, <3>1
  <2>2. CASE k \in 1 .. L /\ m \in 1 .. L
    BY <1>2, <1>8, <1>5, <2>2
  <2> QED BY <1>1, <1>8, <2>1, <2>2
<1>9. \A i \in 1 .. Len(j.acked) :
        \E k \in 1 .. j.synced : new.file[k].id = j.acked[i] /\ new.file[k].form = "line"
  <2>1. \A k \in 1 .. j.synced : new.file[k] = j.file[k]
    BY <1>1, <1>2
  <2> QED BY <1>6, <2>1
<1>10. ASSUME NEW n \in j.synced .. L + 1, ChainTo(new.file, n)
      PROVE  HistoryTo(new.file, n, j.acked)
  <2>1. CASE n = L + 1
    BY <1>3, <1>10, <2>1
  <2>2. CASE n # L + 1
    <3>1. n \in j.synced .. L
      BY <1>1, <2>2
    <3>2. ChainTo(j.file, n)
      <4> SUFFICES ASSUME NEW k \in 1 .. n
                   PROVE  /\ j.file[k].form # "torn" /\ OwnLine(j.file, k)
                          /\ j.file[k].previous = IF k = 1 THEN NoHash ELSE j.file[k - 1].id
        BY DEF ChainTo
      <4>1. k \in 1 .. L /\ new.file[k] = j.file[k]
        BY <1>1, <1>2, <3>1
      <4>2. k # 1 => new.file[k - 1] = j.file[k - 1]
        BY <1>1, <1>2, <4>1
      <4> QED BY <1>10, <4>1, <4>2 DEF ChainTo, OwnLine
    <3>3. HistoryTo(j.file, n, j.acked)
      BY <3>1, <3>2 DEF JournalInv
    <3> QED BY <1>1, <1>2, <3>1, <3>3 DEF HistoryTo
  <2> QED BY <2>1, <2>2
<1> QED BY <1>2, <1>7, <1>8, <1>9, <1>10 DEF JournalInv, new

\* ... also when it left nothing, and used up a hash ...
LEMMA TriedKeeps ==
  ASSUME NEW j, JournalInv(j)
  PROVE  JournalInv([j EXCEPT !.tries = @ + 1])
<1> DEFINE new == [j EXCEPT !.tries = @ + 1]
<1>1. /\ JournalTypes(j) /\ j.tries \in Nat
      /\ \A k \in 1 .. Len(j.file) : j.file[k].id \in 1 .. j.tries
  BY DEF JournalInv, JournalTypes
<1>2. new = [file |-> j.file, synced |-> j.synced, previous |-> j.previous,
             tries |-> j.tries + 1, acked |-> j.acked]
  BY <1>1 DEF JournalTypes
<1> HIDE DEF new
<1>3. \A k \in 1 .. Len(new.file) : new.file[k].id \in 1 .. new.tries
  <2> SUFFICES ASSUME NEW k \in 1 .. Len(j.file) PROVE j.file[k].id \in 1 .. j.tries + 1
    BY <1>2
  <2>1. j.file[k].id \in 1 .. j.tries
    BY <1>1
  <2> QED BY <1>1, <2>1
<1>4. JournalTypes(new)
  BY <1>1, <1>2 DEF JournalTypes
<1>5. JournalInv(new)
  BY <1>2, <1>3, <1>4 DEF JournalInv
<1> QED BY <1>5 DEF new

\* ... and so does one that returns.
LEMMA AppendedKeeps ==
  ASSUME NEW j, JournalInv(j), NEW event \in Records
  PROVE  JournalInv(Appended(j, event))
<1> DEFINE L == Len(j.file)
           left == Left(j, event, "line")
           acked == Append(j.acked, j.tries + 1)
           new == Appended(j, event)
<1> "line" \in Forms
  BY DEF Forms
<1>1. /\ JournalTypes(j) /\ L \in Nat /\ j.synced \in 0 .. L /\ j.tries \in Nat
      /\ j.acked \in Seq(Nat) /\ Len(j.acked) \in Nat
  BY DEF JournalInv, JournalTypes
<1>2. /\ JournalTypes(left) /\ left.acked = j.acked /\ left.tries = j.tries + 1
      /\ Len(left.file) = L + 1
      /\ \A k \in 1 .. L : left.file[k] = j.file[k]
      /\ left.file[L + 1].id = j.tries + 1 /\ left.file[L + 1].form = "line"
  BY <1>1, LeftFacts
<1>3. JournalInv(left)
  BY LeftKeeps
<1>4. ChainTo(left.file, L + 1) =>
        Len(j.acked) = L /\ \A k \in 1 .. L : j.acked[k] = j.file[k].id
  BY NewPieceLinks
<1>5. new = [left EXCEPT !.synced = Len(left.file), !.previous = left.tries,
                         !.acked = Append(left.acked, left.tries)]
  BY DEF Appended
<1> HIDE DEF left
<1>6. left = [file |-> left.file, synced |-> left.synced, previous |-> left.previous,
              tries |-> left.tries, acked |-> left.acked]
  BY <1>2 DEF JournalTypes
<1>7. new = [file |-> left.file, synced |-> L + 1, previous |-> j.tries + 1,
             tries |-> j.tries + 1, acked |-> acked]
  BY <1>2, <1>5, <1>6
<1>8. /\ acked \in Seq(Nat) /\ Len(acked) = Len(j.acked) + 1
      /\ \A i \in 1 .. Len(j.acked) : acked[i] = j.acked[i]
      /\ acked[Len(j.acked) + 1] = j.tries + 1
  BY <1>1, AppendProperties
<1> HIDE DEF new, acked
<1>9. JournalTypes(new)
  BY <1>1, <1>2, <1>7, <1>8 DEF JournalTypes
<1>10. /\ \A k \in 1 .. Len(new.file) : new.file[k].id \in 1 .. new.tries
       /\ \A k, m \in 1 .. Len(new.file) : new.file[k].id = new.file[m].id => k = m
  BY <1>2, <1>3, <1>7 DEF JournalInv
<1>11. new.previous = IF Len(new.acked) = 0 THEN NoHash ELSE new.acked[Len(new.acked)]
  BY <1>1, <1>7, <1>8
<1>12. ASSUME NEW i \in 1 .. Len(acked)
       PROVE  \E k \in 1 .. L + 1 : left.file[k].id = acked[i] /\ left.file[k].form = "line"
  <2>1. CASE i = Len(j.acked) + 1
    <3>1. L + 1 \in 1 .. L + 1
      BY <1>1
    <3> QED BY <1>2, <1>8, <2>1, <3>1
  <2>2. CASE i # Len(j.acked) + 1
    <3>1. i \in 1 .. Len(j.acked)
      BY <1>1, <1>8, <2>2
    <3>2. PICK k \in 1 .. j.synced : j.file[k].id = j.acked[i] /\ j.file[k].form = "line"
      BY <3>1 DEF JournalInv
    <3>3. k \in 1 .. L /\ k \in 1 .. L + 1
      BY <1>1
    <3> QED BY <1>2, <1>8, <3>1, <3>2, <3>3
  <2> QED BY <2>1, <2>2
<1>13. ASSUME ChainTo(left.file, L + 1)
       PROVE  HistoryTo(left.file, L + 1, acked)
  <2>1. Len(acked) = L + 1
    BY <1>1, <1>4, <1>8, <1>13
  <2>2. \A k \in 1 .. L : acked[k] = left.file[k].id
    BY <1>2, <1>4, <1>8, <1>13
  <2>3. acked[L + 1] = left.file[L + 1].id
    BY <1>2, <1>4, <1>8, <1>13
  <2> QED BY <1>1, <2>1, <2>2, <2>3 DEF HistoryTo
<1>14. \A i \in 1 .. Len(new.acked) :
         \E k \in 1 .. new.synced : new.file[k].id = new.acked[i] /\ new.file[k].form = "line"
  BY <1>7, <1>12
<1>15. ASSUME NEW n \in new.synced .. Len(new.file), ChainTo(new.file, n)
       PROVE  HistoryTo(new.file, n, new.acked)
  <2>1. n = L + 1
    BY <1>1, <1>2, <1>7
  <2> QED BY <1>7, <1>13, <1>15, <2>1
<1>16. JournalInv(new)
  BY <1>9, <1>10, <1>11, <1>14, <1>15, Zenon DEF JournalInv
<1> QED BY <1>16 DEF new

\* A kill or a stop of the machine may cut off what is not on the disk yet.
LEMMA SurvivorsKeep ==
  ASSUME NEW j, JournalInv(j), NEW new \in Survivors(j)
  PROVE  /\ JournalInv(new)
         /\ ChainTo(j.file, Len(j.file)) => ChainTo(new.file, Len(new.file))
<1>1. PICK n \in j.synced .. Len(j.file) : new = [j EXCEPT !.file = SubSeq(j.file, 1, n)]
  BY DEF Survivors
<1> DEFINE file == SubSeq(j.file, 1, n)
<1>2. /\ JournalTypes(j) /\ Len(j.file) \in Nat /\ j.synced \in 0 .. Len(j.file) /\ n \in Nat
      /\ j.file \in Seq(Pieces) /\ n <= Len(j.file)
  BY DEF JournalInv, JournalTypes
<1>3. /\ file \in Seq(Pieces) /\ Len(file) = n
      /\ \A k \in 1 .. n : file[k] = j.file[k]
  BY <1>2
<1> HIDE DEF file
<1>4. j = [file |-> j.file, synced |-> j.synced, previous |-> j.previous,
           tries |-> j.tries, acked |-> j.acked]
  BY <1>2 DEF JournalTypes
<1>5. new = [file |-> file, synced |-> j.synced, previous |-> j.previous,
             tries |-> j.tries, acked |-> j.acked]
  BY <1>1, <1>4 DEF file
<1>6. JournalTypes(new)
  BY <1>2, <1>3, <1>5 DEF JournalTypes
<1>7. \A k \in 1 .. n : k \in 1 .. Len(j.file)
  BY <1>2
<1>8. \A k \in 1 .. j.synced : k \in 1 .. n
  BY <1>2
<1>9. \A m \in 0 .. n : ChainTo(file, m) <=> ChainTo(j.file, m)
  <2> TAKE m \in 0 .. n
  <2>1. \A k \in 1 .. m : file[k] = j.file[k]
    BY <1>2, <1>3
  <2>2. \A k \in 1 .. m : k # 1 => file[k - 1] = j.file[k - 1]
    BY <1>2, <1>3
  <2> QED BY <2>1, <2>2 DEF ChainTo, OwnLine
<1>10. ASSUME NEW m \in j.synced .. n, ChainTo(file, m)
       PROVE  HistoryTo(file, m, j.acked)
  <2>1. m \in 0 .. n /\ m \in j.synced .. Len(j.file)
    BY <1>2
  <2>2. HistoryTo(j.file, m, j.acked)
    BY <1>9, <1>10, <2>1 DEF JournalInv
  <2>3. \A k \in 1 .. Len(j.acked) : k \in 1 .. n
    BY <2>1, <2>2, <1>2, LenProperties DEF HistoryTo, JournalTypes
  <2> QED BY <1>3, <2>2, <2>3 DEF HistoryTo
<1>11. ChainTo(j.file, Len(j.file)) => ChainTo(file, n)
  <2>1. ChainTo(j.file, Len(j.file)) => ChainTo(j.file, n)
    BY <1>7 DEF ChainTo
  <2>2. n \in 0 .. n
    BY <1>2
  <2> QED BY <1>9, <2>1, <2>2
<1>12. /\ \A k \in 1 .. n : file[k].id \in 1 .. j.tries
       /\ \A k, m \in 1 .. n : file[k].id = file[m].id => k = m
       /\ j.previous = IF Len(j.acked) = 0 THEN NoHash ELSE j.acked[Len(j.acked)]
  BY <1>3, <1>7 DEF JournalInv
<1>13. \A i \in 1 .. Len(j.acked) :
         \E k \in 1 .. j.synced : file[k].id = j.acked[i] /\ file[k].form = "line"
  <2>1. \A i \in 1 .. Len(j.acked) :
          \E k \in 1 .. j.synced : j.file[k].id = j.acked[i] /\ j.file[k].form = "line"
    BY DEF JournalInv
  <2>2. \A k \in 1 .. j.synced : file[k] = j.file[k]
    BY <1>3, <1>8
  <2> QED BY <2>1, <2>2
<1> QED BY <1>3, <1>5, <1>6, <1>10, <1>11, <1>12, <1>13 DEF JournalInv

-------------------------------------------------------------------------------
\* The run.

Places == {"starting", "planning", "implementation", "review", "approving", "completing",
           "failing", "disposing", "cleaning", "receipt", "settled", "returned", "over"}

\* How far the run's work is at each place, and in a completed outcome.
ProgressInv ==
  /\ pc \in Places
  /\ pc \in {"starting", "planning"} => done = <<>>
  /\ pc = "implementation" => done = <<"planning">>
  /\ pc = "review" => done = <<"planning", "implementation">>
  /\ pc \in {"approving", "completing"} => done = AgentStages
  /\ pc = "completing" => approved
  /\ pc \in {"starting", "planning", "implementation", "review", "approving", "completing"}
       => stage = "running"
  /\ stage = "complete" => done = AgentStages /\ approved

\* A success is reported last, for a completed run and a journal that verifies.
SuccessInv ==
  /\ report # "none" => pc = "over"
  /\ report = "success" =>
       /\ stage = "complete" /\ ~workspace /\ ~containers
       /\ ChainTo(journal.file, Len(journal.file))

RunInv == JournalInv(journal) /\ ProgressInv /\ SuccessInv

LEMMA Stages == ToSet(AgentStages) = {"planning", "implementation", "review"}
BY DEF ToSet, AgentStages

LEMMA RunInvInit == Init => RunInv
<1> SUFFICES ASSUME Init PROVE RunInv
  OBVIOUS
<1>1. ProgressInv /\ SuccessInv
  BY DEF Init, RunInit, ProgressInv, SuccessInv, Places
<1>2. /\ JournalTypes(EmptyJournal) /\ EmptyJournal.file = <<>> /\ EmptyJournal.acked = <<>>
      /\ EmptyJournal.previous = NoHash /\ EmptyJournal.synced = 0
  BY DEF EmptyJournal, JournalTypes, NoHash
<1>3. JournalInv(EmptyJournal)
  BY <1>2 DEF JournalInv, HistoryTo
<1> QED BY <1>1, <1>3 DEF Init, RunInit, RunInv

\* An append keeps the journal's invariant, whether it returns or not.
LEMMA JournalKeeps ==
  ASSUME JournalInv(journal), NEW event \in Records,
         Journals(event) \/ JournalFails(event)
  PROVE  JournalInv(journal')
<1>1. CASE Journals(event)
  BY <1>1, AppendedKeeps DEF Journals
<1>2. CASE JournalFails(event)
  <2>1. CASE journal' = [journal EXCEPT !.tries = @ + 1]
    BY <2>1, TriedKeeps
  <2> QED BY <1>2, <2>1, LeftKeeps DEF JournalFails, NotAppended
<1> QED BY <1>1, <1>2

LEMMA ActionsKeepJournal == RunInv /\ RunStep => JournalInv(journal')
<1> SUFFICES ASSUME RunInv, RunStep PROVE JournalInv(journal')
  OBVIOUS
<1>1. JournalInv(journal)
  BY DEF RunInv
<1>2. CASE UNCHANGED journal
  BY <1>1, <1>2
<1>3. ASSUME NEW event \in Records, Journals(event) \/ JournalFails(event)
      PROVE  JournalInv(journal')
  BY <1>1, <1>3, JournalKeeps
<1>4. \/ UNCHANGED journal
      \/ \E event \in Records : Journals(event) \/ JournalFails(event)
  <2>1. CASE Schedule \/ Defer \/ Approve \/ Complete \/ Fail
    BY <2>1 DEF Schedule, Defer, Approve, Complete, Fail, Records
  <2>2. CASE Work
    <3>1. pc \in Records
      BY <2>2, Stages DEF Work, Records
    <3> QED BY <2>2, <3>1 DEF Work
  <2>3. CASE Dispose \/ Cleaning \/ Receipt \/ Settle \/ Degrade \/ Report
    BY <2>3 DEF Dispose, Cleaning, Receipt, Settle, Degrade, Report, outcome, facts, Records
  <2> QED BY <2>1, <2>2, <2>3 DEF RunStep
<1> QED BY <1>2, <1>3, <1>4

LEMMA ActionsKeepProgress == ProgressInv /\ RunStep => ProgressInv'
<1> SUFFICES ASSUME ProgressInv, RunStep PROVE ProgressInv'
  OBVIOUS
<1> USE DEF ProgressInv, Places, GoTo, outcome, facts
<1>1. CASE Schedule
  BY <1>1 DEF Schedule
<1>2. CASE Defer
  BY <1>2 DEF Defer
<1>3. CASE Work
  <2>1. /\ Append(<<>>, "planning") = <<"planning">>
        /\ Append(<<"planning">>, "implementation") = <<"planning", "implementation">>
        /\ Append(<<"planning", "implementation">>, "review") = AgentStages
    <3> DEFINE W == {"planning", "implementation", "review"}
               one == <<"planning">>
               two == <<"planning", "implementation">>
    <3>1. Append(<<>>, "planning") = one
      OBVIOUS
    <3>2. Append(one, "implementation") = two
      <4>1. /\ one \in Seq(W) /\ Len(one) = 1 /\ one[1] = "planning"
            /\ two \in Seq(W) /\ Len(two) = 2 /\ two[1] = "planning" /\ two[2] = "implementation"
        OBVIOUS
      <4> HIDE DEF one, two
      <4>2. /\ Append(one, "implementation") \in Seq(W) /\ Len(Append(one, "implementation")) = 2
            /\ Append(one, "implementation")[1] = "planning"
            /\ Append(one, "implementation")[2] = "implementation"
        BY <4>1, AppendProperties
      <4> QED BY <4>1, <4>2, SeqEqual
    <3>3. Append(two, "review") = AgentStages
      <4>1. /\ two \in Seq(W) /\ Len(two) = 2 /\ two[1] = "planning" /\ two[2] = "implementation"
            /\ AgentStages \in Seq(W) /\ Len(AgentStages) = 3 /\ AgentStages[1] = "planning"
            /\ AgentStages[2] = "implementation" /\ AgentStages[3] = "review"
        BY DEF AgentStages
      <4> HIDE DEF two
      <4>2. /\ Append(two, "review") \in Seq(W) /\ Len(Append(two, "review")) = Len(two) + 1
            /\ \A i \in 1 .. Len(two) : Append(two, "review")[i] = two[i]
            /\ Append(two, "review")[Len(two) + 1] = "review"
        <5>1. two \in Seq(W) /\ "review" \in W
          BY <4>1
        <5> HIDE DEF W
        <5> QED BY <5>1, AppendProperties
      <4>3. \A i \in 1 .. 3 : Append(two, "review")[i] = AgentStages[i]
        BY <4>1, <4>2
      <4> HIDE DEF W
      <4> QED BY <4>1, <4>2, <4>3, SeqEqual
    <3> QED BY <3>1, <3>2, <3>3
  <2>2. UNCHANGED <<stage, approved>> /\ pc \in {"planning", "implementation", "review"}
    BY <1>3, Stages DEF Work
  <2>3. \/ pc' = "failing"
        \/ pc' = Following(pc) /\ done' = Append(done, pc)
    BY <1>3 DEF Work
  <2>4. CASE pc' = "failing"
    BY <2>2, <2>4
  <2>5. CASE pc = "planning" /\ pc' = Following(pc) /\ done' = Append(done, pc)
    BY <2>1, <2>2, <2>5 DEF Following
  <2>6. CASE pc = "implementation" /\ pc' = Following(pc) /\ done' = Append(done, pc)
    BY <2>1, <2>2, <2>6 DEF Following
  <2>7. CASE pc = "review" /\ pc' = Following(pc) /\ done' = Append(done, pc)
    BY <2>1, <2>2, <2>7 DEF Following
  <2> QED BY <2>2, <2>3, <2>4, <2>5, <2>6, <2>7
<1>4. CASE Approve
  BY <1>4 DEF Approve
<1>5. CASE Complete
  BY <1>5 DEF Complete
<1>6. CASE Fail
  BY <1>6 DEF Fail
<1>7. CASE Dispose
  BY <1>7 DEF Dispose
<1>8. CASE Cleaning
  BY <1>8 DEF Cleaning
<1>9. CASE Receipt
  BY <1>9 DEF Receipt
<1>10. CASE Settle
  BY <1>10 DEF Settle
<1>11. CASE Degrade
  BY <1>11 DEF Degrade
<1>12. CASE Report
  BY <1>12 DEF Report
<1> QED
  BY <1>1, <1>2, <1>3, <1>4, <1>5, <1>6, <1>7, <1>8, <1>9, <1>10, <1>11, <1>12 DEF RunStep

LEMMA VerifiedIsChain ==
  ASSUME JournalTypes(journal), Verified(journal.file)
  PROVE  ChainTo(journal.file, Len(journal.file))
<1>1. DOMAIN journal.file = 1 .. Len(journal.file)
  BY LenProperties DEF JournalTypes
<1> QED BY <1>1 DEF Verified, ChainTo

LEMMA ActionsKeepSuccess == RunInv /\ RunStep => SuccessInv'
<1> SUFFICES ASSUME RunInv, RunStep PROVE SuccessInv'
  OBVIOUS
<1>1. CASE Report
  <2>1. CASE Success
    <3>1. /\ stage = "complete" /\ ~workspace /\ ~containers
          /\ ChainTo(journal.file, Len(journal.file))
      BY <2>1, VerifiedIsChain DEF Success, NothingRemains, Chain, RunInv, JournalInv
    <3> QED BY <1>1, <3>1 DEF Report, SuccessInv, GoTo, outcome, facts
  <2>2. CASE ~Success
    BY <1>1, <2>2 DEF Report, SuccessInv, GoTo
  <2> QED BY <2>1, <2>2
\* Nothing else reports, and nothing happens after the report.
<1>2. CASE ~Report
  <2>1. pc # "over" /\ UNCHANGED report
    BY <1>2, Stages DEF RunStep, Schedule, Defer, Work, Approve, Complete, Fail, Dispose, Cleaning,
       Receipt, Settle, Degrade
  <2> QED BY <2>1 DEF RunInv, SuccessInv
<1> QED BY <1>1, <1>2

\* A kill or a stop of the machine ends the run and touches only the journal; what
\* it leaves of a finished one still verifies.
LEMMA CutsKeep ==
  ASSUME JournalInv(journal), NEW j \in CutShort
  PROVE  /\ JournalInv(j)
         /\ pc = "over" => j = journal
<1>1. CASE j = journal
  BY <1>1
<1>2. CASE j # journal
  <2>1. pc # "over" /\ j \in NotAppended(journal, "cut")
    BY <1>2 DEF CutShort
  <2>2. CASE j = [journal EXCEPT !.tries = @ + 1]
    BY <2>1, <2>2, TriedKeeps
  <2>3. ASSUME NEW form \in Forms, j = Left(journal, "cut", form)
        PROVE  JournalInv(j)
    BY <2>3, LeftKeeps DEF Records
  <2> QED BY <2>1, <2>2, <2>3 DEF NotAppended
<1> QED BY <1>1, <1>2

LEMMA StopsKeep == RunInv /\ (RunKilled \/ RunLost) => RunInv'
<1> SUFFICES ASSUME RunInv, RunKilled \/ RunLost PROVE RunInv'
  OBVIOUS
<1>1. pc' = "over" /\ UNCHANGED <<stage, done, approved, workspace, containers, report>>
  BY DEF RunKilled, RunLost, GoTo, outcome, facts
<1>2. ProgressInv'
  BY <1>1 DEF RunInv, ProgressInv, Places
<1>3. /\ JournalInv(journal')
      /\ pc = "over" /\ ChainTo(journal.file, Len(journal.file)) =>
           ChainTo(journal'.file, Len(journal'.file))
  <2>1. CASE RunKilled
    BY <2>1, CutsKeep DEF RunKilled, RunInv
  <2>2. CASE RunLost
    <3>1. PICK j \in CutShort : journal' \in Survivors(j)
      BY <2>2 DEF RunLost
    <3>2. JournalInv(j) /\ (pc = "over" => j = journal)
      BY <3>1, CutsKeep DEF RunInv
    <3> QED BY <3>1, <3>2, SurvivorsKeep
  <2> QED BY <2>1, <2>2
<1>4. SuccessInv'
  BY <1>1, <1>3 DEF RunInv, SuccessInv
<1> QED BY <1>2, <1>3, <1>4 DEF RunInv

LEMMA RunInvStep == RunInv /\ [Next]_vars => RunInv'
<1> SUFFICES ASSUME RunInv, [Next]_vars PROVE RunInv'
  OBVIOUS
<1>1. CASE UNCHANGED runVars
  BY <1>1 DEF runVars, outcome, facts, RunInv, ProgressInv, SuccessInv
<1>2. CASE RunStep
  BY <1>2, ActionsKeepJournal, ActionsKeepProgress, ActionsKeepSuccess DEF RunInv
<1>3. CASE RunKilled \/ RunLost
  BY <1>3, StopsKeep
<1> QED
  BY <1>1, <1>2, <1>3 DEF Next, vars, Controller, Reboot, Script, Leave, Killed

-------------------------------------------------------------------------------
\* A journal that verifies is the history.
LEMMA ChainIsFaithful ==
  ASSUME JournalInv(journal), ChainTo(journal.file, Len(journal.file))
  PROVE  Faithful
<1> DEFINE file == journal.file
           acked == journal.acked
           L == Len(file)
<1>1. /\ file \in Seq(Pieces) /\ acked \in Seq(Nat) /\ L \in Nat /\ Len(acked) \in Nat
      /\ journal.synced \in 0 .. L
  BY DEF JournalInv, JournalTypes
<1>2. HistoryTo(file, L, acked)
  BY <1>1 DEF JournalInv
<1> HIDE DEF file, acked
<1>3. CASE Len(acked) = L
  <2>1. Ids(file) = acked
    BY <1>1, <1>2, <1>3, LenProperties DEF Ids, HistoryTo
  <2> QED BY <2>1 DEF Faithful, file, acked
<1>4. CASE Len(acked) + 1 = L
  <2>1. file # <<>> /\ L - 1 = Len(acked)
    BY <1>1, <1>4
  <2>2. /\ Front(file) \in Seq(Pieces) /\ Len(Front(file)) = Len(acked)
        /\ \A k \in 1 .. Len(acked) : Front(file)[k] = file[k]
    BY <1>1, <1>4, <2>1 DEF Front
  <2>3. Ids(Front(file)) = acked
    <3> HIDE DEF L
    <3>1. DOMAIN Front(file) = 1 .. Len(acked) /\ acked = [k \in 1 .. Len(acked) |-> acked[k]]
      BY <1>1, <2>2, LenProperties
    <3> QED BY <1>2, <2>2, <3>1 DEF Ids, HistoryTo
  <2> QED BY <2>1, <2>3 DEF Faithful, file, acked
<1> QED BY <1>2, <1>3, <1>4 DEF HistoryTo

\* Whatever failed, was cut short or was lost: a journal that verifies is the
\* acknowledged history (rehearsal.py:521), and every acknowledged record stays
\* (audit.py:88).
THEOREM JournalIsTrue == Spec => []JournalTellsTruth
<1>1. RunInv => JournalTellsTruth
  <2> SUFFICES ASSUME JournalInv(journal) PROVE JournalTellsTruth
    BY DEF RunInv
  <2>1. Verified(journal.file) => Faithful
    BY VerifiedIsChain, ChainIsFaithful DEF JournalInv
  <2>2. /\ DOMAIN journal.acked = 1 .. Len(journal.acked)
        /\ DOMAIN journal.file = 1 .. Len(journal.file)
        /\ \A k \in 1 .. journal.synced : k \in 1 .. Len(journal.file)
    BY LenProperties DEF JournalInv, JournalTypes
  <2>3. ASSUME NEW id \in ToSet(journal.acked)
        PROVE  \E k \in DOMAIN journal.file :
                 journal.file[k].id = id /\ journal.file[k].form = "line"
    <3>1. PICK i \in 1 .. Len(journal.acked) : id = journal.acked[i]
      BY <2>2, <2>3 DEF ToSet
    <3>2. PICK k \in 1 .. journal.synced :
            journal.file[k].id = journal.acked[i] /\ journal.file[k].form = "line"
      BY <3>1 DEF JournalInv
    <3> QED BY <2>2, <3>1, <3>2
  <2> QED BY <2>1, <2>3 DEF JournalTellsTruth
<1> QED BY <1>1, RunInvInit, RunInvStep, PTL DEF Spec

\* A rehearsal that says success had its agents succeed in order and its patch
\* approved, left nothing behind, and has a journal that lacks nothing
\* (docs/OPERATIONS.md:33).
THEOREM SuccessMeansEvidence == Spec => []SuccessIsEarned
<1>1. RunInv => SuccessIsEarned
  BY ChainIsFaithful DEF RunInv, ProgressInv, SuccessInv, SuccessIsEarned
<1> QED BY <1>1, RunInvInit, RunInvStep, PTL DEF Spec
===============================================================================
