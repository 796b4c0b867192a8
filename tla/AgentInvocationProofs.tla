-------------------------- MODULE AgentInvocationProofs --------------------------
(***************************************************************************)
(* What an accepted invocation, its row and its process are worth: for     *)
(* every setting, every timeout and limit, every number of events in the   *)
(* adapter's file and every size of the clock's steps.                     *)
(*                                                                         *)
(* The monitor's fields summarise the lines that it consumed; the file     *)
(* only grows behind them, and stands still once the process has ended, so *)
(* that the last poll sees all of it.                                      *)
(***************************************************************************)
EXTENDS AgentInvocation, SequenceTheorems, TLAPS

-------------------------------------------------------------------------------
\* The file.

\* An event that is not junk has a time.
TimedEvents == {e \in Events : e.type # "junk" => e.at \in Int}

Tails ==
  {NoTail} \cup
  {t \in [type : EventTypes, at : Int \cup {NoTime}, text : {"part", "whole"}] :
     t.text = "part" \/ t.type # "junk" => t.at \in Int}

\* The last poll's file of given lines and a given tail.
LastLine(t) == [type |-> IF t.text = "whole" THEN t.type ELSE "junk",
                at   |-> IF t.text = "whole" THEN t.at ELSE NoTime]
Whole(ls, t) == IF t.text = "none" THEN ls ELSE Append(ls, LastLine(t))

LEMMA WholeFileIsWhole == WholeFile = Whole(lines, tail)
BY DEF WholeFile, Whole, LastLine

LEMMA WholeFacts ==
  ASSUME NEW ls \in Seq(TimedEvents), NEW t \in Tails
  PROVE  /\ Whole(ls, t) \in Seq(TimedEvents)
         /\ Len(ls) \in Nat /\ Len(Whole(ls, t)) \in Nat /\ Len(ls) <= Len(Whole(ls, t))
         /\ \A i \in 1 .. Len(ls) : Whole(ls, t)[i] = ls[i]
<1>1. Len(ls) \in Nat
  OBVIOUS
<1>2. CASE t.text = "none"
  BY <1>1, <1>2 DEF Whole
<1>3. CASE t.text # "none"
  <2>1. t \in [type : EventTypes, at : Int \cup {NoTime}, text : {"part", "whole"}]
        /\ (t.type # "junk" => t.at \in Int)
    BY <1>3 DEF Tails, NoTail
  <2>2. LastLine(t) \in TimedEvents
    BY <2>1 DEF LastLine, TimedEvents, Events, EventTypes, Beats
  <2> QED BY <1>1, <1>3, <2>2, AppendProperties DEF Whole
<1> QED BY <1>2, <1>3

-------------------------------------------------------------------------------
\* The monitor.

\* The monitor's fields m are those of the first m.taken lines of a file, which
\* may be the beginning of a well-formed one.
Summarises(m, read) ==
  /\ m.taken \in 0 .. MaxEvents
  /\ \A i \in 1 .. m.taken : read[i].type # "junk" /\ (read[i].type = "checkin" <=> i = 1)
  /\ \A i, j \in 1 .. m.taken :
       i < j => /\ ~(read[i].type = "usage" /\ read[j].type = "usage")
                /\ {read[i].type, read[j].type} \subseteq Beats => read[i].at <= read[j].at
  /\ m.checkin <=> m.taken > 0
  /\ m.usage <=> \E i \in 1 .. m.taken : read[i].type = "usage"
  /\ \A i \in 1 .. m.taken : read[i].type \in Beats => read[i].at <= m.beat
  /\ m.taken > 0 => m.beat \in Int

LEMMA SummaryOfAgreeing ==
  ASSUME NEW m, NEW read, NEW other, Summarises(m, read),
         \A i \in 1 .. m.taken : other[i] = read[i]
  PROVE  Summarises(m, other)
BY DEF Summarises

LEMMA SummaryOfWhole ==
  ASSUME NEW m, NEW read \in Seq(TimedEvents), Summarises(m, read), m.taken = Len(read)
  PROVE  /\ WellFormed(read)
         /\ m.checkin => Has(read, "checkin")
         /\ m.usage => Has(read, "usage")
<1>1. WellFormed(read)
  BY DEF Summarises, WellFormed
<1>2. m.checkin => Has(read, "checkin")
  BY DEF Summarises, Has
<1>3. m.usage => Has(read, "usage")
  BY DEF Summarises, Has
<1> QED BY <1>1, <1>2, <1>3

\* An admissible event continues the summary.
LEMMA ConsumedSummarises ==
  ASSUME NEW read, Summarises(monitor, read), MaxEvents \in Nat, Wall \in Int, FutureLimit \in Int,
         monitor.checkin \in BOOLEAN, monitor.usage \in BOOLEAN,
         read[monitor.taken + 1] \in TimedEvents,
         \A i \in 1 .. monitor.taken : read[i] \in TimedEvents,
         Admissible(read[monitor.taken + 1])
  PROVE  Summarises(Consumed(read[monitor.taken + 1]), read)
<1> DEFINE n == monitor.taken
           e == read[n + 1]
           m == Consumed(e)
<1>1. n \in Nat /\ n < MaxEvents /\ m.taken = n + 1 /\ n + 1 \in 0 .. MaxEvents
  BY DEF Summarises, Admissible, Consumed
<1>2. \A i \in 1 .. n + 1 : i \in 1 .. n \/ i = n + 1
  BY <1>1
<1>3. e.type # "junk" /\ (e.type = "checkin" <=> n = 0) /\ e.at \in Int
  BY DEF Admissible, TimedEvents
<1>4. \A i \in 1 .. n + 1 : read[i].type # "junk" /\ (read[i].type = "checkin" <=> i = 1)
  BY <1>1, <1>2, <1>3 DEF Summarises
<1>5. \A i \in 1 .. n : read[i].type \in Beats => read[i].at \in Int /\ read[i].at <= monitor.beat
  BY DEF Summarises, TimedEvents, Beats
<1>6. e.type \in Beats => n = 0 \/ (monitor.beat \in Int /\ e.at >= monitor.beat)
  BY <1>1, <1>3 DEF Summarises, Admissible, Beats
<1>7. \A i \in 1 .. n : read[i].type \in Beats /\ e.type \in Beats => read[i].at <= e.at
  <2> SUFFICES ASSUME NEW i \in 1 .. n, read[i].type \in Beats, e.type \in Beats
               PROVE  read[i].at <= e.at
    OBVIOUS
  <2>1. n # 0
    BY <1>1
  <2>2. monitor.beat \in Int /\ e.at >= monitor.beat
    BY <1>6, <2>1
  <2>3. read[i].at \in Int /\ read[i].at <= monitor.beat
    BY <1>5
  <2> QED BY <1>3, <2>2, <2>3
<1>8. e.type = "usage" => \A i \in 1 .. n : read[i].type # "usage"
  BY DEF Summarises, Admissible
<1>9. \A i, j \in 1 .. n + 1 :
        i < j => /\ ~(read[i].type = "usage" /\ read[j].type = "usage")
                 /\ {read[i].type, read[j].type} \subseteq Beats => read[i].at <= read[j].at
  <2> SUFFICES ASSUME NEW i \in 1 .. n + 1, NEW j \in 1 .. n + 1, i < j
               PROVE  /\ ~(read[i].type = "usage" /\ read[j].type = "usage")
                      /\ {read[i].type, read[j].type} \subseteq Beats => read[i].at <= read[j].at
    OBVIOUS
  <2>1. i \in 1 .. n
    BY <1>1
  <2>2. CASE j \in 1 .. n
    BY <2>1, <2>2 DEF Summarises
  <2>3. CASE j = n + 1
    BY <1>7, <1>8, <2>1, <2>3
  <2> QED BY <1>2, <2>2, <2>3
<1>10. m.checkin <=> m.taken > 0
  <2>1. m.checkin
    <3>1. m.checkin <=> monitor.checkin \/ e.type = "checkin"
      BY DEF Consumed
    <3>2. n = 0 => e.type = "checkin"
      BY <1>3
    <3>3. n # 0 => monitor.checkin
      BY <1>1 DEF Summarises
    <3> QED BY <3>1, <3>2, <3>3
  <2> QED BY <1>1, <2>1
<1>11. m.usage <=> \E i \in 1 .. n + 1 : read[i].type = "usage"
  <2>1. m.usage <=> monitor.usage \/ e.type = "usage"
    BY DEF Consumed
  <2>2. n + 1 \in 1 .. n + 1 /\ \A i \in 1 .. n : i \in 1 .. n + 1
    BY <1>1
  <2> QED BY <1>2, <2>1, <2>2 DEF Summarises
<1>12. m.beat \in Int
  BY <1>1, <1>3 DEF Consumed, Summarises, Beats
<1>13. \A i \in 1 .. n + 1 : read[i].type \in Beats => read[i].at <= m.beat
  <2>1. CASE e.type \in Beats
    <3>1. m.beat = e.at
      BY <2>1 DEF Consumed
    <3> QED BY <1>2, <1>3, <1>7, <2>1, <3>1
  <2>2. CASE e.type \notin Beats
    <3>1. m.beat = monitor.beat
      BY <2>2 DEF Consumed
    <3> QED BY <1>2, <1>5, <2>2, <3>1
  <2> QED BY <2>1, <2>2
<1>14. m.taken = n + 1 /\ m.taken \in 0 .. MaxEvents
  BY <1>1
<1> HIDE DEF m
<1>15. Summarises(m, read)
  BY <1>4, <1>9, <1>10, <1>11, <1>12, <1>13, <1>14, Zenon DEF Summarises
<1> QED BY <1>15 DEF m

-------------------------------------------------------------------------------
\* The inductive invariant.

Polling == {"waiting", "reading", "consuming"}

\* Where the controller is, and what that says of the process and the result.
PhaseInv ==
  /\ cfg \in Configurations
  /\ pc \in Polling \cup {"idle", "launching", "checking", "finishing", "closing", "done"}
  /\ process \in {"none", "running", "exited", "killed"}
  /\ result \in Results
  /\ pc \in {"idle", "launching"} =>
       process = "none" /\ lines = <<>> /\ tail = NoTail /\ monitor.taken = 0 /\ upTo = 0
  /\ pc \in Polling => process \in {"running", "exited"}
  /\ process = "running" => pc \in Polling
  /\ pc \in {"checking", "finishing", "closing"} => process = "exited"
  /\ result = "none" <=> pc \notin {"finishing", "closing", "done"}
  /\ pc \in {"finishing", "closing"} => result = "accepted"

\* The last poll comes after the process, and before anything is accepted.
FinalInv ==
  /\ final \in BOOLEAN
  /\ pc \in {"checking", "finishing", "closing"} => final = TRUE
  /\ pc \in {"idle", "launching", "waiting"} => final = FALSE
  /\ final = TRUE => process = "exited"

\* The clock never passes the end of a wait or a poll, and a wait's end never
\* the process's timeout.
ClockInv ==
  /\ now \in 0 .. MaxTime /\ shift \in {0} \cup ClockSteps
  /\ due \in Nat /\ beatAt \in 0 .. now
  /\ pc \in {"idle", "launching"} => now = 0
  /\ pc \in Polling /\ final = FALSE =>
       now <= due /\ due <= Timeout + (IF pc = "waiting" THEN 0 ELSE PollDelay)

\* The monitor has consumed the beginning of the file.
FileInv ==
  /\ lines \in Seq(TimedEvents) /\ tail \in Tails
  /\ monitor \in [taken : Nat, checkin : BOOLEAN, beat : Int \cup {NoTime}, usage : BOOLEAN]
  /\ upTo \in Nat /\ monitor.taken <= upTo
  /\ upTo <= Len(IF final THEN WholeFile ELSE lines)
  /\ Summarises(monitor, WholeFile)

\* A result is looked at only when the monitor has consumed all of the file and
\* found what the settings require.
CompleteInv ==
  /\ pc = "consuming" /\ final = TRUE => upTo = Len(WholeFile)
  /\ pc = "checking" \/ result = "accepted" =>
       /\ final = TRUE /\ monitor.taken = Len(WholeFile)
       /\ cfg.checkin => monitor.checkin
       /\ cfg.usage => monitor.usage

\* The row follows behind.
RowInv ==
  /\ row \in [state : {"none", "open", "succeeded", "failed"},
              identity : {"unknown", "matched"},
              usage : {"pending", "reported", "unavailable"}]
  /\ row.state \in {"succeeded", "failed"} => pc = "done" /\ row.usage # "pending"
  /\ row.state = "succeeded" => result = "accepted"
  /\ row.state = "failed" => result # "accepted"
  /\ row.identity = "matched" => monitor.checkin
  /\ row.usage = "reported" => monitor.usage /\ final = TRUE /\ result # "none"

IInv == PhaseInv /\ FinalInv /\ ClockInv /\ FileInv /\ CompleteInv /\ RowInv

LEMMA Assumed ==
  /\ CheckinTimeout \in Nat \ {0} /\ PollDelay \in Nat \ {0} /\ HeartbeatEvery \in Nat \ {0}
  /\ FutureLimit \in Nat \ {0} /\ HeartbeatTimeout \in Nat
  /\ Timeout \in Nat /\ MaxEvents \in Nat /\ MaxTime \in Nat
  /\ ClockSteps \subseteq Int /\ StoreFails \in BOOLEAN
BY PeriodsArePositive

LEMMA IInvInit == Init => IInv
<1> SUFFICES ASSUME Init PROVE IInv
  OBVIOUS
<1>1. PhaseInv /\ FinalInv /\ ClockInv /\ CompleteInv /\ RowInv
  <2>1. PhaseInv /\ FinalInv
    BY DEF Init, PhaseInv, FinalInv, Polling, Results
  <2>2. ClockInv
    BY Assumed DEF Init, ClockInv, Polling
  <2>3. CompleteInv /\ RowInv
    BY DEF Init, CompleteInv, RowInv
  <2> QED BY <2>1, <2>2, <2>3
<1>2. FileInv
  <2>1. lines = <<>> /\ tail = NoTail /\ NoTail \in Tails /\ upTo = 0 /\ final = FALSE
        /\ monitor = [taken |-> 0, checkin |-> FALSE, beat |-> NoTime, usage |-> FALSE]
    BY DEF Init, Tails
  <2>2. Summarises(monitor, WholeFile)
    BY <2>1, Assumed DEF Summarises
  <2> QED BY <2>1, <2>2 DEF FileInv
<1> QED BY <1>1, <1>2 DEF IInv

-------------------------------------------------------------------------------
\* The phases and the clocks.

Causes == Results \ {"none", "accepted"}

LEMMA RaiseKeepsPhase ==
  ASSUME PhaseInv, NEW why \in Causes, Raise(why), UNCHANGED cfg
  PROVE  PhaseInv'
<1>1. /\ pc' = "done" /\ result' = why
      /\ process' = IF process = "running" THEN "killed" ELSE process
  BY DEF Raise
<1>2. process' \in {"none", "exited", "killed"}
  BY <1>1 DEF PhaseInv
<1> QED BY <1>1, <1>2 DEF PhaseInv, Causes, Results, Polling

LEMMA PhaseStep == PhaseInv /\ FinalInv /\ [Next]_vars => PhaseInv'
<1> SUFFICES ASSUME PhaseInv, FinalInv, [Next]_vars PROVE PhaseInv'
  OBVIOUS
<1> USE DEF Polling, poll, file, clocks
<1>0. {"error", "bad line", "no check-in", "stale", "no usage", "timeout", "bad result",
       "interrupted"} \subseteq Causes
  BY DEF Causes, Results
<1>1. CASE UNCHANGED vars
  BY <1>1 DEF vars, PhaseInv
<1>2. CASE Start
  BY <1>2 DEF Start, PhaseInv
<1>3. CASE Launch
  <2>1. UNCHANGED cfg
    BY <1>3 DEF Launch
  <2>2. CASE Raise("error")
    BY <1>0, <2>1, <2>2, RaiseKeepsPhase
  <2>3. CASE process' = "running" /\ pc' = "waiting" /\ UNCHANGED result
    BY <1>3, <2>1, <2>3 DEF Launch, PhaseInv, Results
  <2> QED BY <1>3, <2>2, <2>3 DEF Launch
<1>4. CASE Beat
  BY <1>4 DEF Beat, PhaseInv
<1>5. CASE BeatFails
  BY <1>0, <1>5, RaiseKeepsPhase DEF BeatFails
<1>6. CASE Read
  BY <1>6 DEF Read, PhaseInv
<1>7. CASE Consume
  <2>1. UNCHANGED cfg
    BY <1>7 DEF Consume
  <2>2. CASE Raise("bad line")
    BY <1>0, <2>1, <2>2, RaiseKeepsPhase
  <2>3. CASE UNCHANGED <<process, pc, result>>
    BY <1>7, <2>1, <2>3 DEF Consume, PhaseInv
  <2> QED BY <1>7, <2>2, <2>3 DEF Consume
<1>8. CASE Judge
  <2>1. UNCHANGED cfg
    BY <1>8 DEF Judge
  <2>2. ASSUME NEW why \in Causes, Raise(why) PROVE PhaseInv'
    BY <2>1, <2>2, RaiseKeepsPhase
  <2>3. CASE /\ pc' = IF final THEN "checking" ELSE "waiting"
             /\ UNCHANGED <<process, result>>
    <3>1. CASE final = TRUE
      BY <1>8, <2>1, <2>3, <3>1 DEF Judge, PhaseInv, FinalInv
    <3>2. CASE final = FALSE
      BY <1>8, <2>1, <2>3, <3>2 DEF Judge, PhaseInv, FinalInv
    <3> QED BY <3>1, <3>2 DEF FinalInv
  <2> QED BY <1>0, <1>8, <2>2, <2>3 DEF Judge
<1>9. CASE Reap
  <2>1. UNCHANGED cfg
    BY <1>9 DEF Reap
  <2>2. CASE Raise("error")
    BY <1>0, <2>1, <2>2, RaiseKeepsPhase
  <2>3. CASE pc' = "reading" /\ UNCHANGED <<process, result>>
    BY <1>9, <2>1, <2>3 DEF Reap, PhaseInv
  <2> QED BY <1>9, <2>2, <2>3 DEF Reap
<1>10. CASE Check
  <2>1. UNCHANGED cfg
    BY <1>10 DEF Check
  <2>2. CASE Raise("bad result")
    BY <1>0, <2>1, <2>2, RaiseKeepsPhase
  <2>3. CASE result' = "accepted" /\ pc' = "finishing" /\ UNCHANGED process
    BY <1>10, <2>1, <2>3 DEF Check, PhaseInv, Results
  <2> QED BY <1>10, <2>2, <2>3 DEF Check
<1>11. CASE RecordUsage \/ FinishInvocation
  BY <1>11 DEF RecordUsage, FinishInvocation, PhaseInv
<1>12. CASE Interrupt
  <2>1. UNCHANGED cfg
    BY <1>12 DEF Interrupt
  <2>2. CASE Raise("interrupted")
    BY <1>0, <2>1, <2>2, RaiseKeepsPhase
  <2>3. CASE /\ pc \in {"idle", "finishing", "closing"}
             /\ result' = "interrupted" /\ pc' = "done" /\ UNCHANGED process
    BY <2>1, <2>3 DEF PhaseInv, Results
  <2> QED BY <1>12, <2>2, <2>3 DEF Interrupt
<1>13. CASE BeginLine \/ (\E type \in EventTypes : EndText(type)) \/ Newline
  BY <1>13 DEF BeginLine, EndText, Newline, Writes, PhaseInv
<1>14. CASE Exit
  BY <1>14 DEF Exit, PhaseInv
<1>15. CASE Tick \/ StepClock
  BY <1>15 DEF Tick, StepClock, PhaseInv
<1> QED
  BY <1>1, <1>2, <1>3, <1>4, <1>5, <1>6, <1>7, <1>8, <1>9, <1>10, <1>11, <1>12, <1>13, <1>14,
     <1>15 DEF Next, Controller

LEMMA FinalStep == PhaseInv /\ FinalInv /\ [Next]_vars => FinalInv'
<1> SUFFICES ASSUME PhaseInv, FinalInv, [Next]_vars PROVE FinalInv'
  OBVIOUS
<1> USE DEF poll, file, clocks
<1>1. CASE pc = "waiting" /\ process = "exited" /\ final' = TRUE /\ pc' = "reading"
           /\ UNCHANGED process
  BY <1>1 DEF FinalInv
\* Otherwise it stays, and so does a process that has exited.
<1>2. CASE final' = final
  <2>1. process = "exited" => process' = "exited"
    BY DEF Next, Controller, Start, Launch, Beat, BeatFails, Read, Consume, Judge, Reap, Check,
       RecordUsage, FinishInvocation, Interrupt, Raise, BeginLine, EndText, Newline, Exit, Tick,
       StepClock, PhaseInv, Polling, vars
  <2>2. CASE final = TRUE
    <3>1. pc' \notin {"idle", "launching", "waiting"}
      BY <1>2, <2>2 DEF Next, Controller, Start, Launch, Beat, BeatFails, Read, Consume, Judge,
         Reap, Check, RecordUsage, FinishInvocation, Interrupt, Raise, BeginLine, EndText,
         Newline, Exit, Tick, StepClock, PhaseInv, FinalInv, vars
    <3> QED BY <1>2, <2>1, <2>2, <3>1 DEF FinalInv
  <2>3. CASE final = FALSE
    <3>1. pc' \notin {"checking", "finishing", "closing"}
      BY <1>2, <2>3 DEF Next, Controller, Start, Launch, Beat, BeatFails, Read, Consume, Judge,
         Reap, Check, RecordUsage, FinishInvocation, Interrupt, Raise, BeginLine, EndText,
         Newline, Exit, Tick, StepClock, PhaseInv, FinalInv, vars
    <3> QED BY <1>2, <2>3, <3>1 DEF FinalInv
  <2> QED BY <2>2, <2>3 DEF FinalInv
<1> QED
  BY <1>1, <1>2 DEF Next, Controller, Start, Launch, Beat, BeatFails, Read, Consume, Judge, Reap,
     Check, RecordUsage, FinishInvocation, Interrupt, Raise, BeginLine, EndText, Newline, Exit,
     Tick, StepClock, vars

LEMMA ClockStep == PhaseInv /\ FinalInv /\ ClockInv /\ [Next]_vars => ClockInv'
<1> SUFFICES ASSUME PhaseInv, FinalInv, ClockInv, [Next]_vars PROVE ClockInv'
  OBVIOUS
<1> USE Assumed DEF ClockInv, Polling, poll, clocks
<1>1. CASE UNCHANGED <<now, shift, due, beatAt>> /\ pc' = "done"
  BY <1>1
<1>2. CASE UNCHANGED <<now, shift, due, beatAt, final, pc>>
  BY <1>2
<1>3. CASE Start
  BY <1>3 DEF Start
<1>4. CASE Launch
  BY <1>1, <1>4 DEF Launch, Raise
<1>5. CASE Beat
  <2>1. final = FALSE /\ now = due /\ due <= Timeout
    BY <1>5 DEF Beat, FinalInv
  <2> QED BY <1>5, <2>1 DEF Beat
<1>6. CASE Read
  BY <1>6 DEF Read
<1>7. CASE Judge
  <2>1. CASE pc' = "done" /\ UNCHANGED <<now, shift, due, beatAt>>
    BY <1>1, <2>1
  <2>2. CASE /\ final = TRUE /\ due' = now + 1 /\ pc' = "checking"
             /\ UNCHANGED <<now, shift, beatAt>>
    BY <2>2
  <2>3. CASE /\ now < Timeout /\ due' = now + 1 /\ pc' = "waiting"
             /\ UNCHANGED <<now, shift, beatAt>>
    BY <2>3
  <2>4. UNCHANGED <<now, shift>>
    BY <1>7 DEF Judge
  <2>5. CASE \E why \in Results : Raise(why)
    BY <2>1, <2>4, <2>5 DEF Raise
  <2>6. CASE /\ final \/ ~Overdue
             /\ pc' = IF final THEN "checking" ELSE "waiting"
             /\ due' = now + 1 /\ UNCHANGED beatAt
    <3>1. CASE final = TRUE
      BY <2>2, <2>4, <2>6, <3>1
    <3>2. CASE final = FALSE
      BY <2>3, <2>4, <2>6, <3>2 DEF Overdue
    <3> QED BY <3>1, <3>2 DEF FinalInv
  <2> QED BY <1>7, <2>5, <2>6 DEF Judge, Results
<1>8. CASE Reap
  BY <1>1, <1>8 DEF Reap, Raise
<1>9. CASE Check
  BY <1>1, <1>9 DEF Check, Raise
<1>10. CASE RecordUsage \/ FinishInvocation
  BY <1>10 DEF RecordUsage, FinishInvocation
<1>11. CASE Tick
  BY <1>11 DEF Tick
<1>12. CASE StepClock
  BY <1>12 DEF StepClock
<1>13. CASE BeatFails \/ Interrupt
  BY <1>1, <1>13 DEF BeatFails, Interrupt, Raise
<1>14. CASE Consume
  BY <1>1, <1>2, <1>14 DEF Consume, Raise
<1>15. CASE BeginLine \/ (\E type \in EventTypes : EndText(type)) \/ Newline \/ Exit \/ UNCHANGED vars
  BY <1>2, <1>15 DEF BeginLine, EndText, Newline, Exit, vars
<1> QED
  BY <1>3, <1>4, <1>5, <1>6, <1>7, <1>8, <1>9, <1>10, <1>11, <1>12, <1>13, <1>14, <1>15
     DEF Next, Controller

-------------------------------------------------------------------------------
\* The file and the monitor.

LEMMA EventsAreTimed ==
  ASSUME PhaseInv, ClockInv, NEW type \in EventTypes
  PROVE  Wall \in Int /\ Event(type) \in TimedEvents
<1>1. now \in Int /\ shift \in Int
  BY Assumed DEF ClockInv
<1>2. Wall \in Int
  BY <1>1 DEF Wall
<1> QED BY <1>2 DEF Event, TimedEvents, Events

\* Only while the process runs, or for its usage, something is written, and
\* always behind the complete lines.
LEMMA FileGrows ==
  ASSUME PhaseInv, FinalInv, ClockInv, FileInv, [Next]_vars
  PROVE  /\ lines' \in Seq(TimedEvents) /\ tail' \in Tails
         /\ \/ UNCHANGED <<lines, tail>>
            \/ /\ final = FALSE /\ Len(lines) <= Len(lines')
               /\ \A i \in 1 .. Len(lines) : lines'[i] = lines[i]
<1>1. CASE UNCHANGED <<lines, tail>>
  BY <1>1 DEF FileInv
<1>2. ASSUME NEW e \in TimedEvents, lines' = Append(lines, e), tail' \in Tails, final = FALSE
      PROVE  /\ lines' \in Seq(TimedEvents) /\ tail' \in Tails
             /\ final = FALSE /\ Len(lines) <= Len(lines')
             /\ \A i \in 1 .. Len(lines) : lines'[i] = lines[i]
  <2>1. lines \in Seq(TimedEvents) /\ Len(lines) \in Nat
    BY DEF FileInv
  <2> QED BY <1>2, <2>1, AppendProperties
<1>3. {"checkin", "heartbeat", "usage", "junk"} \subseteq EventTypes
  BY DEF EventTypes, Beats
<1>4. CASE Launch
  <2>1. lines = <<>> /\ final = FALSE /\ UNCHANGED tail /\ tail \in Tails
    BY <1>4 DEF Launch, PhaseInv, FinalInv, FileInv
  <2>2. lines' = <<>> \/ lines' = <<Event("checkin")>>
    BY <1>4 DEF Launch
  <2>3. lines' \in Seq(TimedEvents)
    <3>1. Event("checkin") \in TimedEvents
      BY <1>3, EventsAreTimed
    <3>2. \A e \in TimedEvents : <<e>> \in Seq(TimedEvents)
      OBVIOUS
    <3>3. <<>> \in Seq(TimedEvents)
      OBVIOUS
    <3> HIDE DEF TimedEvents
    <3>4. CASE lines' = <<>>
      BY <3>3, <3>4
    <3>5. CASE lines' = <<Event("checkin")>>
      BY <3>1, <3>2, <3>5
    <3> QED BY <2>2, <3>4, <3>5
  <2>4. Len(lines) = 0 /\ Len(lines') \in Nat
    BY <2>1, <2>3
  <2> QED BY <2>1, <2>3, <2>4
<1>5. CASE Beat
  <2>1. final = FALSE /\ UNCHANGED tail /\ tail \in Tails
    BY <1>5 DEF Beat, FinalInv, FileInv
  <2>2. UNCHANGED lines \/ lines' = Append(lines, Event("heartbeat"))
    BY <1>5 DEF Beat
  <2> QED BY <1>1, <1>2, <1>3, <2>1, <2>2, EventsAreTimed
<1>6. CASE Reap
  <2>1. final = FALSE /\ UNCHANGED tail /\ tail \in Tails
    BY <1>6 DEF Reap, FinalInv, FileInv
  <2>2. UNCHANGED lines \/ lines' = Append(lines, Event("usage"))
    BY <1>6 DEF Reap
  <2> QED BY <1>1, <1>2, <1>3, <2>1, <2>2, EventsAreTimed
<1>7. CASE BeginLine
  <2>1. final = FALSE /\ UNCHANGED lines /\ lines \in Seq(TimedEvents) /\ Len(lines) \in Nat
    BY <1>7 DEF BeginLine, Writes, FinalInv, FileInv
  <2>2. tail' \in Tails
    BY <1>3, <1>7, EventsAreTimed DEF BeginLine, Tails
  <2> QED BY <2>1, <2>2
<1>8. ASSUME NEW type \in EventTypes, EndText(type)
      PROVE  /\ lines' \in Seq(TimedEvents) /\ tail' \in Tails
             /\ final = FALSE /\ Len(lines) <= Len(lines')
             /\ \A i \in 1 .. Len(lines) : lines'[i] = lines[i]
  <2>1. final = FALSE /\ UNCHANGED lines /\ lines \in Seq(TimedEvents) /\ Len(lines) \in Nat
    BY <1>8 DEF EndText, Writes, FinalInv, FileInv
  <2>2. tail.at \in Int
    BY <1>8 DEF EndText, Tails, NoTail, FileInv
  <2>3. tail' \in Tails
    BY <1>8, <2>2 DEF EndText, Tails
  <2> QED BY <2>1, <2>3
<1>9. CASE Newline
  <2>1. final = FALSE /\ tail' \in Tails
    BY <1>9 DEF Newline, Writes, FinalInv, Tails
  <2>2. [type |-> tail.type, at |-> tail.at] \in TimedEvents
    BY <1>9 DEF Newline, FileInv, Tails, NoTail, TimedEvents, Events
  <2> QED BY <1>2, <1>9, <2>1, <2>2 DEF Newline
<1> QED
  BY <1>1, <1>4, <1>5, <1>6, <1>7, <1>8, <1>9 DEF Next, Controller, Start, BeatFails, Read,
     Consume, Judge, Check, RecordUsage, FinishInvocation, Interrupt, Exit, Tick, StepClock,
     vars, file

\* What was consumed stays where it is.
LEMMA ConsumedStays ==
  ASSUME PhaseInv, FinalInv, ClockInv, FileInv, [Next]_vars
  PROVE  /\ \A i \in 1 .. monitor.taken : WholeFile'[i] = WholeFile[i]
         /\ final = TRUE => WholeFile' = WholeFile
         /\ final = FALSE => upTo <= Len(lines') /\ Len(lines') <= Len(WholeFile')
         /\ Len(lines') \in Nat /\ Len(WholeFile') \in Nat
         /\ WholeFile' \in Seq(TimedEvents)
<1>1. /\ WholeFile = Whole(lines, tail)
      /\ WholeFile' = Whole(lines', tail')
  BY DEF WholeFile, Whole, LastLine
<1>2. /\ \A i \in 1 .. Len(lines) : WholeFile[i] = lines[i]
      /\ Len(lines) \in Nat
  BY <1>1, WholeFacts DEF FileInv
<1>3. /\ \A i \in 1 .. Len(lines') : WholeFile'[i] = lines'[i]
      /\ Len(lines') \in Nat /\ Len(WholeFile') \in Nat /\ Len(lines') <= Len(WholeFile')
      /\ WholeFile' \in Seq(TimedEvents)
  BY <1>1, FileGrows, WholeFacts
<1>4. CASE UNCHANGED <<lines, tail>>
  <2>1. WholeFile' = WholeFile
    BY <1>1, <1>4
  <2>2. final = FALSE => upTo <= Len(lines')
    BY <1>4 DEF FileInv
  <2> QED BY <1>3, <2>1, <2>2
<1>5. CASE /\ final = FALSE /\ Len(lines) <= Len(lines')
           /\ \A i \in 1 .. Len(lines) : lines'[i] = lines[i]
  <2>1. upTo \in Nat /\ upTo <= Len(lines) /\ monitor.taken \in Nat /\ monitor.taken <= upTo
    BY <1>5 DEF FileInv
  <2>2. \A i \in 1 .. monitor.taken : i \in 1 .. Len(lines) /\ i \in 1 .. Len(lines')
    BY <1>2, <1>3, <1>5, <2>1
  <2>3. upTo <= Len(lines')
    BY <1>2, <1>3, <1>5, <2>1
  <2> QED BY <1>2, <1>3, <1>5, <2>2, <2>3
<1> QED BY <1>4, <1>5, FileGrows

LEMMA FileStep ==
  ASSUME PhaseInv, FinalInv, FinalInv', ClockInv, FileInv, [Next]_vars
  PROVE  FileInv'
<1> USE DEF poll, file, clocks
<1>1. /\ lines' \in Seq(TimedEvents) /\ tail' \in Tails
      /\ Summarises(monitor, WholeFile')
  BY FileGrows, ConsumedStays, SummaryOfAgreeing DEF FileInv
<1>2. /\ monitor \in [taken : Nat, checkin : BOOLEAN, beat : Int \cup {NoTime}, usage : BOOLEAN]
      /\ upTo \in Nat /\ monitor.taken <= upTo
      /\ final = TRUE => upTo <= Len(WholeFile)
      /\ final = FALSE => upTo <= Len(lines)
  BY DEF FileInv
<1>3. final' = TRUE \/ final' = FALSE
  BY DEF FinalInv
<1>4. CASE UNCHANGED <<upTo, monitor>> /\ (final = TRUE => final' = TRUE)
  <2>1. final' = TRUE => upTo <= Len(WholeFile')
    <3>1. CASE final = TRUE
      BY <1>2, <3>1, ConsumedStays
    <3>2. CASE final = FALSE
      <4>1. /\ upTo <= Len(lines') /\ Len(lines') <= Len(WholeFile')
            /\ Len(lines') \in Nat /\ Len(WholeFile') \in Nat
        BY <3>2, ConsumedStays
      <4> QED BY <1>2, <4>1
    <3> QED BY <3>1, <3>2 DEF FinalInv
  <2>2. final' = FALSE => upTo <= Len(lines')
    BY <1>4, ConsumedStays DEF FinalInv
  <2>3. upTo <= Len(IF final' THEN WholeFile' ELSE lines')
    <3>1. CASE final' = TRUE
      BY <2>1, <3>1
    <3>2. CASE final' = FALSE
      BY <2>2, <3>2
    <3> QED BY <1>3, <3>1, <3>2
  <2> QED BY <1>1, <1>2, <1>4, <2>3 DEF FileInv
<1>5. CASE Read
  <2>1. /\ UNCHANGED <<lines, tail, monitor, final>>
        /\ upTo' = Len(IF final THEN WholeFile ELSE lines)
        /\ WholeFile' = WholeFile
    BY <1>5 DEF Read, Reported, WholeFile
  <2>2. Len(lines) \in Nat /\ Len(WholeFile) \in Nat
    BY <2>1, ConsumedStays
  <2>3. upTo' \in Nat /\ upTo <= upTo' /\ upTo' <= Len(IF final' THEN WholeFile' ELSE lines')
    <3>1. CASE final = TRUE
      BY <1>2, <2>1, <2>2, <3>1
    <3>2. CASE final = FALSE
      BY <1>2, <2>1, <2>2, <3>2
    <3> QED BY <3>1, <3>2 DEF FinalInv
  <2>4. monitor.taken <= upTo'
    BY <1>2, <2>3
  <2> QED BY <1>1, <1>2, <2>1, <2>3, <2>4 DEF FileInv
<1>6. CASE Consume /\ ~UNCHANGED monitor
  <2> DEFINE n == monitor.taken
             e == Reported[n + 1]
  <2>1. /\ n \in Nat /\ n < upTo /\ Admissible(e) /\ monitor' = Consumed(e)
        /\ UNCHANGED <<lines, tail, upTo, final>> /\ WholeFile' = WholeFile
    BY <1>2, <1>6 DEF Consume, Raise, WholeFile
  <2>2. /\ WholeFile \in Seq(TimedEvents) /\ Len(WholeFile) \in Nat
        /\ Len(lines) \in Nat /\ Len(lines) <= Len(WholeFile)
        /\ \A i \in 1 .. Len(lines) : WholeFile[i] = lines[i]
    BY WholeFileIsWhole, WholeFacts DEF FileInv
  <2>3. e = WholeFile[n + 1] /\ n + 1 \in 1 .. Len(WholeFile)
    <3>1. CASE final = TRUE
      BY <1>2, <2>1, <2>2, <3>1 DEF Reported
    <3>2. CASE final = FALSE
      <4>1. n + 1 \in 1 .. Len(lines)
        BY <1>2, <2>1, <2>2, <3>2
      <4> QED BY <2>2, <3>2, <4>1 DEF Reported
    <3> QED BY <3>1, <3>2 DEF FinalInv
  <2> HIDE DEF e
  <2>4. \A i \in 1 .. n + 1 : WholeFile[i] \in TimedEvents
    <3>1. \A i \in 1 .. n + 1 : i \in 1 .. Len(WholeFile)
      BY <2>1, <2>2, <2>3
    <3> QED BY <2>2, <3>1
  <2>5. e \in TimedEvents /\ \A i \in 1 .. n : WholeFile[i] \in TimedEvents
    BY <2>1, <2>3, <2>4
  <2>6. Wall \in Int
    BY EventsAreTimed DEF EventTypes
  <2>7. Summarises(Consumed(e), WholeFile)
    BY <1>2, <2>1, <2>3, <2>5, <2>6, Assumed, ConsumedSummarises DEF FileInv
  <2>8. /\ Consumed(e) \in [taken : Nat, checkin : BOOLEAN, beat : Int \cup {NoTime},
                            usage : BOOLEAN]
        /\ Consumed(e).taken <= upTo
    BY <1>2, <2>1, <2>5 DEF Consumed, TimedEvents, Events
  <2>9. upTo <= Len(IF final THEN WholeFile ELSE lines)
    BY DEF FileInv
  <2> QED BY <1>1, <1>2, <2>1, <2>7, <2>8, <2>9 DEF FileInv
<1> QED
  BY <1>4, <1>5, <1>6 DEF Next, Controller, Start, Launch, Beat, BeatFails, Consume, Judge, Reap,
     Check, RecordUsage, FinishInvocation, Interrupt, Raise, BeginLine, EndText, Newline, Exit,
     Tick, StepClock, vars

-------------------------------------------------------------------------------
\* The result and the row.

LEMMA CompleteStep ==
  ASSUME PhaseInv, FinalInv, ClockInv, FileInv, CompleteInv, [Next]_vars
  PROVE  CompleteInv'
<1> DEFINE Required(c, m) == (c.checkin => m.checkin) /\ (c.usage => m.usage)
<1>1. cfg' = cfg
  BY DEF Next, Controller, Start, Launch, Beat, BeatFails, Read, Consume, Judge, Reap, Check,
     RecordUsage, FinishInvocation, Interrupt, Raise, BeginLine, EndText, Newline, Exit, Tick,
     StepClock, vars
<1>2. final = TRUE => WholeFile' = WholeFile
  BY ConsumedStays
\* The last poll reads all of the file ...
<1>3. pc' = "consuming" /\ final' = TRUE => upTo' = Len(WholeFile')
  <2>1. CASE Read
    <3>1. final' = final /\ (final = TRUE => upTo' = Len(WholeFile))
      BY <2>1 DEF Read, Reported
    <3> QED BY <1>2, <3>1
  <2>2. CASE pc = "consuming" /\ UNCHANGED <<final, upTo>>
    BY <1>2, <2>2 DEF CompleteInv
  <2>3. Read \/ pc' # "consuming" \/ (pc = "consuming" /\ UNCHANGED <<final, upTo>>)
    BY DEF Next, Controller, Start, Launch, Beat, BeatFails, Consume, Judge, Reap, Check,
       RecordUsage, FinishInvocation, Interrupt, Raise, BeginLine, EndText, Newline, Exit,
       Tick, StepClock, vars, poll
  <2> QED BY <2>1, <2>2, <2>3
\* ... and ends when it has consumed all of it.
<1>4. CASE Judge /\ pc' = "checking"
  <2>1. /\ final = TRUE /\ monitor.taken = upTo /\ UNCHANGED <<final, monitor>>
        /\ pc = "consuming" /\ ~CheckinMissing /\ ~UsageMissing
    BY <1>4 DEF Judge, Raise, FinalInv
  <2>2. Required(cfg, monitor)
    BY <2>1 DEF CheckinMissing, UsageMissing
  <2>3. monitor.taken = Len(WholeFile)
    BY <2>1 DEF CompleteInv
  <2> QED BY <1>1, <1>2, <1>3, <2>1, <2>2, <2>3 DEF CompleteInv
<1>5. CASE (pc = "checking" \/ result = "accepted") /\ UNCHANGED <<final, monitor>>
  BY <1>1, <1>2, <1>3, <1>5 DEF CompleteInv
<1>6. CASE ~(pc' = "checking" \/ result' = "accepted")
  BY <1>3, <1>6 DEF CompleteInv
<1>7. \/ Judge /\ pc' = "checking"
      \/ ~(pc' = "checking" \/ result' = "accepted")
      \/ (pc = "checking" \/ result = "accepted") /\ UNCHANGED <<final, monitor>>
  BY DEF Next, Controller, Start, Launch, Beat, BeatFails, Read, Consume, Judge, Reap, Check,
     RecordUsage, FinishInvocation, Interrupt, Raise, BeginLine, EndText, Newline, Exit, Tick,
     StepClock, vars, poll, PhaseInv, Polling
<1> QED BY <1>4, <1>5, <1>6, <1>7

\* What a write to the store may do.
LEMMA RecordFacts ==
  ASSUME NEW values, Record(values)
  PROVE  row' = row \/ row' = values
BY DEF Record

\* A failure is recorded of an invocation that has no result yet.
LEMMA RaiseKeepsRow ==
  ASSUME PhaseInv, RowInv, result = "none", NEW why \in Causes, Raise(why)
  PROVE  RowInv'
<1>1. pc' = "done" /\ result' = why /\ UNCHANGED <<final, monitor>> /\ why \notin {"none", "accepted"}
  BY DEF Raise, poll, Causes
<1>2. row.state \in {"none", "open"} /\ row.usage # "reported"
  BY DEF RowInv, PhaseInv
<1>3. CASE row' = row
  BY <1>1, <1>2, <1>3 DEF RowInv
<1>4. CASE row' = [row EXCEPT !.state = "failed", !.usage = "unavailable"]
  BY <1>1, <1>4 DEF RowInv
<1> QED BY <1>3, <1>4, RecordFacts DEF Raise

LEMMA RowStep ==
  ASSUME PhaseInv, FinalInv, FileInv, RowInv, [Next]_vars
  PROVE  RowInv'
<1> USE DEF poll
<1>0. {"error", "bad line", "no check-in", "stale", "no usage", "timeout", "bad result",
       "interrupted"} \subseteq Causes
  BY DEF Causes, Results
\* Most steps leave row, monitor and result alone.
<1>1. CASE /\ UNCHANGED <<row, monitor, result, final>>
           /\ pc = "done" => pc' = "done"
  BY <1>1 DEF RowInv
<1>2. CASE Start \/ (pc = "idle" /\ StartInvocation /\ pc' = "done" /\ result' = "interrupted"
                     /\ UNCHANGED <<final, monitor>>)
  <2>1. /\ pc = "idle" /\ result = "none" /\ UNCHANGED <<final, monitor>>
        /\ row' = row \/ row' = [row EXCEPT !.state = "open"]
    BY <1>2 DEF Start, StartInvocation, PhaseInv
  <2>2. row.state \in {"none", "open"} /\ row.usage # "reported"
    BY <2>1 DEF RowInv
  <2> QED BY <2>1, <2>2 DEF RowInv
<1>3. CASE Launch
  <2>1. result = "none"
    BY <1>3 DEF Launch, PhaseInv
  <2> QED BY <1>0, <1>1, <1>3, <2>1, RaiseKeepsRow DEF Launch
<1>4. CASE BeatFails
  <2>1. result = "none"
    BY <1>4 DEF BeatFails, PhaseInv
  <2> QED BY <1>0, <1>4, <2>1, RaiseKeepsRow DEF BeatFails
<1>5. CASE Consume
  <2> DEFINE e == Reported[monitor.taken + 1]
  <2>1. pc = "consuming" /\ result = "none"
    BY <1>5 DEF Consume, PhaseInv
  <2>2. row.state \in {"none", "open"} /\ row.usage # "reported"
    BY <2>1 DEF RowInv
  <2>3. CASE Raise("bad line")
    BY <1>0, <2>1, <2>3, RaiseKeepsRow
  <2>4. CASE monitor' = Consumed(e) /\ ModelEvent(e.type) /\ UNCHANGED <<pc, result>>
    <3>1. /\ monitor'.checkin <=> monitor.checkin \/ e.type = "checkin"
          /\ UNCHANGED <<pc, result>>
      BY <2>4 DEF Consumed
    <3>2. CASE row' = row
      BY <2>1, <2>2, <3>1, <3>2 DEF RowInv
    <3>3. CASE e.type = "checkin" /\ row' = [row EXCEPT !.identity = "matched"]
      BY <2>1, <2>2, <3>1, <3>3 DEF RowInv
    <3> QED BY <2>4, <3>2, <3>3, RecordFacts DEF ModelEvent
  <2> QED BY <1>5, <2>3, <2>4 DEF Consume
<1>6. CASE Judge
  <2>1. pc = "consuming" /\ result = "none"
    BY <1>6 DEF Judge, PhaseInv
  <2>2. CASE UNCHANGED <<row, monitor, result, final>>
    BY <1>1, <2>1, <2>2
  <2> QED BY <1>0, <1>6, <2>1, <2>2, RaiseKeepsRow DEF Judge
<1>7. CASE Reap
  <2>1. pc = "waiting" /\ result = "none"
    BY <1>7 DEF Reap, PhaseInv
  <2>2. CASE UNCHANGED <<row, monitor, result>> /\ final' = TRUE /\ pc' = "reading"
    BY <2>1, <2>2 DEF RowInv
  <2> QED BY <1>0, <1>7, <2>1, <2>2, RaiseKeepsRow DEF Reap
<1>8. CASE Check
  <2>1. pc = "checking" /\ result = "none"
    BY <1>8 DEF Check, PhaseInv
  <2>2. CASE UNCHANGED <<row, monitor, final>> /\ result' = "accepted" /\ pc' = "finishing"
    BY <2>1, <2>2 DEF RowInv
  <2> QED BY <1>0, <1>8, <2>1, <2>2, RaiseKeepsRow DEF Check
<1>9. CASE RecordUsage
  <2>1. /\ pc = "finishing" /\ pc' = "closing" /\ result = "accepted" /\ final = TRUE
        /\ UNCHANGED <<final, monitor, result>>
    BY <1>9 DEF RecordUsage, PhaseInv, FinalInv
  <2>2. \/ row' = row
        \/ monitor.usage /\ row' = [row EXCEPT !.usage = "reported"]
    BY <1>9, RecordFacts DEF RecordUsage
  <2> QED BY <2>1, <2>2 DEF RowInv
<1>10. CASE FinishInvocation
  <2>1. /\ pc = "closing" /\ pc' = "done" /\ result = "accepted"
        /\ UNCHANGED <<final, monitor, result>>
    BY <1>10 DEF FinishInvocation, PhaseInv
  <2>2. \/ row' = row
        \/ row' = [row EXCEPT !.state = "succeeded",
                              !.usage = IF row.usage = "pending" THEN "unavailable" ELSE row.usage]
    BY <1>10, RecordFacts DEF FinishInvocation
  <2> QED BY <2>1, <2>2 DEF RowInv
<1>11. CASE Interrupt
  <2>1. CASE pc \in {"launching", "waiting", "checking"} /\ Raise("interrupted")
    BY <1>0, <2>1, RaiseKeepsRow DEF PhaseInv
  <2>2. CASE /\ pc \in {"finishing", "closing"} /\ pc' = "done" /\ result' = "interrupted"
             /\ UNCHANGED <<final, monitor, row>>
    BY <2>2 DEF RowInv
  <2> QED BY <1>2, <1>11, <2>1, <2>2 DEF Interrupt
<1> QED
  BY <1>1, <1>2, <1>3, <1>4, <1>5, <1>6, <1>7, <1>8, <1>9, <1>10, <1>11 DEF Next, Controller,
     Beat, Read, BeginLine, EndText, Newline, Exit, Tick, StepClock, vars

-------------------------------------------------------------------------------
\* What a refusal says of the file.

\* While the wall clock is not stepped no event is of the future.
TimesInv ==
  shift = 0 =>
    /\ \A i \in 1 .. Len(lines) : lines[i].type # "junk" => lines[i].at <= now
    /\ tail.text # "none" /\ (tail.text = "part" \/ tail.type # "junk") => tail.at <= now

\* The last sign of life is that of one of the consumed events.
BeatInv ==
  monitor.taken > 0 =>
    \E i \in 1 .. monitor.taken : WholeFile[i].type \in Beats /\ WholeFile[i].at = monitor.beat

\* The events that the controller writes for codex-cli: a check-in, heartbeats,
\* none of them earlier than HeartbeatEvery after the one before, and the usage
\* in the end; a poll begins no later than a heartbeat is due.
SignsOfLife == IF final THEN Len(lines) - 1 ELSE Len(lines)

CodexInv ==
  cfg.backend = "codex-cli" =>
    /\ tail = NoTail
    /\ shift = 0 /\ pc \in Polling =>
         /\ SignsOfLife >= 1
         /\ \A i \in 1 .. SignsOfLife : /\ lines[i].type = IF i = 1 THEN "checkin" ELSE "heartbeat"
                                        /\ lines[i].at \in Int /\ lines[i].at <= beatAt
         /\ \A i, j \in 1 .. SignsOfLife : i < j => lines[i].at <= lines[j].at
         /\ lines[SignsOfLife].at = beatAt
         /\ final = TRUE => lines[Len(lines)].type = "usage"
         /\ (SignsOfLife - 1) * HeartbeatEvery <= beatAt /\ beatAt <= Timeout
         /\ pc \in {"reading", "consuming"} /\ final = FALSE =>
              due - beatAt <= HeartbeatEvery - 1 + PollDelay
         /\ pc = "consuming" /\ final = FALSE => upTo = Len(lines)

CauseInv == TimesInv /\ BeatInv /\ CodexInv /\ RefusedForCause

LEMMA TimesStep ==
  ASSUME PhaseInv, FinalInv, ClockInv, FileInv, TimesInv, [Next]_vars
  PROVE  TimesInv'
<1> SUFFICES ASSUME shift' = 0 PROVE TimesInv'
  BY DEF TimesInv
<1>1. shift = 0 /\ now \in Int /\ now' \in Int /\ now <= now'
  <2>1. shift = 0
    BY DEF Next, Controller, Start, Launch, Beat, BeatFails, Read, Consume, Judge, Reap, Check,
       RecordUsage, FinishInvocation, Interrupt, BeginLine, EndText, Newline, Exit, Tick,
       StepClock, clocks, vars
  <2>2. now' = now \/ now' = now + 1
    BY DEF Next, Controller, Start, Launch, Beat, BeatFails, Read, Consume, Judge, Reap, Check,
       RecordUsage, FinishInvocation, Interrupt, BeginLine, EndText, Newline, Exit, Tick,
       StepClock, clocks, vars
  <2> QED BY <2>1, <2>2 DEF ClockInv
<1>2. /\ lines \in Seq(TimedEvents) /\ Len(lines) \in Nat /\ tail \in Tails
      /\ \A i \in 1 .. Len(lines) : lines[i] \in TimedEvents
  BY DEF FileInv
<1>3. /\ \A i \in 1 .. Len(lines) : lines[i].type # "junk" => lines[i].at <= now
      /\ tail.text # "none" /\ (tail.text = "part" \/ tail.type # "junk") => tail.at <= now
  BY <1>1 DEF TimesInv
<1>4. Wall = now
  BY <1>1 DEF Wall
<1>5. CASE UNCHANGED lines
  <2>1. \A i \in 1 .. Len(lines) : lines[i].type # "junk" => lines[i].at <= now'
    BY <1>1, <1>2, <1>3 DEF TimedEvents
  <2>2. tail'.text # "none" /\ (tail'.text = "part" \/ tail'.type # "junk") => tail'.at <= now'
    <3>1. CASE UNCHANGED tail
      BY <1>1, <1>2, <1>3, <3>1 DEF Tails, NoTail
    <3>2. CASE BeginLine
      BY <1>1, <1>4, <3>2 DEF BeginLine
    <3>3. ASSUME NEW type \in EventTypes, EndText(type)
          PROVE  tail'.text = "whole" /\ (tail'.type # "junk" => tail'.at <= now')
      BY <1>1, <1>2, <1>3, <3>3 DEF EndText, Tails, NoTail
    <3>4. CASE Newline
      BY <3>4 DEF Newline, NoTail
    <3> QED
      BY <3>1, <3>2, <3>3, <3>4 DEF Next, Controller, Start, Launch, Beat, BeatFails, Read,
         Consume, Judge, Reap, Check, RecordUsage, FinishInvocation, Interrupt, Exit, Tick,
         StepClock, file, vars
  <2> QED BY <1>5, <2>1, <2>2 DEF TimesInv
<1>6. ASSUME NEW e \in TimedEvents, lines' = Append(lines, e), e.type # "junk" => e.at <= now,
             tail' = tail \/ tail' = NoTail
      PROVE  TimesInv'
  <2>1. Len(lines') = Len(lines) + 1 /\ lines'[Len(lines) + 1] = e
        /\ \A i \in 1 .. Len(lines) : lines'[i] = lines[i]
    BY <1>2, <1>6, AppendProperties
  <2>2. \A i \in 1 .. Len(lines') : i \in 1 .. Len(lines) \/ i = Len(lines) + 1
    BY <1>2, <2>1
  <2>3. ASSUME NEW i \in 1 .. Len(lines'), lines'[i].type # "junk" PROVE lines'[i].at <= now'
    <3>1. CASE i \in 1 .. Len(lines)
      BY <1>1, <1>2, <1>3, <2>1, <2>3, <3>1 DEF TimedEvents
    <3>2. CASE i = Len(lines) + 1
      BY <1>1, <1>6, <2>1, <2>3, <3>2 DEF TimedEvents
    <3> QED BY <2>2, <3>1, <3>2
  <2>4. tail'.text # "none" /\ (tail'.text = "part" \/ tail'.type # "junk") => tail'.at <= now'
    <3>1. CASE tail' = tail
      BY <1>1, <1>2, <1>3, <3>1 DEF Tails, NoTail
    <3> QED BY <1>6, <3>1 DEF NoTail
  <2> QED BY <2>3, <2>4 DEF TimesInv
<1>7. {"checkin", "heartbeat", "usage"} \subseteq EventTypes
  BY DEF EventTypes, Beats
<1>8. ASSUME NEW type \in EventTypes PROVE Event(type) \in TimedEvents /\ Event(type).at <= now
  BY <1>1, <1>4, EventsAreTimed DEF Event
<1>9. CASE Launch
  <2>1. lines = <<>> /\ Len(lines) = 0 /\ UNCHANGED tail
    BY <1>9 DEF Launch, PhaseInv
  <2>2. CASE lines' = <<>>
    BY <1>5, <2>1, <2>2
  <2>3. CASE lines' = <<Event("checkin")>>
    <3>1. lines' = Append(lines, Event("checkin"))
      BY <2>1, <2>3
    <3> QED BY <1>6, <1>7, <1>8, <2>1, <3>1
  <2> QED BY <1>9, <2>2, <2>3 DEF Launch
<1>10. CASE Beat
  <2>1. UNCHANGED tail /\ (lines' = lines \/ lines' = Append(lines, Event("heartbeat")))
    BY <1>10 DEF Beat
  <2> QED BY <1>5, <1>6, <1>7, <1>8, <2>1
<1>11. CASE Reap
  <2>1. UNCHANGED tail /\ (lines' = lines \/ lines' = Append(lines, Event("usage")))
    BY <1>11 DEF Reap
  <2> QED BY <1>5, <1>6, <1>7, <1>8, <2>1
<1>12. CASE Newline
  <2>1. /\ lines' = Append(lines, [type |-> tail.type, at |-> tail.at]) /\ tail' = NoTail
        /\ tail.text = "whole"
    BY <1>12 DEF Newline
  <2>2. [type |-> tail.type, at |-> tail.at] \in TimedEvents
    BY <1>2, <2>1 DEF Tails, NoTail, TimedEvents, Events
  <2> QED BY <1>3, <1>6, <2>1, <2>2
<1> QED
  BY <1>5, <1>9, <1>10, <1>11, <1>12 DEF Next, Controller, Start, BeatFails, Read, Consume, Judge,
     Check, RecordUsage, FinishInvocation, Interrupt, BeginLine, EndText, Exit, Tick, StepClock,
     file, vars

\* What a poll reads is the beginning of the whole file.
LEMMA ReportedFacts ==
  ASSUME FinalInv, FileInv
  PROVE  /\ Reported \in Seq(TimedEvents) /\ WholeFile \in Seq(TimedEvents)
         /\ Len(Reported) \in Nat /\ upTo <= Len(Reported) /\ Len(Reported) <= Len(WholeFile)
         /\ \A i \in 1 .. Len(Reported) : Reported[i] = WholeFile[i] /\ Reported[i] \in TimedEvents
         /\ final = TRUE => Reported = WholeFile
         /\ final = FALSE => Reported = lines
<1>1. /\ WholeFile \in Seq(TimedEvents) /\ lines \in Seq(TimedEvents)
      /\ Len(lines) \in Nat /\ Len(WholeFile) \in Nat /\ Len(lines) <= Len(WholeFile)
      /\ \A i \in 1 .. Len(lines) : WholeFile[i] = lines[i]
  BY WholeFileIsWhole, WholeFacts DEF FileInv
<1>2. CASE final = TRUE
  <2>1. Reported = WholeFile /\ upTo <= Len(WholeFile)
    BY <1>2 DEF Reported, FileInv
  <2> QED BY <1>1, <1>2, <2>1
<1>3. CASE final = FALSE
  <2>1. Reported = lines /\ upTo <= Len(lines)
    BY <1>3 DEF Reported, FileInv
  <2> QED BY <1>1, <1>3, <2>1
<1> QED BY <1>2, <1>3 DEF FinalInv

LEMMA BeatStep ==
  ASSUME PhaseInv, FinalInv, ClockInv, FileInv, BeatInv, [Next]_vars
  PROVE  BeatInv'
<1>1. CASE UNCHANGED monitor
  BY <1>1, ConsumedStays DEF BeatInv
<1>2. CASE Consume /\ ~UNCHANGED monitor
  <2> DEFINE n == monitor.taken
             e == Reported[n + 1]
  <2>1. n \in Nat /\ n < upTo /\ Admissible(e) /\ monitor' = Consumed(e) /\ WholeFile' = WholeFile
    BY <1>2 DEF Consume, Raise, WholeFile, FileInv, poll, file
  <2>2. e = WholeFile[n + 1]
    <3>1. n + 1 \in 1 .. Len(Reported)
      <4>1. upTo \in Nat
        BY DEF FileInv
      <4> QED BY <2>1, <4>1, ReportedFacts
    <3> QED BY <3>1, ReportedFacts
  <2> HIDE DEF e
  <2>3. CASE e.type \in Beats
    BY <2>1, <2>2, <2>3 DEF BeatInv, Consumed
  <2>4. CASE e.type \notin Beats
    <3>1. n # 0
      BY <2>1, <2>4 DEF Admissible, Beats
    <3>2. PICK i \in 1 .. n : WholeFile[i].type \in Beats /\ WholeFile[i].at = monitor.beat
      BY <2>1, <3>1 DEF BeatInv
    <3>3. monitor'.beat = monitor.beat /\ monitor'.taken = n + 1
      BY <2>1, <2>4 DEF Consumed
    <3>4. i \in 1 .. n + 1
      BY <2>1
    <3> QED BY <2>1, <3>2, <3>3, <3>4 DEF BeatInv
  <2> QED BY <2>3, <2>4
<1> QED
  BY <1>1, <1>2 DEF Next, Controller, Start, Launch, Beat, BeatFails, Read, Judge, Reap, Check,
     RecordUsage, FinishInvocation, Interrupt, Raise, BeginLine, EndText, Newline, Exit, Tick,
     StepClock, poll, vars

\* An event that is refused while the clock is not stepped spoils the file.
LEMMA RefusedLineIsBad ==
  ASSUME FinalInv, ClockInv, FileInv, TimesInv, BeatInv, shift = 0, monitor.taken < upTo,
         ~Admissible(Reported[monitor.taken + 1])
  PROVE  ~WellFormed(Reported)
<1> DEFINE n == monitor.taken
           e == Reported[n + 1]
<1> SUFFICES ASSUME WellFormed(Reported) PROVE FALSE
  OBVIOUS
<1>1. n \in Nat /\ upTo \in Nat /\ upTo <= Len(Reported) /\ Len(Reported) \in Nat
  BY ReportedFacts DEF FileInv
<1>2. n + 1 \in 1 .. Len(Reported) /\ n < MaxEvents
  BY <1>1, Assumed DEF WellFormed
<1>3. e.type # "junk" /\ (e.type = "checkin" <=> n = 0)
  BY <1>1, <1>2 DEF WellFormed
<1>4. Reported[n + 1] \in TimedEvents
  BY <1>2, ReportedFacts
<1>5. \A i \in 1 .. n : /\ i \in 1 .. Len(Reported) /\ i < n + 1
                       /\ Reported[i] = WholeFile[i] /\ Reported[i] \in TimedEvents
  BY <1>1, <1>2, ReportedFacts
<1>6. e.type = "usage" => ~monitor.usage
  <2> SUFFICES ASSUME e.type = "usage", monitor.usage PROVE FALSE
    OBVIOUS
  <2>1. PICK i \in 1 .. n : WholeFile[i].type = "usage"
    BY DEF FileInv, Summarises
  <2>2. i \in 1 .. Len(Reported) /\ i < n + 1 /\ Reported[i].type = "usage"
    BY <1>5, <2>1
  <2> QED BY <1>2, <2>2 DEF WellFormed
<1>7. e.type = "heartbeat" => monitor.checkin /\ e.at >= monitor.beat
  <2> SUFFICES ASSUME e.type = "heartbeat" PROVE monitor.checkin /\ e.at >= monitor.beat
    OBVIOUS
  <2>1. n > 0 /\ monitor.checkin
    BY <1>1, <1>3 DEF FileInv, Summarises
  <2>2. PICK i \in 1 .. n : WholeFile[i].type \in Beats /\ WholeFile[i].at = monitor.beat
    BY <2>1 DEF BeatInv
  <2>3. /\ i \in 1 .. Len(Reported) /\ i < n + 1
        /\ Reported[i].type \in Beats /\ Reported[i].at = monitor.beat
    BY <1>5, <2>2
  <2>4. Reported[i].at <= Reported[n + 1].at
    BY <1>2, <2>3 DEF WellFormed, Beats
  <2>5. monitor.beat \in Int /\ e.at \in Int
    BY <1>4, <2>1 DEF FileInv, Summarises, TimedEvents
  <2> QED BY <2>1, <2>3, <2>4, <2>5
<1>8. e.at - Wall <= FutureLimit
  <2>1. e.at \in Int /\ now \in Int /\ Wall = now
    BY <1>3, <1>4 DEF TimedEvents, ClockInv, Wall
  <2>2. e.at <= now
    <3>1. CASE n + 1 \in 1 .. Len(lines)
      <4>1. e = lines[n + 1]
        BY <1>2, <3>1, ReportedFacts, WholeFileIsWhole, WholeFacts DEF FileInv
      <4> QED BY <1>3, <3>1, <4>1 DEF TimesInv
    <3>2. CASE n + 1 \notin 1 .. Len(lines)
      <4>1. final = TRUE /\ e = WholeFile[n + 1] /\ n + 1 \in 1 .. Len(WholeFile)
        BY <1>2, <3>2, ReportedFacts DEF FinalInv
      <4>2. tail.text # "none"
        BY <3>2, <4>1 DEF WholeFile
      <4>3. WholeFile = Append(lines, LastLine(tail)) /\ Len(lines) \in Nat
        BY <4>2 DEF WholeFile, LastLine, FileInv
      <4>4. LastLine(tail) \in TimedEvents
        <5>1. tail \in Tails
          BY DEF FileInv
        <5> QED
          BY <4>2, <5>1 DEF Tails, NoTail, LastLine, TimedEvents, Events, EventTypes, Beats
      <4>5. n + 1 = Len(lines) + 1 /\ e = LastLine(tail)
        BY <1>1, <3>2, <4>1, <4>3, <4>4, AppendProperties DEF FileInv
      <4>6. tail.text = "whole" /\ tail.type # "junk" /\ e.at = tail.at
        BY <1>3, <4>5 DEF LastLine
      <4> QED BY <4>6 DEF TimesInv
    <3> QED BY <3>1, <3>2
  <2> QED BY <2>1, <2>2, Assumed
<1> QED BY <1>2, <1>3, <1>6, <1>7, <1>8 DEF Admissible

\* The events of codex-cli are few enough, in order, and a poll has all of them.
LEMMA CodexFacts ==
  ASSUME PhaseInv, FinalInv, ClockInv, FileInv, CodexInv,
         cfg.backend = "codex-cli", shift = 0, pc \in Polling
  PROVE  /\ WholeFile = lines /\ Reported = lines /\ Len(lines) \in Nat
         /\ SignsOfLife \in 1 .. Len(lines)
         /\ \A i \in 1 .. Len(lines) :
              \/ i \in 1 .. SignsOfLife /\ lines[i].type \in Beats
              \/ i = Len(lines) /\ lines[i].type = "usage" /\ final = TRUE
         /\ WellFormed(lines)
<1>1. Len(lines) \in Nat /\ lines \in Seq(TimedEvents)
  BY DEF FileInv
<1>2. WholeFile = lines /\ Reported = lines
  BY DEF CodexInv, NoTail, WholeFile, Reported
<1>3. SignsOfLife \in 1 .. Len(lines) /\ Len(lines) \in {SignsOfLife, SignsOfLife + 1}
  <2>1. SignsOfLife >= 1 /\ SignsOfLife \in {Len(lines), Len(lines) - 1}
    BY DEF CodexInv, SignsOfLife
  <2> QED BY <1>1, <2>1
<1>4. \A i \in 1 .. SignsOfLife :
        lines[i].type = (IF i = 1 THEN "checkin" ELSE "heartbeat") /\ lines[i].at \in Int
  BY DEF CodexInv
<1>5. \A i \in 1 .. Len(lines) :
        \/ i \in 1 .. SignsOfLife /\ lines[i].type \in Beats
        \/ i = Len(lines) /\ lines[i].type = "usage" /\ final = TRUE
  <2>1. ASSUME NEW i \in 1 .. Len(lines), i \notin 1 .. SignsOfLife
        PROVE  i = Len(lines) /\ lines[i].type = "usage" /\ final = TRUE
    <3>1. i = Len(lines) /\ SignsOfLife # Len(lines)
      BY <1>1, <1>3, <2>1
    <3>2. final = TRUE
      BY <3>1 DEF SignsOfLife, FinalInv
    <3> QED BY <3>1, <3>2 DEF CodexInv
  <2> QED BY <1>4, <2>1 DEF Beats
<1>6. Len(lines) <= MaxEvents
  <2> DEFINE count == SignsOfLife - 1
  <2>1. count \in Nat /\ count * HeartbeatEvery <= Timeout
    <3>1. count * HeartbeatEvery <= beatAt /\ beatAt <= Timeout /\ beatAt \in Nat /\ count \in Nat
      BY <1>1, <1>3 DEF CodexInv, ClockInv
    <3>2. count * HeartbeatEvery \in Nat
      BY <3>1, Assumed
    <3> QED BY <3>1, <3>2, Assumed
  <2> HIDE DEF count
  <2>2. count < MaxEvents - 1
    <3> SUFFICES ASSUME MaxEvents - 1 <= count PROVE FALSE
      BY <2>1, Assumed
    <3>1. (MaxEvents - 1) * HeartbeatEvery <= count * HeartbeatEvery
      BY <2>1, Assumed
    <3>2. (MaxEvents - 1) * HeartbeatEvery \in Int /\ count * HeartbeatEvery \in Int
      BY <2>1, Assumed
    <3> QED BY <2>1, <3>1, <3>2, Assumed, EventsCoverTimeout
  <2> QED BY <1>1, <1>3, <2>1, <2>2, Assumed DEF count
<1>7. \A i \in 1 .. Len(lines) : lines[i].type # "junk" /\ (lines[i].type = "checkin" <=> i = 1)
  <2>1. ASSUME NEW i \in 1 .. Len(lines), i \notin 1 .. SignsOfLife PROVE i # 1
    BY <1>3, <2>1
  <2> QED BY <1>4, <1>5, <2>1 DEF Beats
<1>8. \A i, j \in 1 .. Len(lines) :
        i < j => /\ ~(lines[i].type = "usage" /\ lines[j].type = "usage")
                 /\ {lines[i].type, lines[j].type} \subseteq Beats => lines[i].at <= lines[j].at
  <2> SUFFICES ASSUME NEW i \in 1 .. Len(lines), NEW j \in 1 .. Len(lines), i < j
               PROVE  /\ ~(lines[i].type = "usage" /\ lines[j].type = "usage")
                      /\ {lines[i].type, lines[j].type} \subseteq Beats => lines[i].at <= lines[j].at
    OBVIOUS
  <2>1. i # Len(lines)
    BY <1>1
  <2>2. i \in 1 .. SignsOfLife /\ lines[i].type # "usage"
    BY <1>5, <2>1 DEF Beats
  <2>3. lines[j].type \in Beats => j \in 1 .. SignsOfLife
    BY <1>5 DEF Beats
  <2>4. j \in 1 .. SignsOfLife => lines[i].at <= lines[j].at
    BY <2>2 DEF CodexInv
  <2> QED BY <2>2, <2>3, <2>4
<1>9. WellFormed(lines)
  BY <1>6, <1>7, <1>8 DEF WellFormed
<1> QED BY <1>1, <1>2, <1>3, <1>5, <1>9

LEMMA CodexStep ==
  ASSUME PhaseInv, FinalInv, ClockInv, ClockInv', FileInv, CodexInv, [Next]_vars
  PROVE  CodexInv'
<1> SUFFICES ASSUME cfg.backend = "codex-cli" PROVE CodexInv'
  BY DEF CodexInv, Next, Controller, Start, Launch, Beat, BeatFails, Read, Consume, Judge, Reap,
     Check, RecordUsage, FinishInvocation, Interrupt, BeginLine, EndText, Newline, Exit, Tick,
     StepClock, vars
<1>1. tail = NoTail /\ tail' = NoTail
  <2>1. tail = NoTail /\ tail.text = "none"
    BY DEF CodexInv, NoTail
  <2>2. ~BeginLine /\ ~Newline /\ \A type \in EventTypes : ~EndText(type)
    BY <2>1 DEF BeginLine, Newline, EndText
  <2> QED
    BY <2>1, <2>2 DEF Next, Controller, Start, Launch, Beat, BeatFails, Read, Consume, Judge, Reap,
       Check, RecordUsage, FinishInvocation, Interrupt, Exit, Tick, StepClock, file, vars
<1> SUFFICES ASSUME shift' = 0, pc' \in Polling PROVE CodexInv'
  BY <1>1 DEF CodexInv
<1>2. shift = 0
  BY DEF Next, Controller, Start, Launch, Beat, BeatFails, Read, Consume, Judge, Reap, Check,
     RecordUsage, FinishInvocation, Interrupt, BeginLine, EndText, Newline, Exit, Tick, StepClock,
     clocks, vars
<1>3. /\ lines \in Seq(TimedEvents) /\ Len(lines) \in Nat /\ now \in Nat /\ beatAt \in Nat
      /\ beatAt <= now /\ due \in Nat
  BY DEF FileInv, ClockInv
<1>4. Wall = now
  BY <1>2, <1>3 DEF Wall
\* A poll ends with no more than what it read, and only the steps of telemetry_tick
\* and of the exit write.
<1>5. ASSUME UNCHANGED <<lines, beatAt, final>>, pc \in Polling,
             pc' \in {"reading", "consuming"} /\ final = FALSE =>
               pc \in {"reading", "consuming"} /\ due' = due,
             pc' = "consuming" /\ final = FALSE => upTo' = Len(lines)
      PROVE  CodexInv'
  <2>1. SignsOfLife' = SignsOfLife
    BY <1>5 DEF SignsOfLife
  <2> QED BY <1>1, <1>2, <1>5, <2>1 DEF CodexInv
<1>6. ASSUME NEW e \in TimedEvents, e.type = "heartbeat", e.at = now,
             lines' = Append(lines, e), beatAt' = now, now - beatAt >= HeartbeatEvery,
             pc = "waiting", pc' = "reading", UNCHANGED final, due' = now + PollDelay
      PROVE  CodexInv'
  <2>1. /\ Len(lines') = Len(lines) + 1 /\ lines'[Len(lines) + 1] = e
        /\ \A i \in 1 .. Len(lines) : lines'[i] = lines[i]
    BY <1>3, <1>6, AppendProperties
  <2>2. final = FALSE /\ final' = FALSE /\ SignsOfLife = Len(lines) /\ SignsOfLife' = Len(lines')
    BY <1>6 DEF FinalInv, SignsOfLife
  <2>3. /\ Len(lines) >= 1
        /\ \A i \in 1 .. Len(lines) :
             /\ lines[i].type = (IF i = 1 THEN "checkin" ELSE "heartbeat")
             /\ lines[i].at \in Int /\ lines[i].at <= beatAt
        /\ \A i, j \in 1 .. Len(lines) : i < j => lines[i].at <= lines[j].at
        /\ (Len(lines) - 1) * HeartbeatEvery <= beatAt
    BY <1>1, <1>2, <1>6, <2>2 DEF CodexInv, Polling
  <2>4. \A i \in 1 .. Len(lines') : i \in 1 .. Len(lines) \/ i = Len(lines) + 1
    BY <1>3, <2>1
  <2>5. \A i \in 1 .. Len(lines') :
          /\ lines'[i].type = (IF i = 1 THEN "checkin" ELSE "heartbeat")
          /\ lines'[i].at \in Int /\ lines'[i].at <= now
    BY <1>3, <1>6, <2>1, <2>3, <2>4
  <2>6. \A i, j \in 1 .. Len(lines') : i < j => lines'[i].at <= lines'[j].at
    <3> SUFFICES ASSUME NEW i \in 1 .. Len(lines'), NEW j \in 1 .. Len(lines'), i < j
                 PROVE  lines'[i].at <= lines'[j].at
      OBVIOUS
    <3>1. i \in 1 .. Len(lines)
      BY <1>3, <2>1
    <3>2. CASE j \in 1 .. Len(lines)
      BY <2>1, <2>3, <3>1, <3>2
    <3>3. CASE j = Len(lines) + 1
      BY <1>6, <2>1, <2>5, <3>3
    <3> QED BY <2>4, <3>2, <3>3
  <2>7. (Len(lines') - 1) * HeartbeatEvery <= now
    <3>1. (Len(lines') - 1) * HeartbeatEvery = (Len(lines) - 1) * HeartbeatEvery + HeartbeatEvery
      BY <1>3, <2>1, Assumed
    <3>2. (Len(lines) - 1) * HeartbeatEvery \in Int
      BY <1>3, Assumed
    <3> QED BY <1>3, <1>6, <2>3, <3>1, <3>2, Assumed
  <2>8. now <= Timeout
    BY <1>3, <1>6, <2>2, Assumed DEF ClockInv, Polling
  <2>9. due' - beatAt' <= HeartbeatEvery - 1 + PollDelay
    BY <1>3, <1>6, Assumed
  <2>10. /\ Len(lines') >= 1 /\ lines'[Len(lines')].at = beatAt'
    BY <1>3, <1>6, <2>1
  <2> QED
    BY <1>1, <1>6, <2>2, <2>5, <2>6, <2>7, <2>8, <2>9, <2>10 DEF CodexInv
<1>7. \A type \in {"checkin", "heartbeat", "usage"} : Event(type) \in TimedEvents
  BY EventsAreTimed DEF EventTypes, Beats
<1>8. CASE Launch
  <2>1. /\ lines' = <<Event("checkin")>> /\ beatAt' = now /\ UNCHANGED final /\ pc' = "waiting"
        /\ now = 0 /\ final = FALSE
    BY <1>8 DEF Launch, Raise, ClockInv, FinalInv, Polling
  <2>2. Len(lines') = 1 /\ lines'[1] = Event("checkin")
    BY <2>1
  <2>3. Event("checkin").type = "checkin" /\ Event("checkin").at = 0
    BY <1>4, <2>1 DEF Event
  <2>4. SignsOfLife' = 1 /\ final' = FALSE
    BY <2>1, <2>2 DEF SignsOfLife
  <2>5. (1 - 1) * HeartbeatEvery <= 0
    BY Assumed
  <2> QED BY <1>1, <2>1, <2>2, <2>3, <2>4, <2>5, Assumed DEF CodexInv
<1>9. CASE Beat
  <2>1. CASE HeartbeatDue
    <3>1. /\ Event("heartbeat").type = "heartbeat" /\ Event("heartbeat").at = now
          /\ lines' = Append(lines, Event("heartbeat"))
      BY <1>4, <1>9, <2>1 DEF Beat, Event
    <3> QED BY <1>6, <1>7, <1>9, <2>1, <3>1 DEF Beat, HeartbeatDue
  <2>2. CASE ~HeartbeatDue
    <3>1. /\ UNCHANGED <<lines, beatAt, final>> /\ pc = "waiting" /\ pc' = "reading"
          /\ due' = now + PollDelay /\ now - beatAt <= HeartbeatEvery - 1
      BY <1>3, <1>9, <2>2, Assumed DEF Beat, HeartbeatDue
    <3>2. SignsOfLife' = SignsOfLife
      BY <3>1 DEF SignsOfLife
    <3>3. due' - beatAt <= HeartbeatEvery - 1 + PollDelay
      BY <1>3, <3>1, Assumed
    <3> QED BY <1>1, <1>2, <3>1, <3>2, <3>3 DEF CodexInv, Polling
  <2> QED BY <2>1, <2>2
<1>10. CASE Reap
  <2>1. /\ lines' = Append(lines, Event("usage")) /\ final' = TRUE /\ final = FALSE
        /\ pc = "waiting" /\ pc' = "reading" /\ UNCHANGED beatAt
    BY <1>10 DEF Reap, Raise, FinalInv, Polling
  <2>2. /\ Len(lines') = Len(lines) + 1 /\ lines'[Len(lines) + 1] = Event("usage")
        /\ \A i \in 1 .. Len(lines) : lines'[i] = lines[i]
    BY <1>3, <1>7, <2>1, AppendProperties
  <2>3. SignsOfLife = Len(lines) /\ SignsOfLife' = Len(lines)
    BY <1>3, <2>1, <2>2 DEF SignsOfLife
  <2>4. lines'[Len(lines')].type = "usage"
    BY <1>3, <2>2 DEF Event
  <2>5. /\ Len(lines) >= 1
        /\ \A i \in 1 .. Len(lines) :
             /\ lines[i].type = (IF i = 1 THEN "checkin" ELSE "heartbeat")
             /\ lines[i].at \in Int /\ lines[i].at <= beatAt
        /\ \A i, j \in 1 .. Len(lines) : i < j => lines[i].at <= lines[j].at
        /\ lines[Len(lines)].at = beatAt
        /\ (Len(lines) - 1) * HeartbeatEvery <= beatAt /\ beatAt <= Timeout
    BY <1>1, <1>2, <2>1, <2>3 DEF CodexInv, Polling
  <2>6. Len(lines) \in 1 .. Len(lines)
    BY <1>3, <2>5
  <2> QED BY <1>1, <2>1, <2>2, <2>3, <2>4, <2>5, <2>6 DEF CodexInv
<1>11. CASE Read
  <2>1. Reported = lines
    BY <1>1 DEF Reported, WholeFile, NoTail
  <2> QED BY <1>5, <1>11, <2>1 DEF Read, file, Polling
<1>12. CASE Consume
  <2>1. pc = "consuming" /\ UNCHANGED <<lines, pc, due, beatAt, final, upTo>>
    BY <1>12 DEF Consume, Raise, file, Polling
  <2>2. final = FALSE => upTo = Len(lines)
    BY <1>2, <2>1 DEF CodexInv, Polling
  <2> QED BY <1>5, <2>1, <2>2 DEF Polling
<1>13. CASE Judge
  <2>1. pc = "consuming" /\ pc' = "waiting" /\ UNCHANGED <<lines, beatAt, final>>
    BY <1>13 DEF Judge, Raise, file, Polling
  <2> QED BY <1>5, <2>1 DEF Polling
<1>14. CASE UNCHANGED <<lines, pc, due, beatAt, final, upTo>>
  <2>1. pc = "consuming" /\ final = FALSE => upTo = Len(lines)
    BY <1>2 DEF CodexInv, Polling
  <2> QED BY <1>5, <1>14, <2>1
<1>15. ~BeginLine /\ ~Newline /\ \A type \in EventTypes : ~EndText(type)
  <2>1. tail.text = "none"
    BY <1>1 DEF NoTail
  <2> QED BY <2>1 DEF BeginLine, Newline, EndText
<1> QED
  BY <1>8, <1>9, <1>10, <1>11, <1>12, <1>13, <1>14, <1>15 DEF Next, Controller, Start, BeatFails,
     Check, RecordUsage, FinishInvocation, Interrupt, Raise, Exit, Tick, StepClock, Polling, poll,
     file, vars

LEMMA CauseStep ==
  ASSUME PhaseInv, FinalInv, ClockInv, FileInv, CompleteInv, CauseInv, [Next]_vars
  PROVE  RefusedForCause'
<1> DEFINE Refusals == {"bad line", "no usage", "no check-in", "stale"}
\* An invocation that is over stays as it is.
<1>1. CASE pc = "done"
  <2>1. UNCHANGED vars
    BY <1>1 DEF PhaseInv, Polling, Next, Controller, Start, Launch, Beat, BeatFails, Read, Consume,
       Judge, Reap, Check, RecordUsage, FinishInvocation, Interrupt, BeginLine, EndText, Newline,
       Writes, Exit, Tick, StepClock
  <2> QED
    BY <2>1 DEF vars, clocks, file, poll, CauseInv, RefusedForCause, Reported, WholeFile
<1>2. CASE result' \notin Refusals
  BY <1>2 DEF RefusedForCause
<1>3. CASE pc # "done" /\ result' \in Refusals
  <2>1. result \notin Refusals
    BY <1>3 DEF PhaseInv
  <2>2. \/ Consume /\ Raise("bad line") /\ ~Admissible(Reported[monitor.taken + 1])
        \/ Judge /\ pc' = "done"
    BY <1>3, <2>1 DEF Next, Controller, Start, Launch, Beat, BeatFails, Read, Consume, Judge, Reap,
       Check, RecordUsage, FinishInvocation, Interrupt, Raise, BeginLine, EndText, Newline, Exit,
       Tick, StepClock, vars
  <2>3. UNCHANGED <<cfg, now, shift, lines, tail, final, upTo>> /\ pc = "consuming"
    BY <2>2 DEF Consume, Judge, Raise, clocks, file, poll
  <2>4. WholeFile' = WholeFile /\ Reported' = Reported
    BY <2>3 DEF WholeFile, Reported
  <2> SUFFICES ASSUME shift = 0 PROVE RefusedForCause'
    BY <2>3 DEF RefusedForCause
  <2>5. TimesInv /\ BeatInv /\ CodexInv
    BY DEF CauseInv
  <2>6. /\ monitor.taken \in Nat /\ upTo \in Nat /\ now \in Int /\ Wall = now
        /\ monitor.taken <= upTo /\ Summarises(monitor, WholeFile)
    BY DEF FileInv, ClockInv, Wall
  <2>7. cfg.backend = "codex-cli" =>
          /\ WholeFile = lines /\ Reported = lines /\ Len(lines) \in Nat
          /\ SignsOfLife \in 1 .. Len(lines)
          /\ \A i \in 1 .. Len(lines) :
               \/ i \in 1 .. SignsOfLife /\ lines[i].type \in Beats
               \/ i = Len(lines) /\ lines[i].type = "usage" /\ final = TRUE
          /\ WellFormed(lines)
    BY <2>3, <2>5, CodexFacts DEF Polling
  <2>8. CASE Consume /\ Raise("bad line") /\ ~Admissible(Reported[monitor.taken + 1])
    <3>1. result' = "bad line" /\ monitor.taken < upTo
      BY <2>8 DEF Consume, Raise
    <3>2. ~WellFormed(Reported)
      BY <2>5, <2>8, <3>1, RefusedLineIsBad
    <3>3. cfg.backend # "codex-cli"
      BY <2>7, <3>2
    <3> QED BY <2>3, <2>4, <3>1, <3>2, <3>3 DEF RefusedForCause
  <2>9. CASE Judge /\ pc' = "done"
    <3>1. /\ monitor.taken = upTo
          /\ \/ CheckinMissing /\ result' = "no check-in"
             \/ HeartbeatStale /\ result' = "stale"
             \/ UsageMissing /\ result' = "no usage"
             \/ result' = "timeout"
      BY <2>9 DEF Judge, Raise
    <3>2. final = TRUE => upTo = Len(WholeFile)
      BY <2>3 DEF CompleteInv
\* For codex-cli the poll has the check-in, and in the end the usage.
    <3>3. cfg.backend = "codex-cli" => upTo = Len(lines) /\ upTo >= 1
      <4>1. cfg.backend = "codex-cli" /\ final = FALSE => upTo = Len(lines)
        BY <2>3, <2>5 DEF CodexInv, Polling
      <4> QED BY <2>7, <3>2, <4>1 DEF FinalInv
    <3>4. CASE CheckinMissing /\ result' = "no check-in"
      <4>1. upTo = 0 /\ cfg.backend # "codex-cli"
        <5>1. ~(monitor.taken > 0)
          BY <2>6, <3>4 DEF CheckinMissing, Summarises
        <5>2. monitor.taken = 0
          BY <2>6, <5>1
        <5>3. upTo = 0
          BY <3>1, <5>2
        <5> QED BY <3>3, <5>3
      <4>2. final = TRUE => ~Has(WholeFile, "checkin")
        BY <3>2, <4>1 DEF Has
      <4> QED BY <2>3, <2>4, <3>4, <4>1, <4>2 DEF RefusedForCause, FinalInv
    <3>5. CASE UsageMissing /\ result' = "no usage"
      <4>1. final = TRUE /\ ~monitor.usage
        BY <3>5 DEF UsageMissing, FinalInv
      <4>2. ~Has(WholeFile, "usage")
        BY <2>6, <3>1, <3>2, <4>1 DEF Summarises, Has
      <4>3. cfg.backend # "codex-cli"
        <5> SUFFICES ASSUME cfg.backend = "codex-cli" PROVE FALSE
          OBVIOUS
        <5>1. lines[Len(lines)].type = "usage"
          BY <2>3, <2>5, <4>1 DEF CodexInv, Polling
        <5>2. Len(lines) \in 1 .. Len(lines)
          BY <2>7
        <5> QED BY <2>7, <4>2, <5>1, <5>2 DEF Has
      <4> QED BY <2>3, <2>4, <3>5, <4>2, <4>3 DEF RefusedForCause
    <3>6. CASE HeartbeatStale /\ result' = "stale"
      <4>1. final = FALSE /\ now - monitor.beat > HeartbeatTimeout /\ monitor.taken > 0
        BY <2>6, <3>6 DEF HeartbeatStale, FinalInv, Summarises
      <4>2. /\ monitor.beat \in Int
            /\ \A i \in 1 .. upTo : WholeFile[i].type \in Beats => WholeFile[i].at <= monitor.beat
        BY <2>6, <3>1, <4>1 DEF Summarises
      <4>3. \A i \in 1 .. upTo :
              /\ i \in 1 .. Len(lines) /\ WholeFile[i] = lines[i]
              /\ lines[i].type \in Beats => lines[i].at \in Int
        <5>1. Reported = lines /\ upTo <= Len(lines) /\ Len(lines) \in Nat
          BY <4>1, ReportedFacts
        <5> QED BY <2>6, <5>1, ReportedFacts DEF TimedEvents, Beats
      <4>4. \A i \in 1 .. upTo : lines[i].type \in Beats => now - lines[i].at > HeartbeatTimeout
        <5> SUFFICES ASSUME NEW i \in 1 .. upTo, lines[i].type \in Beats
                     PROVE  now - lines[i].at > HeartbeatTimeout
          OBVIOUS
        <5>1. lines[i].at \in Int /\ lines[i].at <= monitor.beat
          BY <4>2, <4>3
        <5> QED BY <2>6, <4>1, <4>2, <5>1, Assumed
      <4>5. ASSUME cfg.backend = "codex-cli", HeartbeatEvery + PollDelay <= HeartbeatTimeout
            PROVE  FALSE
        <5>1. /\ lines[upTo].at = beatAt /\ SignsOfLife = upTo /\ now <= due /\ due \in Nat
              /\ due - beatAt <= HeartbeatEvery - 1 + PollDelay /\ beatAt \in Nat
          BY <2>3, <2>5, <3>3, <4>1, <4>5 DEF CodexInv, ClockInv, Polling, SignsOfLife
        <5>2. upTo \in 1 .. upTo /\ lines[upTo].type \in Beats
          BY <2>6, <2>7, <3>3, <4>1, <4>5
        <5>3. now - beatAt > HeartbeatTimeout
          BY <4>4, <5>1, <5>2
        <5> QED BY <2>6, <4>5, <5>1, <5>3, Assumed
      <4> QED BY <2>3, <2>4, <3>6, <4>4, <4>5 DEF RefusedForCause
    <3>7. CASE result' = "timeout"
      BY <3>7 DEF RefusedForCause
    <3> QED BY <3>1, <3>4, <3>5, <3>6, <3>7
  <2> QED BY <2>2, <2>8, <2>9
<1> QED BY <1>1, <1>2, <1>3

-------------------------------------------------------------------------------
\* The theorems.

LEMMA IInvStep == IInv /\ [Next]_vars => IInv'
BY PhaseStep, FinalStep, ClockStep, FileStep, CompleteStep, RowStep DEF IInv

\* Every invocation's fields stay what the module says they are.
THEOREM InvocationTypes == Spec => []TypeOK
<1>1. IInv => TypeOK
  <2> SUFFICES ASSUME IInv PROVE TypeOK
    OBVIOUS
  <2>1. /\ cfg \in Configurations /\ now \in 0..MaxTime /\ shift \in {0} \cup ClockSteps
        /\ process \in {"none", "running", "exited", "killed"}
        /\ due \in Nat /\ beatAt \in 0..now /\ final \in BOOLEAN /\ result \in Results
    BY DEF IInv, PhaseInv, FinalInv, ClockInv
  <2>2. lines \in Seq(Events)
    BY DEF IInv, FileInv, TimedEvents
  <2>3. tail = NoTail \/ tail \in [type : EventTypes, at : Int \cup {NoTime}, text : {"part", "whole"}]
    BY DEF IInv, FileInv, Tails
  <2>4. monitor \in [taken : 0..upTo, checkin : BOOLEAN, beat : Int \cup {NoTime},
                     usage : BOOLEAN] /\ upTo \in Nat
    BY DEF IInv, FileInv
  <2>5. pc \in {"idle", "launching", "waiting", "reading", "consuming", "checking",
                "finishing", "closing", "done"}
    BY DEF IInv, PhaseInv, Polling
  <2> QED BY <2>1, <2>2, <2>3, <2>4, <2>5 DEF IInv, RowInv, TypeOK
<1> QED BY <1>1, IInvInit, IInvStep, PTL DEF Spec

\* A result is accepted only with a file that is well formed as a whole, wherever
\* in a line each poll ended (runner.py's monitor).
THEOREM AcceptedFilesAreWellFormed == Spec => []AcceptedIsWellFormed
<1>1. IInv => AcceptedIsWellFormed
  <2> SUFFICES ASSUME IInv, result = "accepted"
               PROVE  /\ WellFormed(WholeFile)
                      /\ cfg.checkin => Has(WholeFile, "checkin")
                      /\ cfg.usage => Has(WholeFile, "usage")
    BY DEF AcceptedIsWellFormed
  <2>1. WholeFile \in Seq(TimedEvents)
    BY WholeFileIsWhole, WholeFacts DEF IInv, FileInv
  <2>2. Summarises(monitor, WholeFile) /\ monitor.taken = Len(WholeFile)
    BY DEF IInv, FileInv, CompleteInv
  <2>3. (cfg.checkin => monitor.checkin) /\ (cfg.usage => monitor.usage)
    BY DEF IInv, CompleteInv
  <2> QED BY <2>1, <2>2, <2>3, SummaryOfWhole
<1> QED BY <1>1, IInvInit, IInvStep, PTL DEF Spec

\* The row of an invocation never says more than happened, whichever of its
\* writes are lost (_RunTelemetry of orchestrator.py).
THEOREM RowsTellTruth == Spec => []RowTellsTruth
<1>1. IInv => RowTellsTruth
  <2> SUFFICES ASSUME IInv PROVE RowTellsTruth
    OBVIOUS
  <2>1. Summarises(monitor, WholeFile) /\ monitor.taken <= Len(WholeFile)
    <3>1. Len(lines) \in Nat /\ Len(WholeFile) \in Nat /\ Len(lines) <= Len(WholeFile)
      BY WholeFileIsWhole, WholeFacts DEF IInv, FileInv
    <3>2. CASE final = TRUE
      BY <3>1, <3>2 DEF IInv, FileInv
    <3>3. CASE final = FALSE
      BY <3>1, <3>3 DEF IInv, FileInv
    <3> QED BY <3>2, <3>3 DEF IInv, FileInv, FinalInv
  <2>2. \A i \in 1 .. monitor.taken : i \in 1 .. Len(WholeFile)
    BY <2>1, WholeFileIsWhole, WholeFacts DEF IInv, FileInv
  <2>3. monitor.checkin => Has(WholeFile, "checkin")
    BY <2>1, <2>2 DEF Summarises, Has
  <2>4. monitor.usage => Has(WholeFile, "usage")
    BY <2>1, <2>2 DEF Summarises, Has
  <2>5. row.usage = "reported" => process = "exited"
    BY DEF IInv, RowInv, FinalInv
  <2>6. row.state \in {"succeeded", "failed"} => process # "running" /\ row.usage # "pending"
    BY DEF IInv, RowInv, PhaseInv, Polling
  <2>7. row.state = "failed" => result \notin {"none", "accepted"}
    BY DEF IInv, RowInv, PhaseInv
  <2> QED BY <2>3, <2>4, <2>5, <2>6, <2>7 DEF IInv, RowInv, RowTellsTruth
<1> QED BY <1>1, IInvInit, IInvStep, PTL DEF Spec

\* No process outlives its invocation, or its timeout by more than a poll
\* (execute of runner.py).
THEOREM ProcessesAreContained == Spec => []Contained
<1>1. IInv => Contained
  <2> SUFFICES ASSUME IInv PROVE Contained
    OBVIOUS
  <2>1. pc \in {"finishing", "closing", "done"} => process # "running"
    BY DEF IInv, PhaseInv, Polling
  <2>2. ASSUME process = "running" PROVE now <= Timeout + PollDelay
    <3>1. pc \in Polling /\ final = FALSE
      BY <2>2 DEF IInv, PhaseInv, FinalInv
    <3>2. now <= due /\ due <= Timeout + PollDelay
      BY <3>1, Assumed DEF IInv, ClockInv
    <3> QED BY <3>2, Assumed DEF IInv, ClockInv
  <2> QED BY <2>1, <2>2 DEF Contained
<1> QED BY <1>1, IInvInit, IInvStep, PTL DEF Spec

\* While the wall clock is not stepped the monitor refuses an invocation only for
\* what its adapter did, and never what the controller writes for codex-cli,
\* whose events are fewer than the monitor allows.
THEOREM RefusalsHaveCause == Spec => []RefusedForCause
<1>1. Init => CauseInv
  <2> SUFFICES ASSUME Init PROVE CauseInv
    OBVIOUS
  <2>1. TimesInv /\ RefusedForCause
    BY DEF Init, TimesInv, RefusedForCause, NoTail
  <2>2. BeatInv /\ CodexInv
    BY DEF Init, BeatInv, CodexInv, Polling
  <2> QED BY <2>1, <2>2 DEF CauseInv
<1>2. IInv /\ CauseInv /\ [Next]_vars => CauseInv'
  <2> SUFFICES ASSUME IInv, CauseInv, [Next]_vars PROVE CauseInv'
    OBVIOUS
  <2>1. ClockInv'
    BY IInvStep DEF IInv
  <2> QED
    BY <2>1, TimesStep, BeatStep, CodexStep, CauseStep DEF IInv, CauseInv
<1>3. CauseInv => RefusedForCause
  BY DEF CauseInv
<1> QED BY <1>1, <1>2, <1>3, IInvInit, IInvStep, PTL DEF Spec
===============================================================================
