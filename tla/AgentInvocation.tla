---------------------------- MODULE AgentInvocation ----------------------------
(***************************************************************************)
(* One invocation of the agent: AgentRunner.run_agent and execute of        *)
(* runner.py, the adapter's telemetry file and the monitor that validates    *)
(* it as it grows, and the row that _RunTelemetry of orchestrator.py keeps   *)
(* of the invocation in the telemetry store.                                *)
(*                                                                         *)
(* The controller polls the file while the process runs and once more after  *)
(* it ended.  An adapter (backends "container" and "host") appends events to *)
(* it at any time, a line in three writes; for "codex-cli" the controller    *)
(* itself appends them.  The file's times are the wall clock's, the timeouts *)
(* of the check-in and of the process are the monotonic clock's.             *)
(***************************************************************************)
EXTENDS Integers, Sequences, FiniteSets

CONSTANTS
  Configurations,    \* the values of the agent's settings to start with
  Timeout,           \* the effective timeout of the process
  CheckinTimeout,    \* agent.checkin_timeout_seconds
  HeartbeatTimeout,  \* agent.heartbeat_timeout_seconds
  HeartbeatEvery,    \* the 30 seconds between the heartbeats of codex-cli
  FutureLimit,       \* the 60 seconds that a reported time may be ahead
  MaxEvents,         \* _TELEMETRY_MAX_EVENTS
  PollDelay,         \* bound: how long one poll takes, with its callbacks
  ClockSteps,        \* bound: the sizes by which the wall clock is stepped, once
  MaxTime,           \* bound: when the clock stops
  StoreFails,        \* whether writes to the telemetry store may fail
  NoTime             \* no time yet

Configuration ==
  [backend : {"adapter", "codex-cli"}, checkin : BOOLEAN, usage : BOOLEAN]

\* MODEL_BACKENDS of the telemetry store.
ModelBackends == {"adapter"}

\* _validate: codex-cli requires check-in and usage reporting.
ASSUME ConfigurationsAreValid ==
  /\ Configurations \subseteq Configuration
  /\ \A c \in Configurations : c.backend = "codex-cli" => c.checkin /\ c.usage

ASSUME PeriodsArePositive ==
  /\ {CheckinTimeout, PollDelay, HeartbeatEvery, FutureLimit} \subseteq Nat \ {0}
  /\ HeartbeatTimeout \in Nat /\ HeartbeatTimeout >= CheckinTimeout
  /\ {Timeout, MaxEvents, MaxTime} \subseteq Nat
  /\ ClockSteps \subseteq Int /\ StoreFails \in BOOLEAN

\* The longest timeout is four hours: 480 heartbeats of 1,024 events.
ASSUME EventsCoverTimeout == Timeout < (MaxEvents - 1) * HeartbeatEvery

VARIABLES
  cfg,      \* the settings of this invocation
  now,      \* the monotonic clock
  shift,    \* the wall clock minus the monotonic clock
  process,  \* the agent's process
  lines,    \* the complete lines of the telemetry file
  tail,     \* the text behind its last newline
  pc,       \* where the controller is
  due,      \* when its wait or its poll is over
  beatAt,   \* codex_heartbeat_at
  final,    \* the poll is the one after the process ended
  upTo,     \* the lines that the poll has read
  monitor,  \* the monitor's fields
  result,   \* what run_agent returned or raised
  row       \* the row in model_invocations

clocks == <<now, shift>>
file   == <<lines, tail>>
poll   == <<due, beatAt, final, upTo, monitor>>
vars   == <<cfg, clocks, process, file, pc, poll, result, row>>

Wall == now + shift

\* What a line can be: an event of the protocol, or junk, which stands for all
\* that a poll refuses whatever came before it: no strict JSON, unknown fields,
\* a gap in the sequence, another model's name, token counts that do not add up,
\* and a file that was replaced, truncated, linked or has outgrown its limit.
Beats == {"checkin", "heartbeat"}
EventTypes == Beats \cup {"usage", "junk"}

\* An event that is written now.
Event(type) == [type |-> type, at |-> Wall]

NoTail == [type |-> "junk", at |-> NoTime, text |-> "none"]

\* The file as the last poll reads it: what is behind the last newline is a
\* line too, and half of an event is no JSON.
WholeFile ==
  IF tail.text = "none" THEN lines
  ELSE Append(lines, [type |-> IF tail.text = "whole" THEN tail.type ELSE "junk",
                      at   |-> IF tail.text = "whole" THEN tail.at ELSE NoTime])

\* Mutant: the last poll forgets what is left in the buffer.
ReportedLines == lines

Reported == IF final THEN WholeFile ELSE lines

Init ==
  /\ cfg \in Configurations
  /\ now = 0 /\ shift = 0
  /\ process = "none"
  /\ lines = <<>> /\ tail = NoTail
  /\ pc = "idle"
  /\ due = 0 /\ beatAt = 0 /\ final = FALSE /\ upTo = 0
  /\ monitor = [taken |-> 0, checkin |-> FALSE, beat |-> NoTime, usage |-> FALSE]
  /\ result = "none"
  /\ row = [state |-> "none", identity |-> "unknown", usage |-> "pending"]

-------------------------------------------------------------------------------
\* The telemetry store, through _RunTelemetry: best effort.

\* _safe: a write that fails is forgotten, and without the row there is none.
Record(values) ==
  row' \in {IF row.state = "none" THEN row ELSE values} \cup {r \in {row} : StoreFails}

StartInvocation ==
  row' \in IF cfg.backend \notin ModelBackends THEN {row}
           ELSE {[row EXCEPT !.state = "open"]} \cup {r \in {row} : StoreFails}

\* What model_event makes of an event that the monitor accepted.
ModelEvent(type) ==
  IF type = "checkin" THEN Record([row EXCEPT !.identity = "matched"])
  ELSE UNCHANGED row

-------------------------------------------------------------------------------
\* The monitor.

\* _consume: whether the event continues what was consumed before it.
Admissible(event) ==
  /\ monitor.taken < MaxEvents
  /\ event.type # "junk"
  /\ event.type = "checkin" <=> monitor.taken = 0
  /\ event.type = "usage" => ~monitor.usage
  /\ event.type = "heartbeat" => monitor.checkin /\ event.at >= monitor.beat
  /\ event.at - Wall <= FutureLimit

\* Mutant: only the check-in counts as a sign of life.
ConsumedCheckin(event) ==
  [taken   |-> monitor.taken + 1,
   checkin |-> monitor.checkin \/ event.type = "checkin",
   beat    |-> IF event.type = "checkin" THEN event.at ELSE monitor.beat,
   usage   |-> monitor.usage \/ event.type = "usage"]

Consumed(event) ==
  [taken   |-> monitor.taken + 1,
   checkin |-> monitor.checkin \/ event.type = "checkin",
   beat    |-> IF event.type \in Beats THEN event.at ELSE monitor.beat,
   usage   |-> monitor.usage \/ event.type = "usage"]

CheckinMissing ==
  cfg.checkin /\ ~monitor.checkin /\ (final \/ now > CheckinTimeout)

HeartbeatStale ==
  monitor.checkin /\ ~final /\ Wall - monitor.beat > HeartbeatTimeout

UsageMissing == final /\ cfg.usage /\ ~monitor.usage

-------------------------------------------------------------------------------
\* The controller.

\* run_agent ends with an exception: a process that still runs is killed, and
\* _run_agent records the failure.
Raise(why) ==
  /\ process' = IF process = "running" THEN "killed" ELSE process
  /\ result' = why
  /\ Record([row EXCEPT !.state = "failed", !.usage = "unavailable"])
  /\ pc' = "done"
  /\ UNCHANGED poll

Start ==
  /\ pc = "idle"
  /\ StartInvocation
  /\ pc' = "launching"
  /\ UNCHANGED <<cfg, clocks, process, file, poll, result>>

Launch ==
  /\ pc = "launching"
  /\ lines' = IF cfg.backend = "codex-cli" THEN <<Event("checkin")>> ELSE <<>>
  /\ \/ /\ process' = "running" /\ pc' = "waiting"
        /\ due' = now /\ beatAt' = now
        /\ UNCHANGED <<final, upTo, monitor, result, row>>
     \/ Raise("error")
  /\ UNCHANGED <<cfg, clocks, tail>>

HeartbeatDue == cfg.backend = "codex-cli" /\ now - beatAt >= HeartbeatEvery

\* telemetry_tick, up to the poll.
Beat ==
  /\ pc = "waiting" /\ process = "running" /\ now >= due
  /\ lines' = IF HeartbeatDue THEN Append(lines, Event("heartbeat")) ELSE lines
  /\ beatAt' = IF HeartbeatDue THEN now ELSE beatAt
  /\ due' = now + PollDelay
  /\ pc' = "reading"
  /\ UNCHANGED <<cfg, clocks, process, tail, final, upTo, monitor, result, row>>

BeatFails ==
  /\ pc = "waiting" /\ process = "running" /\ now >= due
  /\ HeartbeatDue
  /\ Raise("error")
  /\ UNCHANGED <<cfg, clocks, file>>

Read ==
  /\ pc = "reading"
  /\ upTo' = Len(Reported)
  /\ pc' = "consuming"
  /\ UNCHANGED <<cfg, clocks, process, file, due, beatAt, final, monitor, result, row>>

Consume ==
  /\ pc = "consuming" /\ monitor.taken < upTo
  /\ LET event == Reported[monitor.taken + 1] IN
       IF Admissible(event)
         THEN /\ monitor' = Consumed(event)
              /\ ModelEvent(event.type)
              /\ UNCHANGED <<process, pc, due, beatAt, final, upTo, result>>
         ELSE Raise("bad line")
  /\ UNCHANGED <<cfg, clocks, file>>

\* Mutants: the deadline is missed by a tick; there is none.
OverdueLate == now > Timeout

OverdueNever == now > MaxTime

\* execute: no time remains.
Overdue == now >= Timeout

\* The end of a poll, and in execute what follows one.
Judge ==
  /\ pc = "consuming" /\ monitor.taken = upTo
  /\ \/ CheckinMissing /\ Raise("no check-in")
     \/ ~CheckinMissing /\ HeartbeatStale /\ Raise("stale")
     \/ ~CheckinMissing /\ UsageMissing /\ Raise("no usage")
     \/ /\ ~(CheckinMissing \/ HeartbeatStale \/ UsageMissing)
        /\ ~final /\ Overdue
        /\ Raise("timeout")
     \/ /\ ~(CheckinMissing \/ HeartbeatStale \/ UsageMissing)
        /\ final \/ ~Overdue
        /\ pc' = IF final THEN "checking" ELSE "waiting"
        /\ due' = now + 1
        /\ UNCHANGED <<process, beatAt, final, upTo, monitor, result, row>>
  /\ UNCHANGED <<cfg, clocks, file>>

\* The process has ended.  A nonzero exit, a workspace it may not have touched,
\* a container that is still there or a usage that codex-cli did not print all
\* end the invocation without another poll.
Reap ==
  /\ pc = "waiting" /\ process = "exited"
  /\ \/ Raise("error") /\ UNCHANGED lines
     \/ /\ lines' = IF cfg.backend = "codex-cli" THEN Append(lines, Event("usage")) ELSE lines
        /\ final' = TRUE
        /\ pc' = "reading"
        /\ UNCHANGED <<process, due, beatAt, upTo, monitor, result, row>>
  /\ UNCHANGED <<cfg, clocks, tail>>

\* The result file is a JSON object of the stage's shape, or it is not.
Check ==
  /\ pc = "checking"
  /\ \/ Raise("bad result")
     \/ /\ result' = "accepted" /\ pc' = "finishing"
        /\ UNCHANGED <<process, poll, row>>
  /\ UNCHANGED <<cfg, clocks, file>>

\* Mutant: the usage is recorded whether or not there is one.
RecordAnyUsage ==
  /\ pc = "finishing"
  /\ Record([row EXCEPT !.usage = "reported"])
  /\ pc' = "closing"
  /\ UNCHANGED <<cfg, clocks, process, file, poll, result>>

\* finish_invocation for a result: its usage, and then that it succeeded.
RecordUsage ==
  /\ pc = "finishing"
  /\ IF monitor.usage THEN Record([row EXCEPT !.usage = "reported"])
     ELSE UNCHANGED row
  /\ pc' = "closing"
  /\ UNCHANGED <<cfg, clocks, process, file, poll, result>>

FinishInvocation ==
  /\ pc = "closing"
  /\ Record([row EXCEPT !.state = "succeeded",
                        !.usage = IF @ = "pending" THEN "unavailable" ELSE @])
  /\ pc' = "done"
  /\ UNCHANGED <<cfg, clocks, process, file, poll, result>>

\* A KeyboardInterrupt: execute kills the process and _run_agent records the
\* failure, unless it was raised while the row was made or closed.  One in a
\* poll does what one between two polls does.
Interrupt ==
  /\ \/ /\ pc \in {"launching", "waiting", "checking"}
        /\ Raise("interrupted")
     \/ /\ pc = "idle" /\ StartInvocation
        /\ result' = "interrupted" /\ pc' = "done"
        /\ UNCHANGED <<process, poll>>
     \/ /\ pc \in {"finishing", "closing"}
        /\ result' = "interrupted" /\ pc' = "done"
        /\ UNCHANGED <<process, poll, row>>
  /\ UNCHANGED <<cfg, clocks, file>>

-------------------------------------------------------------------------------
\* The process, the clocks.

\* What is written while the controller judges what it has read, it reads next.
Writes == process = "running" /\ pc \in {"waiting", "reading"}

\* What a complete file of good events looks like.
WellFormed(events) ==
  /\ Len(events) <= MaxEvents
  /\ \A i \in 1..Len(events) : /\ events[i].type # "junk"
                               /\ events[i].type = "checkin" <=> i = 1
  /\ \A i, j \in 1..Len(events) :
       i < j => /\ ~(events[i].type = "usage" /\ events[j].type = "usage")
                /\ {events[i].type, events[j].type} \subseteq Beats
                     => events[i].at <= events[j].at

\* An adapter appends an event in pieces; it writes what it likes, and what
\* follows a first bad event is left out, as nothing reads it.
BeginLine ==
  /\ Writes /\ cfg.backend = "adapter"
  /\ tail.text = "none" /\ WellFormed(lines)
  /\ tail' = [type |-> "junk", at |-> Wall, text |-> "part"]
  /\ UNCHANGED <<cfg, clocks, process, lines, pc, poll, result, row>>

EndText(type) ==
  /\ Writes /\ tail.text = "part"
  /\ tail' = [type |-> type, text |-> "whole",
              at   |-> IF type = "junk" THEN NoTime ELSE tail.at]
  /\ UNCHANGED <<cfg, clocks, process, lines, pc, poll, result, row>>

Newline ==
  /\ Writes /\ tail.text = "whole"
  /\ lines' = Append(lines, [type |-> tail.type, at |-> tail.at])
  /\ tail' = NoTail
  /\ UNCHANGED <<cfg, clocks, process, pc, poll, result, row>>

\* The exit code is looked at when the process is reaped.
Exit ==
  /\ process = "running"
  /\ process' = "exited"
  /\ UNCHANGED <<cfg, clocks, file, pc, poll, result, row>>

\* Time passes while the controller waits or polls a process, never beyond the
\* end of its wait, nor beyond what a poll takes.
Tick ==
  /\ pc \in {"waiting", "reading", "consuming"} /\ ~final
  /\ now < due /\ now < MaxTime
  /\ now' = now + 1
  /\ UNCHANGED <<cfg, shift, process, file, pc, poll, result, row>>

StepClock ==
  /\ process = "running" /\ shift = 0
  /\ shift' \in ClockSteps
  /\ UNCHANGED <<cfg, now, process, file, pc, poll, result, row>>

Controller ==
  \/ Start \/ Launch \/ Beat \/ BeatFails \/ Read \/ Consume \/ Judge
  \/ Reap \/ Check \/ RecordUsage \/ FinishInvocation

Next ==
  \/ Controller
  \/ Interrupt
  \/ BeginLine
  \/ \E type \in EventTypes : EndText(type)
  \/ Newline \/ Exit
  \/ Tick
  \/ StepClock

\* The controller goes on, and the time it waits for passes; neither the
\* process nor anything else has to act.
Spec == Init /\ [][Next]_vars /\ WF_vars(Controller) /\ WF_vars(Tick)

-------------------------------------------------------------------------------
\* Properties.

Events == [type : EventTypes, at : Int \cup {NoTime}]

Results == {"none", "accepted", "error", "interrupted", "timeout", 
            "bad line", "no check-in", "stale", "no usage", "bad result"}

TypeOK ==
  /\ cfg \in Configurations
  /\ now \in 0..MaxTime /\ shift \in {0} \cup ClockSteps
  /\ process \in {"none", "running", "exited", "killed"}
  /\ lines \in Seq(Events)
  /\ tail = NoTail \/ tail \in [type : EventTypes, at : Int \cup {NoTime}, text : {"part", "whole"}]
  /\ pc \in {"idle", "launching", "waiting", "reading", "consuming", "checking",
             "finishing", "closing", "done"}
  /\ due \in Nat /\ beatAt \in 0..now /\ final \in BOOLEAN /\ upTo \in Nat
  /\ monitor \in [taken : 0..upTo, checkin : BOOLEAN, beat : Int \cup {NoTime},
                  usage : BOOLEAN]
  /\ result \in Results
  /\ row \in [state : {"none", "open", "succeeded", "failed"},
              identity : {"unknown", "matched"},
              usage : {"pending", "reported", "unavailable"}]

Has(events, type) == \E i \in 1..Len(events) : events[i].type = type

\* A result is accepted only with a telemetry file that is well formed as a
\* whole and holds what the settings require, although the monitor read it in
\* pieces that end anywhere in a line, while it grew.
AcceptedIsWellFormed ==
  result = "accepted" =>
    /\ WellFormed(WholeFile)
    /\ cfg.checkin => Has(WholeFile, "checkin")
    /\ cfg.usage => Has(WholeFile, "usage")

\* While the wall clock is not stepped, the monitor refuses an invocation only
\* for what its adapter did: a file that is bad, or no check-in or heartbeat in
\* time among the lines that the last poll read.  The file that the controller
\* writes for codex-cli is never refused if a heartbeat's period and a poll fit
\* into the heartbeat timeout.
RefusedForCause ==
  shift = 0 =>
    /\ result = "bad line" => ~WellFormed(Reported)
    /\ result = "no usage" => ~Has(WholeFile, "usage")
    /\ result = "no check-in" =>
         IF final THEN ~Has(WholeFile, "checkin")
         ELSE upTo = 0
    /\ result = "stale" =>
         \A i \in 1..upTo : lines[i].type \in Beats
                            => now - lines[i].at > HeartbeatTimeout
    /\ cfg.backend = "codex-cli" /\ HeartbeatEvery + PollDelay <= HeartbeatTimeout =>
         result \notin {"bad line", "no usage", "no check-in", "stale"}

\* The row never says more than happened, although every write to it may be
\* lost: success is an accepted result, failure is none, an identity was
\* checked, usage was reported, and a row that is closed is of a process that
\* has ended.
RowTellsTruth ==
  /\ row.state = "succeeded" => result = "accepted"
  /\ row.state = "failed" => result \notin {"none", "accepted"}
  /\ row.identity = "matched" => Has(lines, "checkin") \/ Has(WholeFile, "checkin")
  /\ row.usage = "reported" => Has(WholeFile, "usage") /\ process = "exited"
  /\ row.state \in {"succeeded", "failed"} => process # "running" /\ row.usage # "pending"

\* run_agent leaves no process behind, whatever it raised, and none runs longer
\* than its timeout and one poll while its controller lives.
Contained ==
  /\ pc \in {"finishing", "closing", "done"} => process # "running"
  /\ process = "running" => now <= Timeout + PollDelay

\* Every invocation ends, also of an agent that hangs and reports nothing.
InvocationEnds == <>(pc = "done")

\* docs/TELEMETRY.md: the store keeps the lifecycle of model invocations.  Where
\* it could be written to, an invocation that ended is in it.
InvocationRecorded ==
  ~StoreFails /\ pc = "done" /\ result # "interrupted" => row.state \in {"succeeded", "failed"}

===============================================================================
