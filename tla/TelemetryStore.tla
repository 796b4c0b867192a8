----------------------------- MODULE TelemetryStore -----------------------------
(***************************************************************************)
(* The telemetry store: TelemetryWriter and TelemetryReader of             *)
(* telemetry.py.  Every call of a writer is one BEGIN IMMEDIATE            *)
(* transaction, so it is one action here; a call that is refused is rolled *)
(* back, and one that repeats what is stored changes nothing: neither is a *)
(* step.  Controllers call as _RunTelemetry does, with any call lost,      *)
(* repeated or late.  A page of the dashboard is read in several           *)
(* statements, each a transaction of its own, so writes come in between.   *)
(*                                                                         *)
(* A budget projection is named after its run and its state, and its       *)
(* reservation after its run (orchestrator.py:361-372).  Amounts, and      *)
(* times other than those of heartbeats, are left out.                     *)
(***************************************************************************)
EXTENDS Naturals, Sequences, FiniteSets

CONSTANTS
  Runs,
  Attempts,      \* the invocations of a run, by stage and attempt
  RequestKeys,   \* the usage reports of an invocation
  Stages,        \* the stages that a run may be moved to
  TerminalRunStages,
  Cleanups,      \* what may be found of the cleanup
  Sources,       \* of heartbeats, each with a column of its own
  Targets,       \* the issues that a run may be given
  Windows,       \* budget window keys
  Usages,        \* accepted usage reports: [tokens, exact, final]
  None,
  EmitAfter,     \* heartbeats this far apart are logged: 60 seconds
  EventLimit,    \* the events that get_run shows: 200
  MaxTime,       \* bound: the times of heartbeats
  MaxEvents      \* bound: events in the store

\* "event" is any that a controller records of its own accord: the sandbox is
\* ready, checks, reviews, the approval and the publication.
EventTypes ==
  {"run_started", "event", "state", "candidate_selected", "cleanup", "run_finished",
   "budget_observed", "budget_reserved", "model_started", "model_checkin", "model_heartbeat",
   "model_usage", "model_finished"}

\* What _usage_mapping lets through.
Report == [tokens : Nat, exact : BOOLEAN, final : BOOLEAN]

ASSUME TelemetryAssumption ==
  /\ Usages \subseteq Report
  /\ EmitAfter \in Nat \ {0} /\ EventLimit \in Nat /\ MaxTime \in Nat /\ MaxEvents \in Nat
  /\ TerminalRunStages \cap (Stages \cup {"scheduled"}) = {}
  /\ None \notin Cleanups /\ None \notin Targets /\ None \notin Windows /\ None \notin Usages

Kinds == {"production", "training"}
ReservationStates == {"snapshot", "reserved", "released", "committed"}
TerminalModelStates == {"succeeded", "failed"}

Invocations == Runs \X Attempts

\* The columns of the tables runs and model_invocations.
RunRow ==
  [kind : Kinds, stage : {"scheduled"} \cup Stages \cup TerminalRunStages, terminal : BOOLEAN,
   target : Targets \cup {None}, window : Windows \cup {None},
   cleanup : {"not_started"} \cup Cleanups, last : Nat \ {0}]

InvocationRow ==
  [state : {"starting", "running"} \cup TerminalModelStates,
   identity : {"unknown", "matched", "mismatch"},
   usage_status : {"pending", "exact", "estimated", "partial", "unavailable"},
   heard : [Sources -> 0..MaxTime]]

ASSUME NoneIsNotARow == None \notin RunRow /\ None \notin InvocationRow

VARIABLES
  runs,         \* runs[r]: r's row in the table runs, or None
  events,       \* events[r]: the types of r's events, by their sequence
  projections,  \* projections[r]: r's budget projections, in order
  invocations,  \* invocations[i]: i's row in model_invocations, or None
  usage,        \* usage[i][k]: i's row in model_usage, or None
  page          \* what a reader has gathered so far

store == <<runs, events, projections, invocations, usage>>
vars == <<store, page>>

-------------------------------------------------------------------------------
\* The rows.

Stored(r) == runs[r] # None
Known(i) == invocations[i] # None

Open(r) == Stored(r) /\ ~runs[r].terminal
Running(i) == Known(i) /\ invocations[i].state \notin TerminalModelStates

Reports(i) == {k \in RequestKeys : usage[i][k] # None}

\* _refresh_usage_status
UsageStatus(reports) ==
  LET exactFinal == \E u \in reports : u.exact /\ u.final
      estimatedFinal == \E u \in reports : ~u.exact /\ u.final
      unfinished == \E u \in reports : ~u.final
  IN  IF reports = {} THEN "pending"
      ELSE IF exactFinal /\ ~estimatedFinal /\ ~unfinished THEN "exact"
      ELSE IF estimatedFinal /\ ~exactFinal /\ ~unfinished THEN "estimated"
      ELSE "partial"

Total == Cardinality(UNION {{r} \X DOMAIN events[r] : r \in Runs})

\* _append_event: the next sequence number is the row's last one, plus one.
AppendEvent(r, type) ==
  /\ Total < MaxEvents
  /\ events' = [events EXCEPT ![r] = Append(@, type)]

Idle ==
  [at |-> "idle", window |-> None, before |-> {}, known |-> {}, finished |-> {}, active |-> {},
   run |-> None, row |-> None, events |-> <<>>, models |-> {}]

Init ==
  /\ runs = [r \in Runs |-> None]
  /\ events = [r \in Runs |-> <<>>]
  /\ projections = [r \in Runs |-> <<>>]
  /\ invocations = [i \in Invocations |-> None]
  /\ usage = [i \in Invocations |-> [k \in RequestKeys |-> None]]
  /\ page = Idle

-------------------------------------------------------------------------------
\* Writes of a run's controller.

StartRun(r, kind) ==
  /\ ~Stored(r)
  /\ runs' = [runs EXCEPT ![r] =
       [kind |-> kind, stage |-> "scheduled", terminal |-> FALSE, target |-> None,
        window |-> None, cleanup |-> "not_started", last |-> 1]]
  /\ AppendEvent(r, "run_started")
  /\ UNCHANGED <<projections, invocations, usage, page>>

\* The run's row takes on what changed and the number of the new event.
UpdateRun(r, type, row) ==
  /\ runs' = [runs EXCEPT ![r] = [row EXCEPT !.last = runs[r].last + 1]]
  /\ AppendEvent(r, type)
  /\ UNCHANGED <<projections, invocations, usage, page>>

RecordEvent(r) == Open(r) /\ UpdateRun(r, "event", runs[r])

TransitionRun(r, stage) ==
  /\ Open(r)
  /\ UpdateRun(r, "state", [runs[r] EXCEPT !.stage = stage])

SetRunTarget(r, target) ==
  /\ Open(r) /\ runs[r].target \in {None, target}
  /\ UpdateRun(r, "candidate_selected", [runs[r] EXCEPT !.target = target])

SetCleanupStatus(r, cleanup) ==
  /\ Open(r)
  /\ UpdateRun(r, "cleanup", [runs[r] EXCEPT !.cleanup = cleanup])

\* The outcome, with the state of the cleanup unless it is not given.
Outcome(r, stage, given) ==
  [runs[r] EXCEPT !.stage = stage, !.terminal = TRUE,
                  !.cleanup = IF given = None THEN @ ELSE given]

\* Bug: the outcome of a run that has ended is written again.
FinishRunAgain(r, stage, given) ==
  Stored(r) /\ UpdateRun(r, "run_finished", Outcome(r, stage, given))

\* A run that has ended keeps the outcome it has.
FinishRun(r, stage, given) ==
  Open(r) /\ UpdateRun(r, "run_finished", Outcome(r, stage, given))

\* The projections that name the run's reservation; snapshots do not.
Held(r) == {n \in DOMAIN projections[r] : projections[r][n].state # "snapshot"}

MayFollow(r, state) ==
  \/ state = "snapshot"
  \/ state = "reserved" /\ Held(r) = {}
  \/ /\ state \in {"released", "committed"}
     /\ \E n \in Held(r) :
          projections[r][n].state = "reserved" /\ \A m \in Held(r) : m <= n

Project(r, state, window, row) ==
  /\ Stored(r)
  /\ \A n \in DOMAIN projections[r] : projections[r][n].state # state
  /\ MayFollow(r, state)
  /\ projections' = [projections EXCEPT ![r] = Append(@, [state |-> state, window |-> window])]
  /\ runs' = [runs EXCEPT ![r] = [row EXCEPT !.last = @ + 1]]
  /\ AppendEvent(r, IF state = "snapshot" THEN "budget_observed" ELSE "budget_reserved")
  /\ UNCHANGED <<invocations, usage, page>>

\* Its first projection binds a run to a window; a run that has ended may
\* still be given projections.
RecordBudgetProjection(r, state, window) ==
  /\ Stored(r) /\ runs[r].window \in {None, window}
  /\ Project(r, state, window, [runs[r] EXCEPT !.window = window])

-------------------------------------------------------------------------------
\* Writes about an invocation.  A run that has ended may still have them, but
\* starts no more.

\* What every write about an invocation does to its run.
InvocationEvent(i, type) ==
  /\ runs' = [runs EXCEPT ![i[1]].last = @ + 1]
  /\ AppendEvent(i[1], type)

\* Bug: a run that has ended may still start a call.
StartModelInvocationLate(i) ==
  /\ Stored(i[1]) /\ ~Known(i)
  /\ invocations' = [invocations EXCEPT ![i] =
       [state |-> "starting", identity |-> "unknown", usage_status |-> "pending",
        heard |-> [s \in Sources |-> 0]]]
  /\ InvocationEvent(i, "model_started")
  /\ UNCHANGED <<projections, usage, page>>

StartModelInvocation(i) ==
  /\ Open(i[1]) /\ ~Known(i)
  /\ invocations' = [invocations EXCEPT ![i] =
       [state |-> "starting", identity |-> "unknown", usage_status |-> "pending",
        heard |-> [s \in Sources |-> 0]]]
  /\ InvocationEvent(i, "model_started")
  /\ UNCHANGED <<projections, usage, page>>

RecordModelCheckin(i, identity) ==
  /\ Running(i) /\ invocations[i].identity = "unknown"
  /\ invocations' = [invocations EXCEPT ![i].identity = identity, ![i].state = "running"]
  /\ InvocationEvent(i, "model_checkin")
  /\ UNCHANGED <<projections, usage, page>>

\* Bug: a late heartbeat sets an invocation that has ended running again.
HeartbeatRevives(i, source, time) ==
  /\ Known(i) /\ time > invocations[i].heard[source]
  /\ invocations' = [invocations EXCEPT ![i].heard[source] = time, ![i].state = "running"]
  /\ InvocationEvent(i, "model_heartbeat")
  /\ UNCHANGED <<projections, usage, page>>

\* A heartbeat is logged when it is the first of its source, or long enough
\* after the one before; one that is older than the last is refused.
HeartbeatModel(i, source, time) ==
  LET previous == invocations[i].heard[source] IN
  /\ Running(i) /\ time > previous
  /\ invocations' = [invocations EXCEPT ![i].heard[source] = time, ![i].state = "running"]
  /\ IF previous = 0 \/ time - previous >= EmitAfter
     THEN InvocationEvent(i, "model_heartbeat") ELSE UNCHANGED <<runs, events>>
  /\ UNCHANGED <<projections, usage, page>>

RecordModelUsage(i, key, report) ==
  /\ Running(i) /\ usage[i][key] = None
  /\ usage' = [usage EXCEPT ![i][key] = report]
  /\ invocations' = [invocations EXCEPT ![i].usage_status =
       UsageStatus({usage'[i][k] : k \in Reports(i) \cup {key}})]
  /\ InvocationEvent(i, "model_usage")
  /\ UNCHANGED <<projections, page>>

\* Bug: an invocation that ended without a report keeps waiting for one.
FinishPending(i, state) ==
  /\ Running(i)
  /\ state = "succeeded" => invocations[i].identity # "mismatch"
  /\ invocations' = [invocations EXCEPT ![i].state = state]
  /\ InvocationEvent(i, "model_finished")
  /\ UNCHANGED <<projections, usage, page>>

FinishModelInvocation(i, state) ==
  /\ Running(i)
  /\ state = "succeeded" => invocations[i].identity # "mismatch"
  /\ invocations' = [invocations EXCEPT ![i].state = state,
       ![i].usage_status = IF @ = "pending" THEN "unavailable" ELSE @]
  /\ InvocationEvent(i, "model_finished")
  /\ UNCHANGED <<projections, usage, page>>

-------------------------------------------------------------------------------
\* The dashboard's readers, for production runs.

Production == {r \in Runs : Stored(r) /\ runs[r].kind = "production"}

\* The runs that count towards the budget of a window; all, without a window.
Scope(window) == {r \in Production : window # None => runs[r].window = window}

RowsOf(rs) == {i \in Invocations : i[1] \in rs /\ Known(i)}

\* The exact final reports, which the summary adds up.
KnownUsed(window) ==
  {x \in RowsOf(Scope(window)) \X RequestKeys \X Usages :
     x[3] = usage[x[1]][x[2]] /\ x[3].exact /\ x[3].final}

FinishedIn(window) == {i \in RowsOf(Scope(window)) : ~Running(i)}
ActiveNow == {i \in RowsOf(Production) : Running(i)}

\* One statement of a page: what it finds is kept until the page is complete.
Gather(at, gathered) == page.at = at /\ page' = gathered /\ UNCHANGED store

\* summary begins with the newest projection, whose window the rest is about.
\* Which one is newest the rows here do not say.  "before" is what there is to
\* add up at this moment.  The counts of runs, mismatches and caps are
\* statements of their own that nothing else on the page depends on.
ReadBudget ==
  LET seen == UNION {{projections[r][n].window : n \in DOMAIN projections[r]} : r \in Production} IN
  \E w \in (IF seen = {} THEN {None} ELSE seen) :
    Gather("idle", [page EXCEPT !.at = "usage", !.window = w, !.before = KnownUsed(w)])

ReadUsage ==
  Gather("usage", [page EXCEPT !.at = "finished", !.known = KnownUsed(page.window)])

ReadFinished ==
  Gather("finished", [page EXCEPT !.at = "active", !.finished = FinishedIn(page.window)])

ReadActive == Gather("active", [page EXCEPT !.at = "summary", !.active = ActiveNow])

\* get_run begins with the run's row.
ReadRun(r) ==
  Stored(r) /\ Gather("idle", [page EXCEPT !.at = "events", !.run = r, !.row = runs[r]])

ReadEvents ==
  LET log == events[page.run]
      shown == IF Len(log) < EventLimit THEN Len(log) ELSE EventLimit
  IN  Gather("events", [page EXCEPT !.at = "models", !.events = SubSeq(log, 1, shown)])

\* Bug: only the models that are running are read.
ReadModelsRunning ==
  Gather("models", [page EXCEPT !.at = "run", !.models = {i \in RowsOf({page.run}) : Running(i)}])

ReadModels ==
  Gather("models", [page EXCEPT !.at = "run", !.models = RowsOf({page.run})])

Answered == page.at \in {"summary", "run"} /\ page' = Idle /\ UNCHANGED store

-------------------------------------------------------------------------------
\* The specification.

RunWrite(r) ==
  \/ \E kind \in Kinds : StartRun(r, kind)
  \/ RecordEvent(r)
  \/ \E stage \in Stages : TransitionRun(r, stage)
  \/ \E target \in Targets : SetRunTarget(r, target)
  \/ \E cleanup \in Cleanups : SetCleanupStatus(r, cleanup)
  \/ \E stage \in TerminalRunStages, given \in Cleanups \cup {None} :
       FinishRun(r, stage, given)
  \/ \E state \in ReservationStates, window \in Windows :
       RecordBudgetProjection(r, state, window)

InvocationWrite(i) ==
  \/ StartModelInvocation(i)
  \/ \E identity \in {"matched", "mismatch"} : RecordModelCheckin(i, identity)
  \/ \E source \in Sources, time \in 1..MaxTime : HeartbeatModel(i, source, time)
  \/ \E key \in RequestKeys, report \in Usages : RecordModelUsage(i, key, report)
  \/ \E state \in TerminalModelStates : FinishModelInvocation(i, state)

Summary == ReadBudget \/ ReadUsage \/ ReadFinished \/ ReadActive

GetRun == (\E r \in Runs : ReadRun(r)) \/ ReadEvents \/ ReadModels

Next ==
  \/ \E r \in Runs : RunWrite(r)
  \/ \E i \in Invocations : InvocationWrite(i)
  \/ Summary \/ GetRun \/ Answered

Spec == Init /\ [][Next]_vars

-------------------------------------------------------------------------------
\* Properties.

PageRecord ==
  [at : {"idle", "usage", "finished", "active", "summary", "events", "models", "run"},
   window : Windows \cup {None}, before : SUBSET (Invocations \X RequestKeys \X Usages),
   known : SUBSET (Invocations \X RequestKeys \X Usages), finished : SUBSET Invocations,
   active : SUBSET Invocations, run : Runs \cup {None}, row : RunRow \cup {None},
   events : Seq(EventTypes), models : SUBSET Invocations]

\* Every row has its columns, and a run's events are numbered without a gap.
TypeOK ==
  /\ runs \in [Runs -> RunRow \cup {None}]
  /\ events \in [Runs -> Seq(EventTypes)]
  /\ invocations \in [Invocations -> InvocationRow \cup {None}]
  /\ usage \in [Invocations -> [RequestKeys -> Usages \cup {None}]]
  /\ projections \in [Runs -> Seq([state : ReservationStates, window : Windows])]
  /\ \A r \in Runs : IF Stored(r) THEN runs[r].last = Len(events[r]) ELSE events[r] = <<>>
  /\ page \in PageRecord

\* The events of a type in a log.
Count(log, type) == Cardinality({n \in DOMAIN log : log[n] = type})

Logged(r, type) == Count(events[r], type)

\* The sources that an invocation of r was heard from, and the reports on it.
Heard(r) == {x \in RowsOf({r}) \X Sources : invocations[x[1]].heard[x[2]] > 0}
Reported(r) == {x \in RowsOf({r}) \X RequestKeys : usage[x[1]][x[2]] # None}

\* A run's row is what its events say it is.
RunAgrees(r) ==
  /\ Stored(r) => events[r][1] = "run_started" /\ Logged(r, "run_started") = 1
  /\ Logged(r, "run_finished") = IF Stored(r) /\ ~Open(r) THEN 1 ELSE 0
  /\ Stored(r) => (Open(r) <=> runs[r].stage \notin TerminalRunStages)
  /\ Logged(r, "candidate_selected") > 0 <=> Stored(r) /\ runs[r].target # None

\* The rows of a run's invocations are what its events say they are.
InvocationsAgree(r) ==
  LET own == RowsOf({r}) IN
  /\ Logged(r, "model_started") = Cardinality(own)
  /\ Logged(r, "model_checkin") = Cardinality({i \in own : invocations[i].identity # "unknown"})
  /\ Logged(r, "model_finished") = Cardinality({i \in own : ~Running(i)})
  /\ Logged(r, "model_heartbeat") >= Cardinality(Heard(r))
  /\ Logged(r, "model_usage") = Cardinality(Reported(r))

\* A run's projections are for one window, the one that its receipts count in,
\* and its reservation is made once and ends at most once.
BudgetAgrees(r) ==
  LET made == {n \in DOMAIN projections[r] : projections[r][n].state = "reserved"}
      over == {n \in DOMAIN projections[r] :
                 projections[r][n].state \in {"released", "committed"}}
  IN  /\ \A n \in DOMAIN projections[r] : projections[r][n].window = runs[r].window
      /\ Cardinality(made) <= 1 /\ Cardinality(over) <= 1
      /\ \A n \in over : \E m \in made : m < n
      /\ Logged(r, "budget_reserved") = Cardinality(made) + Cardinality(over)

\* Whatever calls are lost, repeated, or arrive after the run has ended, the
\* rows of a run, of its invocations and of its budget are those that its event
\* log tells of: every fact is logged once (docs/TELEMETRY.md:61).
RowsMatchEvents ==
  \A r \in Runs : RunAgrees(r) /\ InvocationsAgree(r) /\ BudgetAgrees(r)

\* What an invocation's row says of its usage is what was reported, in whatever
\* order reports, check-in and outcome came; without a report it is never
\* called used, nor waited for after the end; and an invocation that another
\* model answered has not succeeded.
UsageToldTruly ==
  \A i \in Invocations : Known(i) =>
    LET reports == {usage[i][k] : k \in Reports(i)}
        told == invocations[i].usage_status
    IN  /\ told = "pending" <=> reports = {} /\ Running(i)
        /\ told = "unavailable" <=> reports = {} /\ ~Running(i)
        /\ told = "exact" <=> reports # {} /\ \A u \in reports : u.exact /\ u.final
        /\ told = "estimated" <=> reports # {} /\ \A u \in reports : ~u.exact /\ u.final
        /\ invocations[i].state = "succeeded" => invocations[i].identity # "mismatch"

\* A summary, read while runs write: it adds up every receipt that counted when
\* it began, and none but those that still count as they did; and no invocation
\* is counted both as finished and as active.
SummaryHoldsTogether ==
  page.at = "summary" =>
    /\ page.before \subseteq page.known /\ page.known \subseteq KnownUsed(page.window)
    /\ page.finished \cap page.active = {}
    /\ page.finished \subseteq FinishedIn(page.window)

\* A run's page, read while the run writes: as long as its events fit, they
\* tell of everything that its row says, its end included, and every invocation
\* that they tell of is shown.
RunPageHoldsTogether ==
  page.at = "run" /\ page.row.last <= EventLimit =>
    /\ page.row.last <= Len(page.events)
    /\ page.row.terminal => \E n \in DOMAIN page.events : page.events[n] = "run_finished"
    /\ Count(page.events, "model_started") <= Cardinality(page.models)

\* What the tables say a run came to, where a call is, and what was received.
OutcomeOf(r) ==
  IF Stored(r) /\ ~Open(r) THEN {<<runs[r].stage, runs[r].cleanup, runs[r].target>>} ELSE {}

CallOf(i) == IF ~Known(i) THEN "none" ELSE IF Running(i) THEN "open" ELSE "over"

Receipts == {x \in Invocations \X RequestKeys \X Usages : usage[x[1]][x[2]] = x[3]}

History == INSTANCE RecordedHistory WITH
  Keys     <- RequestKeys,
  Amounts  <- Usages,
  Outcomes <- TerminalRunStages \X ({"not_started"} \cup Cleanups) \X (Targets \cup {None}),
  log      <- events,
  outcome  <- [r \in Runs |-> OutcomeOf(r)],
  call     <- [i \in Invocations |-> CallOf(i)],
  receipts <- Receipts

\* Rows and events change together, one run at a time: a run comes to one
\* outcome and starts no call afterwards, and a receipt stays as it was given,
\* whatever calls are late or repeated (docs/TELEMETRY.md:61).
ImplementsHistory == History!Spec

===============================================================================
