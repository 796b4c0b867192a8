---------------------------- MODULE RecordedHistory ----------------------------
(***************************************************************************)
(* What the telemetry store promises of the past: each write tells one     *)
(* thing about one run, and appends it to that run's log in the same       *)
(* moment.  A run comes to one outcome, and starts no call of a model      *)
(* afterwards; what is still told of it is what came of its calls and of   *)
(* its budget.  A call is heard of from its start to its end, and has one  *)
(* receipt for each of its requests, which stays as it was given.          *)
(***************************************************************************)
EXTENDS Sequences

CONSTANTS
  Runs,
  Attempts,   \* the calls of a run
  Keys,       \* the requests of a call
  Amounts,    \* what a receipt may say
  Outcomes    \* what a run may come to

Calls == Runs \X Attempts

VARIABLES
  log,       \* log[r]: the events of run r, in order
  outcome,   \* outcome[r]: what r came to, as a set that is empty until then
  call,      \* call[c]: "none", "open" or "over"
  receipts   \* the triples <<call, request, report>>

history == <<log, outcome, call, receipts>>

Init ==
  /\ log = [r \in Runs |-> <<>>]
  /\ outcome = [r \in Runs |-> {}]
  /\ call = [c \in Calls |-> "none"]
  /\ receipts = {}

Begun(r) == log[r] # <<>>
UnderWay(r) == Begun(r) /\ outcome[r] = {}

Write(r, type) == log' = [log EXCEPT ![r] = Append(@, type)]

Begin(r) ==
  /\ ~Begun(r) /\ Write(r, "run_started")
  /\ UNCHANGED <<outcome, call, receipts>>

Progress(r) ==
  /\ UnderWay(r)
  /\ \E type \in {"event", "state", "candidate_selected", "cleanup"} : Write(r, type)
  /\ UNCHANGED <<outcome, call, receipts>>

Budget(r) ==
  /\ Begun(r)
  /\ \E type \in {"budget_observed", "budget_reserved"} : Write(r, type)
  /\ UNCHANGED <<outcome, call, receipts>>

End(r) ==
  /\ UnderWay(r) /\ Write(r, "run_finished")
  /\ \E o \in Outcomes : outcome' = [outcome EXCEPT ![r] = {o}]
  /\ UNCHANGED <<call, receipts>>

Call(c) ==
  /\ UnderWay(c[1]) /\ call[c] = "none"
  /\ Write(c[1], "model_started") /\ call' = [call EXCEPT ![c] = "open"]
  /\ UNCHANGED <<outcome, receipts>>

Hear(c) ==
  /\ call[c] = "open"
  /\ \E type \in {"model_checkin", "model_heartbeat"} : Write(c[1], type)
  /\ UNCHANGED <<outcome, call, receipts>>

Receive(c, k, u) ==
  /\ call[c] = "open" /\ \A v \in Amounts : <<c, k, v>> \notin receipts
  /\ Write(c[1], "model_usage") /\ receipts' = receipts \cup {<<c, k, u>>}
  /\ UNCHANGED <<outcome, call>>

Return(c) ==
  /\ call[c] = "open"
  /\ Write(c[1], "model_finished") /\ call' = [call EXCEPT ![c] = "over"]
  /\ UNCHANGED <<outcome, receipts>>

Next ==
  \/ \E r \in Runs : Begin(r) \/ Progress(r) \/ Budget(r) \/ End(r)
  \/ \E c \in Calls : Call(c) \/ Hear(c) \/ Return(c)
  \/ \E c \in Calls, k \in Keys, u \in Amounts : Receive(c, k, u)

Spec == Init /\ [][Next]_history

===============================================================================
