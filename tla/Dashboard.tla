------------------------------- MODULE Dashboard -------------------------------
(***************************************************************************)
(* The dashboard: the server of dashboard.py, with a bounded number of     *)
(* workers and one lock around its reads of the telemetry store, and the   *)
(* pages of app.js that poll it.  A connection keeps its worker until it   *)
(* is closed.  A snapshot is read part by part while the store changes;    *)
(* its entity tag is the hash of what it says, so here a tag is the        *)
(* snapshot itself, and a snapshot says at which version of the store each *)
(* part was read.                                                          *)
(*                                                                         *)
(* Time is left out: a poll can only run into its limit of four seconds if *)
(* the store stalls while it is under way.  "live" stands for every label  *)
(* of a snapshot that was shown, a degraded store's included.              *)
(***************************************************************************)
EXTENDS Naturals, Sequences, FiniteSets

CONSTANTS
  Pages,
  Workers,      \* max_workers
  MaxConnections, \* bound: at a time
  Parts,        \* the reads that make a snapshot
  MaxVersion,   \* bound: changes of the store
  NoPage

ASSUME DashboardAssumption == Workers \in 1 .. 32 /\ Parts \in Nat \ {0} /\ MaxVersion \in Nat

Connections == 1 .. MaxConnections

\* Before there is one.
Nothing == <<>>

Unanswered == [status |-> "none", snapshot |-> Nothing]
OK(snapshot) == [status |-> "200", snapshot |-> snapshot]
NotModified == [status |-> "304", snapshot |-> Nothing]
Unavailable == [status |-> "503", snapshot |-> Nothing]
Dropped == [status |-> "dropped", snapshot |-> Nothing]  \* closed without an answer

Closed == [at |-> "closed", page |-> NoPage, tag |-> Nothing, got |-> Nothing, gone |-> FALSE]

VARIABLES
  version,     \* of the store
  trouble,     \* "stalled": its reads do not end; "failing": they raise, and no thread starts
  slots,       \* the semaphore's count
  conns,       \* conns[c]: where connection c is, and whose it is
  hidden,      \* hidden[p]: page p is in the background
  polls,       \* polls[p]: p's poll under way
  kept,        \* kept[p]: p's lastSnapshot and lastEtag
  shown        \* shown[p]: what p shows

server == <<slots, conns>>
browser == <<polls, kept, shown>>
dashboardVars == <<version, trouble, hidden, server, browser>>

NoPoll == [step |-> "none", via |-> NoPage, reply |-> Unanswered, since |-> 0, stalled |-> FALSE]

DashboardInit ==
  /\ version = 0 /\ trouble = "none"
  /\ slots = Workers /\ conns = [c \in Connections |-> Closed]
  /\ hidden = [p \in Pages |-> FALSE]
  /\ polls = [p \in Pages |-> NoPoll]
  /\ kept = [p \in Pages |-> [snapshot |-> Nothing, tag |-> Nothing]]
  /\ shown = [p \in Pages |-> [state |-> "loading", snapshot |-> Nothing]]

-------------------------------------------------------------------------------
\* The server.

\* What the client of c gets, if it is still there.
Reply(c, reply) ==
  polls' = IF conns[c].gone THEN polls ELSE [polls EXCEPT ![conns[c].page].reply = reply]

\* A worker is free and its thread starts.
Serve(c) ==
  /\ conns[c].at = "backlog" /\ slots > 0 /\ trouble # "failing"
  /\ slots' = slots - 1 /\ conns' = [conns EXCEPT ![c].at = "asked"]
  /\ UNCHANGED <<version, trouble, hidden, browser>>

\* No worker is free: _reject_overload().
Overload(c) ==
  /\ conns[c].at = "backlog" /\ slots = 0
  /\ Reply(c, Unavailable) /\ conns' = [conns EXCEPT ![c] = Closed]
  /\ UNCHANGED <<version, trouble, slots, hidden, kept, shown>>

\* Bug: the worker that did not start is not given back.
NoThreadLeaking(c) ==
  /\ conns[c].at = "backlog" /\ slots > 0 /\ trouble = "failing"
  /\ Reply(c, Dropped) /\ conns' = [conns EXCEPT ![c] = Closed] /\ slots' = slots - 1
  /\ UNCHANGED <<version, trouble, hidden, kept, shown>>

\* The thread does not start: the worker is given back, the connection shut.
NoThread(c) ==
  /\ conns[c].at = "backlog" /\ slots > 0 /\ trouble = "failing"
  /\ Reply(c, Dropped) /\ conns' = [conns EXCEPT ![c] = Closed]
  /\ UNCHANGED <<version, trouble, slots, hidden, kept, shown>>

\* snapshot() takes the adapter's lock.
TakeLock(c) ==
  /\ conns[c].at = "asked" /\ \A d \in Connections : conns[d].at # "reading"
  /\ conns' = [conns EXCEPT ![c].at = "reading"]
  /\ UNCHANGED <<version, trouble, slots, hidden, browser>>

\* One read of the store.
Read(c) ==
  /\ conns[c].at = "reading" /\ Len(conns[c].got) < Parts /\ trouble = "none"
  /\ conns' = [conns EXCEPT ![c].got = Append(@, version)]
  /\ UNCHANGED <<version, trouble, slots, hidden, browser>>

\* A read raises: the lock is released, the answer is 503.
ReadFails(c) ==
  /\ conns[c].at = "reading" /\ Len(conns[c].got) < Parts /\ trouble = "failing"
  /\ Reply(c, Unavailable)
  /\ conns' = [conns EXCEPT ![c].at = "idle", ![c].got = Nothing, ![c].tag = Nothing]
  /\ UNCHANGED <<version, trouble, slots, hidden, kept, shown>>

\* The snapshot, or 304 when it is what the tag says.
Answer(c) ==
  /\ conns[c].at = "reading" /\ Len(conns[c].got) = Parts
  /\ Reply(c, IF conns[c].got = conns[c].tag THEN NotModified ELSE OK(conns[c].got))
  /\ conns' = [conns EXCEPT ![c].at = "idle", ![c].got = Nothing, ![c].tag = Nothing]
  /\ UNCHANGED <<version, trouble, slots, hidden, kept, shown>>

\* The next request does not come in five seconds, or the client is gone.
HangUp(c) ==
  /\ conns[c].at = "idle"
  /\ slots' = slots + 1 /\ conns' = [conns EXCEPT ![c] = Closed]
  /\ UNCHANGED <<version, trouble, hidden, browser>>

-------------------------------------------------------------------------------
\* A page.

\* poll(), from its timer, the refresh button or on becoming visible; a hidden
\* page or one that polls already only sets its timer.  The browser sends the
\* request over an idle connection if it has one.
Poll(p) ==
  /\ polls[p].step = "none" /\ ~hidden[p]
  /\ LET idle == {c \in Connections : conns[c].at = "idle" /\ conns[c].page = p /\ ~conns[c].gone}
         closed == {c \in Connections : conns[c].at = "closed"}
         tag == kept[p].tag
     IN \E c \in IF idle = {} THEN {d \in closed : \A e \in closed : d <= e} ELSE idle :
          /\ conns' = [conns EXCEPT ![c] =
               [Closed EXCEPT !.at = IF idle = {} THEN "backlog" ELSE "asked", !.page = p, !.tag = tag]]
          /\ polls' = [polls EXCEPT ![p] =
               [NoPoll EXCEPT !.step = "sent", !.via = c, !.since = version,
                              !.stalled = trouble = "stalled"]]
  /\ UNCHANGED <<version, trouble, slots, hidden, kept, shown>>

Show(p, state, snapshot) ==
  /\ shown' = [shown EXCEPT ![p] = [state |-> state, snapshot |-> snapshot]]
  /\ polls' = [polls EXCEPT ![p] = NoPoll]

\* Bug: the tag is kept as soon as the headers are there.
HeadersTagKept(p) ==
  /\ polls[p].step = "sent" /\ polls[p].reply.status = "200"
  /\ polls' = [polls EXCEPT ![p].step = "body"]
  /\ kept' = [kept EXCEPT ![p].tag = polls[p].reply.snapshot]
  /\ UNCHANGED <<version, trouble, hidden, server, shown>>

\* fetch() resolves on the headers; the body is still to come.
Headers(p) ==
  /\ polls[p].step = "sent" /\ polls[p].reply.status = "200"
  /\ polls' = [polls EXCEPT ![p].step = "body"]
  /\ UNCHANGED <<version, trouble, hidden, server, kept, shown>>

\* The body is rendered, then kept with its tag.
Body(p) ==
  /\ polls[p].step = "body"
  /\ LET snapshot == polls[p].reply.snapshot IN
       /\ Show(p, "live", snapshot)
       /\ kept' = [kept EXCEPT ![p] = [snapshot |-> snapshot, tag |-> snapshot]]
  /\ UNCHANGED <<version, trouble, hidden, server>>

\* 304: the snapshot that was kept is rendered again.
Unchanged(p) ==
  /\ polls[p].step = "sent" /\ polls[p].reply.status = "304"
  /\ IF kept[p].snapshot = Nothing THEN Show(p, "unavailable", Nothing)
     ELSE Show(p, "live", kept[p].snapshot)
  /\ UNCHANGED <<version, trouble, hidden, server, kept>>

\* Another status, or no answer.
Failed(p) ==
  /\ polls[p].step = "sent" /\ polls[p].reply.status \in {"503", "dropped"}
  /\ Show(p, "unavailable", Nothing)
  /\ UNCHANGED <<version, trouble, hidden, server, kept>>

\* The limit passes: the request is aborted, which closes its connection.
Abort(p) ==
  /\ polls[p].step # "none" /\ polls[p].stalled
  /\ Show(p, "unavailable", Nothing)
  /\ conns' = [c \in Connections |->
                 IF c = polls[p].via /\ conns[c].at # "closed" /\ conns[c].page = p
                 THEN [conns[c] EXCEPT !.gone = TRUE, !.tag = Nothing] ELSE conns[c]]
  /\ UNCHANGED <<version, trouble, slots, hidden, kept>>

-------------------------------------------------------------------------------
\* What surrounds them.

Write ==
  /\ version < MaxVersion /\ version' = version + 1
  /\ UNCHANGED <<trouble, hidden, server, browser>>

Trouble ==
  /\ trouble' \in {"none", "stalled", "failing"} \ {trouble}
  /\ polls' = [p \in Pages |->
       IF polls[p].step = "none" THEN polls[p]
       ELSE [polls[p] EXCEPT !.stalled = @ \/ trouble' = "stalled"]]
  /\ UNCHANGED <<version, hidden, server, kept, shown>>

Hide(p) ==
  /\ hidden' = [hidden EXCEPT ![p] = ~@]
  /\ UNCHANGED <<version, trouble, server, browser>>

Accept(c) == Serve(c) \/ Overload(c) \/ NoThread(c)
Finish(c) == Read(c) \/ ReadFails(c) \/ Answer(c)
Hear(p) == Headers(p) \/ Body(p) \/ Unchanged(p) \/ Failed(p)

DashboardNext ==
  \/ \E c \in Connections : Accept(c) \/ TakeLock(c) \/ Finish(c) \/ HangUp(c)
  \/ \E p \in Pages : Poll(p) \/ Hear(p) \/ Abort(p) \/ Hide(p)
  \/ Write \/ Trouble

\* The server's threads run, the timers fire, answers arrive.  The lock comes
\* free between polls, which are seconds apart, so a thread that waits for it
\* gets it.
Fairness ==
  /\ \A c \in Connections :
       /\ WF_dashboardVars(Accept(c)) /\ SF_dashboardVars(TakeLock(c))
       /\ WF_dashboardVars(Finish(c)) /\ WF_dashboardVars(HangUp(c))
  /\ \A p \in Pages : WF_dashboardVars(Poll(p)) /\ WF_dashboardVars(Hear(p))

DashboardSpec == DashboardInit /\ [][DashboardNext]_dashboardVars /\ Fairness

-------------------------------------------------------------------------------
\* Properties.

\* When a page says "Live", no part of what it shows is older than the poll that
\* told it so, whether the server sent the snapshot or said that it has not
\* changed, and whatever became of earlier polls and their late answers.
LiveIsCurrent ==
  [][\A p \in Pages :
       polls[p].step # "none" /\ polls'[p].step = "none" /\ shown'[p].state = "live" =>
         \A k \in 1 .. Parts : shown'[p].snapshot[k] >= polls[p].since]_dashboardVars

\* Once the store answers again, a page that is looked at says "Live" again:
\* stalls, failures, aborted polls and refused connections leave no worker, no
\* lock and no timer behind.
LiveAgain ==
  \A p \in Pages :
    <>[](trouble = "none" /\ ~hidden[p]) => <>[](shown[p].state = "live")
===============================================================================
