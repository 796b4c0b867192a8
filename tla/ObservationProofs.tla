---------------------------- MODULE ObservationProofs ----------------------------
(***************************************************************************)
(* Proofs about what an observer of runs is told: by the pages of          *)
(* Dashboard, and by the rows and the statements of TelemetryStore.        *)
(***************************************************************************)
EXTENDS TelemetryStore, Dashboard, FiniteSetTheorems, SequenceTheorems, TLAPS

-------------------------------------------------------------------------------
\* The dashboard.

Asking == {"backlog", "asked", "reading"}

ConnectionTypes ==
  [at : Asking \cup {"closed", "idle"}, page : Pages \cup {NoPage}, tag : Seq(Nat),
   got : Seq(Nat), gone : BOOLEAN]

ReplyTypes == [status : {"none", "200", "304", "503", "dropped"}, snapshot : Seq(Nat)]

PollTypes ==
  [step : {"none", "sent", "body"}, via : Connections \cup {NoPage}, reply : ReplyTypes,
   since : Nat, stalled : BOOLEAN]

DashboardTypes ==
  /\ version \in Nat
  /\ conns \in [Connections -> ConnectionTypes]
  /\ polls \in [Pages -> PollTypes]
  /\ kept \in [Pages -> [snapshot : Seq(Nat), tag : Seq(Nat)]]
  /\ shown \in [Pages -> [state : {"loading", "live", "unavailable"}, snapshot : Seq(Nat)]]

\* A whole snapshot, no part of which was read before a version.
Fresh(snapshot, since) ==
  Len(snapshot) = Parts /\ \A k \in 1 .. Parts : snapshot[k] >= since

\* A connection whose page still waits is the one of that page's poll, carries
\* the tag that the page keeps, and has read nothing from before the poll.
WaitedFor(c) ==
  conns[c].at \in Asking /\ conns[c].gone = FALSE =>
    LET p == conns[c].page IN
    /\ p \in Pages /\ polls[p].step = "sent" /\ polls[p].via = c
    /\ polls[p].reply = Unanswered
    /\ conns[c].tag = kept[p].tag
    /\ \A k \in 1 .. Len(conns[c].got) : conns[c].got[k] >= polls[p].since

\* What a page was answered is fresh for its poll: the snapshot sent, or the
\* one that it keeps.
AnsweredTruly(p) ==
  /\ polls[p].since <= version
  /\ kept[p].snapshot = kept[p].tag
  /\ polls[p].step = "none" => polls[p].reply = Unanswered
  /\ polls[p].step = "body" => polls[p].reply.status = "200"
  /\ polls[p].reply.status = "200" => Fresh(polls[p].reply.snapshot, polls[p].since)
  /\ polls[p].reply.status = "304" => Fresh(kept[p].tag, polls[p].since)

DashboardInv ==
  /\ DashboardTypes
  /\ \A c \in Connections : WaitedFor(c)
  /\ \A p \in Pages : AnsweredTruly(p)

LEMMA DashboardInitially == DashboardInit => DashboardInv
<1>1. <<>> \in Seq(Nat) /\ Len(<<>>) = 0
  OBVIOUS
<1> QED
  BY <1>1, DashboardAssumption DEF DashboardInit, DashboardInv, DashboardTypes, ConnectionTypes,
    PollTypes, ReplyTypes, WaitedFor, AnsweredTruly, Closed, NoPoll, Nothing, Unanswered, Asking

\* A reply that reaches its page, and one that nobody waits for.
LEMMA ReplyKeeps ==
  ASSUME DashboardInv, NEW c \in Connections, NEW reply \in ReplyTypes,
         conns[c].at \in Asking,
         Reply(c, reply), NEW after \in ConnectionTypes,
         after.at \notin Asking,
         conns' = [conns EXCEPT ![c] = after],
         conns[c].gone = FALSE /\ reply.status = "200" =>
           Fresh(reply.snapshot, polls[conns[c].page].since),
         conns[c].gone = FALSE /\ reply.status = "304" =>
           Fresh(kept[conns[c].page].tag, polls[conns[c].page].since),
         UNCHANGED <<version, kept, shown>>
  PROVE  DashboardInv'
<1> USE DEF DashboardInv
<1>1. CASE conns[c].gone = TRUE
  <2>1. polls' = polls
    BY <1>1 DEF Reply
  <2>2. DashboardTypes'
    BY <2>1 DEF DashboardTypes
  <2>3. ASSUME NEW d \in Connections PROVE WaitedFor(d)'
    BY <2>1 DEF WaitedFor, DashboardTypes
  <2>4. ASSUME NEW p \in Pages PROVE AnsweredTruly(p)'
    BY <2>1 DEF AnsweredTruly, Fresh
  <2> QED
    BY <2>2, <2>3, <2>4
<1>2. CASE conns[c].gone = FALSE
  <2> DEFINE q == conns[c].page
  <2>1. /\ q \in Pages /\ polls[q].step = "sent" /\ polls[q].via = c
        /\ polls' = [polls EXCEPT ![q].reply = reply]
    BY <1>2 DEF Reply, WaitedFor, DashboardTypes
  <2>a. polls \in [Pages -> PollTypes]
    BY DEF DashboardTypes
  <2>b. polls'[q] = [polls[q] EXCEPT !.reply = reply] /\ polls[q] \in PollTypes
    BY <2>1, <2>a
  <2>c. /\ polls'[q].reply = reply /\ polls'[q].step = "sent" /\ polls'[q].via = c
        /\ polls'[q].since = polls[q].since /\ polls'[q] \in PollTypes
    BY <2>1, <2>b DEF PollTypes
  <2>d. \A p \in Pages \ {q} : polls'[p] = polls[p]
    BY <2>1, <2>a
  <2>2. DashboardTypes'
    <3>1. polls' \in [Pages -> PollTypes]
      BY <2>1, <2>a, <2>c, <2>d
    <3> QED
      BY <3>1 DEF DashboardTypes
  <2>3. ASSUME NEW d \in Connections PROVE WaitedFor(d)'
    <3>1. CASE d = c
      BY <3>1 DEF WaitedFor, DashboardTypes
    <3>2. CASE d # c
      <4>1. conns'[d] = conns[d]
        BY <3>2 DEF DashboardTypes
      <4>2. conns[d].at \in Asking /\ conns[d].gone = FALSE => conns[d].page # q
        BY <3>2, <2>1 DEF WaitedFor
      <4> QED
        BY <4>1, <4>2, <2>d DEF WaitedFor
    <3> QED
      BY <3>1, <3>2
  <2>4. ASSUME NEW p \in Pages PROVE AnsweredTruly(p)'
    <3>1. CASE p = q
      BY <3>1, <1>2, <2>c DEF AnsweredTruly, Fresh
    <3>2. CASE p # q
      BY <3>2, <2>d DEF AnsweredTruly, Fresh
    <3> QED
      BY <3>1, <3>2
  <2> QED
    BY <2>2, <2>3, <2>4
<1> QED
  BY <1>1, <1>2 DEF DashboardTypes, ConnectionTypes

\* A request moves on within the server.
LEMMA MoveKeeps ==
  ASSUME DashboardInv, NEW c \in Connections, NEW at \in Asking,
         conns[c].at \in Asking, conns' = [conns EXCEPT ![c].at = at],
         UNCHANGED <<version, polls, kept, shown>>
  PROVE  DashboardInv'
<1> USE DEF DashboardInv
<1>1. conns[c] \in ConnectionTypes /\ conns'[c] = [conns[c] EXCEPT !.at = at]
  BY DEF DashboardTypes
<1>2. conns'[c] = [at |-> at, page |-> conns[c].page, tag |-> conns[c].tag, got |-> conns[c].got,
                   gone |-> conns[c].gone]
  BY <1>1 DEF ConnectionTypes
<1>3. \A d \in Connections \ {c} : conns'[d] = conns[d]
  BY DEF DashboardTypes
<1>4. DashboardTypes'
  BY <1>1, <1>2 DEF DashboardTypes, ConnectionTypes
<1>5. WaitedFor(c)'
  BY <1>2 DEF WaitedFor
<1> QED
  BY <1>3, <1>4, <1>5 DEF WaitedFor, AnsweredTruly, Fresh

LEMMA ServerKeeps ==
  ASSUME DashboardInv, NEW c \in Connections, Accept(c) \/ TakeLock(c) \/ Finish(c) \/ HangUp(c)
  PROVE  DashboardInv'
<1> USE DEF DashboardInv
<1>0. /\ conns[c] \in ConnectionTypes /\ Closed \in ConnectionTypes /\ Closed.at = "closed"
      /\ Unavailable \in ReplyTypes /\ Unavailable.status = "503"
      /\ Dropped \in ReplyTypes /\ Dropped.status = "dropped"
      /\ NotModified \in ReplyTypes /\ NotModified.status = "304"
      /\ Nothing \in Seq(Nat)
  BY DEF DashboardTypes, ConnectionTypes, ReplyTypes, Closed, Unavailable, Dropped, NotModified,
    Nothing
<1>1. CASE Serve(c)
  BY <1>1, <1>0, MoveKeeps DEF Serve, browser, Asking
<1>2. CASE Overload(c)
  BY <1>2, <1>0, ReplyKeeps DEF Overload, Asking
<1>3. CASE NoThread(c)
  BY <1>3, <1>0, ReplyKeeps DEF NoThread, Asking
<1>4. CASE TakeLock(c)
  BY <1>4, <1>0, MoveKeeps DEF TakeLock, browser, Asking
<1>5. CASE Read(c)
  <2> DEFINE got == Append(conns[c].got, version)
  <2>1. /\ conns' = [conns EXCEPT ![c].got = got] /\ conns[c].at = "reading"
        /\ UNCHANGED <<version, polls, kept, shown>>
    BY <1>5 DEF Read, browser
  <2>2. /\ conns'[c] = [conns[c] EXCEPT !.got = got]
        /\ \A d \in Connections \ {c} : conns'[d] = conns[d]
    BY <2>1 DEF DashboardTypes
  <2>3. /\ got \in Seq(Nat) /\ Len(got) = Len(conns[c].got) + 1
        /\ \A k \in 1 .. Len(conns[c].got) : got[k] = conns[c].got[k]
        /\ got[Len(got)] = version
    BY <1>0 DEF ConnectionTypes, DashboardTypes
  <2> HIDE DEF got
  <2>4. DashboardTypes'
    BY <1>0, <2>1, <2>2, <2>3 DEF DashboardTypes, ConnectionTypes
  <2>5. WaitedFor(c)'
    <3> SUFFICES ASSUME conns[c].gone = FALSE
                 PROVE  WaitedFor(c)'
      BY <2>2, <1>0 DEF WaitedFor, ConnectionTypes
    <3> DEFINE p == conns[c].page
    <3>1. /\ p \in Pages /\ polls[p].since <= version
          /\ \A k \in 1 .. Len(conns[c].got) : conns[c].got[k] >= polls[p].since
      BY <2>1 DEF WaitedFor, AnsweredTruly, Asking
    <3>2. \A k \in 1 .. Len(got) : got[k] >= polls[p].since
      <4>1. version \in Nat /\ polls[p].since \in Nat /\ conns[c].got \in Seq(Nat)
        BY <1>0, <3>1 DEF ConnectionTypes, DashboardTypes, PollTypes
      <4> QED
        <5>1. ASSUME NEW k \in 1 .. Len(got) PROVE got[k] >= polls[p].since
          <6>1. CASE k = Len(got)
            BY <6>1, <4>1, <3>1, <2>3
          <6>2. CASE k # Len(got)
            <7>1. k \in 1 .. Len(conns[c].got)
              BY <6>2, <4>1, <2>3
            <7> QED
              BY <7>1, <3>1, <2>3
          <6> QED
            BY <6>1, <6>2
        <5> QED
          BY <5>1
    <3>3. /\ conns'[c].got = got /\ conns'[c].page = p /\ conns'[c].tag = conns[c].tag
      BY <2>2, <1>0 DEF ConnectionTypes
    <3> QED
      BY <3>1, <3>2, <3>3, <2>1 DEF WaitedFor, Asking
  <2> QED
    BY <2>1, <2>2, <2>4, <2>5 DEF WaitedFor, AnsweredTruly, Fresh
<1>6. CASE ReadFails(c)
  <2> DEFINE after == [conns[c] EXCEPT !.at = "idle", !.got = Nothing, !.tag = Nothing]
  <2>0. after.at = "idle"
    BY <1>0 DEF ConnectionTypes
  <2>1. after \in ConnectionTypes
    BY <1>0 DEF ConnectionTypes
  <2>2. conns' = [conns EXCEPT ![c] = after]
    BY <1>6 DEF ReadFails, DashboardTypes
  <2> QED
    BY <1>6, <1>0, <2>0, <2>1, <2>2, ReplyKeeps DEF ReadFails, Asking
<1>7. CASE Answer(c)
  <2> DEFINE after == [conns[c] EXCEPT !.at = "idle", !.got = Nothing, !.tag = Nothing]
             reply == IF conns[c].got = conns[c].tag THEN NotModified ELSE OK(conns[c].got)
  <2>0. after.at = "idle"
    BY <1>0 DEF ConnectionTypes
  <2>1. after \in ConnectionTypes
    BY <1>0 DEF ConnectionTypes
  <2>2. conns' = [conns EXCEPT ![c] = after]
    BY <1>7 DEF Answer, DashboardTypes
  <2>3. reply \in ReplyTypes
    BY <1>0 DEF OK, ReplyTypes, ConnectionTypes
  <2>4. conns[c].gone = FALSE =>
          /\ Fresh(conns[c].got, polls[conns[c].page].since)
          /\ conns[c].tag = kept[conns[c].page].tag
    BY <1>7, <1>0 DEF Answer, Fresh, WaitedFor, Asking, ConnectionTypes
  <2>5. conns[c].gone = FALSE /\ reply.status = "200" =>
          Fresh(reply.snapshot, polls[conns[c].page].since)
    BY <2>4, <1>0 DEF OK
  <2>6. conns[c].gone = FALSE /\ reply.status = "304" =>
          Fresh(kept[conns[c].page].tag, polls[conns[c].page].since)
    BY <2>4, <1>0 DEF OK
  <2>7. Reply(c, reply) /\ conns[c].at \in Asking /\ UNCHANGED <<version, kept, shown>>
    BY <1>7 DEF Answer, Asking
  <2> HIDE DEF after, reply
  <2> QED
    BY <2>0, <2>1, <2>2, <2>3, <2>5, <2>6, <2>7, ReplyKeeps DEF Asking
<1>8. CASE HangUp(c)
  BY <1>8, <1>0 DEF HangUp, browser, DashboardTypes, WaitedFor, AnsweredTruly, Fresh, Asking
<1> QED
  BY <1>1, <1>2, <1>3, <1>4, <1>5, <1>6, <1>7, <1>8 DEF Accept, Finish

\* A page's poll, what it is told, and how it ends.
LEMMA PageKeeps ==
  ASSUME DashboardInv, NEW q \in Pages, Poll(q) \/ Hear(q) \/ Abort(q) \/ Hide(q)
  PROVE  DashboardInv'
<1> USE DEF DashboardInv
<1>0. /\ polls[q] \in PollTypes /\ kept[q] \in [snapshot : Seq(Nat), tag : Seq(Nat)]
      /\ NoPoll \in PollTypes /\ NoPoll.step = "none" /\ NoPoll.reply = Unanswered
      /\ NoPoll.since = 0 /\ Unanswered.status = "none" /\ Nothing \in Seq(Nat)
      /\ version \in Nat
  <2>1. Unanswered \in ReplyTypes
    BY DEF Unanswered, ReplyTypes, Nothing
  <2> QED
    BY <2>1 DEF DashboardTypes, PollTypes, NoPoll, Unanswered, Nothing
<1>1. CASE Poll(q)
  <2>1. PICK c \in Connections, at \in Asking, stalled \in BOOLEAN :
          LET sent == [NoPoll EXCEPT !.step = "sent", !.via = c, !.since = version,
                                     !.stalled = stalled]
          IN  /\ conns' = [conns EXCEPT ![c] =
                   [Closed EXCEPT !.at = at, !.page = q, !.tag = kept[q].tag]]
              /\ polls' = [polls EXCEPT ![q] = sent]
              /\ conns[c].at \notin Asking
    BY <1>1 DEF Poll, Asking
  <2>2. /\ polls[q].step = "none" /\ UNCHANGED <<version, kept, shown>>
    BY <1>1 DEF Poll
  <2>3. /\ conns'[c] = [at |-> at, page |-> q, tag |-> kept[q].tag, got |-> Nothing, gone |-> FALSE]
        /\ \A d \in Connections \ {c} : conns'[d] = conns[d]
    BY <2>1 DEF Closed, DashboardTypes
  <2>4. /\ polls'[q] = [step |-> "sent", via |-> c, reply |-> Unanswered, since |-> version,
                        stalled |-> stalled]
        /\ \A p \in Pages \ {q} : polls'[p] = polls[p]
    BY <2>1 DEF NoPoll, DashboardTypes
  <2>5. DashboardTypes'
    <3>1. conns'[c] \in ConnectionTypes
      BY <2>3, <1>0 DEF ConnectionTypes
    <3>2. polls'[q] \in PollTypes
      BY <2>4, <1>0 DEF PollTypes, NoPoll
    <3> QED
      BY <3>1, <3>2, <2>1, <2>2 DEF DashboardTypes
  <2>6. ASSUME NEW d \in Connections PROVE WaitedFor(d)'
    <3>1. CASE d = c
      BY <3>1, <2>2, <2>3, <2>4 DEF WaitedFor, Nothing
    <3>2. CASE d # c
      <4>1. conns'[d] = conns[d]
        BY <3>2, <2>3
      <4>2. conns[d].at \in Asking /\ conns[d].gone = FALSE => conns[d].page # q
        BY <2>2 DEF WaitedFor
      <4> QED
        BY <4>1, <4>2, <2>2, <2>4 DEF WaitedFor
    <3> QED
      BY <3>1, <3>2
  <2>7. ASSUME NEW p \in Pages PROVE AnsweredTruly(p)'
    <3>1. CASE p = q
      BY <3>1, <2>2, <2>4, <1>0 DEF AnsweredTruly
    <3>2. CASE p # q
      BY <3>2, <2>2, <2>4 DEF AnsweredTruly, Fresh
    <3> QED
      BY <3>1, <3>2
  <2> QED
    BY <2>5, <2>6, <2>7
<1>2. CASE Headers(q)
  <2>1. /\ polls'[q] = [step |-> "body", via |-> polls[q].via, reply |-> polls[q].reply,
                        since |-> polls[q].since, stalled |-> polls[q].stalled]
        /\ \A p \in Pages \ {q} : polls'[p] = polls[p]
        /\ polls[q].reply.status = "200"
        /\ UNCHANGED <<version, conns, kept, shown>>
        /\ polls' = [polls EXCEPT ![q].step = "body"]
    BY <1>2, <1>0 DEF Headers, server, DashboardTypes, PollTypes
  <2>2. DashboardTypes'
    BY <2>1, <1>0 DEF DashboardTypes, PollTypes
  <2>3. ASSUME NEW d \in Connections PROVE WaitedFor(d)'
    <3>1. conns[d].at \in Asking /\ conns[d].gone = FALSE => conns[d].page # q
      BY <2>1, <1>0 DEF WaitedFor
    <3> QED
      BY <3>1, <2>1 DEF WaitedFor
  <2>4. ASSUME NEW p \in Pages PROVE AnsweredTruly(p)'
    BY <2>1 DEF AnsweredTruly, Fresh
  <2> QED
    BY <2>2, <2>3, <2>4
<1>3. CASE Body(q)
  <2>1. /\ polls' = [polls EXCEPT ![q] = NoPoll]
        /\ kept' = [kept EXCEPT ![q] = [snapshot |-> polls[q].reply.snapshot,
                                        tag |-> polls[q].reply.snapshot]]
        /\ shown' = [shown EXCEPT ![q] = [state |-> "live", snapshot |-> polls[q].reply.snapshot]]
        /\ polls[q].step = "body" /\ UNCHANGED <<version, conns>>
    BY <1>3 DEF Body, Show, server
  <2>2. /\ polls'[q] = NoPoll /\ kept'[q].snapshot = kept'[q].tag
        /\ \A p \in Pages \ {q} : polls'[p] = polls[p] /\ kept'[p] = kept[p]
    BY <2>1 DEF DashboardTypes
  <2>3. DashboardTypes'
    BY <2>1, <1>0 DEF DashboardTypes, PollTypes, ReplyTypes
  <2>4. ASSUME NEW d \in Connections PROVE WaitedFor(d)'
    <3>1. conns[d].at \in Asking /\ conns[d].gone = FALSE => conns[d].page # q
      BY <2>1 DEF WaitedFor
    <3> QED
      BY <3>1, <2>1, <2>2 DEF WaitedFor
  <2>5. ASSUME NEW p \in Pages PROVE AnsweredTruly(p)'
    <3>1. CASE p = q
      BY <3>1, <2>1, <2>2, <1>0 DEF AnsweredTruly
    <3>2. CASE p # q
      BY <3>2, <2>1, <2>2 DEF AnsweredTruly, Fresh
    <3> QED
      BY <3>1, <3>2
  <2> QED
    BY <2>3, <2>4, <2>5
<1>4. ASSUME NEW state \in {"live", "unavailable"}, NEW snapshot \in Seq(Nat),
             Show(q, state, snapshot), UNCHANGED <<version, conns, kept>>,
             polls[q].reply # Unanswered
      PROVE  DashboardInv'
  <2>1. /\ polls' = [polls EXCEPT ![q] = NoPoll]
        /\ shown' = [shown EXCEPT ![q] = [state |-> state, snapshot |-> snapshot]]
    BY <1>4 DEF Show
  <2>2. polls'[q] = NoPoll /\ \A p \in Pages \ {q} : polls'[p] = polls[p]
    BY <2>1 DEF DashboardTypes
  <2>3. DashboardTypes'
    BY <2>1, <1>4, <1>0 DEF DashboardTypes
  <2>4. ASSUME NEW d \in Connections PROVE WaitedFor(d)'
    <3>1. conns[d].at \in Asking /\ conns[d].gone = FALSE => conns[d].page # q
      BY <1>4 DEF WaitedFor
    <3> QED
      BY <3>1, <1>4, <2>2 DEF WaitedFor
  <2>5. ASSUME NEW p \in Pages PROVE AnsweredTruly(p)'
    <3>1. CASE p = q
      BY <3>1, <1>4, <2>2, <1>0 DEF AnsweredTruly
    <3>2. CASE p # q
      BY <3>2, <1>4, <2>2 DEF AnsweredTruly, Fresh
    <3> QED
      BY <3>1, <3>2
  <2> QED
    BY <2>3, <2>4, <2>5
<1>5. CASE Unchanged(q)
  BY <1>5, <1>4, <1>0 DEF Unchanged, server, Unanswered
<1>6. CASE Failed(q)
  BY <1>6, <1>4, <1>0 DEF Failed, server, Unanswered
<1>7. CASE Abort(q)
  <2>1. /\ polls' = [polls EXCEPT ![q] = NoPoll]
        /\ shown' = [shown EXCEPT ![q] = [state |-> "unavailable", snapshot |-> Nothing]]
        /\ polls[q].step # "none" /\ UNCHANGED <<version, kept>>
    BY <1>7 DEF Abort, Show
  <2>2. polls'[q] = NoPoll /\ \A p \in Pages \ {q} : polls'[p] = polls[p]
    BY <2>1 DEF DashboardTypes
  <2>3. /\ conns' \in [Connections -> ConnectionTypes]
        /\ \A d \in Connections :
             \/ conns'[d] = conns[d] /\ ~(d = polls[q].via /\ conns[d].at # "closed"
                                      /\ conns[d].page = q)
             \/ conns'[d].gone = TRUE
    <3>1. ASSUME NEW d \in Connections
          PROVE  /\ [conns[d] EXCEPT !.gone = TRUE, !.tag = Nothing] \in ConnectionTypes
                 /\ [conns[d] EXCEPT !.gone = TRUE, !.tag = Nothing].gone = TRUE
      <4>1. conns[d] \in ConnectionTypes
        BY DEF DashboardTypes
      <4>2. [conns[d] EXCEPT !.gone = TRUE, !.tag = Nothing].gone = TRUE
        BY <4>1 DEF ConnectionTypes
      <4>3. [conns[d] EXCEPT !.gone = TRUE, !.tag = Nothing] \in ConnectionTypes
        BY <4>1, <1>0 DEF ConnectionTypes
      <4> QED
        BY <4>2, <4>3
    <3>2. conns' = [d \in Connections |->
                     IF d = polls[q].via /\ conns[d].at # "closed" /\ conns[d].page = q
                     THEN [conns[d] EXCEPT !.gone = TRUE, !.tag = Nothing] ELSE conns[d]]
      BY <1>7 DEF Abort
    <3>3. ASSUME NEW d \in Connections
          PROVE  conns'[d] \in ConnectionTypes
      BY <3>1, <3>2, <1>0 DEF DashboardTypes, ConnectionTypes
    <3> QED
      BY <3>1, <3>2, <3>3
  <2>4. DashboardTypes'
    BY <2>1, <2>3, <1>0 DEF DashboardTypes
  <2>5. ASSUME NEW d \in Connections PROVE WaitedFor(d)'
    <3>1. CASE conns'[d].gone = TRUE
      BY <3>1 DEF WaitedFor
    <3>2. CASE conns'[d].gone # TRUE
      <4>1. conns'[d] = conns[d] /\ ~(d = polls[q].via /\ conns[d].at # "closed"
                                   /\ conns[d].page = q)
        BY <2>3, <3>2
      <4>2. conns[d].at \in Asking /\ conns[d].gone = FALSE => conns[d].page # q
        BY <4>1 DEF WaitedFor, Asking
      <4> QED
        BY <4>1, <4>2, <2>1, <2>2 DEF WaitedFor
    <3> QED
      BY <3>1, <3>2
  <2>6. ASSUME NEW p \in Pages PROVE AnsweredTruly(p)'
    BY <2>1, <2>2, <1>0 DEF AnsweredTruly, Fresh
  <2> QED
    BY <2>4, <2>5, <2>6
<1>8. CASE Hide(q)
  BY <1>8 DEF Hide, server, browser, DashboardTypes, WaitedFor, AnsweredTruly, Fresh
<1> QED
  BY <1>1, <1>2, <1>3, <1>5, <1>6, <1>7, <1>8 DEF Hear

LEMMA SurroundingsKeep ==
  ASSUME DashboardInv, Write \/ Trouble
  PROVE  DashboardInv'
<1> USE DEF DashboardInv
<1>1. CASE Write
  BY <1>1 DEF Write, server, browser, DashboardTypes, PollTypes, WaitedFor, AnsweredTruly, Fresh
<1>2. CASE Trouble
  <2>1. /\ UNCHANGED <<version, conns, kept, shown>> /\ polls' \in [Pages -> PollTypes]
        /\ \A p \in Pages : /\ polls'[p].step = polls[p].step /\ polls'[p].via = polls[p].via
                            /\ polls'[p].reply = polls[p].reply /\ polls'[p].since = polls[p].since
    <3>1. ASSUME NEW p \in Pages
          PROVE  [polls[p] EXCEPT !.stalled = @ \/ trouble' = "stalled"]
                   = [step |-> polls[p].step, via |-> polls[p].via, reply |-> polls[p].reply,
                      since |-> polls[p].since,
                       stalled |-> polls[p].stalled \/ trouble' = "stalled"]
      BY DEF DashboardTypes, PollTypes
    <3>2. polls' = [p \in Pages |->
                     IF polls[p].step = "none" THEN polls[p]
                     ELSE [polls[p] EXCEPT !.stalled = @ \/ trouble' = "stalled"]]
      BY <1>2 DEF Trouble
    <3>3. ASSUME NEW p \in Pages
          PROVE  /\ polls'[p] \in PollTypes
                 /\ polls'[p].step = polls[p].step /\ polls'[p].via = polls[p].via
                 /\ polls'[p].reply = polls[p].reply /\ polls'[p].since = polls[p].since
      BY <3>1, <3>2 DEF DashboardTypes, PollTypes
    <3> QED
      BY <1>2, <3>2, <3>3 DEF Trouble, server
  <2>2. DashboardTypes'
    BY <2>1 DEF DashboardTypes
  <2>3. ASSUME NEW d \in Connections PROVE WaitedFor(d)'
    BY <2>1 DEF WaitedFor
  <2>4. ASSUME NEW p \in Pages PROVE AnsweredTruly(p)'
    BY <2>1 DEF AnsweredTruly, Fresh
  <2> QED
    BY <2>2, <2>3, <2>4
<1> QED
  BY <1>1, <1>2

LEMMA DashboardStep == DashboardInv /\ [DashboardNext]_dashboardVars => DashboardInv'
<1> SUFFICES ASSUME DashboardInv, [DashboardNext]_dashboardVars
             PROVE  DashboardInv'
  OBVIOUS
<1>1. CASE DashboardNext
  BY <1>1, ServerKeeps, PageKeeps, SurroundingsKeep DEF DashboardNext
<1>2. CASE UNCHANGED dashboardVars
  BY <1>2 DEF dashboardVars, server, browser, DashboardInv, DashboardTypes, WaitedFor,
    AnsweredTruly, Fresh
<1> QED
  BY <1>1, <1>2

\* What a page shows as live at the end of a poll was read during that poll,
\* whatever became of the polls before it (dashboard.py:939, app.js:450).
THEOREM LiveMeansCurrent == DashboardSpec => LiveIsCurrent
<1> DEFINE Current ==
  \A p \in Pages :
    polls[p].step # "none" /\ polls'[p].step = "none" /\ shown'[p].state = "live" =>
      \A k \in 1 .. Parts : shown'[p].snapshot[k] >= polls[p].since
<1>1. DashboardInv /\ [DashboardNext]_dashboardVars => [Current]_dashboardVars
  <2> SUFFICES ASSUME DashboardInv, DashboardNext, NEW p \in Pages,
                      polls[p].step # "none", polls'[p].step = "none", shown'[p].state = "live"
               PROVE  \A k \in 1 .. Parts : shown'[p].snapshot[k] >= polls[p].since
    OBVIOUS
  <2>0. /\ polls \in [Pages -> PollTypes]
        /\ shown \in [Pages -> [state : {"loading", "live", "unavailable"}, snapshot : Seq(Nat)]]
    BY DEF DashboardInv, DashboardTypes
  <2>1. polls'[p].step = polls[p].step \/ \E q \in Pages : Poll(q) \/ Hear(q) \/ Abort(q)
    <3>2. ASSUME NEW c \in Connections, Accept(c) \/ TakeLock(c) \/ Finish(c) \/ HangUp(c)
          PROVE  polls'[p].step = polls[p].step
      <4>1. ASSUME NEW reply PROVE Reply(c, reply) => polls'[p].step = polls[p].step
        <5>1. Reply(c, reply) =>
                polls'[p] = polls[p] \/ polls'[p] = [polls[p] EXCEPT !.reply = reply]
          BY <2>0 DEF Reply
        <5> QED
          BY <5>1, <2>0 DEF PollTypes
      <4> QED
        BY <3>2, <4>1 DEF Accept, Serve, Overload, NoThread, TakeLock, Finish, Read, ReadFails,
          Answer, HangUp, browser
    <3>3. Write => polls'[p].step = polls[p].step
      BY DEF Write, browser
    <3>4. Trouble => polls'[p].step = polls[p].step
      <4>1. Trouble => polls'[p] = polls[p]
              \/ polls'[p] = [polls[p] EXCEPT !.stalled = @ \/ trouble' = "stalled"]
        BY DEF Trouble
      <4> QED
        BY <4>1, <2>0 DEF PollTypes
    <3>5. ASSUME NEW q \in Pages, Hide(q) PROVE polls'[p].step = polls[p].step
      BY <3>5 DEF Hide, browser
    <3> QED
      BY <3>2, <3>3, <3>4, <3>5 DEF DashboardNext
  <2>2. PICK q \in Pages : Poll(q) \/ Hear(q) \/ Abort(q)
    BY <2>1
  <2>3. q = p
    <3>1. ASSUME NEW at PROVE polls' = [polls EXCEPT ![q] = at] => q = p
      BY <2>0
    <3>2. ASSUME NEW at PROVE polls' = [polls EXCEPT ![q].step = at] => q = p
      BY <2>0
    <3> QED
      BY <2>2, <3>1, <3>2 DEF Poll, Hear, Abort, Headers, Body, Unchanged, Failed, Show
  <2>4. ~Poll(p) /\ ~Headers(p)
    <3>1. ASSUME NEW c, NEW stalled
          PROVE  polls' # [polls EXCEPT ![p] = [NoPoll EXCEPT !.step = "sent", !.via = c,
                                                 !.since = version, !.stalled = stalled]]
      BY <2>0 DEF NoPoll
    <3>2. polls' # [polls EXCEPT ![p].step = "body"]
      BY <2>0 DEF PollTypes
    <3> QED
      BY <3>1, <3>2 DEF Poll, Headers
  <2>5. Body(p) \/ Unchanged(p)
    <3>1. ASSUME NEW snapshot PROVE ~Show(p, "unavailable", snapshot)
      <4>1. Show(p, "unavailable", snapshot) => shown'[p] =
              [state |-> "unavailable", snapshot |-> snapshot]
        BY <2>0 DEF Show
      <4> QED
        BY <4>1
    <3>2. ~Failed(p) /\ ~Abort(p)
      BY <3>1 DEF Failed, Abort
    <3> QED
      BY <2>2, <2>3, <2>4, <3>2 DEF Hear
  <2>6. AnsweredTruly(p)
    BY DEF DashboardInv
  <2>7. CASE Body(p)
    BY <2>0, <2>6, <2>7 DEF Body, Show, AnsweredTruly, Fresh
  <2>8. CASE Unchanged(p)
    BY <2>0, <2>6, <2>8 DEF Unchanged, Show, AnsweredTruly, Fresh
  <2> QED
    BY <2>5, <2>7, <2>8
<1> QED
  BY <1>1, DashboardInitially, DashboardStep, PTL DEF DashboardSpec, LiveIsCurrent
-------------------------------------------------------------------------------
\* The telemetry store: what holds of its rows.

Identified(r) == {i \in RowsOf({r}) : invocations[i].identity # "unknown"}
Ended(r) == {i \in RowsOf({r}) : ~Running(i)}
Made(r) == {n \in DOMAIN projections[r] : projections[r][n].state = "reserved"}
Over(r) == {n \in DOMAIN projections[r] : projections[r][n].state \in {"released", "committed"}}

\* A run that has not started has nothing, and the sets that its events count
\* are finite.
BudgetHolds(r) ==
  /\ ~Stored(r) => projections[r] = <<>>
  /\ \A n \in DOMAIN projections[r] : projections[r][n].window = runs[r].window
  /\ \A m, n \in Made(r) : m = n
  /\ \A m, n \in Over(r) : m = n
  /\ \A n \in Over(r) : \E m \in Made(r) : m < n
  /\ Logged(r, "budget_reserved") = Cardinality(Made(r)) + Cardinality(Over(r))

InvocationsHold(r) ==
  /\ IsFiniteSet(RowsOf({r})) /\ IsFiniteSet(Heard(r)) /\ IsFiniteSet(Reported(r))
  /\ Logged(r, "model_started") = Cardinality(RowsOf({r}))
  /\ Logged(r, "model_checkin") = Cardinality(Identified(r))
  /\ Logged(r, "model_finished") = Cardinality(Ended(r))
  /\ Logged(r, "model_heartbeat") >= Cardinality(Heard(r))
  /\ Logged(r, "model_usage") = Cardinality(Reported(r))

LogHolds(r) == RunAgrees(r) /\ InvocationsHold(r) /\ BudgetHolds(r)

\* The status of an invocation's usage is a function of the reports and of
\* whether it runs.
UsageHolds(i) ==
  /\ ~Known(i) => Reports(i) = {}
  /\ Known(i) =>
       /\ Stored(i[1])
       /\ invocations[i].usage_status =
            IF Reports(i) = {} THEN (IF Running(i) THEN "pending" ELSE "unavailable")
            ELSE UsageStatus({usage[i][k] : k \in Reports(i)})
       /\ invocations[i].state = "succeeded" => invocations[i].identity # "mismatch"

\* What a page has gathered so far is still so.
PageHolds ==
  /\ page.at = "usage" => page.before \subseteq KnownUsed(page.window)
  /\ page.at \in {"finished", "active", "summary"} =>
       page.before \subseteq page.known /\ page.known \subseteq KnownUsed(page.window)
  /\ page.at \in {"active", "summary"} => page.finished \subseteq FinishedIn(page.window)
  /\ page.at = "summary" => page.finished \cap page.active = {}
  /\ page.at \in {"events", "models", "run"} =>
       /\ page.run \in Runs /\ page.row \in RunRow
       /\ page.row.last <= Len(events[page.run])
       /\ page.row.terminal = TRUE =>
            \E n \in 1 .. page.row.last : events[page.run][n] = "run_finished"
  /\ page.at \in {"models", "run"} =>
       /\ Len(page.events) <= Len(events[page.run])
       /\ \A n \in 1 .. Len(page.events) : page.events[n] = events[page.run][n]
       /\ page.row.last <= EventLimit => page.row.last <= Len(page.events)
  /\ page.at = "run" => Count(page.events, "model_started") <= Cardinality(page.models)

TelemetryInv ==
  /\ TypeOK
  /\ \A r \in Runs : LogHolds(r)
  /\ \A i \in Invocations : UsageHolds(i)
  /\ PageHolds

-------------------------------------------------------------------------------
\* Counting.

LEMMA CardinalityWithOneMore ==
  ASSUME NEW S, IsFiniteSet(S), NEW x
  PROVE  /\ IsFiniteSet(S \cup {x}) /\ Cardinality(S) \in Nat
         /\ Cardinality(S \cup {x}) <= Cardinality(S) + 1
<1>1. Cardinality(S) \in Nat
  BY FS_CardinalityType
<1>2. CASE x \in S
  <2>1. S \cup {x} = S
    BY <1>2
  <2>2. Cardinality(S) <= Cardinality(S) + 1
    BY <1>1
  <2> QED
    BY <1>1, <2>1, <2>2
<1>3. CASE x \notin S
  <2>1. IsFiniteSet(S \cup {x}) /\ Cardinality(S \cup {x}) = Cardinality(S) + 1
    BY <1>3, FS_AddElement
  <2> QED
    BY <1>1, <2>1
<1> QED
  BY <1>2, <1>3

LEMMA ElementsOf ==
  ASSUME NEW S, NEW seq \in Seq(S)
  PROVE  Len(seq) \in Nat /\ DOMAIN seq = 1 .. Len(seq) /\ \A n \in 1 .. Len(seq) : seq[n] \in S
OBVIOUS

\* A log that grows by an event has one more of its type.
LEMMA CountAppend ==
  ASSUME NEW log \in Seq(EventTypes), NEW type \in EventTypes, NEW t
  PROVE  /\ Count(log, t) \in Nat
         /\ Count(Append(log, type), t) = Count(log, t) + (IF t = type THEN 1 ELSE 0)
<1> DEFINE S == {n \in DOMAIN log : log[n] = t}
           longer == Append(log, type)
           T == {n \in DOMAIN longer : longer[n] = t}
<1>1. /\ longer \in Seq(EventTypes) /\ Len(longer) = Len(log) + 1 /\ longer[Len(log) + 1] = type
      /\ \A n \in 1 .. Len(log) : longer[n] = log[n]
      /\ Len(log) \in Nat /\ DOMAIN log = 1 .. Len(log) /\ DOMAIN longer = 1 .. Len(longer)
  OBVIOUS
<1>2. IsFiniteSet(S)
  <2>1. IsFiniteSet(1 .. Len(log)) /\ S \subseteq 1 .. Len(log)
    BY <1>1, FS_Interval
  <2> QED
    BY <2>1, FS_Subset
<1>3. Cardinality(S) \in Nat
  BY <1>2, FS_CardinalityType
<1>4. CASE t = type
  <2>1. T = S \cup {Len(log) + 1} /\ Len(log) + 1 \notin S
    BY <1>1, <1>4
  <2>2. Cardinality(T) = Cardinality(S) + 1
    BY <1>2, <2>1, FS_AddElement
  <2> QED
    BY <1>3, <1>4, <2>2 DEF Count
<1>5. CASE t # type
  <2>1. T = S
    BY <1>1, <1>5
  <2>2. Count(log, t) = Cardinality(S) /\ Count(longer, t) = Cardinality(T)
    BY DEF Count
  <2> HIDE DEF S, T
  <2>3. Cardinality(T) = Cardinality(S) + 0
    BY <1>3, <2>1
  <2> QED
    BY <1>3, <1>5, <2>2, <2>3
<1> QED
  BY <1>4, <1>5

\* What _append_event does to the log of a run, and to those of the others.
LEMMA Appended ==
  ASSUME TypeOK, NEW r \in Runs, NEW type \in EventTypes, AppendEvent(r, type)
  PROVE  /\ events' \in [Runs -> Seq(EventTypes)]
         /\ \A o \in Runs \ {r} : events'[o] = events[o]
         /\ Len(events'[r]) = Len(events[r]) + 1 /\ Len(events[r]) \in Nat
         /\ \A n \in 1 .. Len(events[r]) : events'[r][n] = events[r][n]
         /\ events'[r][Len(events[r]) + 1] = type
         /\ \A t \in EventTypes :
              /\ Count(events[r], t) \in Nat
              /\ Count(events'[r], t) = Count(events[r], t) + (IF t = type THEN 1 ELSE 0)
<1>1. /\ events \in [Runs -> Seq(EventTypes)] /\ events[r] \in Seq(EventTypes)
      /\ events' = [events EXCEPT ![r] = Append(events[r], type)]
  BY DEF TypeOK, AppendEvent
<1>2. events'[r] = Append(events[r], type) /\ events' \in [Runs -> Seq(EventTypes)]
      /\ \A o \in Runs \ {r} : events'[o] = events[o]
  BY <1>1
<1>3. \A t \in EventTypes :
        /\ Count(events[r], t) \in Nat
        /\ Count(events'[r], t) = Count(events[r], t) + (IF t = type THEN 1 ELSE 0)
  BY <1>1, <1>2, CountAppend
<1> QED
  BY <1>1, <1>2, <1>3

\* A write leaves alone the runs that it is not about.
LEMMA Untouched ==
  ASSUME NEW r \in Runs, LogHolds(r),
         runs'[r] = runs[r], events'[r] = events[r], projections'[r] = projections[r],
         \A i \in Invocations :
           i[1] = r => invocations'[i] = invocations[i] /\ usage'[i] = usage[i]
  PROVE  LogHolds(r)'
<1>1. RunAgrees(r)'
  BY DEF LogHolds, RunAgrees, Logged, Stored, Open
<1>2. BudgetHolds(r)'
  <2>1. Made(r)' = Made(r) /\ Over(r)' = Over(r)
    BY DEF Made, Over
  <2> QED
    BY <2>1 DEF LogHolds, BudgetHolds, Logged, Stored
<1>3. InvocationsHold(r)'
  <2>1. RowsOf({r})' = RowsOf({r})
    BY DEF RowsOf, Known
  <2>2. \A i \in RowsOf({r}) : invocations'[i] = invocations[i] /\ usage'[i] = usage[i]
    BY DEF RowsOf
  <2>3. Identified(r)' = Identified(r) /\ Ended(r)' = Ended(r)
    BY <2>1, <2>2 DEF Identified, Ended, Running, Known
  <2>4. Heard(r)' = Heard(r)
    BY <2>1, <2>2 DEF Heard
  <2>5. Reported(r)' = Reported(r)
    BY <2>1, <2>2 DEF Reported
  <2> QED
    BY <2>1, <2>3, <2>4, <2>5 DEF LogHolds, InvocationsHold, Logged
<1> QED
  BY <1>1, <1>2, <1>3 DEF LogHolds

LEMMA UsageUntouched ==
  ASSUME NEW i \in Invocations, UsageHolds(i), Stored(i[1]) => Stored(i[1])',
         invocations'[i] = invocations[i], usage'[i] = usage[i]
  PROVE  UsageHolds(i)'
<1>1. Reports(i)' = Reports(i)
  BY DEF Reports
<1>2. {usage'[i][k] : k \in Reports(i)} = {usage[i][k] : k \in Reports(i)}
  OBVIOUS
<1> QED
  BY <1>1, <1>2 DEF UsageHolds, Known, Running

\* A row keeps its columns.
LEMMA RunRowKept ==
  ASSUME TypeOK, NEW r \in Runs, Stored(r)
  PROVE  /\ runs[r] \in RunRow /\ runs[r].last = Len(events[r]) /\ runs[r].last \in Nat \ {0}
         /\ runs[r].stage \in {"scheduled"} \cup Stages \cup TerminalRunStages
         /\ runs[r].terminal \in BOOLEAN /\ runs[r].target \in Targets \cup {None}
         /\ runs[r].window \in Windows \cup {None} /\ runs[r].kind \in Kinds
BY DEF TypeOK, Stored, RunRow

LEMMA InvocationRowKept ==
  ASSUME TypeOK, NEW i \in Invocations, Known(i)
  PROVE  /\ invocations[i] \in InvocationRow
         /\ invocations[i].state \in {"starting", "running"} \cup TerminalModelStates
         /\ invocations[i].identity \in {"unknown", "matched", "mismatch"}
         /\ invocations[i].heard \in [Sources -> 0 .. MaxTime]
BY DEF TypeOK, Known, InvocationRow

-------------------------------------------------------------------------------
\* A write about a run: its row and its events.

\* How the row must change with the event, and what the other runs keep.
LEMMA RunWriteKeeps ==
  ASSUME TelemetryInv, NEW r \in Runs, Stored(r), NEW row \in RunRow,
         NEW type \in {"event", "state", "candidate_selected", "cleanup", "run_finished"},
         UpdateRun(r, type, row),
         row.window = runs[r].window,
         runs[r].terminal = FALSE,
         row.terminal = (type = "run_finished"),
         row.terminal = FALSE <=> row.stage \notin TerminalRunStages,
         IF type = "candidate_selected" THEN row.target # None ELSE row.target = runs[r].target
  PROVE  TypeOK' /\ (\A o \in Runs : LogHolds(o)') /\ (\A i \in Invocations : UsageHolds(i)')
<1> DEFINE new == [row EXCEPT !.last = runs[r].last + 1]
<1>1. /\ runs' = [runs EXCEPT ![r] = new] /\ AppendEvent(r, type)
      /\ UNCHANGED <<projections, invocations, usage, page>>
  BY DEF UpdateRun
<1>2. TypeOK /\ LogHolds(r) /\ type \in EventTypes /\ runs \in [Runs -> RunRow \cup {None}]
  BY DEF TelemetryInv, EventTypes, TypeOK
<1>3. /\ new \in RunRow /\ new.last = runs[r].last + 1 /\ new.window = row.window
      /\ new.terminal = row.terminal /\ new.stage = row.stage /\ new.target = row.target
  BY <1>2, RunRowKept DEF RunRow
<1> HIDE DEF new
<1>4. /\ runs'[r] = new /\ runs' \in [Runs -> RunRow \cup {None}]
      /\ \A o \in Runs \ {r} : runs'[o] = runs[o]
  BY <1>1, <1>2, <1>3
<1>5. /\ events' \in [Runs -> Seq(EventTypes)]
      /\ \A o \in Runs \ {r} : events'[o] = events[o]
      /\ Len(events'[r]) = Len(events[r]) + 1 /\ Len(events[r]) \in Nat
      /\ \A n \in 1 .. Len(events[r]) : events'[r][n] = events[r][n]
      /\ \A t \in EventTypes :
           /\ Logged(r, t) \in Nat
           /\ Logged(r, t)' = Logged(r, t) + (IF t = type THEN 1 ELSE 0)
  BY <1>1, <1>2, Appended DEF Logged
<1>6. runs[r].last = Len(events[r]) /\ runs[r].last \in Nat \ {0}
  BY <1>2, RunRowKept
<1>7. Stored(r)' /\ \A o \in Runs \ {r} : Stored(o)' <=> Stored(o)
  BY <1>3, <1>4, NoneIsNotARow DEF Stored
<1>8. TypeOK'
  <2>1. ASSUME NEW o \in Runs
        PROVE  IF Stored(o)' THEN runs'[o].last = Len(events'[o]) ELSE events'[o] = <<>>
    <3>1. CASE o = r
      BY <3>1, <1>3, <1>4, <1>5, <1>6, <1>7
    <3>2. CASE o # r
      BY <3>2, <1>2, <1>4, <1>5, <1>7 DEF TypeOK
    <3> QED
      BY <3>1, <3>2
  <2> QED
    BY <2>1, <1>1, <1>2, <1>4, <1>5 DEF TypeOK
<1>9. LogHolds(r)'
  <2>1. RunAgrees(r)'
    <3>1. RunAgrees(r) /\ Open(r) /\ ~(Open(r)' <=> new.terminal)
      BY <1>2, <1>3, <1>4, <1>7, RunRowKept DEF LogHolds, Open, RunRow
    <3>2. events'[r][1] = "run_started" /\ Logged(r, "run_started")' = 1
      <4>1. events[r][1] = "run_started" /\ Logged(r, "run_started") = 1
        BY <3>1 DEF RunAgrees
      <4>2. "run_started" \in EventTypes /\ "run_started" # type /\ 1 \in 1 .. Len(events[r])
        BY <1>5, <1>6 DEF EventTypes
      <4> QED
        BY <4>1, <4>2, <1>5
    <3>3. Logged(r, "run_finished")' = IF ~Open(r)' THEN 1 ELSE 0
      <4>1. Logged(r, "run_finished") = 0
        BY <3>1 DEF RunAgrees
      <4>2. Logged(r, "run_finished")' = IF type = "run_finished" THEN 1 ELSE 0
        BY <4>1, <1>5 DEF EventTypes
      <4> QED
        BY <4>2, <3>1, <1>3
    <3>4. Open(r)' <=> new.stage \notin TerminalRunStages
      BY <3>1, <1>3 DEF RunRow
    <3>5. Logged(r, "candidate_selected")' > 0 <=> new.target # None
      <4>1. Logged(r, "candidate_selected") > 0 <=> runs[r].target # None
        BY <3>1 DEF RunAgrees
      <4>2. CASE type = "candidate_selected"
        BY <4>2, <1>3, <1>5 DEF EventTypes
      <4>3. CASE type # "candidate_selected"
        BY <4>1, <4>3, <1>3, <1>5 DEF EventTypes
      <4> QED
        BY <4>2, <4>3
    <3> QED
      BY <3>2, <3>3, <3>4, <3>5, <1>4, <1>7 DEF RunAgrees
  <2>2. ASSUME NEW t \in {"model_started", "model_checkin", "model_finished", "model_heartbeat",
                          "model_usage", "budget_reserved"}
        PROVE  Logged(r, t)' = Logged(r, t)
    <3>1. t \in EventTypes /\ t # type
      BY DEF EventTypes
    <3> QED
      BY <3>1, <1>5
  <2>3. InvocationsHold(r)'
    <3>1. /\ RowsOf({r})' = RowsOf({r}) /\ Identified(r)' = Identified(r) /\ Ended(r)' = Ended(r)
          /\ Heard(r)' = Heard(r) /\ Reported(r)' = Reported(r)
      BY <1>1 DEF RowsOf, Known, Identified, Ended, Running, Heard, Reported
    <3> QED
      BY <3>1, <2>2, <1>2 DEF LogHolds, InvocationsHold
  <2>4. BudgetHolds(r)'
    <3>1. Made(r)' = Made(r) /\ Over(r)' = Over(r)
      BY <1>1 DEF Made, Over
    <3> QED
      BY <3>1, <2>2, <1>1, <1>2, <1>3, <1>4, <1>7 DEF LogHolds, BudgetHolds
  <2> QED
    BY <2>1, <2>3, <2>4 DEF LogHolds
<1>10. ASSUME NEW o \in Runs PROVE LogHolds(o)'
  <2>1. CASE o # r
    BY <2>1, <1>1, <1>4, <1>5, Untouched DEF TelemetryInv
  <2> QED
    BY <2>1, <1>9
<1>11. ASSUME NEW i \in Invocations PROVE UsageHolds(i)'
  <2>1. i[1] \in Runs /\ UsageHolds(i)
    BY DEF TelemetryInv, Invocations
  <2> QED
    BY <2>1, <1>1, <1>7, UsageUntouched
<1> QED
  BY <1>8, <1>10, <1>11

\* The writes about a run that has started, each with the row that it writes.
LEMMA RunWritesKeep ==
  ASSUME TelemetryInv, NEW r \in Runs,
         \/ RecordEvent(r)
         \/ \E stage \in Stages : TransitionRun(r, stage)
         \/ \E target \in Targets : SetRunTarget(r, target)
         \/ \E cleanup \in Cleanups : SetCleanupStatus(r, cleanup)
         \/ \E stage \in TerminalRunStages, given \in Cleanups \cup {None} :
              FinishRun(r, stage, given)
  PROVE  TypeOK' /\ (\A o \in Runs : LogHolds(o)') /\ (\A i \in Invocations : UsageHolds(i)')
<1>1. TypeOK /\ Open(r) /\ Stored(r)
  BY DEF TelemetryInv, Open, RecordEvent, TransitionRun, SetRunTarget, SetCleanupStatus, FinishRun
<1>2. runs[r] \in RunRow /\ runs[r].terminal = FALSE
  BY <1>1, RunRowKept DEF Open
<1>3. runs[r].stage \notin TerminalRunStages
  BY <1>1 DEF TelemetryInv, LogHolds, RunAgrees
<1>4. CASE RecordEvent(r)
  BY <1>1, <1>2, <1>3, <1>4, RunWriteKeeps DEF RecordEvent
<1>5. ASSUME NEW stage \in Stages, TransitionRun(r, stage)
      PROVE  TypeOK' /\ (\A o \in Runs : LogHolds(o)') /\ (\A i \in Invocations : UsageHolds(i)')
  <2> DEFINE row == [runs[r] EXCEPT !.stage = stage]
  <2>1. /\ row \in RunRow /\ row.stage = stage /\ row.terminal = FALSE
        /\ row.window = runs[r].window /\ row.target = runs[r].target
    BY <1>2 DEF RunRow
  <2>2. stage \notin TerminalRunStages
    BY TelemetryAssumption
  <2>3. UpdateRun(r, "state", row)
    BY <1>5 DEF TransitionRun
  <2> HIDE DEF row
  <2> QED
    BY <1>1, <1>2, <2>1, <2>2, <2>3, RunWriteKeeps
<1>6. ASSUME NEW target \in Targets, SetRunTarget(r, target)
      PROVE  TypeOK' /\ (\A o \in Runs : LogHolds(o)') /\ (\A i \in Invocations : UsageHolds(i)')
  <2> DEFINE row == [runs[r] EXCEPT !.target = target]
  <2>1. /\ row \in RunRow /\ row.stage = runs[r].stage /\ row.terminal = FALSE
        /\ row.window = runs[r].window /\ row.target = target
    BY <1>2 DEF RunRow
  <2>2. target # None
    BY TelemetryAssumption
  <2>3. UpdateRun(r, "candidate_selected", row)
    BY <1>6 DEF SetRunTarget
  <2> HIDE DEF row
  <2> QED
    BY <1>1, <1>2, <1>3, <2>1, <2>2, <2>3, RunWriteKeeps
<1>7. ASSUME NEW cleanup \in Cleanups, SetCleanupStatus(r, cleanup)
      PROVE  TypeOK' /\ (\A o \in Runs : LogHolds(o)') /\ (\A i \in Invocations : UsageHolds(i)')
  <2> DEFINE row == [runs[r] EXCEPT !.cleanup = cleanup]
  <2>1. /\ row \in RunRow /\ row.stage = runs[r].stage /\ row.terminal = FALSE
        /\ row.window = runs[r].window /\ row.target = runs[r].target
    BY <1>2 DEF RunRow
  <2>2. UpdateRun(r, "cleanup", row)
    BY <1>7 DEF SetCleanupStatus
  <2> HIDE DEF row
  <2> QED
    BY <1>1, <1>2, <1>3, <2>1, <2>2, RunWriteKeeps
<1>8. ASSUME NEW stage \in TerminalRunStages, NEW given \in Cleanups \cup {None},
             FinishRun(r, stage, given)
      PROVE  TypeOK' /\ (\A o \in Runs : LogHolds(o)') /\ (\A i \in Invocations : UsageHolds(i)')
  <2> DEFINE cleanup == IF given = None THEN runs[r].cleanup ELSE given
             row == [runs[r] EXCEPT !.stage = stage, !.terminal = TRUE, !.cleanup = cleanup]
  <2>0. cleanup \in {"not_started"} \cup Cleanups
    BY <1>2 DEF RunRow
  <2>1. Outcome(r, stage, given) = row
    BY DEF Outcome
  <2> HIDE DEF cleanup
  <2>2. /\ row.stage = stage /\ row.terminal = TRUE
        /\ row.window = runs[r].window /\ row.target = runs[r].target
    BY <1>2 DEF RunRow
  <2>3. row \in RunRow
    BY <1>2, <2>0 DEF RunRow
  <2>4. UpdateRun(r, "run_finished", row)
    BY <1>8, <2>1 DEF FinishRun
  <2> HIDE DEF row
  <2> QED
    BY <1>1, <1>2, <2>2, <2>3, <2>4, RunWriteKeeps
<1> QED
  BY <1>4, <1>5, <1>6, <1>7, <1>8

\* A run that starts has a row, one event, and nothing else.
LEMMA StartRunKeeps ==
  ASSUME TelemetryInv, NEW r \in Runs, NEW kind \in Kinds, StartRun(r, kind)
  PROVE  TypeOK' /\ (\A o \in Runs : LogHolds(o)') /\ (\A i \in Invocations : UsageHolds(i)')
<1> DEFINE new == [kind |-> kind, stage |-> "scheduled", terminal |-> FALSE, target |-> None,
                   window |-> None, cleanup |-> "not_started", last |-> 1]
<1>1. /\ ~Stored(r) /\ runs' = [runs EXCEPT ![r] = new] /\ AppendEvent(r, "run_started")
      /\ UNCHANGED <<projections, invocations, usage, page>>
  BY DEF StartRun
<1>2. /\ TypeOK /\ LogHolds(r) /\ runs \in [Runs -> RunRow \cup {None}]
      /\ events[r] = <<>> /\ Len(<<>>) = 0
  BY <1>1 DEF TelemetryInv, TypeOK
<1>3. new \in RunRow /\ new.stage \notin TerminalRunStages
  BY TelemetryAssumption DEF RunRow
<1>4. /\ runs'[r] = new /\ runs' \in [Runs -> RunRow \cup {None}]
      /\ \A o \in Runs \ {r} : runs'[o] = runs[o]
  BY <1>1, <1>2, <1>3
<1>5. /\ events' \in [Runs -> Seq(EventTypes)]
      /\ \A o \in Runs \ {r} : events'[o] = events[o]
      /\ Len(events'[r]) = 1 /\ events'[r][1] = "run_started"
      /\ \A t \in EventTypes :
           /\ Logged(r, t) \in Nat
           /\ Logged(r, t)' = Logged(r, t) + (IF t = "run_started" THEN 1 ELSE 0)
  <2>1. "run_started" \in EventTypes
    BY DEF EventTypes
  <2>2. Len(events[r]) = 0
    BY <1>2
  <2>3. /\ events' \in [Runs -> Seq(EventTypes)]
        /\ \A o \in Runs \ {r} : events'[o] = events[o]
        /\ Len(events'[r]) = Len(events[r]) + 1
        /\ events'[r][Len(events[r]) + 1] = "run_started"
    BY <1>1, <1>2, <2>1, Appended
  <2>4. \A t \in EventTypes :
          /\ Logged(r, t) \in Nat
          /\ Logged(r, t)' = Logged(r, t) + (IF t = "run_started" THEN 1 ELSE 0)
    BY <1>1, <1>2, <2>1, Appended DEF Logged
  <2> QED
    BY <2>2, <2>3, <2>4
<1>6. Stored(r)' /\ \A o \in Runs \ {r} : Stored(o)' <=> Stored(o)
  BY <1>3, <1>4, NoneIsNotARow DEF Stored
<1>7. TypeOK'
  <2>1. ASSUME NEW o \in Runs
        PROVE  IF Stored(o)' THEN runs'[o].last = Len(events'[o]) ELSE events'[o] = <<>>
    <3>1. CASE o = r
      BY <3>1, <1>4, <1>5, <1>6
    <3>2. CASE o # r
      BY <3>2, <1>2, <1>4, <1>5, <1>6 DEF TypeOK
    <3> QED
      BY <3>1, <3>2
  <2> HIDE DEF new
  <2> QED
    BY <2>1, <1>1, <1>2, <1>4, <1>5 DEF TypeOK
<1>8. \A t \in EventTypes \ {"run_started"} : Logged(r, t)' = Logged(r, t)
  BY <1>5
<1>9. LogHolds(r)'
  <2>1. RunAgrees(r)'
    <3>1. Logged(r, "run_started") = 0
      <4>1. {n \in DOMAIN <<>> : <<>>[n] = "run_started"} = {}
        OBVIOUS
      <4> QED
        BY <4>1, <1>2, FS_EmptySet DEF Logged, Count
    <3>2. Logged(r, "run_started")' = 1
      BY <3>1, <1>5 DEF EventTypes
    <3>3. Logged(r, "run_finished")' = 0 /\ ~(Logged(r, "candidate_selected")' > 0)
      <4>1. Logged(r, "run_finished") = 0 /\ ~(Logged(r, "candidate_selected") > 0)
        BY <1>1, <1>2 DEF LogHolds, RunAgrees
      <4> QED
        BY <4>1, <1>8 DEF EventTypes
    <3> QED
      BY <3>2, <3>3, <1>3, <1>4, <1>5, <1>6 DEF RunAgrees, Open
  <2>2. InvocationsHold(r)'
    <3>1. /\ RowsOf({r})' = RowsOf({r}) /\ Identified(r)' = Identified(r) /\ Ended(r)' = Ended(r)
          /\ Heard(r)' = Heard(r) /\ Reported(r)' = Reported(r)
      BY <1>1 DEF RowsOf, Known, Identified, Ended, Running, Heard, Reported
    <3> QED
      BY <3>1, <1>2, <1>8 DEF LogHolds, InvocationsHold, EventTypes
  <2>3. BudgetHolds(r)'
    <3>1. projections'[r] = <<>> /\ Made(r)' = Made(r) /\ Over(r)' = Over(r)
      BY <1>1, <1>2 DEF LogHolds, BudgetHolds, Made, Over
    <3> QED
      BY <3>1, <1>2, <1>6, <1>8 DEF LogHolds, BudgetHolds, EventTypes
  <2> QED
    BY <2>1, <2>2, <2>3 DEF LogHolds
<1>10. ASSUME NEW o \in Runs PROVE LogHolds(o)'
  <2>1. CASE o # r
    BY <2>1, <1>1, <1>4, <1>5, Untouched DEF TelemetryInv
  <2> QED
    BY <2>1, <1>9
<1>11. ASSUME NEW i \in Invocations PROVE UsageHolds(i)'
  <2>1. i[1] \in Runs /\ UsageHolds(i)
    BY DEF TelemetryInv, Invocations
  <2> QED
    BY <2>1, <1>1, <1>6, UsageUntouched
<1> QED
  BY <1>7, <1>10, <1>11

\* A projection: the run is bound to its window, and a reservation is made
\* once, ends at most once, and after it was made.
LEMMA ProjectionKeeps ==
  ASSUME TelemetryInv, NEW r \in Runs, NEW state \in ReservationStates, NEW window \in Windows,
         RecordBudgetProjection(r, state, window)
  PROVE  TypeOK' /\ (\A o \in Runs : LogHolds(o)') /\ (\A i \in Invocations : UsageHolds(i)')
<1> DEFINE row == [runs[r] EXCEPT !.window = window]
           new == [row EXCEPT !.last = @ + 1]
           type == IF state = "snapshot" THEN "budget_observed" ELSE "budget_reserved"
           projection == [state |-> state, window |-> window]
<1>1. /\ Stored(r) /\ runs[r].window \in {None, window} /\ MayFollow(r, state)
      /\ projections' = [projections EXCEPT ![r] = Append(@, projection)]
      /\ runs' = [runs EXCEPT ![r] = new] /\ AppendEvent(r, type)
      /\ UNCHANGED <<invocations, usage, page>>
  BY DEF RecordBudgetProjection, Project
<1>2. /\ TypeOK /\ LogHolds(r) /\ runs \in [Runs -> RunRow \cup {None}]
      /\ projections \in [Runs -> Seq([state : ReservationStates, window : Windows])]
      /\ type \in {"budget_observed", "budget_reserved"} /\ type \in EventTypes
  BY DEF TelemetryInv, TypeOK, EventTypes
<1>3. /\ new \in RunRow /\ new.last = runs[r].last + 1 /\ new.window = window
      /\ new.terminal = runs[r].terminal /\ new.stage = runs[r].stage
      /\ new.target = runs[r].target
  <2>1. runs[r] \in RunRow
    BY <1>1, <1>2, RunRowKept
  <2>2. /\ row \in RunRow /\ row.last = runs[r].last /\ row.window = window
        /\ row.terminal = runs[r].terminal /\ row.stage = runs[r].stage
        /\ row.target = runs[r].target
    BY <2>1 DEF RunRow
  <2> HIDE DEF row
  <2> QED
    BY <2>2 DEF RunRow
<1> HIDE DEF new
<1>4. /\ runs'[r] = new /\ runs' \in [Runs -> RunRow \cup {None}]
      /\ \A o \in Runs \ {r} : runs'[o] = runs[o]
  BY <1>1, <1>2, <1>3
<1>5. /\ events' \in [Runs -> Seq(EventTypes)]
      /\ \A o \in Runs \ {r} : events'[o] = events[o]
      /\ Len(events'[r]) = Len(events[r]) + 1 /\ Len(events[r]) \in Nat
      /\ \A n \in 1 .. Len(events[r]) : events'[r][n] = events[r][n]
      /\ \A t \in EventTypes :
           /\ Logged(r, t) \in Nat
           /\ Logged(r, t)' = Logged(r, t) + (IF t = type THEN 1 ELSE 0)
  BY <1>1, <1>2, Appended DEF Logged
<1>6. runs[r].last = Len(events[r]) /\ runs[r].last \in Nat \ {0}
  BY <1>1, <1>2, RunRowKept
<1>7. Stored(r)' /\ \A o \in Runs \ {r} : Stored(o)' <=> Stored(o)
  BY <1>3, <1>4, NoneIsNotARow DEF Stored
<1>8. /\ projections'[r] = Append(projections[r], projection)
      /\ projection \in [state : ReservationStates, window : Windows]
      /\ projections' \in [Runs -> Seq([state : ReservationStates, window : Windows])]
      /\ \A o \in Runs \ {r} : projections'[o] = projections[o]
  <2>1. projection \in [state : ReservationStates, window : Windows]
    OBVIOUS
  <2>2. projections[r] \in Seq([state : ReservationStates, window : Windows])
    BY <1>2
  <2> HIDE DEF projection
  <2>3. Append(projections[r], projection) \in Seq([state : ReservationStates, window : Windows])
    BY <2>1, <2>2
  <2> QED
    BY <2>1, <2>3, <1>1, <1>2
<1>9. TypeOK'
  <2>1. ASSUME NEW o \in Runs
        PROVE  IF Stored(o)' THEN runs'[o].last = Len(events'[o]) ELSE events'[o] = <<>>
    <3>1. CASE o = r
      BY <3>1, <1>3, <1>4, <1>5, <1>6, <1>7
    <3>2. CASE o # r
      BY <3>2, <1>2, <1>4, <1>5, <1>7 DEF TypeOK
    <3> QED
      BY <3>1, <3>2
  <2> QED
    BY <2>1, <1>1, <1>2, <1>4, <1>5, <1>8 DEF TypeOK
<1>10. ASSUME NEW t \in EventTypes \ {"budget_observed", "budget_reserved"}
       PROVE  Logged(r, t)' = Logged(r, t)
  BY <1>2, <1>5
<1>11. RunAgrees(r)'
  <2>1. RunAgrees(r)
    BY <1>2 DEF LogHolds
  <2>2. Open(r)' <=> Open(r)
    BY <1>1, <1>3, <1>4, <1>7 DEF Open
  <2>3. events'[r][1] = events[r][1]
    BY <1>5, <1>6
  <2>4. /\ Logged(r, "run_started")' = Logged(r, "run_started")
        /\ Logged(r, "run_finished")' = Logged(r, "run_finished")
        /\ Logged(r, "candidate_selected")' = Logged(r, "candidate_selected")
    BY <1>10 DEF EventTypes
  <2> QED
    BY <2>1, <2>2, <2>3, <2>4, <1>1, <1>3, <1>4, <1>7 DEF RunAgrees
<1>12. InvocationsHold(r)'
  <2>1. /\ RowsOf({r})' = RowsOf({r}) /\ Identified(r)' = Identified(r) /\ Ended(r)' = Ended(r)
        /\ Heard(r)' = Heard(r) /\ Reported(r)' = Reported(r)
    BY <1>1 DEF RowsOf, Known, Identified, Ended, Running, Heard, Reported
  <2> QED
    BY <2>1, <1>2, <1>10 DEF LogHolds, InvocationsHold, EventTypes
<1>13. BudgetHolds(r)'
  <2> DEFINE N == Len(projections[r])
  <2>1. /\ N \in Nat /\ DOMAIN projections[r] = 1 .. N /\ DOMAIN projections'[r] = 1 .. (N + 1)
        /\ \A n \in 1 .. N : projections'[r][n] = projections[r][n]
        /\ projections'[r][N + 1] = projection
        /\ projection.state = state /\ projection.window = window
        /\ \A n \in 1 .. N : projections[r][n] \in [state : ReservationStates, window : Windows]
    <3>1. projections[r] \in Seq([state : ReservationStates, window : Windows])
      BY <1>2
    <3>2. projection.state = state /\ projection.window = window
      OBVIOUS
    <3> HIDE DEF projection
    <3>3. /\ N \in Nat /\ DOMAIN projections[r] = 1 .. N
          /\ \A n \in 1 .. N : projections[r][n] \in [state : ReservationStates, window : Windows]
      BY <3>1, ElementsOf
    <3>4. /\ DOMAIN projections'[r] = 1 .. (N + 1) /\ projections'[r][N + 1] = projection
          /\ \A n \in 1 .. N : projections'[r][n] = projections[r][n]
      BY <3>1, <1>8
    <3> QED
      BY <3>2, <3>3, <3>4
  <2> HIDE DEF N, projection
  <2>2. BudgetHolds(r)
    BY <1>2 DEF LogHolds
  <2>3. \A n \in DOMAIN projections'[r] : projections'[r][n].window = runs'[r].window
    <3>1. ASSUME NEW n \in 1 .. N PROVE projections[r][n].window = window
      <4>1. projections[r][n].window = runs[r].window /\ projections[r][n].window \in Windows
        BY <2>1, <2>2 DEF BudgetHolds
      <4> QED
        BY <4>1, <1>1, TelemetryAssumption
    <3> QED
      BY <3>1, <2>1, <1>3, <1>4
  <2>4. \A n \in 1 .. N : n \in Made(r) \/ n \in Over(r) \/ projections[r][n].state = "snapshot"
    <3>1. \A n \in 1 .. N : projections[r][n].state \in ReservationStates
      BY <2>1
    <3> QED
      BY <3>1, <2>1 DEF Made, Over, ReservationStates
  <2>5. /\ IsFiniteSet(Made(r)) /\ IsFiniteSet(Over(r))
        /\ N + 1 \notin Made(r) /\ N + 1 \notin Over(r)
        /\ Cardinality(Made(r)) \in Nat /\ Cardinality(Over(r)) \in Nat
    <3>0. IsFiniteSet(1 .. N)
      BY <2>1, FS_Interval
    <3>1. Made(r) \subseteq 1 .. N /\ Over(r) \subseteq 1 .. N
      BY <2>1 DEF Made, Over
    <3>2. IsFiniteSet(Made(r)) /\ IsFiniteSet(Over(r))
      BY <3>0, <3>1, FS_Subset
    <3> QED
      BY <3>1, <3>2, <2>1, FS_CardinalityType
  <2>6. CASE state = "snapshot"
    <3>1. Made(r)' = Made(r) /\ Over(r)' = Over(r)
      BY <2>1, <2>6 DEF Made, Over
    <3>2. Logged(r, "budget_reserved")' = Logged(r, "budget_reserved")
      BY <1>5, <2>6 DEF EventTypes
    <3> QED
      BY <3>1, <3>2, <2>2, <2>3, <1>7 DEF BudgetHolds
  <2>7. state # "snapshot" => Logged(r, "budget_reserved")' = Logged(r, "budget_reserved") + 1
    BY <1>5 DEF EventTypes
  <2>8. CASE state = "reserved"
    <3>1. Held(r) = {}
      BY <1>1, <2>8 DEF MayFollow
    <3>2. Made(r) = {} /\ Over(r) = {}
      BY <3>1 DEF Held, Made, Over
    <3>3. Made(r)' = {N + 1} /\ Over(r)' = {}
      BY <3>2, <2>1, <2>8 DEF Made, Over
    <3>4. Cardinality({N + 1}) = 1 /\ Cardinality({}) = 0
      BY FS_Singleton, FS_EmptySet
    <3>5. Logged(r, "budget_reserved")' = 1
      BY <3>2, <3>4, <2>2, <2>7, <2>8 DEF BudgetHolds
    <3> QED
      BY <3>3, <3>4, <3>5, <2>3, <1>7 DEF BudgetHolds
  <2>9. CASE state \in {"released", "committed"}
    <3>1. PICK n \in Held(r) :
            projections[r][n].state = "reserved" /\ \A m \in Held(r) : m <= n
      BY <1>1, <2>9 DEF MayFollow
    <3>2. n \in Made(r) /\ n \in 1 .. N
      BY <3>1, <2>1 DEF Held, Made
    <3>3. Over(r) = {}
      <4> SUFFICES ASSUME NEW o \in Over(r) PROVE FALSE
        OBVIOUS
      <4>1. o \in Held(r) /\ o \in 1 .. N
        BY <2>1 DEF Over, Held
      <4>2. n < o
        BY <3>2, <2>2 DEF BudgetHolds
      <4> QED
        BY <4>1, <4>2, <3>1, <3>2, <2>1
    <3>4. Made(r)' = Made(r) /\ Over(r)' = {N + 1}
      BY <3>3, <2>1, <2>9 DEF Made, Over
    <3>5. Cardinality({N + 1}) = 1 /\ Cardinality({}) = 0
      BY FS_Singleton, FS_EmptySet
    <3>6. Logged(r, "budget_reserved")' = Cardinality(Made(r)) + 1
      BY <3>3, <3>5, <2>2, <2>5, <2>7, <2>9 DEF BudgetHolds
    <3>7. n < N + 1
      BY <3>2, <2>1
    <3> QED
      BY <3>2, <3>4, <3>5, <3>6, <3>7, <2>2, <2>3, <1>7 DEF BudgetHolds
  <2> QED
    BY <2>6, <2>8, <2>9 DEF ReservationStates
<1>14. ASSUME NEW o \in Runs PROVE LogHolds(o)'
  <2>1. CASE o # r
    BY <2>1, <1>1, <1>4, <1>5, <1>8, Untouched DEF TelemetryInv
  <2> QED
    BY <2>1, <1>11, <1>12, <1>13 DEF LogHolds
<1>15. ASSUME NEW i \in Invocations PROVE UsageHolds(i)'
  <2>1. i[1] \in Runs /\ UsageHolds(i)
    BY DEF TelemetryInv, Invocations
  <2> QED
    BY <2>1, <1>1, <1>7, UsageUntouched
<1> QED
  BY <1>9, <1>14, <1>15

-------------------------------------------------------------------------------
\* A write about an invocation.

\* What every one of them does to its run and to the log.
LEMMA InvocationEventKeeps ==
  ASSUME TypeOK, NEW i \in Invocations, RunAgrees(i[1]), Stored(i[1]),
         NEW type \in {"model_started", "model_checkin", "model_heartbeat", "model_usage",
                       "model_finished"},
         InvocationEvent(i, type), projections' = projections
  PROVE  /\ i[1] \in Runs
         /\ runs' \in [Runs -> RunRow \cup {None}] /\ events' \in [Runs -> Seq(EventTypes)]
         /\ \A o \in Runs \ {i[1]} : runs'[o] = runs[o] /\ events'[o] = events[o]
         /\ \A o \in Runs : Stored(o)' <=> Stored(o)
         /\ \A o \in Runs :
              IF Stored(o)' THEN runs'[o].last = Len(events'[o]) ELSE events'[o] = <<>>
         /\ \A t \in EventTypes :
              /\ Logged(i[1], t) \in Nat
              /\ Logged(i[1], t)' = Logged(i[1], t) + (IF t = type THEN 1 ELSE 0)
         /\ RunAgrees(i[1])'
         /\ runs'[i[1]].window = runs[i[1]].window
<1> DEFINE r == i[1]
           new == [runs[r] EXCEPT !.last = @ + 1]
<1>1. r \in Runs /\ type \in EventTypes
  BY DEF Invocations, EventTypes
<1>2. runs' = [runs EXCEPT ![r] = new] /\ AppendEvent(r, type)
  BY DEF InvocationEvent
<1>3. runs[r] \in RunRow /\ runs[r].last = Len(events[r]) /\ runs[r].last \in Nat \ {0}
  BY <1>1, RunRowKept
<1> HIDE DEF r
<1>4. /\ new \in RunRow /\ new.last = runs[r].last + 1 /\ new.window = runs[r].window
      /\ new.terminal = runs[r].terminal /\ new.stage = runs[r].stage
      /\ new.target = runs[r].target
  BY <1>3 DEF RunRow
<1> HIDE DEF new
<1>5. /\ runs'[r] = new /\ runs' \in [Runs -> RunRow \cup {None}]
      /\ \A o \in Runs \ {r} : runs'[o] = runs[o]
  BY <1>1, <1>2, <1>4 DEF TypeOK
<1>6. /\ events' \in [Runs -> Seq(EventTypes)]
      /\ \A o \in Runs \ {r} : events'[o] = events[o]
      /\ Len(events'[r]) = Len(events[r]) + 1 /\ Len(events[r]) \in Nat
      /\ \A n \in 1 .. Len(events[r]) : events'[r][n] = events[r][n]
      /\ \A t \in EventTypes :
           /\ Logged(r, t) \in Nat
           /\ Logged(r, t)' = Logged(r, t) + (IF t = type THEN 1 ELSE 0)
  BY <1>1, <1>2, Appended DEF Logged
<1>7. Stored(r)' /\ Stored(r) /\ \A o \in Runs \ {r} : Stored(o)' <=> Stored(o)
  <2>1. Stored(r)
    BY DEF r
  <2> QED
    BY <2>1, <1>4, <1>5, NoneIsNotARow DEF Stored
<1>8. ASSUME NEW o \in Runs
      PROVE  IF Stored(o)' THEN runs'[o].last = Len(events'[o]) ELSE events'[o] = <<>>
  <2>1. CASE o = r
    BY <2>1, <1>3, <1>4, <1>5, <1>6, <1>7
  <2>2. CASE o # r
    BY <2>2, <1>5, <1>6, <1>7 DEF TypeOK
  <2> QED
    BY <2>1, <2>2
<1>9. RunAgrees(r)'
  <2>1. RunAgrees(r)
    BY DEF r
  <2>2. Open(r)' <=> Open(r)
    BY <1>4, <1>5, <1>7 DEF Open
  <2>3. events'[r][1] = events[r][1]
    BY <1>3, <1>6
  <2>4. ASSUME NEW t \in {"run_started", "run_finished", "candidate_selected"}
        PROVE  Logged(r, t)' = Logged(r, t)
    <3>1. t \in EventTypes /\ t # type
      BY DEF EventTypes
    <3> QED
      BY <3>1, <1>6
  <2> QED
    BY <2>1, <2>2, <2>3, <2>4, <1>4, <1>5, <1>7 DEF RunAgrees
<1> QED
  BY <1>1, <1>4, <1>5, <1>6, <1>7, <1>8, <1>9 DEF r

\* The budget of a run is not touched by what happens to its invocations.
LEMMA BudgetUntouched ==
  ASSUME NEW r \in Runs, BudgetHolds(r), projections' = projections, Stored(r)' <=> Stored(r),
         runs'[r].window = runs[r].window,
         Logged(r, "budget_reserved")' = Logged(r, "budget_reserved")
  PROVE  BudgetHolds(r)'
<1>1. Made(r)' = Made(r) /\ Over(r)' = Over(r)
  BY DEF Made, Over
<1> QED
  BY <1>1 DEF BudgetHolds

\* It remains to show, of each such write, that the invocation's row is still
\* what the events say.
LEMMA InvocationWriteKeeps ==
  ASSUME TelemetryInv, NEW i \in Invocations, Stored(i[1]), NEW row \in InvocationRow,
         invocations' = [invocations EXCEPT ![i] = row],
         usage' \in [Invocations -> [RequestKeys -> Usages \cup {None}]],
         \A j \in Invocations \ {i} : usage'[j] = usage[j],
         projections' = projections, page' = page,
         \/ UNCHANGED <<runs, events>>
         \/ \E type \in {"model_started", "model_checkin", "model_heartbeat", "model_usage",
                         "model_finished"} : InvocationEvent(i, type),
         InvocationsHold(i[1])', UsageHolds(i)'
  PROVE  TypeOK' /\ (\A o \in Runs : LogHolds(o)') /\ (\A j \in Invocations : UsageHolds(j)')
<1>1. /\ i[1] \in Runs /\ TypeOK /\ LogHolds(i[1])
      /\ invocations \in [Invocations -> InvocationRow \cup {None}]
  BY DEF TelemetryInv, Invocations, TypeOK
<1>2. /\ runs' \in [Runs -> RunRow \cup {None}] /\ events' \in [Runs -> Seq(EventTypes)]
      /\ \A o \in Runs \ {i[1]} : runs'[o] = runs[o] /\ events'[o] = events[o]
      /\ \A o \in Runs : Stored(o)' <=> Stored(o)
      /\ \A o \in Runs :
           IF Stored(o)' THEN runs'[o].last = Len(events'[o]) ELSE events'[o] = <<>>
      /\ RunAgrees(i[1])' /\ BudgetHolds(i[1])'
  <2>1. CASE UNCHANGED <<runs, events>>
    <3>1. RunAgrees(i[1])'
      BY <2>1, <1>1 DEF LogHolds, RunAgrees, Logged, Stored, Open
    <3>2. BudgetHolds(i[1])'
      BY <2>1, <1>1, BudgetUntouched DEF LogHolds, Stored, Logged
    <3> QED
      BY <2>1, <3>1, <3>2, <1>1 DEF TypeOK, Stored
  <2>2. ASSUME NEW type \in {"model_started", "model_checkin", "model_heartbeat", "model_usage",
                             "model_finished"}, InvocationEvent(i, type)
        PROVE  /\ runs' \in [Runs -> RunRow \cup {None}] /\ events' \in [Runs -> Seq(EventTypes)]
               /\ \A o \in Runs \ {i[1]} : runs'[o] = runs[o] /\ events'[o] = events[o]
               /\ \A o \in Runs : Stored(o)' <=> Stored(o)
               /\ \A o \in Runs :
                    IF Stored(o)' THEN runs'[o].last = Len(events'[o]) ELSE events'[o] = <<>>
               /\ RunAgrees(i[1])' /\ BudgetHolds(i[1])'
    <3>1. RunAgrees(i[1]) /\ BudgetHolds(i[1])
      BY <1>1 DEF LogHolds
    <3>2. /\ runs' \in [Runs -> RunRow \cup {None}] /\ events' \in [Runs -> Seq(EventTypes)]
          /\ \A o \in Runs \ {i[1]} : runs'[o] = runs[o] /\ events'[o] = events[o]
          /\ \A o \in Runs : Stored(o)' <=> Stored(o)
          /\ \A o \in Runs :
               IF Stored(o)' THEN runs'[o].last = Len(events'[o]) ELSE events'[o] = <<>>
          /\ RunAgrees(i[1])' /\ runs'[i[1]].window = runs[i[1]].window
      BY <2>2, <3>1, <1>1, InvocationEventKeeps
    <3>3. Logged(i[1], "budget_reserved")' = Logged(i[1], "budget_reserved")
      <4>1. \A t \in EventTypes :
              /\ Logged(i[1], t) \in Nat
              /\ Logged(i[1], t)' = Logged(i[1], t) + (IF t = type THEN 1 ELSE 0)
        BY <2>2, <3>1, <1>1, InvocationEventKeeps
      <4>2. "budget_reserved" \in EventTypes /\ "budget_reserved" # type
        BY DEF EventTypes
      <4> QED
        BY <4>1, <4>2
    <3>4. BudgetHolds(i[1])'
      BY <3>1, <3>2, <3>3, <1>1, BudgetUntouched
    <3> QED
      BY <3>2, <3>4
  <2> QED
    BY <2>1, <2>2
<1>3. TypeOK'
  BY <1>1, <1>2 DEF TypeOK
<1>4. ASSUME NEW o \in Runs PROVE LogHolds(o)'
  <2>1. CASE o = i[1]
    BY <2>1, <1>2 DEF LogHolds
  <2>2. CASE o # i[1]
    <3>1. \A j \in Invocations :
            j[1] = o => invocations'[j] = invocations[j] /\ usage'[j] = usage[j]
      BY <2>2, <1>1
    <3> QED
      BY <2>2, <3>1, <1>2, Untouched DEF TelemetryInv
  <2> QED
    BY <2>1, <2>2
<1>5. ASSUME NEW j \in Invocations PROVE UsageHolds(j)'
  <2>1. CASE j # i
    <3>1. j[1] \in Runs /\ UsageHolds(j) /\ invocations'[j] = invocations[j]
      BY <2>1, <1>1 DEF TelemetryInv, Invocations
    <3> QED
      BY <2>1, <3>1, <1>2, UsageUntouched
  <2> QED
    BY <2>1
<1> QED
  BY <1>3, <1>4, <1>5

\* The counts of an invocation's run after a write that touches its row, by
\* what the write adds to what is counted.
LEMMA CountsKept ==
  ASSUME NEW r \in Runs, InvocationsHold(r),
         NEW type \in {"model_checkin", "model_heartbeat", "model_usage", "model_finished"},
         \A t \in EventTypes :
           /\ Logged(r, t) \in Nat
           /\ Logged(r, t)' = Logged(r, t) + (IF t = type THEN 1 ELSE 0),
         RowsOf({r})' = RowsOf({r}),
         NEW i \in RowsOf({r}), NEW heard, NEW key,
         IF type = "model_checkin" THEN i \notin Identified(r)
             /\ Identified(r)' = Identified(r) \cup {i}
         ELSE Identified(r)' = Identified(r),
         IF type = "model_finished" THEN i \notin Ended(r) /\ Ended(r)' = Ended(r) \cup {i}
         ELSE Ended(r)' = Ended(r),
         IF type = "model_heartbeat" THEN Heard(r)' \subseteq Heard(r) \cup {heard}
         ELSE Heard(r)' = Heard(r),
         IF type = "model_usage"
         THEN key \notin Reported(r) /\ Reported(r)' = Reported(r) \cup {key}
         ELSE Reported(r)' = Reported(r)
  PROVE  InvocationsHold(r)'
<1>1. /\ IsFiniteSet(RowsOf({r})) /\ IsFiniteSet(Heard(r)) /\ IsFiniteSet(Reported(r))
      /\ Logged(r, "model_started") = Cardinality(RowsOf({r}))
      /\ Logged(r, "model_checkin") = Cardinality(Identified(r))
      /\ Logged(r, "model_finished") = Cardinality(Ended(r))
      /\ Logged(r, "model_heartbeat") >= Cardinality(Heard(r))
      /\ Logged(r, "model_usage") = Cardinality(Reported(r))
  BY DEF InvocationsHold
<1>2. /\ Logged(r, "model_started")' = Logged(r, "model_started")
      /\ type # "model_checkin" => Logged(r, "model_checkin")' = Logged(r, "model_checkin")
      /\ type # "model_finished" => Logged(r, "model_finished")' = Logged(r, "model_finished")
      /\ type # "model_heartbeat" => Logged(r, "model_heartbeat")' = Logged(r, "model_heartbeat")
      /\ type # "model_usage" => Logged(r, "model_usage")' = Logged(r, "model_usage")
      /\ Logged(r, type)' = Logged(r, type) + 1
  <2>1. ASSUME NEW t \in EventTypes, t # type PROVE Logged(r, t)' = Logged(r, t)
    BY <2>1
  <2>2. type \in EventTypes
    BY DEF EventTypes
  <2> QED
    BY <2>1, <2>2 DEF EventTypes
<1>3. IsFiniteSet(Identified(r)) /\ IsFiniteSet(Ended(r))
  <2>1. Identified(r) \subseteq RowsOf({r}) /\ Ended(r) \subseteq RowsOf({r})
    BY DEF Identified, Ended
  <2> QED
    BY <1>1, <2>1, FS_Subset
<1>4. Logged(r, "model_checkin")' = Cardinality(Identified(r)')
  BY <1>1, <1>2, <1>3, FS_AddElement
<1>5. Logged(r, "model_finished")' = Cardinality(Ended(r)')
  BY <1>1, <1>2, <1>3, FS_AddElement
<1>6. IsFiniteSet(Reported(r)') /\ Logged(r, "model_usage")' = Cardinality(Reported(r)')
  BY <1>1, <1>2, FS_AddElement
<1>7. IsFiniteSet(Heard(r)') /\ Logged(r, "model_heartbeat")' >= Cardinality(Heard(r)')
  <2>1. CASE type # "model_heartbeat"
    BY <2>1, <1>1, <1>2
  <2>2. CASE type = "model_heartbeat"
    <3>1. /\ IsFiniteSet(Heard(r) \cup {heard}) /\ Cardinality(Heard(r)) \in Nat
          /\ Cardinality(Heard(r) \cup {heard}) <= Cardinality(Heard(r)) + 1
      BY <1>1, CardinalityWithOneMore
    <3>2. /\ IsFiniteSet(Heard(r)') /\ Cardinality(Heard(r)') \in Nat
          /\ Cardinality(Heard(r) \cup {heard}) \in Nat
          /\ Cardinality(Heard(r)') <= Cardinality(Heard(r) \cup {heard})
      BY <2>2, <3>1, FS_Subset, FS_CardinalityType
    <3>3. /\ Logged(r, "model_heartbeat")' = Logged(r, "model_heartbeat") + 1
          /\ Logged(r, "model_heartbeat") \in Nat
      BY <1>2, <2>2 DEF EventTypes
    <3> QED
      BY <3>1, <3>2, <3>3, <1>1
  <2> QED
    BY <2>1, <2>2
<1> QED
  BY <1>1, <1>2, <1>4, <1>5, <1>6, <1>7 DEF InvocationsHold

\* An invocation whose row is written again is one of the same rows.
LEMMA SameRows ==
  ASSUME TypeOK, NEW i \in Invocations, Known(i), NEW row \in InvocationRow,
         invocations' = [invocations EXCEPT ![i] = row]
  PROVE  /\ invocations'[i] = row /\ Known(i)'
         /\ \A j \in Invocations \ {i} : invocations'[j] = invocations[j]
         /\ i \in RowsOf({i[1]}) /\ RowsOf({i[1]})' = RowsOf({i[1]})
         /\ invocations[i] \in InvocationRow
<1>1. /\ invocations \in [Invocations -> InvocationRow \cup {None}]
      /\ invocations[i] \in InvocationRow
  BY InvocationRowKept DEF TypeOK
<1>2. invocations'[i] = row /\ \A j \in Invocations \ {i} : invocations'[j] = invocations[j]
  BY <1>1
<1>3. Known(i)' /\ \A j \in Invocations : Known(j)' <=> Known(j)
  BY <1>2, NoneIsNotARow DEF Known
<1> QED
  BY <1>1, <1>2, <1>3 DEF RowsOf

LEMMA CheckinKeeps ==
  ASSUME TelemetryInv, NEW i \in Invocations, NEW identity \in {"matched", "mismatch"},
         RecordModelCheckin(i, identity)
  PROVE  TypeOK' /\ (\A o \in Runs : LogHolds(o)') /\ (\A j \in Invocations : UsageHolds(j)')
<1> DEFINE r == i[1]
           row == [invocations[i] EXCEPT !.identity = identity, !.state = "running"]
<1>1. /\ r \in Runs /\ TypeOK /\ LogHolds(r) /\ UsageHolds(i) /\ Known(i) /\ Running(i) /\ Stored(r)
      /\ invocations[i] \in InvocationRow /\ invocations[i].identity = "unknown"
      /\ usage \in [Invocations -> [RequestKeys -> Usages \cup {None}]]
  BY InvocationRowKept DEF TelemetryInv, Invocations, RecordModelCheckin, Running,
    UsageHolds, TypeOK
<1>2. /\ row.identity = identity /\ row.state = "running" /\ row.heard = invocations[i].heard
      /\ row.usage_status = invocations[i].usage_status
  BY <1>1 DEF InvocationRow
<1>3. row \in InvocationRow
  BY <1>1 DEF InvocationRow
<1>4. /\ invocations' = [invocations EXCEPT ![i] = row] /\ InvocationEvent(i, "model_checkin")
      /\ UNCHANGED <<projections, usage, page>>
  BY <1>1 DEF RecordModelCheckin, TypeOK
<1> HIDE DEF row
<1>5. /\ invocations'[i] = row /\ Known(i)'
      /\ \A j \in Invocations \ {i} : invocations'[j] = invocations[j]
      /\ i \in RowsOf({r}) /\ RowsOf({r})' = RowsOf({r})
  BY <1>1, <1>3, <1>4, SameRows
<1>6. Running(i)'
  BY <1>2, <1>5 DEF Running, TerminalModelStates
<1>7. InvocationsHold(r)'
  <2>1. \A t \in EventTypes :
          /\ Logged(r, t) \in Nat
          /\ Logged(r, t)' = Logged(r, t) + (IF t = "model_checkin" THEN 1 ELSE 0)
    BY <1>1, <1>4, InvocationEventKeeps DEF LogHolds
  <2>2. i \notin Identified(r) /\ Identified(r)' = Identified(r) \cup {i}
    BY <1>1, <1>2, <1>5 DEF Identified, RowsOf
  <2>3. Ended(r)' = Ended(r)
    BY <1>1, <1>5, <1>6 DEF Ended, RowsOf, Running, Known
  <2>4. Heard(r)' = Heard(r) /\ Reported(r)' = Reported(r)
    BY <1>2, <1>4, <1>5 DEF Heard, Reported, RowsOf
  <2> QED
    BY <1>1, <1>5, <2>1, <2>2, <2>3, <2>4, CountsKept DEF LogHolds
<1>8. UsageHolds(i)'
  <2>1. Reports(i)' = Reports(i)
        /\ {usage'[i][k] : k \in Reports(i)} = {usage[i][k] : k \in Reports(i)}
    BY <1>4 DEF Reports
  <2>2. Stored(r)'
    BY <1>1, <1>4, InvocationEventKeeps DEF LogHolds
  <2> QED
    BY <1>1, <1>2, <1>5, <1>6, <2>1, <2>2 DEF UsageHolds
<1> QED
  BY <1>1, <1>3, <1>4, <1>7, <1>8, InvocationWriteKeeps

LEMMA HeartbeatKeeps ==
  ASSUME TelemetryInv, NEW i \in Invocations, NEW source \in Sources, NEW time \in 1 .. MaxTime,
         HeartbeatModel(i, source, time)
  PROVE  TypeOK' /\ (\A o \in Runs : LogHolds(o)') /\ (\A j \in Invocations : UsageHolds(j)')
<1> DEFINE r == i[1]
           heard == [invocations[i].heard EXCEPT ![source] = time]
           row == [invocations[i] EXCEPT !.heard = heard, !.state = "running"]
<1>1. /\ r \in Runs /\ TypeOK /\ LogHolds(r) /\ UsageHolds(i) /\ Known(i) /\ Running(i) /\ Stored(r)
      /\ invocations[i] \in InvocationRow /\ invocations[i].heard \in [Sources -> 0 .. MaxTime]
      /\ usage \in [Invocations -> [RequestKeys -> Usages \cup {None}]] /\ MaxTime \in Nat
  BY InvocationRowKept, TelemetryAssumption
    DEF TelemetryInv, Invocations, HeartbeatModel, Running, UsageHolds, TypeOK
<1>2. heard \in [Sources -> 0 .. MaxTime] /\ heard[source] = time /\ time > 0
      /\ \A s \in Sources \ {source} : heard[s] = invocations[i].heard[s]
  BY <1>1
<1> HIDE DEF heard
<1>3. /\ row.identity = invocations[i].identity /\ row.state = "running" /\ row.heard = heard
      /\ row.usage_status = invocations[i].usage_status
  BY <1>1 DEF InvocationRow
<1>4. row \in InvocationRow
  BY <1>1, <1>2 DEF InvocationRow
<1>5. /\ invocations' = [invocations EXCEPT ![i] = row]
      /\ UNCHANGED <<projections, usage, page>>
  BY <1>1 DEF HeartbeatModel, TypeOK, heard
<1>6. \/ InvocationEvent(i, "model_heartbeat")
      \/ UNCHANGED <<runs, events>> /\ invocations[i].heard[source] # 0
  BY DEF HeartbeatModel
<1> HIDE DEF row
<1>7. /\ invocations'[i] = row /\ Known(i)'
      /\ \A j \in Invocations \ {i} : invocations'[j] = invocations[j]
      /\ i \in RowsOf({r}) /\ RowsOf({r})' = RowsOf({r})
  BY <1>1, <1>4, <1>5, SameRows
<1>8. Running(i)'
  BY <1>3, <1>7 DEF Running, TerminalModelStates
<1>9. /\ Identified(r)' = Identified(r) /\ Ended(r)' = Ended(r) /\ Reported(r)' = Reported(r)
  <2>1. Identified(r)' = Identified(r)
    BY <1>3, <1>7 DEF Identified, RowsOf
  <2>2. Ended(r)' = Ended(r)
    BY <1>1, <1>7, <1>8 DEF Ended, RowsOf, Running, Known
  <2> QED
    BY <2>1, <2>2, <1>5, <1>7 DEF Reported
<1>10. Heard(r)' \subseteq Heard(r) \cup {<<i, source>>}
  BY <1>1, <1>2, <1>3, <1>7 DEF Heard, RowsOf
<1>11. invocations[i].heard[source] # 0 => Heard(r)' = Heard(r)
  <2> SUFFICES ASSUME invocations[i].heard[source] # 0 PROVE Heard(r)' = Heard(r)
    OBVIOUS
  <2>1. invocations[i].heard[source] > 0
    BY <1>1
  <2>2. \A j \in RowsOf({r}), s \in Sources :
          invocations'[j].heard[s] > 0 <=> invocations[j].heard[s] > 0
    BY <2>1, <1>1, <1>2, <1>3, <1>7 DEF RowsOf
  <2> QED
    BY <2>2, <1>7 DEF Heard
<1>12. InvocationsHold(r)'
  <2>1. CASE InvocationEvent(i, "model_heartbeat")
    <3>1. \A t \in EventTypes :
            /\ Logged(r, t) \in Nat
            /\ Logged(r, t)' = Logged(r, t) + (IF t = "model_heartbeat" THEN 1 ELSE 0)
      BY <2>1, <1>1, <1>5, InvocationEventKeeps DEF LogHolds
    <3> QED
      BY <1>1, <1>7, <1>9, <1>10, <3>1, CountsKept DEF LogHolds
  <2>2. CASE UNCHANGED <<runs, events>> /\ invocations[i].heard[source] # 0
    BY <2>2, <1>1, <1>7, <1>9, <1>11 DEF LogHolds, InvocationsHold, Logged
  <2> QED
    BY <2>1, <2>2, <1>6
<1>13. UsageHolds(i)'
  <2>1. Reports(i)' = Reports(i)
        /\ {usage'[i][k] : k \in Reports(i)} = {usage[i][k] : k \in Reports(i)}
    BY <1>5 DEF Reports
  <2>2. Stored(r)'
    <3>1. CASE InvocationEvent(i, "model_heartbeat")
      BY <3>1, <1>1, <1>5, InvocationEventKeeps DEF LogHolds
    <3>2. CASE UNCHANGED <<runs, events>>
      BY <3>2, <1>1 DEF Stored
    <3> QED
      BY <3>1, <3>2, <1>6
  <2> QED
    BY <1>1, <1>3, <1>7, <1>8, <2>1, <2>2 DEF UsageHolds
<1> QED
  BY <1>1, <1>4, <1>5, <1>6, <1>12, <1>13, InvocationWriteKeeps

LEMMA UsageReportKeeps ==
  ASSUME TelemetryInv, NEW i \in Invocations, NEW key \in RequestKeys, NEW report \in Usages,
         RecordModelUsage(i, key, report)
  PROVE  TypeOK' /\ (\A o \in Runs : LogHolds(o)') /\ (\A j \in Invocations : UsageHolds(j)')
<1> DEFINE r == i[1]
           told == UsageStatus({usage'[i][k] : k \in Reports(i) \cup {key}})
           row == [invocations[i] EXCEPT !.usage_status = told]
<1>1. /\ r \in Runs /\ TypeOK /\ LogHolds(r) /\ UsageHolds(i) /\ Known(i) /\ Running(i) /\ Stored(r)
      /\ invocations[i] \in InvocationRow /\ usage[i][key] = None /\ report # None
      /\ usage \in [Invocations -> [RequestKeys -> Usages \cup {None}]]
  BY InvocationRowKept, TelemetryAssumption
    DEF TelemetryInv, Invocations, RecordModelUsage, Running, UsageHolds, TypeOK
<1>2. told \in {"pending", "exact", "estimated", "partial", "unavailable"}
  BY DEF UsageStatus
<1>3. invocations' = [invocations EXCEPT ![i] = row]
  BY <1>1 DEF RecordModelUsage, TypeOK
<1>4. /\ usage' = [usage EXCEPT ![i][key] = report]
      /\ InvocationEvent(i, "model_usage") /\ UNCHANGED <<projections, page>>
  BY DEF RecordModelUsage
<1>5. /\ usage' \in [Invocations -> [RequestKeys -> Usages \cup {None}]]
      /\ \A j \in Invocations \ {i} : usage'[j] = usage[j]
      /\ usage'[i][key] = report /\ \A k \in RequestKeys \ {key} : usage'[i][k] = usage[i][k]
  BY <1>1, <1>4
<1>6. Reports(i)' = Reports(i) \cup {key}
  BY <1>1, <1>5 DEF Reports
<1>7. told = UsageStatus({usage'[i][k] : k \in Reports(i)'})
  BY <1>6
<1> HIDE DEF told
<1>8. /\ row.identity = invocations[i].identity /\ row.state = invocations[i].state
      /\ row.heard = invocations[i].heard /\ row.usage_status = told
  BY <1>1 DEF InvocationRow
<1>9. row \in InvocationRow
  BY <1>1, <1>2 DEF InvocationRow
<1> HIDE DEF row
<1>10. /\ invocations'[i] = row /\ Known(i)'
       /\ \A j \in Invocations \ {i} : invocations'[j] = invocations[j]
       /\ i \in RowsOf({r}) /\ RowsOf({r})' = RowsOf({r})
  BY <1>1, <1>3, <1>9, SameRows
<1>11. Running(i)'
  BY <1>1, <1>8, <1>10 DEF Running
<1>12. InvocationsHold(r)'
  <2>1. \A t \in EventTypes :
          /\ Logged(r, t) \in Nat
          /\ Logged(r, t)' = Logged(r, t) + (IF t = "model_usage" THEN 1 ELSE 0)
    BY <1>1, <1>4, InvocationEventKeeps DEF LogHolds
  <2>2. Identified(r)' = Identified(r) /\ Heard(r)' = Heard(r)
    BY <1>8, <1>10 DEF Identified, Heard, RowsOf
  <2>3. Ended(r)' = Ended(r)
    BY <1>1, <1>10, <1>11 DEF Ended, RowsOf, Running, Known
  <2>4. <<i, key>> \notin Reported(r) /\ Reported(r)' = Reported(r) \cup {<<i, key>>}
    BY <1>1, <1>5, <1>10 DEF Reported, RowsOf
  <2> QED
    BY <1>1, <1>10, <2>1, <2>2, <2>3, <2>4, CountsKept DEF LogHolds
<1>13. UsageHolds(i)'
  <2>1. Stored(r)'
    BY <1>1, <1>4, InvocationEventKeeps DEF LogHolds
  <2> QED
    BY <1>1, <1>6, <1>7, <1>8, <1>10, <2>1 DEF UsageHolds
<1> QED
  BY <1>1, <1>3, <1>4, <1>5, <1>9, <1>12, <1>13, InvocationWriteKeeps

LEMMA FinishInvocationKeeps ==
  ASSUME TelemetryInv, NEW i \in Invocations, NEW state \in TerminalModelStates,
         FinishModelInvocation(i, state)
  PROVE  TypeOK' /\ (\A o \in Runs : LogHolds(o)') /\ (\A j \in Invocations : UsageHolds(j)')
<1> DEFINE r == i[1]
           told == IF invocations[i].usage_status = "pending" THEN "unavailable"
                   ELSE invocations[i].usage_status
           row == [invocations[i] EXCEPT !.state = state, !.usage_status = told]
<1>1. /\ r \in Runs /\ TypeOK /\ LogHolds(r) /\ UsageHolds(i) /\ Known(i) /\ Running(i) /\ Stored(r)
      /\ invocations[i] \in InvocationRow
      /\ state = "succeeded" => invocations[i].identity # "mismatch"
      /\ usage \in [Invocations -> [RequestKeys -> Usages \cup {None}]]
  BY InvocationRowKept DEF TelemetryInv, Invocations, FinishModelInvocation, Running,
    UsageHolds, TypeOK
<1>2. told \in {"pending", "exact", "estimated", "partial", "unavailable"}
  BY <1>1 DEF InvocationRow
<1>3. /\ invocations' = [invocations EXCEPT ![i] = row] /\ InvocationEvent(i, "model_finished")
      /\ UNCHANGED <<projections, usage, page>>
  BY <1>1 DEF FinishModelInvocation, TypeOK
<1>4. told = IF Reports(i) = {} THEN "unavailable"
             ELSE UsageStatus({usage[i][k] : k \in Reports(i)})
  <2>1. Reports(i) # {} => {usage[i][k] : k \in Reports(i)} # {}
    OBVIOUS
  <2>2. Reports(i) # {} => UsageStatus({usage[i][k] : k \in Reports(i)}) # "pending"
    BY <2>1 DEF UsageStatus
  <2> QED
    BY <2>2, <1>1 DEF UsageHolds
<1> HIDE DEF told
<1>5. /\ row.identity = invocations[i].identity /\ row.state = state
      /\ row.heard = invocations[i].heard /\ row.usage_status = told
  BY <1>1 DEF InvocationRow
<1>6. row \in InvocationRow
  BY <1>1, <1>2 DEF InvocationRow
<1> HIDE DEF row
<1>7. /\ invocations'[i] = row /\ Known(i)'
      /\ \A j \in Invocations \ {i} : invocations'[j] = invocations[j]
      /\ i \in RowsOf({r}) /\ RowsOf({r})' = RowsOf({r})
  BY <1>1, <1>3, <1>6, SameRows
<1>8. ~Running(i)'
  BY <1>5, <1>7 DEF Running
<1>9. InvocationsHold(r)'
  <2>1. \A t \in EventTypes :
          /\ Logged(r, t) \in Nat
          /\ Logged(r, t)' = Logged(r, t) + (IF t = "model_finished" THEN 1 ELSE 0)
    BY <1>1, <1>3, InvocationEventKeeps DEF LogHolds
  <2>2. /\ Identified(r)' = Identified(r) /\ Heard(r)' = Heard(r) /\ Reported(r)' = Reported(r)
    BY <1>3, <1>5, <1>7 DEF Identified, Heard, Reported, RowsOf
  <2>3. i \notin Ended(r) /\ Ended(r)' = Ended(r) \cup {i}
    BY <1>1, <1>7, <1>8 DEF Ended, RowsOf, Running, Known
  <2> QED
    BY <1>1, <1>7, <2>1, <2>2, <2>3, CountsKept DEF LogHolds
<1>10. UsageHolds(i)'
  <2>1. Reports(i)' = Reports(i)
        /\ {usage'[i][k] : k \in Reports(i)} = {usage[i][k] : k \in Reports(i)}
    BY <1>3 DEF Reports
  <2>2. Stored(r)'
    BY <1>1, <1>3, InvocationEventKeeps DEF LogHolds
  <2> QED
    BY <1>1, <1>4, <1>5, <1>7, <1>8, <2>1, <2>2 DEF UsageHolds
<1> QED
  BY <1>1, <1>3, <1>6, <1>9, <1>10, InvocationWriteKeeps

LEMMA StartInvocationKeeps ==
  ASSUME TelemetryInv, NEW i \in Invocations, StartModelInvocation(i)
  PROVE  TypeOK' /\ (\A o \in Runs : LogHolds(o)') /\ (\A j \in Invocations : UsageHolds(j)')
<1> DEFINE r == i[1]
           unheard == [s \in Sources |-> 0]
           row == [state |-> "starting", identity |-> "unknown", usage_status |-> "pending",
                   heard |-> unheard]
<1>1. /\ r \in Runs /\ TypeOK /\ LogHolds(r) /\ UsageHolds(i) /\ ~Known(i) /\ Stored(r)
      /\ usage \in [Invocations -> [RequestKeys -> Usages \cup {None}]]
      /\ invocations \in [Invocations -> InvocationRow \cup {None}]
  BY DEF TelemetryInv, Invocations, StartModelInvocation, Open, TypeOK
<1>2. unheard \in [Sources -> 0 .. MaxTime]
  BY TelemetryAssumption
<1>3. row \in InvocationRow
  BY <1>2 DEF InvocationRow
<1>4. /\ invocations' = [invocations EXCEPT ![i] = row] /\ InvocationEvent(i, "model_started")
      /\ UNCHANGED <<projections, usage, page>>
  BY DEF StartModelInvocation
<1>5. /\ invocations'[i] = row /\ Known(i)' /\ Running(i)'
      /\ \A j \in Invocations \ {i} : invocations'[j] = invocations[j]
  <2>1. invocations'[i] = row /\ \A j \in Invocations \ {i} : invocations'[j] = invocations[j]
    BY <1>1, <1>4
  <2>2. row # None /\ row.state \notin TerminalModelStates
    BY <1>3, NoneIsNotARow DEF TerminalModelStates
  <2> QED
    BY <2>1, <2>2 DEF Known, Running
<1>6. Reports(i) = {} /\ Reports(i)' = {}
  BY <1>1, <1>4 DEF UsageHolds, Reports
<1>7. i \notin RowsOf({r}) /\ RowsOf({r})' = RowsOf({r}) \cup {i}
  BY <1>1, <1>5 DEF RowsOf, Known
<1>8. \A j \in RowsOf({r}) : invocations'[j] = invocations[j]
  BY <1>5, <1>7 DEF RowsOf
<1>9. InvocationsHold(r)'
  <2>1. \A t \in EventTypes :
          /\ Logged(r, t) \in Nat
          /\ Logged(r, t)' = Logged(r, t) + (IF t = "model_started" THEN 1 ELSE 0)
    BY <1>1, <1>4, InvocationEventKeeps DEF LogHolds
  <2>2. /\ Logged(r, "model_started")' = Logged(r, "model_started") + 1
        /\ \A t \in EventTypes \ {"model_started"} : Logged(r, t)' = Logged(r, t)
    BY <2>1 DEF EventTypes
  <2>3. Identified(r)' = Identified(r)
    BY <1>5, <1>7, <1>8 DEF Identified
  <2>4. Ended(r)' = Ended(r)
    BY <1>5, <1>7, <1>8 DEF Ended, Running, Known
  <2>5. Heard(r)' = Heard(r)
    BY <1>5, <1>7, <1>8 DEF Heard
  <2>6. Reported(r)' = Reported(r)
    BY <1>4, <1>6, <1>7 DEF Reported, Reports
  <2>7. InvocationsHold(r)
    BY <1>1 DEF LogHolds
  <2>8. IsFiniteSet(RowsOf({r})') /\ Cardinality(RowsOf({r})') = Cardinality(RowsOf({r})) + 1
    BY <2>7, <1>7, FS_AddElement DEF InvocationsHold
  <2> QED
    BY <2>2, <2>3, <2>4, <2>5, <2>6, <2>7, <2>8 DEF InvocationsHold, EventTypes
<1>10. UsageHolds(i)'
  <2>1. Stored(r)'
    BY <1>1, <1>4, InvocationEventKeeps DEF LogHolds
  <2> QED
    BY <1>5, <1>6, <2>1 DEF UsageHolds
<1> QED
  BY <1>1, <1>3, <1>4, <1>9, <1>10, InvocationWriteKeeps

-------------------------------------------------------------------------------
\* What a write never takes back, and so what a page gathered earlier still is.

\* A row that replaces another of the same run.
Succeeds(new, old) ==
  /\ new.kind = old.kind
  /\ old.window # None => new.window = old.window
  /\ old.target # None => new.target = old.target
  /\ old.terminal = TRUE =>
       new.terminal = TRUE /\ new.stage = old.stage /\ new.cleanup = old.cleanup
         /\ new.target = old.target

RunsGrow ==
  \A r \in Runs : Stored(r) => Stored(r)' /\ Succeeds(runs'[r], runs[r])

EventsGrow ==
  \A r \in Runs :
    /\ Len(events[r]) <= Len(events'[r])
    /\ \A n \in 1 .. Len(events[r]) : events'[r][n] = events[r][n]

InvocationsGrow ==
  \A i \in Invocations :
    /\ Known(i) => Known(i)' /\ (~Running(i) => ~Running(i)')
    /\ \A k \in RequestKeys : usage[i][k] # None => usage'[i][k] = usage[i][k]

LEMMA EventsOnlyAppended ==
  ASSUME TypeOK, NEW r \in Runs, NEW type \in EventTypes, AppendEvent(r, type)
  PROVE  EventsGrow
<1>1. ASSUME NEW o \in Runs
      PROVE  /\ Len(events[o]) <= Len(events'[o])
             /\ \A n \in 1 .. Len(events[o]) : events'[o][n] = events[o][n]
  <2>1. Len(events[o]) \in Nat
    BY DEF TypeOK
  <2>2. /\ events'[o] = events[o] \/ o = r
        /\ Len(events'[r]) = Len(events[r]) + 1
        /\ \A n \in 1 .. Len(events[r]) : events'[r][n] = events[r][n]
    BY Appended
  <2> QED
    BY <2>1, <2>2
<1> QED
  BY <1>1 DEF EventsGrow

\* A run's row is replaced by one of the same kind, and of the same window
\* once it has one.
LEMMA RunWritesGrow ==
  ASSUME TelemetryInv, NEW r \in Runs, RunWrite(r)
  PROVE  RunsGrow /\ EventsGrow /\ InvocationsGrow
<1>1. TypeOK /\ runs \in [Runs -> RunRow \cup {None}]
  BY DEF TelemetryInv, TypeOK
<1>2. ASSUME NEW row \in RunRow, NEW type \in EventTypes, AppendEvent(r, type),
             runs' = [runs EXCEPT ![r] = row], UNCHANGED <<invocations, usage>>,
             Stored(r) => Succeeds(row, runs[r])
      PROVE  RunsGrow /\ EventsGrow /\ InvocationsGrow
  <2>1. /\ runs'[r] = row /\ \A o \in Runs \ {r} : runs'[o] = runs[o]
    BY <1>1, <1>2
  <2>2. RunsGrow
    BY <1>1, <1>2, <2>1, NoneIsNotARow DEF RunsGrow, Stored, Succeeds
  <2>3. InvocationsGrow
    BY <1>2 DEF InvocationsGrow, Known, Running
  <2> QED
    BY <1>1, <1>2, <2>2, <2>3, EventsOnlyAppended
<1>3. ASSUME NEW kind \in Kinds, StartRun(r, kind)
      PROVE  RunsGrow /\ EventsGrow /\ InvocationsGrow
  <2> DEFINE row == [kind |-> kind, stage |-> "scheduled", terminal |-> FALSE, target |-> None,
                     window |-> None, cleanup |-> "not_started", last |-> 1]
  <2>1. row \in RunRow
    BY DEF RunRow
  <2>2. /\ ~Stored(r) /\ runs' = [runs EXCEPT ![r] = row] /\ AppendEvent(r, "run_started")
        /\ UNCHANGED <<invocations, usage>> /\ "run_started" \in EventTypes
    BY <1>3 DEF StartRun, EventTypes
  <2> HIDE DEF row
  <2> QED
    BY <2>1, <2>2, <1>2
<1>4. ASSUME NEW row \in RunRow, NEW type \in EventTypes, UpdateRun(r, type, row), Open(r),
             row.kind = runs[r].kind, row.window = runs[r].window,
             runs[r].target # None => row.target = runs[r].target
      PROVE  RunsGrow /\ EventsGrow /\ InvocationsGrow
  <2> DEFINE new == [row EXCEPT !.last = runs[r].last + 1]
  <2>1. /\ new \in RunRow /\ new.kind = row.kind /\ new.window = row.window
        /\ new.target = row.target
    BY <1>1, <1>4, RunRowKept DEF RunRow, Open
  <2>2. /\ runs' = [runs EXCEPT ![r] = new] /\ AppendEvent(r, type)
        /\ UNCHANGED <<invocations, usage>>
    BY <1>4 DEF UpdateRun
  <2> HIDE DEF new
  <2> QED
    BY <1>2, <1>4, <2>1, <2>2 DEF Succeeds, Open
<1>5. CASE RecordEvent(r)
  BY <1>1, <1>4, <1>5, RunRowKept DEF RecordEvent, Open, EventTypes
<1>6. ASSUME NEW stage \in Stages, TransitionRun(r, stage)
      PROVE  RunsGrow /\ EventsGrow /\ InvocationsGrow
  <2> DEFINE row == [runs[r] EXCEPT !.stage = stage]
  <2>1. Open(r) /\ UpdateRun(r, "state", row) /\ "state" \in EventTypes
    BY <1>6 DEF TransitionRun, Open, EventTypes
  <2>2. /\ row \in RunRow /\ row.kind = runs[r].kind /\ row.window = runs[r].window
        /\ row.target = runs[r].target
    BY <1>1, <2>1, RunRowKept DEF RunRow, Open
  <2> HIDE DEF row
  <2> QED
    BY <2>1, <2>2, <1>4
<1>7. ASSUME NEW target \in Targets, SetRunTarget(r, target)
      PROVE  RunsGrow /\ EventsGrow /\ InvocationsGrow
  <2> DEFINE row == [runs[r] EXCEPT !.target = target]
  <2>1. /\ Open(r) /\ runs[r].target \in {None, target} /\ UpdateRun(r, "candidate_selected", row)
        /\ "candidate_selected" \in EventTypes
    BY <1>7 DEF SetRunTarget, Open, EventTypes
  <2>2. /\ row \in RunRow /\ row.kind = runs[r].kind /\ row.window = runs[r].window
        /\ runs[r].target # None => row.target = runs[r].target
    BY <1>1, <2>1, RunRowKept DEF RunRow, Open
  <2> HIDE DEF row
  <2> QED
    BY <2>1, <2>2, <1>4
<1>8. ASSUME NEW cleanup \in Cleanups, SetCleanupStatus(r, cleanup)
      PROVE  RunsGrow /\ EventsGrow /\ InvocationsGrow
  <2> DEFINE row == [runs[r] EXCEPT !.cleanup = cleanup]
  <2>1. Open(r) /\ UpdateRun(r, "cleanup", row) /\ "cleanup" \in EventTypes
    BY <1>8 DEF SetCleanupStatus, Open, EventTypes
  <2>2. /\ row \in RunRow /\ row.kind = runs[r].kind /\ row.window = runs[r].window
        /\ row.target = runs[r].target
    BY <1>1, <2>1, RunRowKept DEF RunRow, Open
  <2> HIDE DEF row
  <2> QED
    BY <2>1, <2>2, <1>4
<1>9. ASSUME NEW stage \in TerminalRunStages, NEW given \in Cleanups \cup {None},
             FinishRun(r, stage, given)
      PROVE  RunsGrow /\ EventsGrow /\ InvocationsGrow
  <2> DEFINE cleanup == IF given = None THEN runs[r].cleanup ELSE given
             row == [runs[r] EXCEPT !.stage = stage, !.terminal = TRUE, !.cleanup = cleanup]
  <2>1. Open(r) /\ UpdateRun(r, "run_finished", row) /\ "run_finished" \in EventTypes
    BY <1>9 DEF FinishRun, Outcome, Open, EventTypes
  <2>2. runs[r] \in RunRow
    BY <1>1, <2>1, RunRowKept DEF Open
  <2>3. cleanup \in {"not_started"} \cup Cleanups
    BY <2>2 DEF RunRow
  <2> HIDE DEF cleanup
  <2>4. row.kind = runs[r].kind /\ row.window = runs[r].window /\ row.target = runs[r].target
    BY <2>2 DEF RunRow
  <2>5. row \in RunRow
    BY <2>2, <2>3 DEF RunRow
  <2> HIDE DEF row
  <2> QED
    BY <2>1, <2>4, <2>5, <1>4
<1>10. ASSUME NEW state \in ReservationStates, NEW window \in Windows,
              RecordBudgetProjection(r, state, window)
       PROVE  RunsGrow /\ EventsGrow /\ InvocationsGrow
  <2> DEFINE row == [runs[r] EXCEPT !.window = window]
             new == [row EXCEPT !.last = @ + 1]
             type == IF state = "snapshot" THEN "budget_observed" ELSE "budget_reserved"
  <2>1. /\ Stored(r) /\ runs[r].window \in {None, window}
        /\ runs' = [runs EXCEPT ![r] = new] /\ AppendEvent(r, type)
        /\ UNCHANGED <<invocations, usage>> /\ type \in EventTypes
    BY <1>10 DEF RecordBudgetProjection, Project, EventTypes
  <2>2. runs[r] \in RunRow
    BY <1>1, <2>1, RunRowKept
  <2>3. /\ row \in RunRow /\ row.kind = runs[r].kind /\ row.window = window
        /\ row.stage = runs[r].stage /\ row.terminal = runs[r].terminal
        /\ row.target = runs[r].target /\ row.cleanup = runs[r].cleanup
    BY <2>2 DEF RunRow
  <2> HIDE DEF row
  <2>4. /\ new \in RunRow /\ new.kind = runs[r].kind /\ new.window = window
        /\ new.stage = runs[r].stage /\ new.terminal = runs[r].terminal
        /\ new.target = runs[r].target /\ new.cleanup = runs[r].cleanup
    BY <2>3 DEF RunRow
  <2> HIDE DEF new, type
  <2> QED
    BY <2>1, <2>4, <1>2 DEF Succeeds
<1> QED
  BY <1>3, <1>5, <1>6, <1>7, <1>8, <1>9, <1>10 DEF RunWrite

\* Nor does a write about an invocation, which ends once and whose reports stay.
LEMMA InvocationWritesGrow ==
  ASSUME TelemetryInv, NEW i \in Invocations, InvocationWrite(i)
  PROVE  RunsGrow /\ EventsGrow /\ InvocationsGrow
<1>1. /\ TypeOK /\ i[1] \in Runs /\ runs \in [Runs -> RunRow \cup {None}]
      /\ invocations \in [Invocations -> InvocationRow \cup {None}]
      /\ usage \in [Invocations -> [RequestKeys -> Usages \cup {None}]]
      /\ UsageHolds(i)
  BY DEF TelemetryInv, TypeOK, Invocations
<1>2. ASSUME NEW type \in EventTypes, InvocationEvent(i, type), Stored(i[1])
      PROVE  RunsGrow /\ EventsGrow
  <2> DEFINE new == [runs[i[1]] EXCEPT !.last = @ + 1]
  <2>1. new \in RunRow /\ Succeeds(new, runs[i[1]])
    BY <1>1, <1>2, RunRowKept DEF RunRow, Succeeds
  <2>2. runs' = [runs EXCEPT ![i[1]] = new] /\ AppendEvent(i[1], type)
    BY <1>2 DEF InvocationEvent
  <2> HIDE DEF new
  <2>3. runs'[i[1]] = new /\ \A o \in Runs \ {i[1]} : runs'[o] = runs[o]
    BY <1>1, <2>2
  <2>4. RunsGrow
    BY <2>1, <2>3, NoneIsNotARow DEF RunsGrow, Stored, Succeeds
  <2> QED
    BY <1>1, <2>2, <2>4, EventsOnlyAppended
<1>3. ASSUME UNCHANGED <<runs, events>> PROVE RunsGrow /\ EventsGrow
  BY <1>1, <1>3, ElementsOf DEF RunsGrow, EventsGrow, Stored, TypeOK, Succeeds
<1>4. ASSUME NEW row \in InvocationRow, invocations' = [invocations EXCEPT ![i] = row],
             ~Known(i) \/ Running(i)
      PROVE  \A j \in Invocations : Known(j) => Known(j)' /\ (~Running(j) => ~Running(j)')
  <2>1. invocations'[i] = row /\ \A j \in Invocations \ {i} : invocations'[j] = invocations[j]
    BY <1>1, <1>4
  <2> QED
    BY <1>4, <2>1, NoneIsNotARow DEF Known, Running
<1>5. usage' = usage =>
        \A j \in Invocations, k \in RequestKeys : usage[j][k] # None => usage'[j][k] = usage[j][k]
  OBVIOUS
<1>6. CASE StartModelInvocation(i)
  <2> DEFINE unheard == [s \in Sources |-> 0]
             row == [state |-> "starting", identity |-> "unknown", usage_status |-> "pending",
                     heard |-> unheard]
  <2>1. unheard \in [Sources -> 0 .. MaxTime]
    BY TelemetryAssumption
  <2>2. row \in InvocationRow
    BY <2>1 DEF InvocationRow
  <2>3. /\ ~Known(i) /\ invocations' = [invocations EXCEPT ![i] = row] /\ usage' = usage
        /\ InvocationEvent(i, "model_started") /\ Stored(i[1])
    BY <1>6 DEF StartModelInvocation, Open
  <2> HIDE DEF row
  <2> QED
    BY <2>2, <2>3, <1>2, <1>4, <1>5 DEF InvocationsGrow, EventTypes
<1>7. Known(i) => invocations[i] \in InvocationRow /\ Stored(i[1])
  BY <1>1 DEF Known, UsageHolds
<1>8. ASSUME NEW identity \in {"matched", "mismatch"}, RecordModelCheckin(i, identity)
      PROVE  RunsGrow /\ EventsGrow /\ InvocationsGrow
  <2> DEFINE row == [invocations[i] EXCEPT !.identity = identity, !.state = "running"]
  <2>1. Running(i) /\ Known(i)
    BY <1>8 DEF RecordModelCheckin, Running
  <2>2. row \in InvocationRow
    BY <2>1, <1>7 DEF InvocationRow
  <2>3. /\ invocations' = [invocations EXCEPT ![i] = row] /\ usage' = usage
        /\ InvocationEvent(i, "model_checkin")
    BY <1>1, <1>8 DEF RecordModelCheckin
  <2> HIDE DEF row
  <2> QED
    BY <2>1, <2>2, <2>3, <1>2, <1>4, <1>5, <1>7 DEF InvocationsGrow, EventTypes
<1>9. ASSUME NEW source \in Sources, NEW time \in 1 .. MaxTime, HeartbeatModel(i, source, time)
      PROVE  RunsGrow /\ EventsGrow /\ InvocationsGrow
  <2> DEFINE heard == [invocations[i].heard EXCEPT ![source] = time]
             row == [invocations[i] EXCEPT !.heard = heard, !.state = "running"]
  <2>1. Running(i) /\ Known(i)
    BY <1>9 DEF HeartbeatModel, Running
  <2>2. heard \in [Sources -> 0 .. MaxTime]
    BY <1>1, <2>1, InvocationRowKept, TelemetryAssumption
  <2>3. /\ invocations' = [invocations EXCEPT ![i] = row] /\ usage' = usage
        /\ InvocationEvent(i, "model_heartbeat") \/ UNCHANGED <<runs, events>>
    BY <1>1, <1>9 DEF HeartbeatModel
  <2> HIDE DEF heard
  <2>4. row \in InvocationRow
    BY <2>1, <2>2, <1>7 DEF InvocationRow
  <2> HIDE DEF row
  <2> QED
    BY <2>1, <2>3, <2>4, <1>2, <1>3, <1>4, <1>5, <1>7 DEF InvocationsGrow, EventTypes
<1>10. ASSUME NEW key \in RequestKeys, NEW report \in Usages, RecordModelUsage(i, key, report)
       PROVE  RunsGrow /\ EventsGrow /\ InvocationsGrow
  <2> DEFINE told == UsageStatus({usage'[i][k] : k \in Reports(i) \cup {key}})
             row == [invocations[i] EXCEPT !.usage_status = told]
  <2>1. Running(i) /\ Known(i)
    BY <1>10 DEF RecordModelUsage, Running
  <2>2. told \in {"pending", "exact", "estimated", "partial", "unavailable"}
    BY DEF UsageStatus
  <2>3. /\ invocations' = [invocations EXCEPT ![i] = row] /\ InvocationEvent(i, "model_usage")
        /\ usage[i][key] = None /\ usage' = [usage EXCEPT ![i][key] = report]
    BY <1>1, <1>10 DEF RecordModelUsage
  <2> HIDE DEF told
  <2>4. row \in InvocationRow
    BY <2>1, <2>2, <1>7 DEF InvocationRow
  <2> HIDE DEF row
  <2>5. \A j \in Invocations, k \in RequestKeys : usage[j][k] # None => usage'[j][k] = usage[j][k]
    BY <2>3, <1>1
  <2> QED
    BY <2>1, <2>3, <2>4, <2>5, <1>2, <1>4, <1>7 DEF InvocationsGrow, EventTypes
<1>11. ASSUME NEW state \in TerminalModelStates, FinishModelInvocation(i, state)
       PROVE  RunsGrow /\ EventsGrow /\ InvocationsGrow
  <2> DEFINE told == IF invocations[i].usage_status = "pending" THEN "unavailable"
                     ELSE invocations[i].usage_status
             row == [invocations[i] EXCEPT !.state = state, !.usage_status = told]
  <2>1. Running(i) /\ Known(i)
    BY <1>11 DEF FinishModelInvocation, Running
  <2>2. told \in {"pending", "exact", "estimated", "partial", "unavailable"}
    BY <2>1, <1>7 DEF InvocationRow
  <2>3. /\ invocations' = [invocations EXCEPT ![i] = row] /\ usage' = usage
        /\ InvocationEvent(i, "model_finished")
    BY <1>1, <1>11 DEF FinishModelInvocation
  <2> HIDE DEF told
  <2>4. row \in InvocationRow
    BY <2>1, <2>2, <1>7 DEF InvocationRow
  <2> HIDE DEF row
  <2> QED
    BY <2>1, <2>3, <2>4, <1>2, <1>4, <1>5, <1>7 DEF InvocationsGrow, EventTypes
<1> QED
  BY <1>6, <1>8, <1>9, <1>10, <1>11 DEF InvocationWrite

-------------------------------------------------------------------------------
\* The pages.

\* The receipts of a window, and the invocations that ended in it, only grow.
LEMMA FiguresGrow ==
  ASSUME RunsGrow, InvocationsGrow, None \notin Usages, NEW window
  PROVE  /\ KnownUsed(window) \subseteq KnownUsed(window)'
         /\ FinishedIn(window) \subseteq FinishedIn(window)'
<1>1. Scope(window) \subseteq Scope(window)'
  BY DEF Scope, Production, RunsGrow, Succeeds
<1>2. RowsOf(Scope(window)) \subseteq RowsOf(Scope(window))'
  BY <1>1 DEF RowsOf, InvocationsGrow
<1>3. KnownUsed(window) \subseteq KnownUsed(window)'
  <2> SUFFICES ASSUME NEW x \in KnownUsed(window) PROVE x \in KnownUsed(window)'
    OBVIOUS
  <2>1. /\ x \in RowsOf(Scope(window)) \X RequestKeys \X Usages
        /\ x[3] = usage[x[1]][x[2]] /\ x[3].exact /\ x[3].final
    BY DEF KnownUsed
  <2>2. x[1] \in Invocations /\ x[2] \in RequestKeys /\ x[3] \in Usages
    BY <2>1 DEF RowsOf
  <2>3. usage'[x[1]][x[2]] = usage[x[1]][x[2]]
    BY <2>1, <2>2 DEF InvocationsGrow
  <2>4. x \in RowsOf(Scope(window))' \X RequestKeys \X Usages
    BY <2>1, <1>2
  <2> QED
    BY <2>1, <2>3, <2>4 DEF KnownUsed
<1>4. FinishedIn(window) \subseteq FinishedIn(window)'
  BY <1>2 DEF FinishedIn, RowsOf, InvocationsGrow
<1> QED
  BY <1>3, <1>4

LEMMA PageKept ==
  ASSUME TelemetryInv, RunsGrow, EventsGrow, InvocationsGrow, page' = page
  PROVE  PageHolds'
<1>1. PageHolds /\ page \in PageRecord
  BY DEF TelemetryInv, TypeOK
<1>2. \A w : KnownUsed(w) \subseteq KnownUsed(w)' /\ FinishedIn(w) \subseteq FinishedIn(w)'
  BY FiguresGrow, TelemetryAssumption
<1>3. page.at \in {"events", "models", "run"} =>
        /\ page.run \in Runs /\ page.row \in RunRow
        /\ page.row.last <= Len(events'[page.run])
        /\ page.row.terminal = TRUE =>
             \E n \in 1 .. page.row.last : events'[page.run][n] = "run_finished"
  <2> SUFFICES ASSUME page.at \in {"events", "models", "run"}
               PROVE  /\ page.run \in Runs /\ page.row \in RunRow
                      /\ page.row.last <= Len(events'[page.run])
                      /\ page.row.terminal = TRUE =>
                           \E n \in 1 .. page.row.last : events'[page.run][n] = "run_finished"
    OBVIOUS
  <2>1. /\ page.run \in Runs /\ page.row \in RunRow /\ page.row.last <= Len(events[page.run])
        /\ page.row.terminal = TRUE =>
             \E n \in 1 .. page.row.last : events[page.run][n] = "run_finished"
    BY <1>1 DEF PageHolds
  <2>2. page.row.last \in Nat
    BY <2>1 DEF RunRow
  <2> QED
    BY <2>1, <2>2 DEF EventsGrow
<1>4. page.at \in {"models", "run"} =>
        /\ Len(page.events) <= Len(events'[page.run])
        /\ \A n \in 1 .. Len(page.events) : page.events[n] = events'[page.run][n]
        /\ page.row.last <= EventLimit => page.row.last <= Len(page.events)
  <2> SUFFICES ASSUME page.at \in {"models", "run"}
               PROVE  /\ Len(page.events) <= Len(events'[page.run])
                      /\ \A n \in 1 .. Len(page.events) : page.events[n] = events'[page.run][n]
                      /\ page.row.last <= EventLimit => page.row.last <= Len(page.events)
    OBVIOUS
  <2>1. /\ page.run \in Runs /\ Len(page.events) <= Len(events[page.run])
        /\ \A n \in 1 .. Len(page.events) : page.events[n] = events[page.run][n]
        /\ page.row.last <= EventLimit => page.row.last <= Len(page.events)
    BY <1>1 DEF PageHolds
  <2>2. Len(page.events) \in Nat /\ Len(events[page.run]) \in Nat
    BY <1>1, <2>1 DEF PageRecord, TelemetryInv, TypeOK
  <2> QED
    BY <2>1, <2>2 DEF EventsGrow
<1> QED
  BY <1>1, <1>2, <1>3, <1>4 DEF PageHolds

\* The statements of a page, and the answer.
LEMMA ReadingKeeps ==
  ASSUME TelemetryInv, Summary \/ GetRun \/ Answered
  PROVE  TelemetryInv'
<1>1. UNCHANGED store
  BY DEF Summary, ReadBudget, ReadUsage, ReadFinished, ReadActive, GetRun, ReadRun, ReadEvents,
    ReadModels, Gather, Answered
<1>2. TypeOK /\ PageHolds /\ page \in PageRecord
  BY DEF TelemetryInv, TypeOK
<1>3. /\ \A o \in Runs : LogHolds(o)'
      /\ \A j \in Invocations : UsageHolds(j)'
  <2>1. ASSUME NEW o \in Runs PROVE LogHolds(o)'
    BY <1>1, Untouched DEF TelemetryInv, store
  <2>2. ASSUME NEW j \in Invocations PROVE UsageHolds(j)'
    BY <1>1, UsageUntouched DEF TelemetryInv, store, Stored
  <2> QED
    BY <2>1, <2>2
<1>4. /\ \A w : KnownUsed(w)' = KnownUsed(w) /\ FinishedIn(w)' = FinishedIn(w)
      /\ \A rs : RowsOf(rs)' = RowsOf(rs)
      /\ events' = events
  BY <1>1 DEF store, KnownUsed, FinishedIn, Scope, Production, RowsOf, Stored, Known, Running
<1>5. page' \in PageRecord => TypeOK'
  BY <1>1, <1>2 DEF TypeOK, store, Stored
<1>6. \A w : KnownUsed(w) \subseteq Invocations \X RequestKeys \X Usages
             /\ FinishedIn(w) \subseteq Invocations
  BY DEF KnownUsed, FinishedIn, RowsOf
<1>7. CASE ReadBudget
  <2>1. PICK w \in Windows \cup {None} :
          /\ page.at = "idle"
          /\ page' = [page EXCEPT !.at = "usage", !.window = w, !.before = KnownUsed(w)]
    <3>1. ASSUME NEW r \in Runs, NEW n \in DOMAIN projections[r]
          PROVE  projections[r][n].window \in Windows
      <4>1. projections[r] \in Seq([state : ReservationStates, window : Windows])
        BY <1>2 DEF TypeOK
      <4>2. projections[r][n] \in [state : ReservationStates, window : Windows]
        BY <4>1, ElementsOf
      <4> QED
        BY <4>2
    <3> DEFINE seen == UNION {{projections[r][n].window : n \in DOMAIN projections[r]} :
                                r \in Production}
    <3>2. seen \subseteq Windows
      BY <3>1 DEF Production
    <3>3. PICK w \in (IF seen = {} THEN {None} ELSE seen) :
            Gather("idle", [page EXCEPT !.at = "usage", !.window = w, !.before = KnownUsed(w)])
      BY <1>7 DEF ReadBudget
    <3> HIDE DEF seen
    <3> QED
      BY <3>2, <3>3 DEF Gather
  <2> DEFINE used == KnownUsed(w)
  <2>2. used \subseteq Invocations \X RequestKeys \X Usages
    BY <1>6
  <2>3. KnownUsed(w)' = used
    BY <1>4
  <2> HIDE DEF used
  <2>4. page' = [page EXCEPT !.at = "usage", !.window = w, !.before = used]
    BY <2>1 DEF used
  <2>5. page' \in PageRecord
    BY <2>2, <2>4, <1>2 DEF PageRecord
  <2>6. page'.at = "usage" /\ page'.window = w /\ page'.before = used
    BY <2>4, <1>2 DEF PageRecord
  <2>7. PageHolds'
    BY <2>3, <2>6 DEF PageHolds
  <2> QED
    BY <2>5, <2>7, <1>3, <1>5 DEF TelemetryInv
<1>8. CASE ReadUsage
  <2> DEFINE used == KnownUsed(page.window)
  <2>1. used \subseteq Invocations \X RequestKeys \X Usages /\ page.before \subseteq used
    BY <1>2, <1>6, <1>8 DEF PageHolds, ReadUsage, Gather
  <2>2. page' = [page EXCEPT !.at = "finished", !.known = used]
    BY <1>8 DEF ReadUsage, Gather
  <2>3. \A w : w = page.window => KnownUsed(w)' = used
    BY <1>4
  <2> HIDE DEF used
  <2>4. page' \in PageRecord
    BY <2>1, <2>2, <1>2 DEF PageRecord
  <2>5. /\ page'.at = "finished" /\ page'.window = page.window /\ page'.before = page.before
        /\ page'.known = used
    BY <2>2, <1>2 DEF PageRecord
  <2>6. PageHolds'
    BY <2>1, <2>3, <2>5 DEF PageHolds
  <2> QED
    BY <2>4, <2>6, <1>3, <1>5 DEF TelemetryInv
<1>9. CASE ReadFinished
  <2> DEFINE ended == FinishedIn(page.window)
  <2>1. /\ ended \subseteq Invocations
        /\ page.before \subseteq page.known /\ page.known \subseteq KnownUsed(page.window)
    BY <1>2, <1>6, <1>9 DEF PageHolds, ReadFinished, Gather
  <2>2. page' = [page EXCEPT !.at = "active", !.finished = ended]
    BY <1>9 DEF ReadFinished, Gather
  <2>3. \A w : w = page.window => FinishedIn(w)' = ended /\ KnownUsed(w)' = KnownUsed(page.window)
    BY <1>4
  <2> HIDE DEF ended
  <2>4. page' \in PageRecord
    BY <2>1, <2>2, <1>2 DEF PageRecord
  <2>5. /\ page'.at = "active" /\ page'.window = page.window /\ page'.before = page.before
        /\ page'.known = page.known /\ page'.finished = ended
    BY <2>2, <1>2 DEF PageRecord
  <2>6. PageHolds'
    BY <2>1, <2>3, <2>5 DEF PageHolds
  <2> QED
    BY <2>4, <2>6, <1>3, <1>5 DEF TelemetryInv
<1>10. CASE ReadActive
  <2>1. /\ page.before \subseteq page.known /\ page.known \subseteq KnownUsed(page.window)
        /\ page.finished \subseteq FinishedIn(page.window)
    BY <1>2, <1>10 DEF PageHolds, ReadActive, Gather
  <2>2. page' = [page EXCEPT !.at = "summary", !.active = ActiveNow]
    BY <1>10 DEF ReadActive, Gather
  <2>3. ActiveNow \subseteq Invocations /\ page.finished \cap ActiveNow = {}
    BY <2>1 DEF ActiveNow, FinishedIn, RowsOf
  <2>4. \A w : w = page.window => FinishedIn(w)' = FinishedIn(page.window)
                                  /\ KnownUsed(w)' = KnownUsed(page.window)
    BY <1>4
  <2>5. page' \in PageRecord
    BY <2>2, <2>3, <1>2 DEF PageRecord
  <2>6. /\ page'.at = "summary" /\ page'.window = page.window /\ page'.before = page.before
        /\ page'.known = page.known /\ page'.finished = page.finished /\ page'.active = ActiveNow
    BY <2>2, <1>2 DEF PageRecord
  <2>7. PageHolds'
    BY <2>1, <2>3, <2>4, <2>6 DEF PageHolds
  <2> QED
    BY <2>5, <2>7, <1>3, <1>5 DEF TelemetryInv
<1>11. ASSUME NEW r \in Runs, ReadRun(r) PROVE TelemetryInv'
  <2>1. /\ Stored(r) /\ page' = [page EXCEPT !.at = "events", !.run = r, !.row = runs[r]]
    BY <1>11 DEF ReadRun, Gather
  <2>2. /\ runs[r] \in RunRow /\ runs[r].last = Len(events[r]) /\ runs[r].last \in Nat
        /\ events[r] \in Seq(EventTypes)
    BY <1>2, <2>1, RunRowKept DEF TypeOK
  <2>3. runs[r].terminal = TRUE => \E n \in 1 .. runs[r].last : events[r][n] = "run_finished"
    <3> SUFFICES ASSUME runs[r].terminal = TRUE,
                        \A n \in 1 .. runs[r].last : events[r][n] # "run_finished"
                 PROVE  FALSE
      OBVIOUS
    <3>1. Logged(r, "run_finished") = 1
      BY <2>1 DEF TelemetryInv, LogHolds, RunAgrees, Open
    <3>2. {n \in DOMAIN events[r] : events[r][n] = "run_finished"} = {}
      BY <2>2, ElementsOf
    <3>3. Logged(r, "run_finished") = 0
      BY <3>2, FS_EmptySet DEF Logged, Count
    <3> QED
      BY <3>1, <3>3
  <2>4. page' \in PageRecord
    BY <2>1, <2>2, <1>2 DEF PageRecord
  <2>5. page'.at = "events" /\ page'.run = r /\ page'.row = runs[r]
    BY <2>1, <1>2 DEF PageRecord
  <2>6. PageHolds'
    BY <2>2, <2>3, <2>5, <1>4 DEF PageHolds
  <2> QED
    BY <2>4, <2>6, <1>3, <1>5 DEF TelemetryInv
<1>12. CASE ReadEvents
  <2> DEFINE log == events[page.run]
             count == IF Len(log) < EventLimit THEN Len(log) ELSE EventLimit
             read == SubSeq(log, 1, count)
  <2>1. /\ page.at = "events" /\ page' = [page EXCEPT !.at = "models", !.events = read]
    BY <1>12 DEF ReadEvents, Gather
  <2>2. /\ page.run \in Runs /\ page.row \in RunRow /\ page.row.last <= Len(log)
        /\ page.row.terminal = TRUE => \E n \in 1 .. page.row.last : log[n] = "run_finished"
    BY <2>1, <1>2 DEF PageHolds
  <2>3. log \in Seq(EventTypes) /\ Len(log) \in Nat
    BY <2>2, <1>2 DEF TypeOK
  <2>4. count \in Nat /\ count <= Len(log) /\ (count = Len(log) \/ count = EventLimit)
    BY <2>3, TelemetryAssumption
  <2> HIDE DEF count, log
  <2>5. /\ read \in Seq(EventTypes) /\ Len(read) = count
        /\ \A n \in 1 .. count : read[n] = log[n]
    BY <2>3, <2>4
  <2> HIDE DEF read
  <2>6. page' \in PageRecord
    BY <2>1, <2>5, <1>2 DEF PageRecord
  <2>7. /\ page'.at = "models" /\ page'.run = page.run /\ page'.row = page.row
        /\ page'.events = read
    BY <2>1, <1>2 DEF PageRecord
  <2>8. page.row.last \in Nat
    BY <2>2 DEF RunRow
  <2>9. page.row.last <= EventLimit => page.row.last <= Len(read)
    BY <2>2, <2>4, <2>5, <2>8
  <2>10. events'[page.run] = log
    BY <1>4 DEF log
  <2>11. PageHolds'
    BY <2>2, <2>3, <2>4, <2>5, <2>7, <2>9, <2>10 DEF PageHolds
  <2> QED
    BY <2>6, <2>11, <1>3, <1>5 DEF TelemetryInv
<1>13. CASE ReadModels
  <2> DEFINE own == RowsOf({page.run})
  <2>1. page.at = "models" /\ page' = [page EXCEPT !.at = "run", !.models = own]
    BY <1>13 DEF ReadModels, Gather
  <2>2. own \subseteq Invocations
    BY DEF RowsOf
  <2> HIDE DEF own
  <2>3. page' \in PageRecord
    BY <2>1, <2>2, <1>2 DEF PageRecord
  <2>4. /\ page'.at = "run" /\ page'.run = page.run /\ page'.row = page.row
        /\ page'.events = page.events /\ page'.models = own
    BY <2>1, <1>2 DEF PageRecord
  <2>5. /\ page.run \in Runs /\ page.row \in RunRow
        /\ page.row.last <= Len(events[page.run])
        /\ page.row.terminal = TRUE =>
             \E n \in 1 .. page.row.last : events[page.run][n] = "run_finished"
        /\ Len(page.events) <= Len(events[page.run])
        /\ \A n \in 1 .. Len(page.events) : page.events[n] = events[page.run][n]
        /\ page.row.last <= EventLimit => page.row.last <= Len(page.events)
    BY <2>1, <1>2 DEF PageHolds
  <2>6. Count(page.events, "model_started") <= Cardinality(own)
    <3> DEFINE S == {n \in DOMAIN page.events : page.events[n] = "model_started"}
               T == {n \in DOMAIN events[page.run] : events[page.run][n] = "model_started"}
    <3>1. page.events \in Seq(EventTypes) /\ events[page.run] \in Seq(EventTypes)
      BY <1>2, <2>5 DEF TypeOK, PageRecord
    <3>2. S \subseteq T
      BY <3>1, <2>5
    <3>3. IsFiniteSet(T)
      <4>1. Len(events[page.run]) \in Nat /\ T \subseteq 1 .. Len(events[page.run])
        BY <3>1
      <4>2. IsFiniteSet(1 .. Len(events[page.run]))
        BY <4>1, FS_Interval
      <4> QED
        BY <4>1, <4>2, FS_Subset
    <3> HIDE DEF S, T
    <3>4. Cardinality(S) <= Cardinality(T)
      BY <3>2, <3>3, FS_Subset
    <3>5. Cardinality(T) = Cardinality(own)
      BY <2>5 DEF TelemetryInv, LogHolds, InvocationsHold, Logged, Count, T, own
    <3> QED
      BY <3>4, <3>5 DEF Count, S
  <2>7. PageHolds'
    BY <2>4, <2>5, <2>6, <1>4 DEF PageHolds
  <2> QED
    BY <2>3, <2>7, <1>3, <1>5 DEF TelemetryInv
<1>14. CASE Answered
  <2>1. page' = Idle
    BY <1>14 DEF Answered
  <2>2. Idle \in PageRecord /\ Idle.at = "idle"
    BY DEF Idle, PageRecord
  <2>3. PageHolds'
    BY <2>1, <2>2 DEF PageHolds
  <2> QED
    BY <2>1, <2>2, <2>3, <1>3, <1>5 DEF TelemetryInv
<1> QED
  BY <1>7, <1>8, <1>9, <1>10, <1>11, <1>12, <1>13, <1>14 DEF Summary, GetRun

-------------------------------------------------------------------------------
\* The theorems.

LEMMA TelemetryInitially == Init => TelemetryInv
<1> SUFFICES ASSUME Init PROVE TelemetryInv
  OBVIOUS
<1>1. /\ \A r \in Runs : ~Stored(r) /\ events[r] = <<>> /\ projections[r] = <<>>
      /\ \A i \in Invocations : ~Known(i) /\ Reports(i) = {}
  BY DEF Init, Stored, Known, Reports
<1>2. TypeOK
  <2>1. <<>> \in Seq(EventTypes) /\ <<>> \in Seq([state : ReservationStates, window : Windows])
    OBVIOUS
  <2>2. Idle \in PageRecord
    BY DEF Idle, PageRecord
  <2> QED
    BY <2>1, <2>2, <1>1 DEF Init, TypeOK
<1>3. ASSUME NEW r \in Runs PROVE LogHolds(r)
  <2>1. \A t : Logged(r, t) = 0
    <3>1. \A t : {n \in DOMAIN <<>> : <<>>[n] = t} = {}
      OBVIOUS
    <3> QED
      BY <3>1, <1>1, FS_EmptySet DEF Logged, Count
  <2>2. RowsOf({r}) = {}
    BY <1>1 DEF RowsOf
  <2>3. Identified(r) = {} /\ Ended(r) = {} /\ Heard(r) = {} /\ Reported(r) = {}
    BY <2>2 DEF Identified, Ended, Heard, Reported
  <2>4. Made(r) = {} /\ Over(r) = {} /\ DOMAIN projections[r] = {}
    BY <1>1 DEF Made, Over
  <2>5. IsFiniteSet({}) /\ Cardinality({}) = 0
    BY FS_EmptySet
  <2>6. RunAgrees(r)
    BY <2>1, <1>1 DEF RunAgrees
  <2>7. InvocationsHold(r)
    BY <2>1, <2>2, <2>3, <2>5 DEF InvocationsHold
  <2>8. BudgetHolds(r)
    BY <2>1, <2>4, <2>5, <1>1 DEF BudgetHolds
  <2> QED
    BY <2>6, <2>7, <2>8 DEF LogHolds
<1>4. \A i \in Invocations : UsageHolds(i)
  BY <1>1 DEF UsageHolds
<1>5. PageHolds
  BY DEF Init, Idle, PageHolds
<1> QED
  BY <1>2, <1>3, <1>4, <1>5 DEF TelemetryInv

LEMMA TelemetryStep == TelemetryInv /\ [Next]_vars => TelemetryInv'
<1> SUFFICES ASSUME TelemetryInv, [Next]_vars PROVE TelemetryInv'
  OBVIOUS
<1>1. ASSUME NEW r \in Runs, RunWrite(r) PROVE TelemetryInv'
  <2>1. TypeOK' /\ (\A o \in Runs : LogHolds(o)') /\ (\A i \in Invocations : UsageHolds(i)')
    BY <1>1, RunWritesKeep, StartRunKeeps, ProjectionKeeps DEF RunWrite
  <2>2. page' = page
    BY <1>1 DEF RunWrite, StartRun, RecordEvent, TransitionRun, SetRunTarget, SetCleanupStatus,
      FinishRun, RecordBudgetProjection, UpdateRun, Project
  <2>3. PageHolds'
    BY <1>1, <2>2, RunWritesGrow, PageKept
  <2> QED
    BY <2>1, <2>3 DEF TelemetryInv
<1>2. ASSUME NEW i \in Invocations, InvocationWrite(i) PROVE TelemetryInv'
  <2>1. TypeOK' /\ (\A o \in Runs : LogHolds(o)') /\ (\A j \in Invocations : UsageHolds(j)')
    BY <1>2, StartInvocationKeeps, CheckinKeeps, HeartbeatKeeps, UsageReportKeeps,
      FinishInvocationKeeps DEF InvocationWrite
  <2>2. page' = page
    BY <1>2 DEF InvocationWrite, StartModelInvocation, RecordModelCheckin, HeartbeatModel,
      RecordModelUsage, FinishModelInvocation
  <2>3. PageHolds'
    BY <1>2, <2>2, InvocationWritesGrow, PageKept
  <2> QED
    BY <2>1, <2>3 DEF TelemetryInv
<1>3. CASE Summary \/ GetRun \/ Answered
  BY <1>3, ReadingKeeps
<1>4. CASE UNCHANGED vars
  <2>1. page' = page /\ UNCHANGED store
    BY <1>4 DEF vars
  <2>2. TypeOK'
    BY <2>1 DEF TelemetryInv, TypeOK, store, Stored
  <2>3. ASSUME NEW o \in Runs PROVE LogHolds(o)'
    BY <2>1, Untouched DEF TelemetryInv, store
  <2>4. ASSUME NEW j \in Invocations PROVE UsageHolds(j)'
    BY <2>1, UsageUntouched DEF TelemetryInv, store, Stored
  <2>5. RunsGrow /\ InvocationsGrow
    BY <2>1 DEF RunsGrow, Succeeds, InvocationsGrow, store, Stored, Known, Running
  <2>6. EventsGrow
    BY <2>1 DEF EventsGrow, store, TelemetryInv, TypeOK
  <2>7. PageHolds'
    BY <2>1, <2>5, <2>6, PageKept
  <2> QED
    BY <2>2, <2>3, <2>4, <2>7 DEF TelemetryInv
<1> QED
  BY <1>1, <1>2, <1>3, <1>4 DEF Next

LEMMA TelemetryAlways == Spec => []TelemetryInv
BY TelemetryInitially, TelemetryStep, PTL DEF Spec

\* Every row keeps its columns, a run's events are numbered without a gap, and
\* a page is made of what the tables hold (telemetry.py:322, 456).
THEOREM TelemetryTypes == Spec => []TypeOK
<1>1. TelemetryInv => TypeOK
  BY DEF TelemetryInv
<1> QED
  BY <1>1, TelemetryAlways, PTL

\* The rows of a run, of its invocations and of its budget are those that its
\* event log tells of, for any calls in any order (telemetry.py:479-1355).
THEOREM LogTellsAll == Spec => []RowsMatchEvents
<1>1. TelemetryInv => RowsMatchEvents
  <2> SUFFICES ASSUME TelemetryInv, NEW r \in Runs
               PROVE  RunAgrees(r) /\ InvocationsAgree(r) /\ BudgetAgrees(r)
    BY DEF RowsMatchEvents
  <2>1. LogHolds(r)
    BY DEF TelemetryInv
  <2>2. InvocationsAgree(r)
    BY <2>1 DEF LogHolds, InvocationsHold, InvocationsAgree, Identified, Ended
  <2>3. IsFiniteSet(Made(r)) /\ IsFiniteSet(Over(r))
    <3>1. /\ projections[r] \in Seq([state : ReservationStates, window : Windows])
          /\ IsFiniteSet(1 .. Len(projections[r]))
      <4>1. projections[r] \in Seq([state : ReservationStates, window : Windows])
        BY DEF TelemetryInv, TypeOK
      <4>2. Len(projections[r]) \in Nat
        BY <4>1, ElementsOf
      <4> QED
        BY <4>1, <4>2, FS_Interval
    <3>2. Made(r) \subseteq 1 .. Len(projections[r]) /\ Over(r) \subseteq 1 .. Len(projections[r])
      BY <3>1, ElementsOf DEF Made, Over
    <3> QED
      BY <3>1, <3>2, FS_Subset
  <2>4. ASSUME NEW S, IsFiniteSet(S), \A m, n \in S : m = n PROVE Cardinality(S) <= 1
    <3>1. CASE S = {}
      BY <3>1, FS_EmptySet
    <3>2. CASE S # {}
      <4>1. PICK n : S = {n}
        BY <3>2, <2>4
      <4>2. Cardinality(S) = 1
        BY <4>1, FS_Singleton
      <4> QED
        BY <4>2
    <3> QED
      BY <3>1, <3>2
  <2>5. Cardinality(Made(r)) <= 1 /\ Cardinality(Over(r)) <= 1
    BY <2>1, <2>3, <2>4 DEF LogHolds, BudgetHolds
  <2>6. BudgetAgrees(r)
    BY <2>1, <2>5 DEF LogHolds, BudgetHolds, BudgetAgrees, Made, Over
  <2> QED
    BY <2>1, <2>2, <2>6 DEF LogHolds
<1> QED
  BY <1>1, TelemetryAlways, PTL

\* An invocation's usage status is what was reported, whatever the order of
\* reports, check-in and outcome (telemetry.py:1192, 1304).
THEOREM UsageIsWhatWasReported == Spec => []UsageToldTruly
<1>1. TelemetryInv => UsageToldTruly
  <2> SUFFICES ASSUME TelemetryInv, NEW i \in Invocations, Known(i)
               PROVE  LET reports == {usage[i][k] : k \in Reports(i)}
                          told == invocations[i].usage_status
                      IN  /\ told = "pending" <=> reports = {} /\ Running(i)
                          /\ told = "unavailable" <=> reports = {} /\ ~Running(i)
                          /\ told = "exact" <=> reports # {}
                                                 /\ \A u \in reports : u.exact /\ u.final
                          /\ told = "estimated" <=>
                               reports # {} /\ \A u \in reports : ~u.exact /\ u.final
                          /\ invocations[i].state = "succeeded" =>
                               invocations[i].identity # "mismatch"
    BY DEF UsageToldTruly
  <2> DEFINE reports == {usage[i][k] : k \in Reports(i)}
  <2>1. UsageHolds(i)
    BY DEF TelemetryInv
  <2>2. Reports(i) = {} <=> reports = {}
    OBVIOUS
  <2>3. \A u \in reports : u.exact \in BOOLEAN /\ u.final \in BOOLEAN
    <3>1. reports \subseteq Usages
      BY DEF TelemetryInv, TypeOK, Reports
    <3> QED
      BY <3>1, TelemetryAssumption DEF Report
  <2>4. invocations[i].usage_status =
          IF reports = {} THEN (IF Running(i) THEN "pending" ELSE "unavailable")
          ELSE UsageStatus(reports)
    BY <2>1, <2>2 DEF UsageHolds
  <2>5. invocations[i].state = "succeeded" => invocations[i].identity # "mismatch"
    BY <2>1 DEF UsageHolds
  <2> HIDE DEF reports
  <2>6. CASE reports = {}
    BY <2>4, <2>5, <2>6 DEF reports
  <2>7. CASE reports # {}
    <3>1. UsageStatus(reports) = "exact" <=> \A u \in reports : u.exact /\ u.final
      BY <2>3, <2>7 DEF UsageStatus
    <3>2. UsageStatus(reports) = "estimated" <=> \A u \in reports : ~u.exact /\ u.final
      BY <2>3, <2>7 DEF UsageStatus
    <3>3. UsageStatus(reports) \notin {"pending", "unavailable"}
      BY <2>7 DEF UsageStatus
    <3> QED
      BY <2>4, <2>5, <2>7, <3>1, <3>2, <3>3 DEF reports
  <2> QED
    BY <2>6, <2>7
<1> QED
  BY <1>1, TelemetryAlways, PTL

\* A summary that is read while runs write does not contradict itself
\* (telemetry.py:1547-1630).
THEOREM SummariesHoldTogether == Spec => []SummaryHoldsTogether
<1>1. TelemetryInv => SummaryHoldsTogether
  BY DEF TelemetryInv, PageHolds, SummaryHoldsTogether
<1> QED
  BY <1>1, TelemetryAlways, PTL

\* Nor does a run's page, as long as its events fit (telemetry.py:1766-1798).
THEOREM RunPagesHoldTogether == Spec => []RunPageHoldsTogether
<1>1. TelemetryInv => RunPageHoldsTogether
  <2> SUFFICES ASSUME TelemetryInv, page.at = "run", page.row.last <= EventLimit
               PROVE  /\ page.row.last <= Len(page.events)
                      /\ page.row.terminal =>
                           \E n \in DOMAIN page.events : page.events[n] = "run_finished"
                      /\ Count(page.events, "model_started") <= Cardinality(page.models)
    BY DEF RunPageHoldsTogether
  <2>1. /\ page.row \in RunRow /\ page.row.last <= Len(page.events)
        /\ page.row.terminal = TRUE =>
             \E n \in 1 .. page.row.last : events[page.run][n] = "run_finished"
        /\ \A n \in 1 .. Len(page.events) : page.events[n] = events[page.run][n]
        /\ Count(page.events, "model_started") <= Cardinality(page.models)
    BY DEF TelemetryInv, PageHolds
  <2>2. page.row.last \in Nat /\ page.row.terminal \in BOOLEAN
    BY <2>1 DEF RunRow
  <2>3. Len(page.events) \in Nat /\ DOMAIN page.events = 1 .. Len(page.events)
    BY ElementsOf DEF TelemetryInv, TypeOK, PageRecord
  <2> QED
    BY <2>1, <2>2, <2>3
<1> QED
  BY <1>1, TelemetryAlways, PTL

\* No write takes back what another recorded: events stay, with their numbers;
\* a run keeps its kind, its target, its window and, once it has ended, its
\* outcome; an invocation stays ended and keeps every report that it was given
\* (telemetry.py:456-1355).
THEOREM NothingIsTakenBack == Spec => [][RunsGrow /\ EventsGrow /\ InvocationsGrow]_vars
<1>1. TelemetryInv /\ [Next]_vars => [RunsGrow /\ EventsGrow /\ InvocationsGrow]_vars
  <2> SUFFICES ASSUME TelemetryInv, Next PROVE RunsGrow /\ EventsGrow /\ InvocationsGrow
    OBVIOUS
  <2>1. CASE Summary \/ GetRun \/ Answered
    <3>1. UNCHANGED store
      BY <2>1 DEF Summary, ReadBudget, ReadUsage, ReadFinished, ReadActive, GetRun, ReadRun,
        ReadEvents, ReadModels, Gather, Answered
    <3>2. RunsGrow /\ InvocationsGrow
      BY <3>1 DEF RunsGrow, Succeeds, InvocationsGrow, store, Stored, Known, Running
    <3>3. EventsGrow
      BY <3>1 DEF EventsGrow, store, TelemetryInv, TypeOK
    <3> QED
      BY <3>2, <3>3
  <2> QED
    BY <2>1, RunWritesGrow, InvocationWritesGrow DEF Next
<1> QED
  BY <1>1, TelemetryAlways, PTL DEF Spec

-------------------------------------------------------------------------------
\* The refinement: the store implements the recorded history.

Ends == [r \in Runs |-> OutcomeOf(r)]
States == [i \in Invocations |-> CallOf(i)]

\* Whether a run has begun, and whether it is under way, can be read off its row.
LEMMA UnderWayMeansOpen ==
  ASSUME TypeOK, NEW r \in Runs
  PROVE  /\ Stored(r) <=> History!Begun(r)
         /\ Open(r) <=> History!UnderWay(r)
<1>1. Stored(r) => Len(events[r]) # 0
  BY RunRowKept
<1>2. ~Stored(r) => events[r] = <<>>
  BY DEF TypeOK
<1>3. Stored(r) <=> History!Begun(r)
  <2>1. Len(<<>>) = 0
    OBVIOUS
  <2> QED
    BY <1>1, <1>2, <2>1 DEF History!Begun
<1>4. Open(r) <=> Stored(r) /\ Ends[r] = {}
  BY DEF Ends, OutcomeOf, Open
<1> QED
  BY <1>3, <1>4 DEF History!UnderWay, Ends

\* A new row for a run that says nothing else of its end.
LEMMA EndsKept ==
  ASSUME TypeOK, NEW r \in Runs, NEW row \in RunRow, runs' = [runs EXCEPT ![r] = row],
         Stored(r) => row.terminal = runs[r].terminal,
         ~Stored(r) => row.terminal = FALSE,
         Stored(r) /\ ~Open(r) =>
           row.stage = runs[r].stage /\ row.cleanup = runs[r].cleanup /\ row.target = runs[r].target
  PROVE  Ends' = Ends
<1>1. runs'[r] = row /\ \A o \in Runs \ {r} : runs'[o] = runs[o]
  BY DEF TypeOK
<1>2. ASSUME NEW o \in Runs PROVE OutcomeOf(o)' = OutcomeOf(o)
  <2>1. CASE o # r
    BY <1>1, <2>1 DEF OutcomeOf, Stored, Open
  <2>2. Stored(r)'
    BY <1>1, NoneIsNotARow DEF Stored
  <2>3. CASE o = r /\ Open(r)
    BY <1>1, <2>2, <2>3 DEF OutcomeOf, Open
  <2>4. CASE o = r /\ ~Stored(r)
    BY <1>1, <2>2, <2>4 DEF OutcomeOf, Open
  <2>5. CASE o = r /\ Stored(r) /\ ~Open(r)
    BY <1>1, <2>2, <2>5 DEF OutcomeOf, Open
  <2> QED
    BY <2>1, <2>3, <2>4, <2>5
<1> QED
  BY <1>2 DEF Ends

LEMMA CallsKept ==
  /\ UNCHANGED invocations => States' = States
  /\ UNCHANGED usage => Receipts' = Receipts
BY DEF States, CallOf, Known, Running, Receipts

\* A write about a run tells one thing about it.
LEMMA RunWriteIsTold ==
  ASSUME TelemetryInv, NEW r \in Runs, RunWrite(r)
  PROVE  History!Begin(r) \/ History!Progress(r) \/ History!Budget(r) \/ History!End(r)
<1>1. TypeOK
  BY DEF TelemetryInv
<1> USE DEF History!Write
<1>2. ASSUME NEW kind \in Kinds, StartRun(r, kind) PROVE History!Begin(r)
  <2> DEFINE row == [kind |-> kind, stage |-> "scheduled", terminal |-> FALSE, target |-> None,
                     window |-> None, cleanup |-> "not_started", last |-> 1]
  <2>1. row \in RunRow /\ row.terminal = FALSE
    BY DEF RunRow
  <2>2. /\ ~Stored(r) /\ runs' = [runs EXCEPT ![r] = row] /\ UNCHANGED <<invocations, usage>>
        /\ events' = [events EXCEPT ![r] = Append(@, "run_started")]
    BY <1>2 DEF StartRun, AppendEvent
  <2> HIDE DEF row
  <2>3. Ends' = Ends
    BY <1>1, <2>1, <2>2, EndsKept
  <2> QED
    BY <1>1, <2>2, <2>3, CallsKept, UnderWayMeansOpen DEF History!Begin, Ends, States
<1>3. ASSUME NEW row \in RunRow, UpdateRun(r, "event", row) \/ UpdateRun(r, "state", row)
               \/ UpdateRun(r, "candidate_selected", row) \/ UpdateRun(r, "cleanup", row),
             Open(r), row.terminal = FALSE
      PROVE  History!Progress(r)
  <2> DEFINE new == [row EXCEPT !.last = runs[r].last + 1]
  <2>1. new \in RunRow /\ new.terminal = FALSE
    BY <1>1, <1>3, RunRowKept DEF RunRow, Open
  <2>2. PICK type \in {"event", "state", "candidate_selected", "cleanup"} :
          UpdateRun(r, type, row)
    BY <1>3
  <2>3. /\ runs' = [runs EXCEPT ![r] = new] /\ UNCHANGED <<invocations, usage>>
        /\ events' = [events EXCEPT ![r] = Append(@, type)]
    BY <2>2 DEF UpdateRun, AppendEvent
  <2>4. runs[r].terminal = FALSE
    BY <1>1, <1>3, RunRowKept DEF Open
  <2> HIDE DEF new
  <2>5. Ends' = Ends
    BY <1>1, <1>3, <2>1, <2>3, <2>4, EndsKept DEF Open
  <2> QED
    BY <1>1, <1>3, <2>3, <2>5, CallsKept, UnderWayMeansOpen DEF History!Progress, Ends, States
<1>4. Open(r) => runs[r] \in RunRow /\ runs[r].terminal = FALSE
  BY <1>1, RunRowKept DEF Open
<1>5. CASE RecordEvent(r)
  BY <1>3, <1>4, <1>5 DEF RecordEvent
<1>6. ASSUME NEW stage \in Stages, TransitionRun(r, stage) PROVE History!Progress(r)
  <2> DEFINE row == [runs[r] EXCEPT !.stage = stage]
  <2>1. Open(r) /\ UpdateRun(r, "state", row)
    BY <1>6 DEF TransitionRun
  <2>2. row \in RunRow /\ row.terminal = FALSE
    BY <1>4, <2>1 DEF RunRow
  <2> HIDE DEF row
  <2> QED
    BY <1>3, <2>1, <2>2
<1>7. ASSUME NEW target \in Targets, SetRunTarget(r, target) PROVE History!Progress(r)
  <2> DEFINE row == [runs[r] EXCEPT !.target = target]
  <2>1. Open(r) /\ UpdateRun(r, "candidate_selected", row)
    BY <1>7 DEF SetRunTarget
  <2>2. row \in RunRow /\ row.terminal = FALSE
    BY <1>4, <2>1 DEF RunRow
  <2> HIDE DEF row
  <2> QED
    BY <1>3, <2>1, <2>2
<1>8. ASSUME NEW cleanup \in Cleanups, SetCleanupStatus(r, cleanup) PROVE History!Progress(r)
  <2> DEFINE row == [runs[r] EXCEPT !.cleanup = cleanup]
  <2>1. Open(r) /\ UpdateRun(r, "cleanup", row)
    BY <1>8 DEF SetCleanupStatus
  <2>2. row \in RunRow /\ row.terminal = FALSE
    BY <1>4, <2>1 DEF RunRow
  <2> HIDE DEF row
  <2> QED
    BY <1>3, <2>1, <2>2
<1>9. ASSUME NEW stage \in TerminalRunStages, NEW given \in Cleanups \cup {None},
             FinishRun(r, stage, given)
      PROVE  History!End(r)
  <2> DEFINE cleanup == IF given = None THEN runs[r].cleanup ELSE given
             row == [runs[r] EXCEPT !.stage = stage, !.terminal = TRUE, !.cleanup = cleanup]
             new == [row EXCEPT !.last = runs[r].last + 1]
  <2>1. Open(r) /\ UpdateRun(r, "run_finished", row)
    BY <1>9 DEF FinishRun, Outcome
  <2>2. cleanup \in {"not_started"} \cup Cleanups /\ runs[r].target \in Targets \cup {None}
    BY <1>4, <2>1 DEF RunRow
  <2> HIDE DEF cleanup
  <2>3. runs[r].last \in Nat
    BY <1>1, <2>1, RunRowKept DEF Open
  <2>4. /\ row \in RunRow /\ row.terminal = TRUE /\ row.stage = stage /\ row.cleanup = cleanup
        /\ row.target = runs[r].target
    BY <1>4, <2>1, <2>2 DEF RunRow
  <2>5. /\ runs' = [runs EXCEPT ![r] = new] /\ UNCHANGED <<invocations, usage>>
        /\ events' = [events EXCEPT ![r] = Append(@, "run_finished")]
    BY <2>1 DEF UpdateRun, AppendEvent
  <2> HIDE DEF row
  <2>6. /\ new \in RunRow /\ new.terminal = TRUE /\ new.stage = stage /\ new.cleanup = cleanup
        /\ new.target = runs[r].target
    BY <2>3, <2>4 DEF RunRow
  <2> HIDE DEF new
  <2> DEFINE end == <<stage, cleanup, runs[r].target>>
  <2>7. runs'[r] = new /\ \A o \in Runs \ {r} : runs'[o] = runs[o]
    BY <1>1, <2>5 DEF TypeOK
  <2>8. OutcomeOf(r)' = {end}
    BY <2>6, <2>7, NoneIsNotARow DEF OutcomeOf, Stored, Open
  <2>9. \A o \in Runs \ {r} : OutcomeOf(o)' = OutcomeOf(o)
    BY <2>7 DEF OutcomeOf, Stored, Open
  <2>10. end \in TerminalRunStages \X ({"not_started"} \cup Cleanups) \X (Targets \cup {None})
    BY <2>2
  <2> HIDE DEF end
  <2>11. Ends' = [Ends EXCEPT ![r] = {end}]
    BY <2>8, <2>9 DEF Ends
  <2> QED
    BY <1>1, <2>1, <2>5, <2>10, <2>11, CallsKept, UnderWayMeansOpen DEF History!End, Ends, States
<1>10. ASSUME NEW state \in ReservationStates, NEW window \in Windows,
              RecordBudgetProjection(r, state, window)
       PROVE  History!Budget(r)
  <2> DEFINE row == [runs[r] EXCEPT !.window = window]
             new == [row EXCEPT !.last = @ + 1]
             type == IF state = "snapshot" THEN "budget_observed" ELSE "budget_reserved"
  <2>1. /\ Stored(r) /\ runs' = [runs EXCEPT ![r] = new] /\ UNCHANGED <<invocations, usage>>
        /\ events' = [events EXCEPT ![r] = Append(@, type)]
        /\ type \in {"budget_observed", "budget_reserved"}
    BY <1>10 DEF RecordBudgetProjection, Project, AppendEvent
  <2>2. runs[r] \in RunRow
    BY <1>1, <2>1, RunRowKept
  <2>3. /\ row \in RunRow /\ row.stage = runs[r].stage /\ row.terminal = runs[r].terminal
        /\ row.target = runs[r].target /\ row.cleanup = runs[r].cleanup
    BY <2>2 DEF RunRow
  <2> HIDE DEF row
  <2>4. /\ new \in RunRow /\ new.stage = runs[r].stage /\ new.terminal = runs[r].terminal
        /\ new.target = runs[r].target /\ new.cleanup = runs[r].cleanup
    BY <2>3 DEF RunRow
  <2> HIDE DEF new, type
  <2>5. Ends' = Ends
    BY <1>1, <2>1, <2>4, EndsKept
  <2> QED
    BY <1>1, <2>1, <2>5, CallsKept, UnderWayMeansOpen DEF History!Budget, Ends, States
<1> QED
  BY <1>2, <1>5, <1>6, <1>7, <1>8, <1>9, <1>10 DEF RunWrite

\* A write to an invocation's row moves its call and no other.
LEMMA CallMoves ==
  ASSUME TypeOK, NEW i \in Invocations, NEW row \in InvocationRow,
         invocations' = [invocations EXCEPT ![i] = row],
         NEW state, state = (IF row.state \in TerminalModelStates THEN "over" ELSE "open")
  PROVE  /\ States' = [States EXCEPT ![i] = state]
         /\ States[i] = state => States' = States
<1>1. invocations'[i] = row /\ \A j \in Invocations \ {i} : invocations'[j] = invocations[j]
  BY DEF TypeOK
<1>2. CallOf(i)' = state
  BY <1>1, NoneIsNotARow DEF CallOf, Known, Running
<1>3. \A j \in Invocations \ {i} : CallOf(j)' = CallOf(j)
  BY <1>1 DEF CallOf, Known, Running
<1> QED
  BY <1>2, <1>3 DEF States

\* A write about an invocation tells one thing about a call, or nothing.
LEMMA InvocationWriteIsTold ==
  ASSUME TelemetryInv, NEW i \in Invocations, InvocationWrite(i)
  PROVE  \/ History!Call(i) \/ History!Hear(i) \/ History!Return(i)
         \/ \E k \in RequestKeys, u \in Usages : History!Receive(i, k, u)
         \/ UNCHANGED <<events, Ends, States, Receipts>>
<1>1. /\ TypeOK /\ i[1] \in Runs /\ i \in Invocations
      /\ invocations \in [Invocations -> InvocationRow \cup {None}]
      /\ usage \in [Invocations -> [RequestKeys -> Usages \cup {None}]]
      /\ UsageHolds(i)
  BY DEF TelemetryInv, TypeOK, Invocations
<1>2. Known(i) => invocations[i] \in InvocationRow /\ Stored(i[1])
  BY <1>1 DEF Known, UsageHolds
<1>3. Running(i) => Known(i) /\ States[i] = "open"
  BY DEF Running, Known, States, CallOf
<1>4. ASSUME NEW type \in EventTypes, InvocationEvent(i, type), Stored(i[1])
      PROVE  Ends' = Ends /\ History!Write(i[1], type)
  <2> DEFINE new == [runs[i[1]] EXCEPT !.last = @ + 1]
  <2>1. runs[i[1]] \in RunRow /\ runs[i[1]].last \in Nat
    BY <1>1, <1>4, RunRowKept
  <2>2. /\ new \in RunRow /\ new.terminal = runs[i[1]].terminal /\ new.stage = runs[i[1]].stage
        /\ new.cleanup = runs[i[1]].cleanup /\ new.target = runs[i[1]].target
    BY <2>1 DEF RunRow
  <2>3. runs' = [runs EXCEPT ![i[1]] = new] /\ History!Write(i[1], type)
    BY <1>4 DEF InvocationEvent, AppendEvent, History!Write
  <2> HIDE DEF new
  <2> QED
    BY <1>1, <1>4, <2>2, <2>3, EndsKept
<1>5. CASE StartModelInvocation(i)
  <2> DEFINE unheard == [s \in Sources |-> 0]
             row == [state |-> "starting", identity |-> "unknown", usage_status |-> "pending",
                     heard |-> unheard]
  <2>1. unheard \in [Sources -> 0 .. MaxTime]
    BY TelemetryAssumption
  <2>2. row \in InvocationRow /\ row.state \notin TerminalModelStates
    BY <2>1 DEF InvocationRow, TerminalModelStates
  <2>3. /\ ~Known(i) /\ invocations' = [invocations EXCEPT ![i] = row] /\ usage' = usage
        /\ InvocationEvent(i, "model_started") /\ Open(i[1])
    BY <1>5 DEF StartModelInvocation
  <2> HIDE DEF row
  <2>4. States' = [States EXCEPT ![i] = "open"]
    BY <1>1, <2>2, <2>3, CallMoves
  <2>5. States[i] = "none"
    BY <2>3 DEF States, CallOf
  <2>6. Ends' = Ends /\ History!Write(i[1], "model_started")
    BY <1>4, <2>3 DEF EventTypes, Open
  <2>7. History!UnderWay(i[1])
    BY <1>1, <2>3, UnderWayMeansOpen
  <2>8. History!Call(i)
    BY <2>3, <2>4, <2>5, <2>6, <2>7, CallsKept DEF History!Call, Ends, States
  <2> QED
    BY <2>8
<1>6. ASSUME NEW row \in InvocationRow, row.state \notin TerminalModelStates, Running(i),
             invocations' = [invocations EXCEPT ![i] = row], usage' = usage,
             NEW type \in {"model_checkin", "model_heartbeat"}, InvocationEvent(i, type)
      PROVE  History!Hear(i)
  <2>1. States' = States /\ States[i] = "open"
    BY <1>1, <1>3, <1>6, CallMoves
  <2>2. Ends' = Ends /\ History!Write(i[1], type)
    BY <1>2, <1>3, <1>4, <1>6 DEF EventTypes
  <2> QED
    BY <1>6, <2>1, <2>2, CallsKept DEF History!Hear, Ends, States
<1>7. ASSUME NEW identity \in {"matched", "mismatch"}, RecordModelCheckin(i, identity)
      PROVE  History!Hear(i)
  <2> DEFINE row == [invocations[i] EXCEPT !.identity = identity, !.state = "running"]
  <2>1. Running(i) /\ InvocationEvent(i, "model_checkin") /\ usage' = usage
    BY <1>7 DEF RecordModelCheckin
  <2>2. row \in InvocationRow /\ row.state \notin TerminalModelStates
    BY <2>1, <1>2, <1>3 DEF InvocationRow, TerminalModelStates
  <2>3. invocations' = [invocations EXCEPT ![i] = row]
    BY <1>1, <1>7 DEF RecordModelCheckin
  <2> HIDE DEF row
  <2> QED
    BY <2>1, <2>2, <2>3, <1>6
<1>8. ASSUME NEW source \in Sources, NEW time \in 1 .. MaxTime, HeartbeatModel(i, source, time)
      PROVE  History!Hear(i) \/ UNCHANGED <<events, Ends, States, Receipts>>
  <2> DEFINE heard == [invocations[i].heard EXCEPT ![source] = time]
             row == [invocations[i] EXCEPT !.heard = heard, !.state = "running"]
  <2>1. /\ Running(i) /\ usage' = usage
        /\ InvocationEvent(i, "model_heartbeat") \/ UNCHANGED <<runs, events>>
    BY <1>8 DEF HeartbeatModel
  <2>2. heard \in [Sources -> 0 .. MaxTime]
    BY <1>1, <1>3, <2>1, InvocationRowKept, TelemetryAssumption
  <2>3. invocations' = [invocations EXCEPT ![i] = row]
    BY <1>1, <1>8 DEF HeartbeatModel
  <2> HIDE DEF heard
  <2>4. row \in InvocationRow /\ row.state \notin TerminalModelStates
    BY <2>1, <2>2, <1>2, <1>3 DEF InvocationRow, TerminalModelStates
  <2> HIDE DEF row
  <2>5. CASE InvocationEvent(i, "model_heartbeat")
    BY <1>6, <2>1, <2>3, <2>4, <2>5
  <2>6. CASE UNCHANGED <<runs, events>>
    <3>1. Ends' = Ends
      BY <2>6 DEF Ends, OutcomeOf, Stored, Open
    <3>2. States' = States
      BY <1>1, <1>3, <2>1, <2>3, <2>4, CallMoves
    <3> QED
      BY <2>1, <2>6, <3>1, <3>2, CallsKept
  <2> QED
    BY <2>1, <2>5, <2>6
<1>9. ASSUME NEW key \in RequestKeys, NEW report \in Usages, RecordModelUsage(i, key, report)
      PROVE  History!Receive(i, key, report)
  <2> DEFINE told == UsageStatus({usage'[i][k] : k \in Reports(i) \cup {key}})
             row == [invocations[i] EXCEPT !.usage_status = told]
  <2>1. /\ Running(i) /\ InvocationEvent(i, "model_usage")
        /\ usage[i][key] = None /\ usage' = [usage EXCEPT ![i][key] = report]
    BY <1>9 DEF RecordModelUsage
  <2>2. told \in {"pending", "exact", "estimated", "partial", "unavailable"}
    BY DEF UsageStatus
  <2>3. invocations' = [invocations EXCEPT ![i] = row]
    BY <1>1, <1>9 DEF RecordModelUsage
  <2> HIDE DEF told
  <2>4. row \in InvocationRow /\ row.state \notin TerminalModelStates
    BY <2>1, <2>2, <1>2, <1>3 DEF InvocationRow, Running
  <2> HIDE DEF row
  <2>5. States' = States /\ States[i] = "open"
    BY <1>1, <1>3, <2>1, <2>3, <2>4, CallMoves
  <2>6. Ends' = Ends /\ History!Write(i[1], "model_usage")
    BY <1>2, <1>3, <1>4, <2>1 DEF EventTypes
  <2>7. \A v \in Usages : <<i, key, v>> \notin Receipts
    BY <2>1, TelemetryAssumption DEF Receipts
  <2>8. Receipts' = Receipts \cup {<<i, key, report>>}
    <3>1. /\ usage'[i][key] = report
          /\ \A j \in Invocations, k \in RequestKeys : j # i \/ k # key =>
               usage'[j][k] = usage[j][k]
      BY <1>1, <2>1
    <3>2. ASSUME NEW j \in Invocations, NEW k \in RequestKeys, NEW u \in Usages
          PROVE  <<j, k, u>> \in Receipts' <=>
                   <<j, k, u>> \in Receipts \cup {<<i, key, report>>}
      <4>1. CASE j = i /\ k = key
        BY <2>7, <3>1, <4>1 DEF Receipts
      <4>2. CASE j # i \/ k # key
        BY <3>1, <4>2 DEF Receipts
      <4> QED
        BY <4>1, <4>2
    <3>3. /\ Receipts \subseteq Invocations \X RequestKeys \X Usages
          /\ Receipts' \subseteq Invocations \X RequestKeys \X Usages
          /\ <<i, key, report>> \in Invocations \X RequestKeys \X Usages
      BY DEF Receipts
    <3> QED
      BY <3>2, <3>3
  <2> QED
    BY <2>5, <2>6, <2>7, <2>8 DEF History!Receive, Ends, States
<1>10. ASSUME NEW state \in TerminalModelStates, FinishModelInvocation(i, state)
       PROVE  History!Return(i)
  <2> DEFINE told == IF invocations[i].usage_status = "pending" THEN "unavailable"
                     ELSE invocations[i].usage_status
             row == [invocations[i] EXCEPT !.state = state, !.usage_status = told]
  <2>1. Running(i) /\ InvocationEvent(i, "model_finished") /\ usage' = usage
    BY <1>10 DEF FinishModelInvocation
  <2>2. told \in {"pending", "exact", "estimated", "partial", "unavailable"}
    BY <2>1, <1>2, <1>3 DEF InvocationRow
  <2>3. invocations' = [invocations EXCEPT ![i] = row]
    BY <1>1, <1>10 DEF FinishModelInvocation
  <2> HIDE DEF told
  <2>4. row \in InvocationRow /\ row.state = state
    BY <2>1, <2>2, <1>2, <1>3 DEF InvocationRow
  <2> HIDE DEF row
  <2>5. States' = [States EXCEPT ![i] = "over"] /\ States[i] = "open"
    BY <1>1, <1>3, <2>1, <2>3, <2>4, CallMoves
  <2>6. Ends' = Ends /\ History!Write(i[1], "model_finished")
    BY <1>2, <1>3, <1>4, <2>1 DEF EventTypes
  <2> QED
    BY <2>1, <2>5, <2>6, CallsKept DEF History!Return, Ends, States
<1> QED
  BY <1>5, <1>7, <1>8, <1>9, <1>10 DEF InvocationWrite

\* The store implements the recorded history: each write tells one thing about
\* one run, which no later write takes back (telemetry.py:456-1355).
THEOREM StoreImplementsHistory == Spec => ImplementsHistory
<1>1. ASSUME Init PROVE History!Init
  <2>1. Ends = [r \in Runs |-> {}]
    BY <1>1 DEF Init, Ends, OutcomeOf, Stored
  <2>2. States = [c \in History!Calls |-> "none"]
    BY <1>1 DEF Init, States, CallOf, Known, History!Calls, Invocations
  <2>3. Receipts = {}
    BY <1>1, TelemetryAssumption DEF Init, Receipts
  <2> QED
    BY <1>1, <2>1, <2>2, <2>3 DEF Init, History!Init, Ends, States
<1>2. ASSUME TelemetryInv, [Next]_vars PROVE [History!Next]_(History!history)
  <2>1. CASE UNCHANGED store
    <3>1. Ends' = Ends
      BY <2>1 DEF store, Ends, OutcomeOf, Stored, Open
    <3>2. States' = States /\ Receipts' = Receipts /\ events' = events
      BY <2>1, CallsKept DEF store
    <3> QED
      BY <3>1, <3>2 DEF History!history, Ends, States
  <2>2. CASE Summary \/ GetRun \/ Answered
    <3>1. UNCHANGED store
      BY <2>2 DEF Summary, ReadBudget, ReadUsage, ReadFinished, ReadActive, GetRun, ReadRun,
        ReadEvents, ReadModels, Gather, Answered
    <3> QED
      BY <2>1, <3>1
  <2>3. ASSUME NEW r \in Runs, RunWrite(r) PROVE History!Next
    BY <1>2, <2>3, RunWriteIsTold DEF History!Next
  <2>4. ASSUME NEW i \in Invocations, InvocationWrite(i)
        PROVE  History!Next \/ UNCHANGED History!history
    <3>1. i \in History!Calls
      BY DEF History!Calls, Invocations
    <3>2. CASE UNCHANGED <<events, Ends, States, Receipts>>
      BY <3>2 DEF History!history, Ends, States
    <3>3. \/ History!Call(i) \/ History!Hear(i) \/ History!Return(i)
          \/ \E k \in RequestKeys, u \in Usages : History!Receive(i, k, u)
          \/ UNCHANGED <<events, Ends, States, Receipts>>
      BY <1>2, <2>4, InvocationWriteIsTold
    <3>4. CASE History!Call(i) \/ History!Hear(i) \/ History!Return(i)
      BY <3>1, <3>4 DEF History!Next
    <3>5. CASE \E k \in RequestKeys, u \in Usages : History!Receive(i, k, u)
      BY <3>1, <3>5 DEF History!Next
    <3> QED
      BY <3>2, <3>3, <3>4, <3>5
  <2> QED
    BY <1>2, <2>1, <2>2, <2>3, <2>4 DEF Next, vars
<1> QED
  BY <1>1, <1>2, TelemetryAlways, PTL DEF Spec, ImplementsHistory, History!Spec

===============================================================================
