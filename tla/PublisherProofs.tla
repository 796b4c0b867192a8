---------------------------- MODULE PublisherProofs ----------------------------
(***************************************************************************)
(* The publisher's promises, for every number of runs, issues and          *)
(* publications, every cap, and whatever people do how often.              *)
(*                                                                         *)
(* Everything hangs on what a request in flight may still do: it was sent  *)
(* by a run that had seen the fork ready, the branch there or the pull     *)
(* request missing, and as long as people leave the issue alone none of    *)
(* these facts is ever undone.                                             *)
(***************************************************************************)
EXTENDS Publisher, FiniteSetTheorems, SequenceTheorems, TLAPS

\* The places behind the fork, behind the branch, and those from which a run may
\* still come to open a pull request.
BehindFork == {"branch_lookup", "push", "push_sent", "push_recheck", "pr_lookup", "create",
               "create_sent", "create_recheck", "verify"}
BehindBranch == {"pr_lookup", "create", "create_sent", "create_recheck", "verify"}
BeforeCreate == {"fork_lookup", "fork_sent", "fork_poll", "branch_lookup", "push", "push_sent",
                 "push_recheck", "pr_lookup", "create"}

\* Only people close pull requests; the one that r's request opened is on r's issue.
PrsInv ==
  /\ \A k \in DOMAIN prs : prs[k].open \/ Touched(prs[k].issue)
  /\ \A r \in Runs :
       /\ created[r] # 0 => prs[created[r]].issue = issue[r]
       /\ pc[r] = "verify" \/ (pc[r] = "create_sent" /\ answer[r] = "done") => created[r] # 0
       /\ pc[r] = "returned" => prs[result[r]].issue = issue[r]

\* What a run has seen holds for its requests, wherever the run is by now.
RequestsInv ==
  \A r \in Runs :
    /\ pc[r] \in BehindFork \/ "push" \in flight[r] \/ "create" \in flight[r] => fork = "ready"
    /\ \/ pc[r] \in BehindBranch \/ "create" \in flight[r]
       \/ pc[r] = "push_sent" /\ answer[r] = "done"
       => branch[issue[r]] # None \/ Touched(issue[r])
    /\ pc[r] = "idle" => flight[r] = {}
    /\ pc[r] \in {"approved", "preflight"} \cup BeforeCreate => "create" \notin flight[r]

\* A late write leaves no request in flight that could change anything more.
LateInv ==
  \A r \in Runs : ~Touched(issue[r]) =>
    /\ valid[r] => late[r] = {}
    /\ late[r] \in {{}, {"fork"}, {"push"}, {"create"}}
    /\ "fork" \in late[r] => fork # "absent" /\ "push" \notin flight[r] /\ "create" \notin flight[r]
    /\ "push" \in late[r] => fork = "ready" /\ branch[issue[r]] # None /\ "create" \notin flight[r]
    /\ "create" \in late[r] => fork = "ready" /\ branch[issue[r]] # None /\ "create" \notin flight[r]

Active(r) == pc[r] \notin Ended \cup {"idle"} \/ flight[r] # {}

\* Runs that follow one another: one at a time is active, and there is room for
\* the pull request that it may yet open.
CapInv ==
  spaced =>
    /\ \A r, k \in Runs : Active(r) /\ Active(k) => r = k
    /\ \A r \in Runs : pc[r] \in BeforeCreate \/ "create" \in flight[r]
                         => Cardinality(OpenPrs) < MaxOpenPrs
    /\ Cardinality(OpenPrs) <= MaxOpenPrs

IInv == TypeOK /\ PrsInv /\ PublishedStays /\ RequestsInv /\ LateInv /\ CapInv

-------------------------------------------------------------------------------
\* What a client's step that sends nothing does: it moves on, perhaps with a result.
Unsent == UNCHANGED <<spaced, issue, work, answer, created, valid, flight, late, github, acts>>

MovesTo(r, p) == pc' = [pc EXCEPT ![r] = p] /\ Unsent

\* ... and what it has seen when it gets there.
Seen(r, p) ==
  /\ p # "idle" /\ (pc[r] = "idle" => p = "approved")
  /\ pc[r] = "idle" /\ spaced => \A k \in Runs \ {r} : ~Active(k)
  /\ pc[r] \notin Ended
  /\ p \in BehindFork => fork = "ready"
  /\ p \in BehindBranch => branch[issue[r]] # None \/ Touched(issue[r])
  /\ p \in {"push_sent", "create_sent"} => FALSE
  /\ p \in {"approved", "preflight"} => pc[r] \in {"idle", "approved"}
  /\ p \in BeforeCreate => pc[r] \in BeforeCreate \/ (pc[r] = "preflight" /\ Cardinality(OpenPrs) < MaxOpenPrs)
  /\ p = "verify" => created[r] # 0

Goes(r, p) == p # "returned" /\ UNCHANGED result

Returns(r, p) ==
  /\ p = "returned"
  /\ \E k \in DOMAIN prs :
       /\ result' = [result EXCEPT ![r] = k]
       /\ prs[k].issue = issue[r] /\ Matches(r, k)
       /\ prs[k].open \/ Touched(issue[r])

\* The types of one run's part of the state.
LEMMA TypeFacts ==
  ASSUME TypeOK, NEW r \in Runs
  PROVE  /\ pc[r] \in Places /\ issue[r] \in Issues /\ work[r] \in Publications
         /\ work[r] # None /\ work[r] # Altered
         /\ DOMAIN prs = 1..Len(prs) /\ Len(prs) \in Nat
         /\ created[r] \in 0..Len(prs) /\ result[r] \in 0..Len(prs)
         /\ flight[r] \subseteq Writes /\ late[r] \subseteq Writes
<1>1. prs \in Seq(Pr)
  BY DEF TypeOK
<1>2. DOMAIN prs = 1..Len(prs) /\ Len(prs) \in Nat
  BY <1>1
<1>3. created[r] \in 0..Len(prs) /\ result[r] \in 0..Len(prs)
  BY DEF TypeOK
<1>4. work[r] \in Publications /\ work[r] # None /\ work[r] # Altered
  BY PublisherAssumption DEF TypeOK
<1>5. pc[r] \in Places /\ issue[r] \in Issues /\ flight[r] \subseteq Writes /\ late[r] \subseteq Writes
  BY DEF TypeOK
<1> QED BY <1>2, <1>3, <1>4, <1>5

LEMMA SequenceFacts ==
  ASSUME TypeOK
  PROVE  /\ prs \in Seq(Pr) /\ Len(prs) \in Nat /\ DOMAIN prs = 1..Len(prs)
         /\ \A k \in DOMAIN prs : prs[k] \in Pr /\ prs[k].issue \in Issues
         /\ acts \in Seq(Issues) /\ Len(acts) \in Nat /\ DOMAIN acts = 1..Len(acts)
<1>1. prs \in Seq(Pr) /\ acts \in Seq(Issues)
  BY DEF TypeOK
<1>2. /\ Len(prs) \in Nat /\ DOMAIN prs = 1..Len(prs) /\ \A k \in DOMAIN prs : prs[k] \in Pr
      /\ Len(acts) \in Nat /\ DOMAIN acts = 1..Len(acts)
  BY <1>1
<1>3. \A k \in DOMAIN prs : prs[k].issue \in Issues
  BY <1>2 DEF Pr
<1> QED BY <1>1, <1>2, <1>3

LEMMA ClientMoves ==
  ASSUME IInv, NEW r \in Runs,
         \/ Begin(r) \/ Commit(r) \/ Preflight(r) \/ FindFork(r) \/ ForkAnswered(r) \/ PollFork(r)
         \/ FindBranch(r) \/ NoPush(r) \/ PushAnswered(r) \/ RecheckPush(r) \/ FindPr(r)
         \/ NoCreate(r) \/ CreateAnswered(r) \/ RecheckCreate(r) \/ Verify(r) \/ Crash(r)
  PROVE  \E p \in Places : MovesTo(r, p) /\ Seen(r, p) /\ (Goes(r, p) \/ Returns(r, p))
<1> USE PublisherAssumption DEF MovesTo, Unsent, Seen, Goes, Places, Ended, BehindFork, BehindBranch,
        BeforeCreate, Reading, GoTo, github
<1>0. /\ pc[r] \in Places /\ issue[r] \in Issues /\ work[r] \in Publications
      /\ work[r] # None /\ DOMAIN prs = 1..Len(prs) /\ Len(prs) \in Nat
      /\ created[r] \in 0..Len(prs)
  BY TypeFacts DEF IInv
<1>1. CASE Begin(r)
  BY <1>1, <1>0 DEF Begin, Active
<1>2. CASE Commit(r)
  BY <1>2, <1>0 DEF Commit
<1>3. ASSUME NEW k \in OpenPrs, Reconciled(r, k), Return(r, k),
             pc[r] \in {"preflight", "pr_lookup", "create_recheck"},
             UNCHANGED <<spaced, valid, flight, late, github, acts>>
      PROVE  MovesTo(r, "returned") /\ Seen(r, "returned") /\ Returns(r, "returned")
  <2>1. k \in DOMAIN prs /\ prs[k].issue = issue[r] /\ Matches(r, k) /\ prs[k].open
    BY <1>3 DEF OpenPrs, Reconciled, PrsOf
  <2>2. Returns(r, "returned")
    BY <1>3, <2>1 DEF Returns, Return
  <2> QED BY <1>3, <2>2 DEF Return
<1>4. CASE Preflight(r)
  BY <1>3, <1>4, <1>0 DEF Preflight
<1>5. CASE FindFork(r)
  BY <1>5, <1>0 DEF FindFork
<1>6. CASE ForkAnswered(r)
  BY <1>6, <1>0 DEF ForkAnswered
<1>7. CASE PollFork(r)
  BY <1>7, <1>0 DEF PollFork
<1>8. CASE FindBranch(r)
  BY <1>8, <1>0 DEF FindBranch, IInv, RequestsInv
<1>9. CASE NoPush(r)
  BY <1>9, <1>0 DEF NoPush, IInv, RequestsInv
<1>10. CASE PushAnswered(r)
  BY <1>10, <1>0 DEF PushAnswered, IInv, RequestsInv
<1>11. CASE RecheckPush(r)
  BY <1>11, <1>0 DEF RecheckPush, IInv, RequestsInv
<1>12. CASE FindPr(r)
  BY <1>3, <1>12, <1>0 DEF FindPr, IInv, RequestsInv
<1>13. CASE NoCreate(r)
  BY <1>13, <1>0 DEF NoCreate, IInv, RequestsInv
<1>14. CASE CreateAnswered(r)
  BY <1>14, <1>0 DEF CreateAnswered, IInv, RequestsInv, PrsInv
<1>15. CASE RecheckCreate(r)
  BY <1>3, <1>15, <1>0 DEF RecheckCreate, IInv, RequestsInv
<1>16. CASE Verify(r)
  <2>1. created[r] \in DOMAIN prs /\ prs[created[r]].issue = issue[r]
    BY <1>0, <1>16 DEF Verify, IInv, PrsInv
  <2>2. prs[created[r]].open \/ Touched(issue[r])
    BY <2>1 DEF IInv, PrsInv
  <2>3. CASE GoTo(r, "failed")
    BY <1>16, <1>0, <2>3 DEF Verify
  <2>4. CASE Return(r, created[r]) /\ Matches(r, created[r])
    BY <1>16, <2>1, <2>2, <2>4 DEF Verify, Returns, Return
  <2> QED BY <1>16, <2>3, <2>4 DEF Verify
<1>17. CASE Crash(r)
  BY <1>17, <1>0 DEF Crash
<1> QED
  BY <1>1, <1>2, <1>4, <1>5, <1>6, <1>7, <1>8, <1>9, <1>10, <1>11, <1>12, <1>13, <1>14, <1>15,
     <1>16, <1>17

LEMMA MovesInv ==
  ASSUME IInv, NEW r \in Runs, NEW p \in Places, MovesTo(r, p), Seen(r, p),
         Goes(r, p) \/ Returns(r, p)
  PROVE  IInv'
<1> USE DEF MovesTo, Unsent, github
<1>0. /\ DOMAIN prs = 1..Len(prs) /\ Len(prs) \in Nat /\ pc[r] \in Places
  BY TypeFacts DEF IInv
<1>1. pc' = [k \in Runs |-> IF k = r THEN p ELSE pc[k]]
  BY DEF IInv, TypeOK
<1>2. PICK n \in 0..Len(prs) :
        /\ result' = [k \in Runs |-> IF k = r THEN n ELSE result[k]]
        /\ IF p = "returned" THEN /\ n # 0 /\ prs[n].issue = issue[r] /\ Matches(r, n)
                                  /\ prs[n].open \/ Touched(issue[r])
           ELSE n = 0
  <2>1. CASE Goes(r, p)
    <3>1. result[r] = 0
      BY DEF IInv, TypeOK, Seen, Ended
    <3> QED BY <1>0, <2>1, <3>1 DEF Goes, IInv, TypeOK
  <2>2. CASE Returns(r, p)
    <3>1. PICK n \in DOMAIN prs :
            /\ result' = [result EXCEPT ![r] = n]
            /\ prs[n].issue = issue[r] /\ Matches(r, n)
            /\ prs[n].open \/ Touched(issue[r])
      BY <2>2 DEF Returns
    <3>2. n \in 0..Len(prs) /\ n # 0 /\ p = "returned"
      BY <1>0, <2>2 DEF Returns
    <3>3. result' = [k \in Runs |-> IF k = r THEN n ELSE result[k]]
      BY <3>1 DEF IInv, TypeOK
    <3> QED BY <3>1, <3>2, <3>3
  <2> QED BY <2>1, <2>2
<1>3. TypeOK'
  <2>1. pc' \in [Runs -> Places] /\ result' \in [Runs -> 0..Len(prs)]
    BY <1>1, <1>2 DEF IInv, TypeOK
  <2>2. ASSUME NEW k \in Runs PROVE pc'[k] = "returned" <=> result'[k] # 0
    BY <1>1, <1>2 DEF IInv, TypeOK
  <2> QED BY <2>1, <2>2 DEF IInv, TypeOK
<1>4. OpenPrs' = OpenPrs
  BY DEF OpenPrs
<1>5. PrsInv'
  BY <1>1, <1>2 DEF IInv, PrsInv, Touched, Seen
<1>6. PublishedStays'
  BY <1>1, <1>2 DEF IInv, PublishedStays, Touched, Matches
<1>7. RequestsInv'
  BY <1>1 DEF IInv, RequestsInv, Seen, BehindBranch, BehindFork, BeforeCreate, Touched
<1>8. LateInv'
  BY DEF IInv, LateInv, Touched
<1>9. CapInv'
  <2>1. \A k \in Runs : Active(k)' => Active(k) \/ (k = r /\ pc[r] = "idle")
    BY <1>1 DEF Active, Seen, Ended
  <2>2. \A j, k \in Runs : spaced /\ Active(j)' /\ Active(k)' => j = k
    BY <2>1 DEF IInv, CapInv, Seen
  <2> QED BY <1>1, <1>4, <2>2 DEF IInv, CapInv, Seen
<1> QED BY <1>3, <1>5, <1>6, <1>7, <1>8, <1>9 DEF IInv

-------------------------------------------------------------------------------
\* A request is sent: the run's approval holds, so nothing of it is late.
LEMMA SendInv ==
  ASSUME IInv, NEW r \in Runs, Fork(r) \/ Push(r) \/ Create(r)
  PROVE  IInv'
<1> USE DEF Writes
<1>1. PICK write \in Writes : Send(r, write) /\ valid[r] /\
             \/ write = "fork" /\ pc[r] = "fork_lookup"
             \/ write = "push" /\ pc[r] = "push"
             \/ write = "create" /\ pc[r] = "create"
  BY DEF Fork, Push, Create
<1> DEFINE p == Sent[write]
<1>2. \/ write = "fork" /\ p = "fork_sent"
      \/ write = "push" /\ p = "push_sent"
      \/ write = "create" /\ p = "create_sent"
  BY DEF Sent
<1>3. /\ pc' = [k \in Runs |-> IF k = r THEN p ELSE pc[k]]
      /\ flight' = [k \in Runs |-> IF k = r THEN flight[r] \cup {write} ELSE flight[k]]
      /\ answer' = [k \in Runs |-> IF k = r THEN "" ELSE answer[k]]
  BY <1>1 DEF Send, IInv, TypeOK
<1>4. UNCHANGED <<spaced, issue, work, created, result, valid, late, fork, branch, prs, acts>>
  BY <1>1 DEF Send, github
<1>5. p \in Places \ Ended
  BY <1>2 DEF Places, Ended
<1> HIDE DEF p
<1>6. TypeOK'
  BY <1>1, <1>3, <1>4, <1>5 DEF IInv, TypeOK, Ended
<1>7. PrsInv'
  BY <1>2, <1>3, <1>4 DEF IInv, PrsInv, Touched
<1>8. PublishedStays'
  BY <1>3, <1>4, <1>5 DEF IInv, PublishedStays, Matches, Touched, Ended
<1>9. RequestsInv'
  BY <1>1, <1>2, <1>3, <1>4
     DEF IInv, RequestsInv, Touched, BehindFork, BehindBranch, BeforeCreate
<1>10. LateInv'
  BY <1>1, <1>3, <1>4 DEF IInv, LateInv, Touched
<1>11. CapInv'
  <2>1. OpenPrs' = OpenPrs
    BY <1>4 DEF OpenPrs
  <2>2. \A k \in Runs : Active(k)' => Active(k)
    BY <1>1, <1>3 DEF Active, Ended
  <2> QED BY <1>1, <1>2, <1>3, <1>4, <2>1, <2>2 DEF IInv, CapInv, BeforeCreate
<1> QED BY <1>6, <1>7, <1>8, <1>9, <1>10, <1>11 DEF IInv

\* GitHub refuses a request, or it never arrives.
LEMMA RefuseInv ==
  ASSUME IInv, NEW r \in Runs, NEW write \in Writes, Refuse(r, write)
  PROVE  IInv'
<1>1. flight' = [k \in Runs |-> IF k = r THEN flight[r] \ {write} ELSE flight[k]]
  BY DEF Refuse, IInv, TypeOK
<1>2. UNCHANGED <<spaced, pc, issue, work, answer, created, result, valid, late, fork, branch, prs, acts>>
  BY DEF Refuse, client, github
<1>3. TypeOK'
  BY <1>1, <1>2 DEF IInv, TypeOK
<1>4. PrsInv' /\ PublishedStays'
  BY <1>2 DEF IInv, PrsInv, PublishedStays, Matches, Touched
<1>5. RequestsInv' /\ LateInv'
  BY <1>1, <1>2 DEF IInv, RequestsInv, LateInv, Touched
<1>6. CapInv'
  BY <1>1, <1>2 DEF IInv, CapInv, Active, OpenPrs
<1> QED BY <1>3, <1>4, <1>5, <1>6 DEF IInv

\* The approval lapses.
LEMMA LapseInv ==
  ASSUME IInv, NEW r \in Runs, Lapse(r)
  PROVE  IInv'
<1>1. valid' = [k \in Runs |-> IF k = r THEN FALSE ELSE valid[k]]
  BY DEF Lapse, IInv, TypeOK
<1>2. UNCHANGED <<spaced, pc, issue, work, answer, created, result, flight, late, fork, branch, prs, acts>>
  BY DEF Lapse, client, github
<1>3. TypeOK'
  BY <1>1, <1>2 DEF IInv, TypeOK
<1>4. PrsInv' /\ PublishedStays' /\ RequestsInv'
  BY <1>2 DEF IInv, PrsInv, PublishedStays, RequestsInv, Matches, Touched
<1>5. LateInv'
  BY <1>1, <1>2 DEF IInv, LateInv, Touched
<1>6. CapInv'
  BY <1>2 DEF IInv, CapInv, Active, OpenPrs
<1> QED BY <1>3, <1>4, <1>5, <1>6 DEF IInv

\* The fork is there at last.
LEMMA ForkAppearsInv ==
  ASSUME IInv, ForkAppears
  PROVE  IInv'
<1>1. UNCHANGED <<spaced, pc, issue, work, answer, created, result, valid, flight, late, branch, prs, acts>>
  BY DEF ForkAppears, client
<1>2. fork = "creating" /\ fork' = "ready"
  BY DEF ForkAppears
<1>3. TypeOK'
  BY <1>1, <1>2 DEF IInv, TypeOK
<1>4. PrsInv' /\ PublishedStays'
  BY <1>1 DEF IInv, PrsInv, PublishedStays, Matches, Touched
<1>5. RequestsInv' /\ LateInv'
  BY <1>1, <1>2 DEF IInv, RequestsInv, LateInv, Touched
<1>6. CapInv'
  BY <1>1 DEF IInv, CapInv, Active, OpenPrs
<1> QED BY <1>3, <1>4, <1>5, <1>6 DEF IInv

-------------------------------------------------------------------------------
\* GitHub carries out a request.

\* The run that sent it may learn of it, and may have been late.
LEMMA LandedFacts ==
  ASSUME IInv, NEW r \in Runs, NEW write \in Writes, Landed(r, write), Answer(r, write)
  PROVE  /\ flight' = [k \in Runs |-> IF k = r THEN flight[r] \ {write} ELSE flight[k]]
         /\ late' = [k \in Runs |-> IF k = r /\ ~valid[r] /\ ~UNCHANGED github
                                    THEN late[r] \cup {write} ELSE late[k]]
         /\ answer' = [k \in Runs |-> IF k = r /\ pc[r] = Sent[write] THEN "done" ELSE answer[k]]
<1>1. flight' = [k \in Runs |-> IF k = r THEN flight[r] \ {write} ELSE flight[k]]
  BY DEF Landed, IInv, TypeOK
<1>2. late' = [k \in Runs |-> IF k = r /\ ~valid[r] /\ ~UNCHANGED github
                              THEN late[r] \cup {write} ELSE late[k]]
  <2>1. late \in [Runs -> SUBSET Writes]
    BY DEF IInv, TypeOK
  <2>2. CASE valid[r] \/ UNCHANGED github
    <3>1. late' = late
      BY <2>2 DEF Landed
    <3> QED BY <2>1, <2>2, <3>1
  <2>3. CASE ~valid[r] /\ ~UNCHANGED github
    <3>1. late' = [late EXCEPT ![r] = @ \cup {write}]
      BY <2>3 DEF Landed
    <3> QED BY <2>1, <2>3, <3>1
  <2> QED BY <2>2, <2>3
<1>3. answer' = [k \in Runs |-> IF k = r /\ pc[r] = Sent[write] THEN "done" ELSE answer[k]]
  BY DEF Answer, IInv, TypeOK
<1> QED BY <1>1, <1>2, <1>3

LEMMA MakeForkInv == ASSUME IInv, NEW r \in Runs, MakeFork(r) PROVE IInv'
<1> USE DEF Writes, Sent
<1>1. /\ flight' = [k \in Runs |-> IF k = r THEN flight[r] \ {"fork"} ELSE flight[k]]
      /\ late' = [k \in Runs |-> IF k = r /\ ~valid[r] /\ ~UNCHANGED github
                                 THEN late[r] \cup {"fork"} ELSE late[k]]
      /\ answer' = [k \in Runs |-> IF k = r /\ pc[r] = "fork_sent" THEN "done" ELSE answer[k]]
  BY LandedFacts DEF MakeFork
<1>2. UNCHANGED <<spaced, pc, issue, work, created, result, valid, branch, prs, acts>>
  BY DEF MakeFork
<1>3. fork' = (IF fork = "absent" THEN "creating" ELSE fork) /\ "fork" \in flight[r]
  BY DEF MakeFork
<1>4. TypeOK'
  <2>1. late' \in [Runs -> SUBSET Writes]
    BY <1>1 DEF IInv, TypeOK
  <2> QED BY <1>1, <1>2, <1>3, <2>1 DEF IInv, TypeOK
<1>5. PrsInv' /\ PublishedStays'
  BY <1>1, <1>2 DEF IInv, PrsInv, PublishedStays, Matches, Touched
<1>6. RequestsInv'
  BY <1>1, <1>2, <1>3 DEF IInv, RequestsInv, Touched
<1>7. LateInv'
  <2>1. fork # "absent" => UNCHANGED github
    BY <1>2, <1>3 DEF github
  <2> QED BY <1>1, <1>2, <1>3, <2>1 DEF IInv, LateInv, RequestsInv, Touched
<1>8. CapInv'
  BY <1>1, <1>2 DEF IInv, CapInv, Active, OpenPrs
<1> QED BY <1>4, <1>5, <1>6, <1>7, <1>8 DEF IInv

LEMMA TakePushInv == ASSUME IInv, NEW r \in Runs, TakePush(r) PROVE IInv'
<1> USE DEF Writes, Sent
<1>1. /\ flight' = [k \in Runs |-> IF k = r THEN flight[r] \ {"push"} ELSE flight[k]]
      /\ late' = [k \in Runs |-> IF k = r /\ ~valid[r] /\ ~UNCHANGED github
                                 THEN late[r] \cup {"push"} ELSE late[k]]
      /\ answer' = [k \in Runs |-> IF k = r /\ pc[r] = "push_sent" THEN "done" ELSE answer[k]]
  BY LandedFacts DEF TakePush
<1>2. UNCHANGED <<spaced, pc, issue, work, created, result, valid, fork, prs, acts>>
  BY DEF TakePush
<1>3. /\ branch' = [i \in Issues |-> IF i = issue[r] THEN work[r] ELSE branch[i]]
      /\ branch[issue[r]] \in {None, work[r]} /\ fork = "ready" /\ "push" \in flight[r]
  BY DEF TakePush, IInv, TypeOK
<1>4. /\ \A k \in Runs : issue[k] \in Issues /\ work[k] \in Publications /\ work[k] # None
      /\ \A k \in DOMAIN prs : prs[k].issue \in Issues
  BY TypeFacts, SequenceFacts DEF IInv
<1>5. \A i \in Issues : branch[i] # None => branch'[i] = branch[i]
  BY <1>3
<1>6. TypeOK'
  <2>1. late' \in [Runs -> SUBSET Writes]
    BY <1>1 DEF IInv, TypeOK
  <2> QED BY <1>1, <1>2, <1>3, <1>4, <2>1 DEF IInv, TypeOK
<1>7. PrsInv'
  BY <1>1, <1>2 DEF IInv, PrsInv, Touched
<1>8. PublishedStays'
  BY <1>2, <1>4, <1>5 DEF IInv, PrsInv, PublishedStays, Matches, Touched
<1>9. RequestsInv'
  BY <1>1, <1>2, <1>3, <1>4, <1>5 DEF IInv, RequestsInv, Touched
<1>10. LateInv'
  <2>1. branch[issue[r]] = work[r] => UNCHANGED github
    <3>1. branch[issue[r]] = work[r] => branch' = branch
      BY <1>3, <1>4 DEF IInv, TypeOK
    <3> QED BY <1>2, <3>1 DEF github
  <2> QED BY <1>1, <1>2, <1>3, <1>4, <1>5, <2>1 DEF IInv, LateInv, RequestsInv, Touched
<1>11. CapInv'
  BY <1>1, <1>2 DEF IInv, CapInv, Active, OpenPrs
<1> QED BY <1>6, <1>7, <1>8, <1>9, <1>10, <1>11 DEF IInv

\* The open pull requests can be counted.
LEMMA OpenPrsFinite == ASSUME TypeOK PROVE IsFiniteSet(OpenPrs) /\ Cardinality(OpenPrs) \in Nat
<1>1. Len(prs) \in Nat /\ OpenPrs \subseteq 1..Len(prs)
  BY SequenceFacts DEF OpenPrs
<1>2. IsFiniteSet(1..Len(prs))
  BY <1>1, FS_Interval
<1> QED BY <1>1, <1>2, FS_Subset, FS_CardinalityType

LEMMA OpenPrInv == ASSUME IInv, NEW r \in Runs, OpenPr(r) PROVE IInv'
<1> USE DEF Writes, Sent
<1> DEFINE n == Len(prs) + 1
           new == [issue |-> issue[r], copy |-> work[r], open |-> TRUE]
<1>0. /\ prs \in Seq(Pr) /\ Len(prs) \in Nat /\ DOMAIN prs = 1..Len(prs)
      /\ new \in Pr
  <2>1. issue[r] \in Issues /\ work[r] \in Publications
    BY DEF IInv, TypeOK
  <2>2. new \in Pr
    BY <2>1 DEF Pr
  <2> QED BY <2>2, SequenceFacts DEF IInv
<1>1. /\ flight' = [k \in Runs |-> IF k = r THEN flight[r] \ {"create"} ELSE flight[k]]
      /\ late' = [k \in Runs |-> IF k = r /\ ~valid[r] /\ ~UNCHANGED github
                                 THEN late[r] \cup {"create"} ELSE late[k]]
      /\ answer' = [k \in Runs |-> IF k = r /\ pc[r] = "create_sent" THEN "done" ELSE answer[k]]
  BY LandedFacts DEF OpenPr
<1>2. UNCHANGED <<spaced, pc, issue, work, result, valid, fork, branch, acts>>
  BY DEF OpenPr
<1>3. /\ prs' = Append(prs, new) /\ Len(prs') = n /\ DOMAIN prs' = 1..n
      /\ prs'[n] = new /\ \A k \in DOMAIN prs : prs'[k] = prs[k]
      /\ prs' \in Seq(Pr)
  BY <1>0 DEF OpenPr
<1>4. created' = [k \in Runs |-> IF k = r THEN n ELSE created[k]]
  BY <1>3 DEF OpenPr, IInv, TypeOK
<1>5. "create" \in flight[r] /\ branch[issue[r]] # None
  BY DEF OpenPr
<1> HIDE DEF new
<1>6. TypeOK'
  <2>1. late' \in [Runs -> SUBSET Writes]
    BY <1>1 DEF IInv, TypeOK
  <2>2. created' \in [Runs -> 0..n] /\ result' \in [Runs -> 0..n]
    <3>1. created \in [Runs -> 0..Len(prs)] /\ result \in [Runs -> 0..Len(prs)]
      BY DEF IInv, TypeOK
    <3>2. 0..Len(prs) \subseteq 0..n /\ n \in 0..n
      BY <1>0
    <3> QED BY <1>2, <1>4, <3>1, <3>2
  <2> QED BY <1>1, <1>2, <1>3, <2>1, <2>2 DEF IInv, TypeOK
<1>7. new.issue = issue[r] /\ new.open
  BY DEF new
<1>8. \A k \in Runs : created[k] \in 0..Len(prs) /\ result[k] \in 0..Len(prs)
  BY DEF IInv, TypeOK
<1>9. PrsInv'
  <2>1. ASSUME NEW k \in DOMAIN prs' PROVE prs'[k].open \/ \E m \in DOMAIN acts : acts[m] = prs'[k].issue
    <3>1. CASE k = n
      BY <1>3, <1>7, <3>1
    <3>2. CASE k \in DOMAIN prs
      BY <1>3, <3>2 DEF IInv, PrsInv, Touched
    <3> QED BY <1>0, <1>3, <2>1, <3>1, <3>2
  <2>2. ASSUME NEW k \in Runs
        PROVE  /\ created'[k] # 0 => prs'[created'[k]].issue = issue[k]
               /\ pc[k] = "verify" \/ (pc[k] = "create_sent" /\ answer'[k] = "done") => created'[k] # 0
    <3>1. CASE k = r
      BY <1>0, <1>3, <1>4, <1>7, <3>1
    <3>2. CASE k # r
      BY <1>0, <1>1, <1>3, <1>4, <1>8, <3>2 DEF IInv, PrsInv
    <3> QED BY <3>1, <3>2
  <2>3. ASSUME NEW k \in Runs, pc[k] = "returned" PROVE prs'[result[k]].issue = issue[k]
    <3>1. result[k] # 0
      BY <2>3 DEF IInv, TypeOK
    <3>2. result[k] \in DOMAIN prs
      BY <1>0, <1>8, <3>1
    <3> QED BY <1>3, <2>3, <3>2 DEF IInv, PrsInv
  <2> QED BY <1>2, <2>1, <2>2, <2>3 DEF PrsInv, Touched
<1>10. PublishedStays'
  <2> SUFFICES ASSUME NEW k \in Runs, pc[k] = "returned", ~Touched(issue[k])
               PROVE  /\ prs'[result[k]].open /\ prs'[result[k]].copy = work[k]
                      /\ branch[prs'[result[k]].issue] = work[k]
    BY <1>2 DEF PublishedStays, Touched, Matches
  <2>1. result[k] # 0
    BY DEF IInv, TypeOK
  <2>2. result[k] \in DOMAIN prs
    BY <1>0, <1>8, <2>1
  <2> QED BY <1>3, <2>2 DEF IInv, PublishedStays, Matches
<1>11. RequestsInv'
  BY <1>1, <1>2, <1>5 DEF IInv, RequestsInv, Touched
<1>12. LateInv'
  BY <1>1, <1>2, <1>5 DEF IInv, LateInv, RequestsInv, Touched
<1>13. CapInv'
  <2>1. OpenPrs' = OpenPrs \cup {n}
    BY <1>0, <1>3, <1>7 DEF OpenPrs
  <2>2. n \notin OpenPrs
    BY <1>0 DEF OpenPrs
  <2>3. Cardinality(OpenPrs') = Cardinality(OpenPrs) + 1
    BY <2>1, <2>2, OpenPrsFinite, FS_AddElement DEF IInv
  <2>4. \A k \in Runs : Active(k)' => Active(k)
    BY <1>1, <1>2 DEF Active
  <2>5. pc[r] \notin BeforeCreate
    BY <1>5 DEF IInv, RequestsInv
  <2>6. ASSUME spaced
        PROVE  /\ \A k \in Runs : pc'[k] \notin BeforeCreate /\ "create" \notin flight'[k]
               /\ Cardinality(OpenPrs') <= MaxOpenPrs
    <3>1. Active(r)
      BY <1>5 DEF Active
    <3>2. \A k \in Runs : k # r => ~Active(k)
      BY <2>6, <3>1 DEF IInv, CapInv
    <3>3. Cardinality(OpenPrs) < MaxOpenPrs
      BY <2>6, <1>5 DEF IInv, CapInv
    <3>4. Cardinality(OpenPrs') <= MaxOpenPrs
      BY <2>3, <3>3, OpenPrsFinite, PublisherAssumption DEF IInv
    <3> QED BY <1>1, <1>2, <2>5, <3>2, <3>4 DEF Active, BeforeCreate, Ended
  <2> QED BY <1>2, <2>4, <2>6 DEF IInv, CapInv
<1> QED BY <1>6, <1>9, <1>10, <1>11, <1>12, <1>13 DEF IInv

\* People touch an issue, and nothing of the others.
LEMMA ActInv == ASSUME IInv, NEW i \in Issues, Act(i) PROVE IInv'
<1>0. prs \in Seq(Pr) /\ acts \in Seq(Issues) /\ DOMAIN prs = 1..Len(prs) /\ Len(prs) \in Nat
  BY SequenceFacts DEF IInv
<1>1. UNCHANGED <<spaced, pc, issue, work, answer, created, result, valid, flight, late, fork>>
  BY DEF Act, client
<1>2. \A j \in Issues : Touched(j)' <=> Touched(j) \/ j = i
  <2>1. acts' = Append(acts, i)
    BY DEF Act
  <2>2. DOMAIN acts = 1..Len(acts) /\ DOMAIN acts' = 1..(Len(acts) + 1) /\ Len(acts) \in Nat
    BY <1>0, <2>1
  <2>3. acts'[Len(acts) + 1] = i /\ \A m \in DOMAIN acts : acts'[m] = acts[m]
    BY <1>0, <2>1, <2>2
  <2> QED BY <2>2, <2>3 DEF Touched
<1>3. acts' \in Seq(Issues)
  BY <1>0 DEF Act
<1>4. /\ branch' \in [Issues -> Publications \cup {None, Altered}]
      /\ \A j \in Issues : j # i => branch'[j] = branch[j]
  BY DEF Act, IInv, TypeOK
<1>5. /\ prs' \in Seq(Pr) /\ DOMAIN prs' = DOMAIN prs /\ Len(prs') = Len(prs)
      /\ \A k \in DOMAIN prs : /\ prs'[k].issue = prs[k].issue
                               /\ prs'[k].open => prs[k].open
                               /\ prs[k].issue # i => prs'[k] = prs[k]
  <2>1. \A k \in DOMAIN prs : prs[k] \in Pr
    BY SequenceFacts DEF IInv
  <2>2. \A q \in Pr : /\ [q EXCEPT !.open = FALSE] \in Pr
                      /\ [q EXCEPT !.open = FALSE].issue = q.issue
                      /\ [q EXCEPT !.open = FALSE].open = FALSE
                      /\ [q EXCEPT !.copy = Altered] \in Pr
                      /\ [q EXCEPT !.copy = Altered].issue = q.issue
                      /\ [q EXCEPT !.copy = Altered].open = q.open
    BY DEF Pr
  <2> DEFINE Changed(q) == {q, [q EXCEPT !.open = FALSE], [q EXCEPT !.copy = Altered]}
         Others == /\ prs' = [k \in DOMAIN prs |-> prs'[k]]
                   /\ \A k \in DOMAIN prs : IF prs[k].issue = i THEN prs'[k] \in Changed(prs[k])
                                            ELSE prs'[k] = prs[k]
  <2>3. Others
    <3>1. CASE UNCHANGED prs
      BY <1>0, <3>1
    <3>2. ASSUME NEW k \in PrsOf(i), prs' = [prs EXCEPT ![k].open = FALSE] PROVE Others
      BY <1>0, <3>2 DEF PrsOf, OpenPrs
    <3>3. ASSUME NEW k \in PrsOf(i), prs' = [prs EXCEPT ![k].copy = Altered] PROVE Others
      BY <1>0, <3>3 DEF PrsOf, OpenPrs
    <3>4. CASE prs' = [k \in DOMAIN prs |->
                        IF prs[k].issue = i THEN [prs[k] EXCEPT !.open = FALSE] ELSE prs[k]]
      BY <1>0, <3>4
    <3> QED BY <3>1, <3>2, <3>3, <3>4 DEF Act
  <2>4. \A k \in DOMAIN prs : /\ prs'[k] \in Pr
                              /\ prs'[k].issue = prs[k].issue
                              /\ prs'[k].open => prs[k].open
    BY <2>1, <2>2, <2>3
  <2> HIDE DEF Changed
  <2>5. prs' \in Seq(Pr) /\ DOMAIN prs' = DOMAIN prs /\ Len(prs') = Len(prs)
    BY <1>0, <2>3, <2>4
  <2> QED BY <2>3, <2>4, <2>5
<1>6. TypeOK'
  BY <1>1, <1>3, <1>4, <1>5 DEF IInv, TypeOK
<1>7. \A k \in Runs : issue[k] \in Issues /\ created[k] \in 0..Len(prs) /\ result[k] \in 0..Len(prs)
  BY DEF IInv, TypeOK
<1>8. \A k \in DOMAIN prs : prs[k].issue \in Issues
  BY SequenceFacts DEF IInv
<1>9. PrsInv'
  <2>1. \A j \in Issues : Touched(j)' <=> \E m \in DOMAIN acts' : acts'[m] = j
    BY DEF Touched
  <2>2. ASSUME NEW k \in DOMAIN prs' PROVE prs'[k].open \/ \E m \in DOMAIN acts' : acts'[m] = prs'[k].issue
    BY <1>2, <1>5, <1>8, <2>1 DEF IInv, PrsInv
  <2>3. \A k \in Runs : created[k] # 0 => prs'[created[k]].issue = issue[k]
    BY <1>0, <1>5, <1>7 DEF IInv, PrsInv
  <2>4. ASSUME NEW k \in Runs, pc[k] = "returned" PROVE prs'[result[k]].issue = issue[k]
    <3>1. result[k] # 0
      BY <2>4 DEF IInv, TypeOK
    <3> QED BY <1>0, <1>5, <1>7, <2>4, <3>1 DEF IInv, PrsInv
  <2>5. \A k \in Runs :
          pc[k] = "verify" \/ (pc[k] = "create_sent" /\ answer[k] = "done") => created[k] # 0
    BY DEF IInv, PrsInv
  <2> QED BY <1>1, <2>2, <2>3, <2>4, <2>5 DEF PrsInv, Touched
<1>10. PublishedStays'
  <2> SUFFICES ASSUME NEW r \in Runs, pc[r] = "returned", ~Touched(issue[r])'
               PROVE  prs'[result[r]].open /\ Matches(r, result[r])'
    BY <1>1 DEF PublishedStays, Touched, Matches
  <2>1. ~Touched(issue[r]) /\ issue[r] # i
    BY <1>1, <1>2, <1>7
  <2>2. result[r] \in DOMAIN prs /\ prs[result[r]].issue = issue[r]
    <3>1. result[r] # 0
      BY DEF IInv, TypeOK
    <3> QED BY <1>0, <1>7, <3>1 DEF IInv, PrsInv
  <2> QED BY <1>1, <1>4, <1>5, <1>7, <2>1, <2>2 DEF IInv, PublishedStays, Matches
<1>11. RequestsInv' /\ LateInv'
  <2>1. \A k \in Runs : Touched(issue[k])' <=> Touched(issue[k]) \/ issue[k] = i
    BY <1>1, <1>2, <1>7
  <2>2. RequestsInv'
    BY <1>1, <1>4, <1>7, <2>1 DEF IInv, RequestsInv
  <2>3. LateInv'
    BY <1>1, <1>4, <1>7, <2>1 DEF IInv, LateInv
  <2> QED BY <2>2, <2>3
<1>12. CapInv'
  <2>1. OpenPrs' \subseteq OpenPrs
    BY <1>5 DEF OpenPrs
  <2>2. IsFiniteSet(OpenPrs) /\ Cardinality(OpenPrs) \in Nat
    BY OpenPrsFinite DEF IInv
  <2>3. IsFiniteSet(OpenPrs') /\ Cardinality(OpenPrs') <= Cardinality(OpenPrs)
    BY <2>1, <2>2, FS_Subset
  <2>4. Cardinality(OpenPrs') \in Nat
    BY <2>3, FS_CardinalityType
  <2> QED BY <1>1, <2>2, <2>3, <2>4, PublisherAssumption DEF IInv, CapInv, Active
<1> QED BY <1>6, <1>9, <1>10, <1>11, <1>12 DEF IInv

-------------------------------------------------------------------------------
\* The theorems.

LEMMA InitInv == Init => IInv
<1> SUFFICES ASSUME Init PROVE IInv
  OBVIOUS
<1>1. prs = <<>> /\ acts = <<>> /\ prs \in Seq(Pr) /\ acts \in Seq(Issues) /\ Len(prs) = 0
  <2>1. prs = <<>> /\ acts = <<>>
    BY DEF Init
  <2> QED BY <2>1, EmptySeq
<1>2. DOMAIN prs = {} /\ DOMAIN acts = {}
  BY <1>1
<1>3. TypeOK
  <2>1. /\ pc \in [Runs -> Places] /\ answer \in [Runs -> {"", "done"}] /\ fork \in {"absent", "ready", "foreign"}
        /\ flight \in [Runs -> SUBSET Writes] /\ late \in [Runs -> SUBSET Writes]
        /\ branch \in [Issues -> Publications \cup {None, Altered}]
        /\ valid \in [Runs -> BOOLEAN]
    BY DEF Init, Places
  <2>2. created \in [Runs -> 0..Len(prs)] /\ result \in [Runs -> 0..Len(prs)]
    <3>1. created = [r \in Runs |-> 0] /\ result = [r \in Runs |-> 0]
      BY DEF Init
    <3>2. 0 \in 0..Len(prs)
      BY <1>1
    <3> QED BY <3>1, <3>2
  <2>3. \A r \in Runs : pc[r] = "returned" <=> result[r] # 0
    BY DEF Init
  <2> QED BY <1>1, <2>1, <2>2, <2>3 DEF Init, TypeOK
<1>4. PrsInv /\ PublishedStays /\ RequestsInv /\ LateInv
  BY <1>2 DEF Init, PrsInv, PublishedStays, RequestsInv, LateInv, BehindFork, BehindBranch, BeforeCreate
<1>5. CapInv
  <2>1. OpenPrs = {}
    BY <1>2 DEF OpenPrs
  <2>2. Cardinality(OpenPrs) = 0
    BY <2>1, FS_EmptySet
  <2>3. \A r \in Runs : ~Active(r)
    BY DEF Init, Active
  <2>4. \A r \in Runs : pc[r] \notin BeforeCreate /\ "create" \notin flight[r]
    BY DEF Init, BeforeCreate
  <2>5. Cardinality(OpenPrs) <= MaxOpenPrs
    BY <2>2, PublisherAssumption
  <2> QED BY <2>3, <2>4, <2>5 DEF CapInv
<1> QED BY <1>3, <1>4, <1>5 DEF IInv

LEMMA StepInv == IInv /\ [Next]_vars => IInv'
<1> SUFFICES ASSUME IInv, [Next]_vars PROVE IInv'
  OBVIOUS
<1>1. CASE UNCHANGED vars
  <2> USE <1>1 DEF vars, client, github, IInv
  <2>1. TypeOK'
    BY DEF TypeOK
  <2>2. PrsInv' /\ PublishedStays'
    BY DEF PrsInv, PublishedStays, Matches, Touched
  <2>3. RequestsInv' /\ LateInv'
    BY DEF RequestsInv, LateInv, Touched
  <2>4. CapInv'
    BY DEF CapInv, Active, OpenPrs
  <2> QED BY <2>1, <2>2, <2>3, <2>4
<1>2. ASSUME NEW r \in Runs,
             \/ Begin(r) \/ Commit(r) \/ Preflight(r) \/ FindFork(r) \/ ForkAnswered(r) \/ PollFork(r)
             \/ FindBranch(r) \/ NoPush(r) \/ PushAnswered(r) \/ RecheckPush(r) \/ FindPr(r)
             \/ NoCreate(r) \/ CreateAnswered(r) \/ RecheckCreate(r) \/ Verify(r) \/ Crash(r)
      PROVE  IInv'
  BY <1>2, ClientMoves, MovesInv
<1> QED
  BY <1>1, <1>2, SendInv, RefuseInv, LapseInv, ForkAppearsInv, MakeForkInv, TakePushInv, OpenPrInv, ActInv
     DEF Next, ClientStep, GitHub

\* The inductive invariant.
THEOREM PublisherInvariant == Spec => []IInv
BY InitInv, StepInv, PTL DEF Spec

\* Type correctness, for every number of runs, issues, publications and acts.
THEOREM PublisherTypes == Spec => []TypeOK
<1>1. IInv => TypeOK
  BY DEF IInv
<1> QED BY <1>1, PublisherInvariant, PTL

\* What publish() returned is and stays the run's own open pull request.
THEOREM PublishedPrStays == Spec => []PublishedStays
<1>1. IInv => PublishedStays
  BY DEF IInv
<1> QED BY <1>1, PublisherInvariant, PTL

\* After the approval has lapsed at most one write still changes GitHub.
THEOREM OneLateWrite == Spec => []AtMostOneLateWrite
<1>1. IInv => AtMostOneLateWrite
  <2> SUFFICES ASSUME IInv, NEW r \in Runs, ~Touched(issue[r]) PROVE Cardinality(late[r]) <= 1
    BY DEF AtMostOneLateWrite
  <2>1. late[r] \in {{}, {"fork"}, {"push"}, {"create"}}
    BY DEF IInv, LateInv
  <2>2. ASSUME NEW w, late[r] = {w} PROVE Cardinality(late[r]) <= 1
    BY <2>2, FS_Singleton
  <2>3. CASE late[r] = {}
    BY <2>3, FS_EmptySet
  <2> QED BY <2>1, <2>2, <2>3
<1> QED BY <1>1, PublisherInvariant, PTL

\* Runs that follow one another keep within the cap of open pull requests.
THEOREM CapIsKept == Spec => []OpenWithinCap
<1>1. IInv => OpenWithinCap
  BY DEF IInv, CapInv, OpenWithinCap
<1> QED BY <1>1, PublisherInvariant, PTL

\* No publisher moves a branch that exists, however late its push arrives.
THEOREM BranchesStay == Spec => BranchNeverMoved
<1>1. ASSUME IInv, [Next]_vars, acts' = acts, NEW i \in Issues, branch[i] # None
      PROVE  branch'[i] = branch[i]
  <2>1. CASE branch' = branch
    BY <2>1
  <2>2. ASSUME NEW r \in Runs, TakePush(r) PROVE branch'[i] = branch[i]
    BY <1>1, <2>2 DEF TakePush, IInv, TypeOK
  <2>3. ASSUME NEW j \in Issues, Act(j) PROVE FALSE
    <3>1. acts' = Append(acts, j) /\ Len(acts) \in Nat /\ acts \in Seq(Issues)
      BY <1>1, <2>3, SequenceFacts DEF Act, IInv
    <3>2. Len(acts') = Len(acts) + 1
      BY <3>1
    <3> QED BY <1>1, <3>1, <3>2
  <2>4. ASSUME NEW r \in Runs,
               \/ Begin(r) \/ Fork(r) \/ Push(r) \/ Create(r) \/ MakeFork(r) \/ OpenPr(r) \/ Lapse(r)
               \/ \E write \in Writes : Refuse(r, write)
        PROVE  branch' = branch
    BY <2>4 DEF Begin, Reading, Fork, Push, Create, Send, MakeFork, OpenPr, Lapse, Refuse, github
  <2>5. ASSUME NEW r \in Runs,
               \/ Begin(r) \/ Commit(r) \/ Preflight(r) \/ FindFork(r) \/ ForkAnswered(r) \/ PollFork(r)
               \/ FindBranch(r) \/ NoPush(r) \/ PushAnswered(r) \/ RecheckPush(r) \/ FindPr(r)
               \/ NoCreate(r) \/ CreateAnswered(r) \/ RecheckCreate(r) \/ Verify(r) \/ Crash(r)
        PROVE  branch' = branch
    BY <1>1, <2>5, ClientMoves DEF MovesTo, Unsent, github
  <2>6. CASE ForkAppears \/ UNCHANGED vars
    BY <2>6 DEF ForkAppears, vars, github
  <2> QED BY <1>1, <2>1, <2>2, <2>3, <2>4, <2>5, <2>6 DEF Next, ClientStep, GitHub
<1>2. IInv /\ [Next]_vars => [acts' = acts => \A i \in Issues : branch[i] # None => branch'[i] = branch[i]]_vars
  BY <1>1
<1> QED BY <1>2, PublisherInvariant, PTL DEF Spec, BranchNeverMoved
===============================================================================
