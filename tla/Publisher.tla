------------------------------- MODULE Publisher -------------------------------
(***************************************************************************)
(* The publisher: GhPublisher of publisher.py, and GitHub as far as the    *)
(* publisher sees it.  publish() commits the approved patch, looks for a   *)
(* pull request that an earlier attempt opened, makes sure of the fork,    *)
(* pushes the issue's branch, opens a draft pull request and reads it      *)
(* back.  Each of its three writes (fork, push, create) is a request that  *)
(* GitHub carries out, or not, at a time of its own: the client may have   *)
(* given up on it, or its controller may be dead.                          *)
(*                                                                         *)
(* One upstream repository is modelled.  A publication is what a run had   *)
(* approved: the commit, and the title, body and base branch of the pull   *)
(* request.  The head commit of a pull request is that of its branch.      *)
(***************************************************************************)
EXTENDS Naturals, Sequences, FiniteSets

CONSTANTS
  Runs,
  Issues,        \* each has one branch, <branch_prefix>/issue-N
  Publications,  \* what a run may have had approved
  None,
  Altered,       \* a commit, or a text, that no publisher wrote
  MaxOpenPrs,    \* publication.max_open_prs_per_repository
  MaxActs        \* bound: what people do to the branches and pull requests

ASSUME PublisherAssumption ==
  /\ {None, Altered} \cap Publications = {} /\ None # Altered
  /\ MaxOpenPrs \in Nat \ {0} /\ MaxActs \in Nat

Writes == {"fork", "push", "create"}

Ended == {"returned", "failed", "crashed"}

Places == {"idle", "approved", "preflight", "fork_lookup", "fork_sent",
           "fork_poll", "branch_lookup", "push", "push_sent", "push_recheck",
           "pr_lookup", "create", "create_sent", "create_recheck", "verify"}
          \cup Ended

VARIABLES
  spaced,   \* do the runs follow one another, a cooldown apart?
  pc,       \* pc[r]: where r is in publish()
  issue,    \* issue[r]: the issue of r's publication
  work,     \* work[r]: r's publication
  valid,    \* valid[r]: does r's approval hold?
  answer,   \* answer[r]: has GitHub carried out r's last write? "done", or ""
  created,  \* created[r]: the pull request that r's request opened, or 0
  result,   \* result[r]: the pull request that publish() returned, or 0
  flight,   \* flight[r]: r's writes that GitHub may still carry out
  late,     \* late[r]: r's writes that changed GitHub after its approval lapsed
  fork,     \* "absent", "creating", "ready" or "foreign"
  branch,   \* branch[i]: what the branch of issue i holds, or None
  prs,      \* the pull requests, in the order they were opened
  acts      \* the issues whose branch or pull request people have touched

client == <<pc, issue, work, answer, created, result>>
github == <<fork, branch, prs>>
vars == <<spaced, client, valid, flight, late, github, acts>>

-------------------------------------------------------------------------------
\* What GitHub shows.

OpenPrs == {k \in DOMAIN prs : prs[k].open}

\* gh pr list --head login:branch --state open
PrsOf(i) == {k \in OpenPrs : prs[k].issue = i}

\* Head, base, draft state, title and body of pull request k are r's.
Matches(r, k) ==
  /\ branch[prs[k].issue] = work[r]
  /\ prs[k].copy = work[r]

\* Bug: whatever pull request the branch has is taken for the run's own.
ReconciledWithAny(r, k) == PrsOf(issue[r]) = {k}

\* _reconciled_pr_url: the one open pull request of the branch, if it is r's.
Reconciled(r, k) == PrsOf(issue[r]) = {k} /\ Matches(r, k)

-------------------------------------------------------------------------------
\* Steps of the client.

Init ==
  /\ spaced \in BOOLEAN
  /\ pc = [r \in Runs |-> "idle"]
  /\ issue \in [Runs -> Issues]
  /\ work \in [Runs -> Publications]
  /\ valid = [r \in Runs |-> TRUE]
  /\ answer = [r \in Runs |-> ""]
  /\ created = [r \in Runs |-> 0]
  /\ result = [r \in Runs |-> 0]
  /\ flight = [r \in Runs |-> {}]
  /\ late = [r \in Runs |-> {}]
  /\ fork \in {"absent", "ready", "foreign"}
  /\ branch = [i \in Issues |-> None]
  /\ prs = <<>>
  /\ acts = <<>>

GoTo(r, place) ==
  /\ pc' = [pc EXCEPT ![r] = place]
  /\ UNCHANGED <<issue, work, answer, created, result>>

Reading(r, place) ==
  /\ pc[r] = place
  /\ UNCHANGED <<spaced, valid, flight, late, github, acts>>

Return(r, k) ==
  /\ pc' = [pc EXCEPT ![r] = "returned"]
  /\ result' = [result EXCEPT ![r] = k]
  /\ UNCHANGED <<issue, work, answer, created>>

\* Where the client waits for the answer to a request.
Sent == [fork |-> "fork_sent", push |-> "push_sent", create |-> "create_sent"]

\* The request is sent, and whatever the last one was answered is forgotten.
Send(r, write) ==
  /\ pc' = [pc EXCEPT ![r] = Sent[write]]
  /\ flight' = [flight EXCEPT ![r] = @ \cup {write}]
  /\ answer' = [answer EXCEPT ![r] = ""]
  /\ UNCHANGED <<spaced, issue, work, created, result, valid, late, github, acts>>

\* A run has its slot.  With a cooldown no other run for the repository is
\* under way, and none of its requests.
Begin(r) ==
  /\ Reading(r, "idle")
  /\ spaced => \A k \in Runs \ {r} : pc[k] \in Ended \cup {"idle"} /\ flight[k] = {}
  /\ GoTo(r, "approved")

\* The approval is validated, the account's identity is checked, the patch is
\* committed, and the commit compared with the patch.
Commit(r) ==
  /\ Reading(r, "approved")
  /\ \/ valid[r] /\ GoTo(r, "preflight")
     \/ GoTo(r, "failed")

\* Bug: one pull request too many.
PreflightOneMore(r) ==
  /\ Reading(r, "preflight")
  /\ \/ \E k \in OpenPrs : Reconciled(r, k) /\ Return(r, k)
     \/ /\ PrsOf(issue[r]) = {} /\ Cardinality(OpenPrs) <= MaxOpenPrs
        /\ GoTo(r, "fork_lookup")
     \/ GoTo(r, "failed")

\* The list of the account's open pull requests.  One that an earlier attempt
\* opened for this issue is the result; otherwise the cap must leave room.
Preflight(r) ==
  /\ Reading(r, "preflight")
  /\ \/ \E k \in OpenPrs : Reconciled(r, k) /\ Return(r, k)
     \/ /\ PrsOf(issue[r]) = {} /\ Cardinality(OpenPrs) < MaxOpenPrs
        /\ GoTo(r, "fork_lookup")
     \/ GoTo(r, "failed")

\* _ensure_fork: what the account has under the repository's name.
FindFork(r) ==
  /\ Reading(r, "fork_lookup")
  /\ \/ fork = "ready" /\ GoTo(r, "branch_lookup")
     \/ GoTo(r, "failed")

Fork(r) ==
  /\ pc[r] = "fork_lookup" /\ fork \in {"absent", "creating"}
  /\ valid[r]
  /\ Send(r, "fork")

ForkAnswered(r) ==
  /\ Reading(r, "fork_sent")
  /\ \/ answer[r] = "done" /\ GoTo(r, "fork_poll")
     \/ GoTo(r, "failed")

\* Bug: the fork is waited for without a limit.
PollForkForEver(r) ==
  /\ Reading(r, "fork_poll")
  /\ fork = "ready" /\ GoTo(r, "branch_lookup")

\* Up to fifteen questions, two seconds apart.
PollFork(r) ==
  /\ Reading(r, "fork_poll")
  /\ \/ fork = "ready" /\ GoTo(r, "branch_lookup")
     \/ GoTo(r, "failed")

FindBranch(r) ==
  /\ Reading(r, "branch_lookup")
  /\ \/ branch[issue[r]] = work[r] /\ GoTo(r, "pr_lookup")
     \/ branch[issue[r]] = None /\ GoTo(r, "push")
     \/ GoTo(r, "failed")

\* The push, unless the approval has lapsed.
Push(r) ==
  /\ pc[r] = "push" /\ valid[r]
  /\ Send(r, "push")

\* A lapsed approval is an error like a refused push: the branch is read
\* again.  The credentials may be missing, too.
NoPush(r) ==
  /\ Reading(r, "push")
  /\ \/ ~valid[r] /\ GoTo(r, "push_recheck")
     \/ GoTo(r, "failed")

\* The push succeeded, or it was refused, or the client gave up.
PushAnswered(r) ==
  /\ Reading(r, "push_sent")
  /\ \/ answer[r] = "done" /\ GoTo(r, "pr_lookup")
     \/ GoTo(r, "push_recheck")

\* Does the branch hold the commit after all?
RecheckPush(r) ==
  /\ Reading(r, "push_recheck")
  /\ \/ branch[issue[r]] = work[r] /\ GoTo(r, "pr_lookup")
     \/ GoTo(r, "failed")

\* The open pull requests of the branch.
FindPr(r) ==
  /\ Reading(r, "pr_lookup")
  /\ \/ \E k \in OpenPrs : Reconciled(r, k) /\ Return(r, k)
     \/ PrsOf(issue[r]) = {} /\ GoTo(r, "create")
     \/ GoTo(r, "failed")

\* Bug: the approval is not looked at again before the pull request.
CreateAnyway(r) == pc[r] = "create" /\ Send(r, "create")

Create(r) ==
  /\ pc[r] = "create" /\ valid[r]
  /\ Send(r, "create")

NoCreate(r) ==
  /\ Reading(r, "create")
  /\ \/ ~valid[r] /\ GoTo(r, "create_recheck")
     \/ GoTo(r, "failed")

\* The answer names the new pull request, or it names none, or the request
\* failed.
CreateAnswered(r) ==
  /\ Reading(r, "create_sent")
  /\ \/ answer[r] = "done" /\ (GoTo(r, "verify") \/ GoTo(r, "failed"))
     \/ GoTo(r, "create_recheck")

\* Was the pull request opened after all?  Without a proof of it the first
\* error is the result.
RecheckCreate(r) ==
  /\ Reading(r, "create_recheck")
  /\ \/ \E k \in OpenPrs : Reconciled(r, k) /\ Return(r, k)
     \/ GoTo(r, "failed")

\* _verify_created_pr reads the pull request, open or not, at its address.
Verify(r) ==
  /\ Reading(r, "verify")
  /\ \/ Matches(r, created[r]) /\ Return(r, created[r])
     \/ GoTo(r, "failed")

\* The controller is killed.
Crash(r) ==
  /\ pc[r] \notin Ended \cup {"idle"}
  /\ pc' = [pc EXCEPT ![r] = "crashed"]
  /\ UNCHANGED <<spaced, issue, work, answer, created, result, valid, flight, late, github, acts>>

-------------------------------------------------------------------------------
\* GitHub, and people.

\* The approval expires, or the workspace no longer holds what it approved.
Lapse(r) ==
  /\ valid[r] /\ pc[r] \notin Ended
  /\ valid' = [valid EXCEPT ![r] = FALSE]
  /\ UNCHANGED <<spaced, client, flight, late, github, acts>>

Landed(r, write) ==
  /\ flight' = [flight EXCEPT ![r] = @ \ {write}]
  /\ late' = IF valid[r] \/ UNCHANGED github THEN late
             ELSE [late EXCEPT ![r] = @ \cup {write}]

\* Only a client that waits for this very request learns of it.
Answer(r, write) ==
  answer' = IF pc[r] = Sent[write] THEN [answer EXCEPT ![r] = "done"]
            ELSE answer

\* A request that GitHub refuses, or that never arrives.
Refuse(r, write) ==
  /\ write \in flight[r]
  /\ flight' = [flight EXCEPT ![r] = @ \ {write}]
  /\ UNCHANGED <<spaced, client, valid, late, github, acts>>

\* The repository is forked; the fork appears some time later.
MakeFork(r) ==
  /\ "fork" \in flight[r] /\ fork # "foreign"
  /\ fork' = IF fork = "absent" THEN "creating" ELSE fork
  /\ UNCHANGED <<spaced, pc, issue, work, created, result, valid, branch, prs, acts>>
  /\ Landed(r, "fork") /\ Answer(r, "fork")

ForkAppears ==
  /\ fork = "creating" /\ fork' = "ready"
  /\ UNCHANGED <<spaced, client, valid, flight, late, branch, prs, acts>>

\* Bug: the push is forced.
TakePushForced(r) ==
  /\ "push" \in flight[r] /\ fork = "ready"
  /\ branch' = [branch EXCEPT ![issue[r]] = work[r]]
  /\ UNCHANGED <<spaced, pc, issue, work, created, result, valid, fork, prs, acts>>
  /\ Landed(r, "push") /\ Answer(r, "push")

\* A push that is not forced: the branch is new, or holds the commit already.
TakePush(r) ==
  /\ "push" \in flight[r] /\ fork = "ready"
  /\ branch[issue[r]] \in {None, work[r]}
  /\ branch' = [branch EXCEPT ![issue[r]] = work[r]]
  /\ UNCHANGED <<spaced, pc, issue, work, created, result, valid, fork, prs, acts>>
  /\ Landed(r, "push") /\ Answer(r, "push")

\* GitHub opens one pull request for a head branch and a base branch.
OpenPr(r) ==
  /\ "create" \in flight[r]
  /\ branch[issue[r]] # None /\ PrsOf(issue[r]) = {}
  /\ prs' = Append(prs, [issue |-> issue[r], copy |-> work[r], open |-> TRUE])
  /\ created' = [created EXCEPT ![r] = Len(prs')]
  /\ UNCHANGED <<spaced, pc, issue, work, result, valid, fork, branch, acts>>
  /\ Landed(r, "create") /\ Answer(r, "create")

\* People close or edit a pull request, push to its branch or delete it, which
\* closes the pull request.
Act(i) ==
  /\ Len(acts) < MaxActs /\ branch[i] # None
  /\ acts' = Append(acts, i)
  /\ \/ /\ \E k \in PrsOf(i) : \/ prs' = [prs EXCEPT ![k].open = FALSE]
                               \/ prs' = [prs EXCEPT ![k].copy = Altered]
        /\ UNCHANGED branch
     \/ branch' = [branch EXCEPT ![i] = Altered] /\ UNCHANGED prs
     \/ /\ branch' = [branch EXCEPT ![i] = None]
        /\ prs' = [k \in DOMAIN prs |->
                     IF prs[k].issue = i THEN [prs[k] EXCEPT !.open = FALSE] ELSE prs[k]]
  /\ UNCHANGED <<spaced, client, valid, flight, late, fork>>

ClientStep(r) ==
  \/ Commit(r) \/ Preflight(r) \/ FindFork(r) \/ Fork(r) \/ ForkAnswered(r)
  \/ PollFork(r) \/ FindBranch(r) \/ Push(r) \/ NoPush(r) \/ PushAnswered(r)
  \/ RecheckPush(r) \/ FindPr(r) \/ Create(r) \/ NoCreate(r)
  \/ CreateAnswered(r) \/ RecheckCreate(r) \/ Verify(r)

GitHub(r) ==
  \/ MakeFork(r) \/ TakePush(r) \/ OpenPr(r)
  \/ \E write \in Writes : Refuse(r, write)

Next ==
  \/ \E r \in Runs : Begin(r) \/ ClientStep(r) \/ GitHub(r) \/ Lapse(r) \/ Crash(r)
  \/ ForkAppears
  \/ \E i \in Issues : Act(i)

\* Every command of the client has a timeout of 180 seconds.
Fairness == \A r \in Runs : WF_vars(ClientStep(r))

Spec == Init /\ [][Next]_vars /\ Fairness

-------------------------------------------------------------------------------
\* Properties.

Pr == [issue : Issues, copy : Publications \cup {Altered}, open : BOOLEAN]

TypeOK ==
  /\ spaced \in BOOLEAN
  /\ pc \in [Runs -> Places]
  /\ issue \in [Runs -> Issues] /\ work \in [Runs -> Publications]
  /\ valid \in [Runs -> BOOLEAN]
  /\ answer \in [Runs -> {"", "done"}]
  /\ created \in [Runs -> 0..Len(prs)]
  /\ result \in [Runs -> 0..Len(prs)]
  /\ \A r \in Runs : pc[r] = "returned" <=> result[r] # 0
  /\ flight \in [Runs -> SUBSET Writes]
  /\ late \in [Runs -> SUBSET Writes]
  /\ fork \in {"absent", "creating", "ready", "foreign"}
  /\ branch \in [Issues -> Publications \cup {None, Altered}]
  /\ prs \in Seq(Pr)
  /\ acts \in Seq(Issues)

Touched(i) == \E n \in DOMAIN acts : acts[n] = i

\* The pull request that publish() returned is, and as long as people leave
\* the issue alone it stays, an open one with the run's own commit and text:
\* no other publisher, no request that arrives late and no retry disturbs it
\* (docs/GITHUB_INTEGRATION.md:58-63).
PublishedStays ==
  \A r \in Runs : pc[r] = "returned" /\ ~Touched(issue[r]) =>
    /\ prs[result[r]].open
    /\ Matches(r, result[r])

\* A publisher never moves a branch that exists, whoever made it and however
\* late its push arrives: two runs that found no branch cannot overwrite each
\* other.
BranchNeverMoved ==
  [][acts' = acts => \A i \in Issues : branch[i] # None => branch'[i] = branch[i]]_vars

\* After a run's approval has lapsed at most one of its writes still changes
\* GitHub, the one that was under way, as long as people leave the issue alone.
AtMostOneLateWrite ==
  \A r \in Runs : ~Touched(issue[r]) => Cardinality(late[r]) <= 1

\* With a cooldown between the runs of a repository, publishers never have
\* more pull requests open there than publication.max_open_prs_per_repository:
\* a pull request that a failed run may have opened counts.
OpenWithinCap == spaced => Cardinality(OpenPrs) <= MaxOpenPrs

\* Every call of publish() ends.
PublishEnds == \A r \in Runs : pc[r] = "approved" ~> pc[r] \in Ended

===============================================================================
