# Leftovers: a verification project

Leftovers is a controller that spends the unused part of an LLM quota on one
open-source issue at a time: it checks a budget, picks an issue, lets an agent
patch a disposable clone, verifies the patch, and may open a draft pull request.
This directory holds TLA+ models of that controller, the TLC runs that check them
on small instances, and theorems that TLAPS proves for every instance.

Paths below are those of the repository; `leftovers/x.py` is
`src/leftovers/x.py`. `PROJECT.json` maps every definition to the lines it models.

## 1. The system

| Component | State it keeps | Operations | How it interacts |
|---|---|---|---|
| Budget admission, `budget.py` | `budget.sqlite3`: a row per run (window, tokens, status, created_at) | snapshot, `can_start`, `reserve`, `finish`, `active_run_ids` | shared by all controllers; the cleanup command reads it |
| Publication ledger, `state.py` | `publications.sqlite3`: a slot per run | `check_available`, `reserve`, `finish` | shared by all controllers |
| Orchestrator, `orchestrator.py` | one run's outcome, workspace, patch, evidence | `run`, `_run_cycle` | calls every other component in a fixed order |
| Agent invocation, `runner.py` | an agent's process, its telemetry file, the monitor | `run_agent`, `execute`, `poll` | the agent writes the file while it is polled; callbacks into telemetry |
| Containers, `runner.py` | labelled containers with leases | start, proven removal, `reap_expired_containers`, `active_job_ids` | controller and cleanup command |
| Workspaces, `workspace.py` | directories with a lease marker | lease, clone, cleanup, `reap_expired` | controller and cleanup command |
| Cleanup command, `cli.py` | none | asks for containers, then rows, then deletes | races live controllers |
| Publisher, `publisher.py` | commit, fork, branch, pull request on GitHub | `publish`, reconciliation | GitHub through `gh` and `git push`; people act on GitHub too |
| Telemetry store, `telemetry.py` | `telemetry.sqlite3`: runs, invocations, usage, events | one transaction per event; read-only readers | best effort, from orchestrator and runner |
| Audit journal, `audit.py` | a hash-chained file per run | `append` | every stage of the orchestrator |
| Patch policy, `policy.py` | none | `candidate_gate`, `inspect_diff`, `diff_gate` | gates of the orchestrator |
| Scoring, `scoring.py` | none | `score_issue` | choice of the issue |
| Run lock, `scripts/run-cycle.sh` | a flock | take, inherit over exec | keeps scheduled cycles apart |
| Rehearsal, `rehearsal.py` | a report | runs a cycle on fixtures, then verifies its journal and what it left | reads the journal, the telemetry store, docker |
| Dashboard, `dashboard.py`, `app.js` | a semaphore of workers, one lock; a page keeps its last snapshot and tag | serve snapshots; poll | reads the store while runs write |
| Configuration, GitHub reader, prompts, onboarding, Codex adapter, private files | none that lasts | parsing, requests, rendering | inputs of the above |

What is hard in it:

- **Several controllers.** Scheduled cycles hold a lock, but a cycle started by
  hand does not, and the cleanup command runs beside both. The two ledgers are
  what keeps them from spending a quota or a publication slot twice, and they are
  asked minutes or hours after what they decide on was read.
- **Crashes.** A killed controller leaves a row, a workspace, a container, a
  branch, a pull request or a telemetry row behind; nothing but ages and labels
  tells others what is dead.
- **Remote writes whose answer is lost.** A push or a `gh pr create` that failed
  may have been carried out, or may be later.
- **Failures while handling failures.** The journal, the ledgers, the removal of
  containers and workspaces can all fail after the interesting thing was done.
- **Looks that take time.** A patch is inspected, a dashboard page and a summary are
  read by several commands or statements, between which files and rows change.
- **Time.** Snapshots age, windows reset, the wall clock is stepped, deadlines are
  monotonic while rows and heartbeats carry wall-clock times.

`PROJECT.json` lists each such hazard at its line with the properties that watch it.

What makes each component correct:

- *Budget*: at no time do the rows of a window promise more than its quota holds
  beyond the reserve, whatever each controller's snapshot said; work ends before
  the reset; a live controller is never taken for a dead one.
- *Publication ledger*: the cap and the cooldown hold for the pull requests that
  exist, not only for the rows.
- *Orchestrator*: only content that was inspected, tested and reviewed last is
  written to GitHub, behind the three gates; the outcome and the telemetry tell
  what was written and what is left behind; every run ends.
- *Disposal*: live work is never deleted, no workspace goes before the containers
  that mount it, what a crash left behind is reaped in the end.
- *Publisher*: what `publish` returned is the run's own and stays; nobody's branch
  is overwritten; retries find what earlier attempts left.
- *Agent invocation*: an accepted result has a complete, well-formed telemetry
  file; a refused one deserved it; no process outlives its controller's patience.
- *Patch policy*: what is pushed is the patch that was reviewed and obeys the rules, as
  two trees, however the inspections' reads fell; good work passes.
- *Journal, rehearsal, lock*: a journal that verifies is the history that was
  acknowledged; a rehearsal's success was earned; the lock is held exactly by a living cycle.
- *Dashboard*: "Live" means now, and comes back after trouble.
- *Telemetry store*: every fact is recorded once, whatever is lost, late or repeated;
  a page read while a run writes does not contradict itself.

## 2. Modules

```
 QuotaEnvelope     PublicationCalendar     GatedWrite       RecordedHistory     abstract
      ^ implements        ^ implements          ^ implements       ^ implements
 BudgetLedger      PublicationLedger       RunCycle         TelemetryStore
      |  horizon          |  slot, cap          |  publish, disposal
      v                   v                     v
 Disposal                                  Publisher, AgentInvocation, PatchInspection

 AuditJournal --> Rehearsal --+
                  RunLock ----+--> Cycles      (composed)          Dashboard
```

The modules share vocabulary, not variables. Each one contains the steps of the
orchestrator that call its component, and its neighbours appear as choices: a
call of the publisher is, in `RunCycle`, a write that happened, happened in part or
did not; `Publisher` says which of these GitHub and the network can produce. The
assumption that `Disposal` makes on the ledger's horizon is what `BudgetLedger`
proves as `LiveRunsProtected`. `Cycles` is a composition proper: it conjoins the
lock's and the controller's actions.

### BudgetLedger

`rows` is the reservations table, `snap[r]` what `BudgetGate` read, `phase[r]` where a
controller is, `left[r]` its monotonic time. `Observe` is `snapshot`, `Check` is
`can_start`, `Reserve` and `ReserveAgain` the transaction of `reserve` with its early
returns, `LockTimeout` its busy timeout, `Begin` the deadline of
`orchestrator.py:779-795`, `Finish` the terminal update, `Crash` a kill, `StepClock`
an administrator. The freshness check comes before `BEGIN IMMEDIATE`, so a row may be
written up to `AdmissionDelay` later; the model does the same. Windows are of equal
length: time zones and daylight saving change where a window ends, not what happens
there. `QuotaEnvelope` promises only that a window's spending never exceeds the
best reading of its quota and is never given back.

Assumptions, named in the module: `SafetyCoversSteps` (the reset margin exceeds what
the clock is stepped by; a configured margin of 0 violates it) and
`GraceCoversDelays` (the grace of `active_run_ids` covers a snapshot's age, the
lock's wait and the cleanup's time).

### PublicationLedger

`target` is the window and repository that a run selected, `stamp` the `now` that
`reserve` reads **before** its transaction, `slots` the table, `opened` the pull requests
that exist. `Held`, `HeldInWindow` and `Cooling` are the three queries of
`_assert_available`. A publisher that raises may have opened its pull request;
that run's slot stays taken. `PublicationCalendar` is the abstract promise: grants
under a cap, a cooldown apart, never withdrawn.

### RunCycle

One run, `pc` by `pc` in the order of the code, with `stage`, `code` and `url` as the
outcome. Each step has the errors that its calls raise, an append to the journal may
fail in each, and `Handle` is the except clauses. `content` numbers what is in the
workspace, so that "the patch that was reviewed" and "the patch that is there" are
different things; `Disturb` is a setup or test command, or anything else, changing
it. `CleanContainers`, `CleanWorkspace`, `Settle` and `FinishTelemetry` are the finally
clauses. `remote` follows branch and pull request only. `GatedWrite` is the abstract
specification: budget, patch and slot gates in that order, then the write.
`HandlerAudit` says whether the journal may fail while a failure is being recorded:
`FALSE` in the passing run, `TRUE` where that failure is the subject.

### Disposal

Controllers and the cleanup command, which in the code's order reaps expired
containers, lists the jobs of the remaining ones, reads the ledger's rows, takes its
cutoff and deletes. Removal of a workspace is not atomic (`rmtree` may remove the
marker first), a marker may never have been written, and the container's age and
the row's age run separately. `older` is the `--older-than-hours` of the cleanup under
way, any of `ReapAges`, below and above the longest run. `PeriodsAreOrdered` names
what the configuration and the budget theorem guarantee. `MountsOutlived` says that no
workspace goes under a container when the cleanup's age is at least the longest run and
what its own questions take; below that it does not hold (section 5).

### PatchInspection

`inspect_diff` as the git commands that it is, `ListUntracked` to `ReadModes`: each reads
the work tree at its own moment into `seen`. `Gate`, `PostCheck`, `FinalCheck` are the
orchestrator's inspections, with `Repair` between them; `Validate`, `AddFile`, `Commit`,
`Clean`, `RecheckCommit`, `RecheckClean` the publisher's. `Disturb` changes a file or the
configuration between any two. A file is its mode and its text, a text is what the
gate can tell: lines, bytes, and whether it is binary, looks like a secret or is not
UTF-8. `Acceptable` states the rules for two trees, without any inspection. The
agent's commits are left out: HEAD is compared with the base wherever it matters, and
`.git` is mounted read-only.

### Publisher

`pc` follows `publish`, from the commit over the search for an earlier attempt's pull
request, the fork, the push and the creation to the reading back. `flight[r]` holds the
requests that GitHub may still carry out after their client gave up or died; `valid[r]`
is the approval, checked anew before each write; `late[r]` records writes that
took effect after it lapsed. `Act` is a person editing, closing or pushing. GitHub's
rule of one open pull request per head branch is an assumption. `spaced` says
whether runs follow one another, as the cooldown has it: the cap of open pull
requests is counted in preflight and holds only then.

### AgentInvocation

The controller's loop in `execute` with the tick of `run_agent` (codex-cli's
heartbeats, the controller's heartbeat) and the monitor's `poll`: `Beat`, `Read`,
`Consume` line by line, `Judge`. The adapter writes a line in pieces, so a poll can end
anywhere in one; the text behind the last newline counts only in the last poll.
`junk` stands for everything that a poll refuses on sight. `row` is what
`_RunTelemetry` keeps of the invocation, best effort. A poll with its callbacks takes
at most `PollDelay`; `now` is monotonic and `shift` the wall clock's distance from it.
A killed controller is not modelled here: it leaves the row as it is, and the
process to `Disposal`.

Assumption: `EventsCoverTimeout`, that the limit on events leaves room for the heartbeats
of a whole timeout. The code's 1,024 events do: four hours, the longest timeout that
the configuration accepts, have 480 heartbeats of 30 seconds.

### TelemetryStore

`runs`, `invocations`, `usage` and `projections` are the tables, `events[r]` the event log
of a run. Every writer call is one `BEGIN IMMEDIATE` transaction and one action; a call
that is refused is rolled back, and one that repeats what is stored returns early,
so neither is a step. Calls come in any order: `_RunTelemetry` drops each one that
fails, and a run's end may come before an invocation's. Budget projections are named
as `record_budget` names them. An event is its type; those that a controller records
of its own accord (checks, reviews, the publication) are one type. `page` is a record of
what a reader has gathered: `ReadBudget`,
`ReadUsage`, `ReadFinished`, `ReadActive` are the statements of `summary`, `ReadRun`,
`ReadEvents`, `ReadModels` those of `get_run`. The reader opens no transaction, so
each is a moment of its own.

What a summary does *not* promise follows from that order: receipts are added up
before finished invocations are counted, so a page may report complete coverage
while the last receipt is not in its sum, and an invocation that ends between the two
counts is in neither. `SummaryHoldsTogether` is what does hold. The sum itself stands
as the set of receipts that it adds up: whatever was added up before the finished
invocations were listed is a receipt that the store still has when they are.

`RecordedHistory` is the abstract promise, without rows: each write appends one event to
one run's log together with the one thing that it tells; a run comes to one outcome
and starts no call afterwards, only its calls and its budget are still told of; a
receipt stays as it was given. `History` maps the tables to it: an outcome is read off
the run's row, a call's state off the invocation's, receipts off the usage table.

### AuditJournal, Rehearsal, RunLock, Cycles

`AuditJournal` has the operators of a journal: `Left` is what an append leaves in the
file when it is cut, `Appended` and `NotAppended` what that does to the writer's hash,
`Survivors` what a stop of the machine keeps of a file that was not synchronised,
`Verified` what `verify_audit_journal` accepts. `Rehearsal` is a dry run reduced to the
steps that its evidence is about, with appends that fail anywhere, and `Report`, the
checks of `run_rehearsal`. `RunLock` is `run-cycle.sh`: the descriptor is taken, inherited
over exec, closed by the kernel. `Cycles` puts both under kills and reboots.

### Dashboard

`conns[c]` is a connection and the worker that serves it, `slots` the semaphore's count,
`polls[p]` the page's poll under way, `kept[p]` its `lastSnapshot` and `lastEtag`. `Serve`,
`Overload`, `NoThread` are the three ways of `process_request`; `TakeLock`, `Read`,
`ReadFails`, `Answer` are `snapshot` under the adapter's lock; `Headers` and `Body` are the two
awaits of `poll`, which `Abort` may cut at either. A snapshot says at which version of
the store each part was read, and its tag is itself, as a hash is.

## 3. Runs

Every run finishes in about two minutes or less with two workers.

| Run | Instance | Question |
|---|---|---|
| `Budget` | 2 controllers, windows of 6 ticks, run time 2, margin 2, one clock step, 9 ticks, readings that are unknown, negative, below and above the maximum | Can stale snapshots, crashes, clock steps or lost records spend a window's quota twice, overrun a reset, or make a live run look dead? |
| `Publication` | 2 controllers, 2 repositories, cap 1, cooldown 1, windows of 3 ticks, one clock step, 4 ticks | Do cap and cooldown hold for pull requests although preflight and clock reading come long before the transaction? |
| `RunCycle` | every configuration, up to 2 repairs, 1 disturbance | Is what reaches GitHub verified and gated, is everything reported, does every run end? |
| `RunAuditFailure` | publishing configurations, the journal fails in a handler | finding 1 |
| `Disposal` | 1 run, reaping ages below and above the run time | Is live work ever deleted, or a workspace under a container; is marked residue reaped in the end? Runs meet only in the cleanup's one sweep, which treats each by itself |
| `Cycles` | 2 cycles, scheduled or not, 2 appends that fail | Does a verified journal tell the truth after cut appends, kills and reboots; can a rehearsal succeed without its evidence; can the lock outlive or miss its cycle? |
| `PatchInspection` | 4 files of every kind, 1 repair, 2 changes under the inspections | Can a patch that nobody reviewed, or that a rule forbids, be pushed; is good work refused? |
| `Dashboard` | 1 page, 3 connections, 2 workers, 2 parts, 1 change of the store | Can "Live" be old; does a page come back after stalls, failures, aborted polls and overload? |
| `Publisher` | 2 runs, 2 issues, 2 publications, cap 1, 1 act of a person | Lost and late requests, lapsing approvals, retries, kills |
| `Invocation` | adapters that must and that need not report, codex-cli; timeout 3, heartbeat timeout 3, 3 events, one step of the clock back | Torn lines, late heartbeats, hanging agents, a failing store |
| `InvocationUnrecorded` | the same with a store that never fails | finding 2 |
| `Telemetry` | 2 runs of either kind, an invocation each with 2 reports, 2 windows, 5 events in all, pages of 4 events, heartbeats over 3 half minutes | Do rows and event log agree, do they tell the history that was promised, and are pages consistent that are read while runs write? |

**Bounds, and why they are enough.** Two controllers show every race between a
check and a commit; a third adds another loser, and the two ledgers are proved for
any number. A window is longer than a run plus its margin and its grace, and the time
horizon reaches into the next window, so that a snapshot, a deadline, a row and a
cooldown each can cross a reset. Two repairs allow a repair for tests after one for
review and the reverse; one disturbance can fall between any two steps. Two
publications on one issue give every meeting of an attempt with an earlier one's
branch or pull request, two issues the meeting of unrelated ones at the cap. Three
telemetry events hold a check-in, a heartbeat and a usage, and a fourth is one too
many. Five events in the store are a run with an invocation that reports and ends, or
two runs that meet in a summary; a page of four events can be full. The two runs of
`Telemetry` are symmetric. Two changes under the inspections are a change and its
undoing between two reads of one inspection; three were checked too, with one file
less. A page's own aborted requests are what competes with its next one for workers
and lock; a second page would be one more. With more pages open than workers, one of
them may be refused as long as the others keep theirs: `LiveAgain` says nothing of that.
Every cap is a named constant.
`CHECK_DEADLOCK FALSE` is set where runs end or the clock stops.

**Fairness.** `RunCycle`: weak fairness of the run's own steps, since each command it
waits for has a timeout; not of errors, kills or disturbances. `Publisher`: weak
fairness of each client, whose commands have a timeout of 180 seconds; GitHub owes
nothing. `Disposal`: controllers and time go on; the cleanup command is started
again and again (it is scheduled) and its steps are strongly fair, because docker may
fail some of its questions but not every time. `AgentInvocation`: controller and
time only; the agent may hang forever. `Dashboard`: the server's threads, the page's
timers and answers, and strong fairness of taking the lock, which comes free between
polls that are seconds apart; stalls and failures may last forever.
The other modules have safety properties only.

**Type invariants** are checked where one says something beyond the type (`Budget`:
work has time left) and proved for both ledgers, `RunCycle`, `Disposal`, `Publisher`,
`AgentInvocation`, `PatchInspection` and `TelemetryStore`; `DashboardInv` and the
invariants of `CyclesProofs` contain those of `Dashboard` and `Cycles`.

**Findings.** Each has a run whose counterexample TLC prints.

1. `RunAuditFailure`: when the journal fails while a publisher's exception is being
   recorded (`orchestrator.py:1242`), the outcome says `agent_failed` although GitHub
   was written to; docs/GITHUB_INTEGRATION.md:72 promises `publish_partial`.
2. `InvocationUnrecorded`: the telemetry store does not know the backend `codex-cli`
   (`telemetry.py:75`), so no invocation of it is ever recorded.

## 4. Proofs

| Theorem (module) | Statement |
|---|---|
| `BudgetInvariant`, `BudgetTypes` (`BudgetLedgerProofs`) | the inductive invariant and the types |
| `EveryWindowCovered` | the rows of a window never exceed what any admitted snapshot of it could spend |
| `WorkBeforeReset` | no run works within the safety margin's remainder before its reset |
| `LiveProtected` | `active_run_ids` contains every live controller |
| `NeverReturned` | no step lowers what a window was charged |
| `LedgerImplementsEnvelope` | `BudgetLedger` implements `QuotaEnvelope` |
| `PublicationInvariant`, `PublicationTypes` (`PublicationLedgerProofs`) | the inductive invariant and the types |
| `CapHolds`, `CooldownHolds`, `PublishedHolds` | cap, cooldown, and what a published row means |
| `LedgerImplementsCalendar` | `PublicationLedger` implements `PublicationCalendar` |
| `RunInvariant`, `RunTypes` (`RunCycleProofs`) | the inductive invariant and the types |
| `PublishedIsVerified` | what reaches GitHub passed the diff gate, its tests and the review |
| `TelemetryIsHonest` | telemetry never shows a run better than it was |
| `RemoteWritesAreReported`, `ResidueIsReported` | the outcome tells every remote write and everything that may be left behind, if the journal does not fail in a handler |
| `RunImplementsGatedWrite` | `RunCycle` implements `GatedWrite` |
| `DisposalTypes`, `LiveWorkIsKept` (`WorkspaceProofs`) | the types; no live run's workspace or container is deleted |
| `MountsAreOutlived` | no workspace goes before the containers that mount it |
| `InspectionTypes`, `PushedWasReviewed` (`WorkspaceProofs`) | the types; what is pushed is the reviewed patch and obeys the rules |
| `GoodWorkIsNeverRefused` | undisturbed work that obeys the rules passes every inspection |
| `PublisherInvariant`, `PublisherTypes` (`PublisherProofs`) | the inductive invariant and the types |
| `PublishedPrStays`, `OneLateWrite`, `CapIsKept`, `BranchesStay` | what `publish` returned stays; at most one write after an approval lapsed; the cap of open pull requests; no branch is moved |
| `InvocationTypes` (`AgentInvocationProofs`) | the types |
| `AcceptedFilesAreWellFormed`, `RowsTellTruth`, `ProcessesAreContained` | an accepted file is well formed as a whole; the row says no more than happened; no process outlives its invocation |
| `RefusalsHaveCause` | an invocation is refused only for what its adapter did; the controller's own events never are |
| `TelemetryTypes` (`ObservationProofs`) | the types; a run's events are numbered without a gap |
| `LogTellsAll`, `UsageIsWhatWasReported` | rows, invocations and budget are those that the event log tells of; a usage status is what was reported |
| `SummariesHoldTogether`, `RunPagesHoldTogether` | pages read while runs write do not contradict themselves |
| `NothingIsTakenBack` | no write takes back what another recorded |
| `StoreImplementsHistory` | `TelemetryStore` implements `RecordedHistory` |
| `LiveMeansCurrent` (`ObservationProofs`) | nothing shown as live is older than the poll that told it so |
| `LockHeldByTheLiving` (`CyclesProofs`) | the lock is held exactly as long as its cycle lives |
| `JournalIsTrue`, `SuccessMeansEvidence` | a journal that verifies is the acknowledged history; a rehearsal's success was earned |

They hold for every number of controllers, runs, issues, cycles and pages, every set of
configurations, readings, amounts, files and repositories, every length of window and
of timeout, and every number of disturbances, repairs, kills, events and failing
appends, under the named assumptions of the modules. Every safety property that a
passing run checks is the statement of one of them.

*Budget.* `WindowCovered` is not inductive: that a reservation fits depends on what the
reserving controller's snapshot says, and that its deadline is right on how old
that snapshot can be. `IInv` adds `SnapshotsInv` (a snapshot's window, reset and
spendable amount belong together, and its age is bounded while it counts), `RowsInv`
(a row belongs to its run's phase, snapshot and window) and `TimingInv` (what is left of
a phase, together with the row's age, stays within the horizon). The step for `Reserve`
rests on sums over the rows of one window: `LedgerSums` defines them as a recursive
function over the runs' numbers, and the first lemmas of `BudgetLedgerProofs` say what
changing one row does to them, by induction in the form of a set of naturals closed
under successor, and that later instants lie in later windows.

*Publication.* `IInv` adds `RunsInv` (a slot carries its run's target and stamp, an open
pull request has a slot that is not released), `CapInv` and `ApartInv`: the two
promises stated for the slots rather than the pull requests. `CapHolds` then needs that
`opened` runs of a window are among its holders, and the cardinality theorems.

*Run.* `IInv` says for each place of `_run_cycle` what holds there: which evidence was
gathered, for which content, and which gates were passed. Evidence for the inspected
patch accumulates and is dropped by the only thing that edits the patch on purpose, a
repair; that content numbers never come back is what ties the evidence to the patch.
`ReportInv`, the part about the outcome, is proved under `~HandlerAudit` only: finding 1
is its counterexample. `PublishedIsVerified` and `TelemetryIsHonest` do not need it.

*Disposal.* Runs live when the rows are read are protected by the rows, and a run that
begins later is too young for the cutoff that is taken after. The second half is what
`PeriodsAreOrdered` is for. `MountsAreOutlived` is an action property: a controller removes
its containers before its workspace, and a workspace that may be mounted and that no row
protects is no older than the longest run and what the cleanup's questions have taken.

*Publisher.* What a run has seen (a fork that is ready, a branch that is there, no pull
request yet) is not undone while people leave the issue alone; a late write leaves no
request in flight that could still change something; and while runs follow one
another only one of them is active, so that preflight's count is current.

*Patch inspection.* The committed difference of two trees that no longer change equals
the gated one in every part that the gate looks at. Nothing has to be said of the
inspections' torn reads of the work tree, since the last comparison is between commits.
`GoodWorkIsNeverRefused` is the converse, and there the reads do count: while nothing
has disturbed a run, each read that an inspection has made agrees with the tree that
is still there, a repair's new patch included, so that its verdict is that of the
rules and no later look differs from the first.

*Agent invocation.* The monitor's fields summarise the lines that it has consumed. The
file only grows behind them, and stands still once the process has ended, so that the
last poll sees the whole of it. The row's part follows each write of it by phase.
`RefusalsHaveCause` needs more of codex-cli: its file holds the check-in and one heartbeat
for each interval that has passed, so it stays below the limit until the deadline,
and the time since its last line, as the monitor reckons it, below the heartbeat timeout.

*Cycles.* The lock: whoever holds its descriptor is a scheduled cycle that lives. The
journal: no two pieces in the file share a hash, the writer's hash is that of the last
acknowledged record, acknowledged records are on the disk, and every prefix that a
stop of the machine may leave is the history if it verifies. A rehearsal's progress is
then read off place by place.

*Telemetry store.* `LogHolds` ties a run's row, its invocations and its budget to its event
log: the row's `last` is the log's length, and the numbers of events of a type equal the
numbers of rows that they tell of. Counting needs the sets to be finite although
`Attempts` may not be, so their finiteness is carried along. `UsageHolds` says what
`_refresh_usage_status` has left after each report and at the end. Both follow from one
lemma per action. `PageHolds` says what a reader's figures still mean: since writes only
let the store grow (`RunWritesGrow`, `InvocationWritesGrow`), what was gathered by one
statement is still there at the next, and the comparison of two parts of a page is a
comparison of two states, an earlier one with a later. `NothingIsTakenBack` states the
growth itself, and `StoreImplementsHistory` says which write makes the store grow by what:
each action of a writer is one action of `RecordedHistory`, a heartbeat that is not
logged and every statement of a reader a stutter.

*Dashboard.* `DashboardInv`: a connection whose page still waits for it serves that page's
current poll, carries the tag that the page has kept, and has read no part at a
version older than the poll's start; so a 304 confirms a snapshot that a reading begun
after the poll has just reproduced.

Only model-checked is liveness under fairness (`Terminates`, `MarkedIsReaped`,
`PublishEnds`, `InvocationEnds`, `LiveAgain`), which the provers do not reach.

## 5. Not modelled, and simplifications worth knowing

- Text: prompts, envelopes, pull request bodies, redaction, file layout.
- The rules for issues and their scoring; only when their gate runs, and what follows.
- How git's output is bounded and parsed; the pull of its pipes by a thread.
- GitHub's read API, configuration parsing, onboarding, a rehearsal's fixtures and
  probes, the web page's layout and the checks of a request's form.
- `Publisher`: one upstream repository; base branch, title, body and draft state are
  one value; retargeting of a pull request's base and pull requests of the same
  account from other branches are left out.
- `max_patch_bytes` may be configured up to 10,000,000, but `validate_approval`
  (`publisher.py:101`) and the publisher's later looks inspect with the default of
  1,000,000: a larger patch passes everything and is refused at publication.
  `GoodWorkPasses` excludes it.
- An inspection that is refused (an unsafe configuration, too many paths) names no files,
  and the publisher's two looks for a clean work tree take that for clean
  (`publisher.py:176`, `573`). `PushedIsReviewed` holds all the same, since what is pushed
  is the commit.
- The cleanup command lists containers before it reads the rows (`cli.py:540`); with an
  age below the run time, a run that starts its last container and ends between the
  two is in neither, and its workspace can go while a container mounts it.
- A directory without its marker, after a kill at the wrong moment, is never reaped
  (`workspace.py:157`).
- The dashboard's total for a run (`dashboard.py:657`) adds up the exact receipts among the
  invocations that it lists and calls the sum exact, also when another invocation of
  the run has no usage or is beyond the list.
- docs/TELEMETRY.md:72 says that responses are `no-store`; snapshots are
  `private, no-cache` with a tag, which `LiveIsCurrent` relies on.
- A publication whose recording in the ledger fails ends as `publish_partial` with the
  pull request open; a deferral at the deadline leaves the budget row `reserved` (it
  ages out); a dry run interrupted during cleanup is recorded as complete with its
  cleanup not started. The models have all three; none contradicts a document.
- The branch of an issue is deterministic, so an orphan branch of a failed run
  blocks later runs for that issue until a person removes it. `Publisher` shows it as a
  run that fails.
- A `heartbeat_timeout_seconds` below 30 seconds is accepted by the configuration and
  ends every long codex-cli invocation as stale; `RefusedForCause` excludes it.

## 6. Plan

Done, in this order: budget ledger and its proofs, publication ledger and its
proofs, the run, disposal, the publisher, the agent invocation, the telemetry store,
journal, rehearsal and lock composed, patch inspection, the dashboard.

Then the proofs, in the same order: every safety property of the runs is proved.

Next:

1. Algorithms over bounded inputs: `score_issue` against its documented monotonicity,
   `candidate_gate` against declarative rules.
2. An abstract specification of what `publish` promises, which `Publisher` implements.
