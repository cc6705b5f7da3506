# Verification of Tellegen

TLA+ models of Tellegen: how a Study is changed, searched, saved to a file or to
the browser's database, and approved by its user; how a live session keeps its
edits and what it saves; how pages reach the engine in its worker; how the server
shares its solvers; how the web UI keeps a case and its solution together. TLC
checks the models on small instances; TLAPS proves nearly all of their safety
properties for every instance.

All paths are relative to the repository. The Rust engine is
`crates/tellegen/src`, the browser engine package `packages/engine/src`, the web
app `apps/web/src`.

## 1. The system

A *Study* is a document about one electric network: the states (variants of the
case, solved or not), the revisions of the goal, the experiments (records of what
was computed), the decisions, and four pointers (active goal, inspected,
recommended and applied state). It is carried, with the artifacts its records
name by hash, in a *bundle*, which has a revision number. An operation takes a
bundle and an expected revision and returns the bundle of the next revision or an
error. The same operations are reached from the command line, from the web app
and from an agent's tools.

| Component | Source | State | Operations |
|---|---|---|---|
| Study document and operations | `document.rs`, `study_ops.rs` | the bundle | `create_study`, `import_journal`, `execute_study`: inspect, branch, revise goal, compare, record evidence, edit demand, restore base, propose, apply |
| Planning search | `exploration.rs`, `propose_async` in `study_ops.rs` | trials, visited points, solve count, best value, termination | one proposal with checkpoints between exact solves |
| File Study store | `study_storage.rs` | the file at a path, its lock file, temporary files | `load`, `create`, `commit` |
| Command line | `crates/tellegen-cli/src/main.rs` | none of its own | `study create, import, run, inspect, export`; single solves |
| Browser controller and store | `packages/engine/src/study-document.ts` | per tab: bundle, queue of promises, approvals; shared: IndexedDB | `create`, `import`, `open`, `execute`, `recordUserApproval`, `applyApprovedProposal` |
| Engine hosts | `host.ts`, `worker.ts`, `protocol.ts`, `module.ts` | pending calls, the worker, the handles, the stops | `call`, `cancel`, `requestStop`, replay on the calling thread |
| HTTP server | `crates/tellegen-server/src/lib.rs` | solver permits, cancel flags, rate buckets | `solve_stream`, `sensitivity` |
| Live session | `study.rs`, `history.rs`, the edits of `api.rs` | base, log of edits in commits, constraints, the solved point | `commit`, `replace_edits`, `set_constraints`, `apply_geo_layer`, `preview_replacement`, three saves |
| Grid controller | `packages/svelte/src/lib/controller.svelte.ts`, `BrowserStudy` in `index.ts` | per case: edits, solution, column, tokens, cached and building Study | `runSolve`, `selectTarget`, `getStudy`, `resetCase`, `changeFormulation`, removal, `dispose` |
| Move generation | `objective.rs`, `exploration.rs` | none | `feasible_moves`, `within_limits`, `feasible` |
| Study workspace | `apps/web/src/lib/studies` | the displayed bundle, a busy flag | user edits, display, WebMCP calls |
| WebMCP | `packages/webmcp`, `tellegen-adapter.ts` | registered tools, journal | tool calls to the workspace |
| Numerics | `problem/`, `sens/`, `solve.rs`, `api.rs`, `mc_pf/` | none | formulations, solvers, derivatives |

How they interact. `tellegen study run` loads a bundle, executes an operation and
commits it; several such processes share a path and nothing else. In the browser
the workspace and the agent's tools call one controller per tab; the controller
sends the operation to the engine in a worker and commits the answer to
IndexedDB, which the tabs share. `propose` runs the search, which polls a
cancellation flag between solves. No component holds a lock while an operation
computes: every save is checked against the revision the operation started from.
The map view of the same app does not use documents: its controller keeps a live
Study per case in the shared engine host and falls back to the server's solve
stream and sensitivity endpoint when the engine is unavailable.

What is hard here:

- the store: kills, losses of power and failing calls between any two steps, a
  lock that outlives its owner, an error after the point of no return;
- the controller: aborts racing answers and commits, other tabs' commits, an
  approval given while something else is being saved;
- the search: three places charge the budget, several exits of nested loops give
  the reason, a stop in the middle of an iteration;
- the document: pointers and records that must agree after any sequence of
  operations, failed solves included;
- the hosts: a worker that fails before or after its first answer, traps, stops
  that overtake the run they stop, calls replayed elsewhere;
- the server: a blocking task that outlives its request, deadlines, hang-ups, a
  clock that is read outside the mutex;
- the live session: one log of edits, interpreted by the solver, by the preview
  and by the save, each in its own way, with two names for every element;
- the grid controller: solves, selections and Study builds of one case overlap,
  and answers come from an ordered engine and an unordered server.

What makes each part correct:

- document: pointers name existing records; the recommendation belongs to the
  active goal; the applied state was decided on; history only grows; finished
  work is not thrown away;
- search: the budget holds, the recommendation is the best verified candidate,
  the reason is true, a stop stops, the search ends;
- both stores: nobody's saved operation is lost or overwritten, what was reported
  stays, errors are honest, nothing blocks for ever;
- approvals: what is applied is what the user approved, and nothing that could
  matter happened in between;
- hosts: a call is settled once, by one engine (a run that traps in its own poll is
  settled by nobody); acknowledged edits are never
  silently gone; a trapped instance is not believed; a stop is seen;
- server: permits are conserved and come back, clients are told the truth, a
  sender is limited by its own requests only;
- live session: solved point, previews and saved files agree;
- grid controller: the screen shows what the edits describe, Studies are freed,
  solves end.

`PROJECT.json` lists the hazards at their lines, each with the properties that
watch it, or a note when its component is not modelled yet.

## 2. Modules

| Module | Models | Run by |
|---|---|---|
| `StudyRegister` | what a store promises (abstract specification) | refined by the next and by `StudyTabs` |
| `FileStudyStore` | `study_storage.rs` and the `study` commands | `FileStudyStore.cfg` |
| `StudyTabs` | `study-document.ts` in several tabs | `StudyTabs.cfg` |
| `StudySearch` | `propose_async` with `explore_async` | `MCStudySearch.cfg` |
| `StudyDocument` | `document.rs` and `execute_study` | `StudyDocument.cfg` |
| `EngineHost` | `host.ts`, `worker.ts`, `protocol.ts`, `module.ts` | `EngineHost.cfg`, `EngineHostLive.cfg` |
| `SolverPool` | the solving handlers of the server | `SolverPool.cfg`, `SolverPoolHangUp.cfg` |
| `RateLimiter` | its rate limiter | `MCRateLimiter.cfg` |
| `LiveStudy` | `study.rs` with the edits of `api.rs` | `MCLiveStudy.cfg` |
| `GridCase` | a case of `controller.svelte.ts` with its `BrowserStudy` | `GridCase.cfg`, `GridCaseColumn.cfg` |
| `FileStudyStore_proofs`, `StudyTabs_proofs`, `StudySearch_proofs`, `StudyDocument_proofs`, `EngineHost_proofs`, `LiveStudy_proofs`, `GridCase_proofs` | theorems about the module of that name | TLAPS |
| `Server_proofs` | theorems about `SolverPool` and `RateLimiter`, which share no state | TLAPS |

The models meet where one assumes what another shows: `StudyTabs` assumes that the
engine answers or fails (`CallsSettle` of `EngineHost`, `Terminates` of
`StudySearch`), `GridCase` that it answers in order and that a lost worker rejects
(`EditsInOrder`, `AcknowledgedEditsKept`), that a replaced Study is at the edits it
was sent (`SolvedIsCurrent` of `LiveStudy`) and that a stream ends
(`PoolRecovers` of `SolverPool`); both stores implement `StudyRegister`.

A definition named `...Any`, `...Unchecked`, `...Silently` and the like, commented
"Mutant of", is a plausible bug in the definition that follows it. No
specification uses it; `PROJECT.json` says which property notices it.

### StudyRegister

One saved bundle, reduced to the Study's identity, its revision and the set of
operations it holds, and the set of bundles whose save was reported. `Create` and
`Commit` change it by one Study or one operation; `Confirm` reports a save that is
still contained in the current bundle; `Lose` takes unreported saves back and
never a reported one. It leaves open how a store does that.

### FileStudyStore

One path; each process is a pid. `CreateOrImport` and `Run` are the commands up
to the call of the store (`Run` loads without the lock). Then come the steps of
`create` and `commit` that something else can separate: `Lock` (`create_new` of
the lock file), `Check` (the file is looked at again), `WriteTemporary`,
`Rename`, `SyncDirectory`, and `Unlock`, the drop of `WriteLock` with the report
to the caller. Every step has its failures: a lock that exists, a load that
fails, a leftover temporary file of a process with the same pid, a rename or an
fsync that fails, a removal that is ignored when it fails.

`Kill` ends a process between two steps and leaves its files. `PowerLoss` ends all
of them: `possible` is the set of bundles the directory entry may name afterwards
(it grows with each rename and collapses with a directory fsync); lock and
temporary files may or may not have survived. `OperatorRemovesLock` follows the
advice of the lock's error message: only when no process with that pid runs.

Abstracted: a bundle's contents, except for the operations in it. The Unix build
is modelled; elsewhere the code has no directory fsync. `Check` sees whether the file
is there; `path.exists()` of `create` is also false when the file cannot be looked at.

### StudyTabs

`bundle`, `queue` and `approvals` are the controller's private fields. A request
goes through `Start` (abort and revision checks), `Answer` (the engine answers or
fails; the answer of an aborted request is dropped, except a search's), `Commit`
(one IndexedDB transaction, which may fail) and `Publish` (the continuation after
the transaction: bundle and approvals are updated, the promise resolves).
`Create` and `Created` are the same two halves for a new Study. Between any two of
these another tab may act, the caller may abort, the user may approve what the
tab shows, and the tab may be closed (`Close`). The document is reduced to what
approvals depend on: goal, recommendation, applied state, the proposals and the
log of operations. `seen`, the revision at which the user approved, exists for the
properties only.

IndexedDB is modelled as atomic and durable: the code relies on it and does
nothing about its loss. A request is only ever compared by revision, so the kinds
that behave alike share one: `inspect` stands for `compare` and
`record_evidence`, `branch` for an operation that changes no pointer but clears
approvals, `edit_demand` for `restore_base`.

### StudySearch

One proposal: the two solves that may precede the search, the loop over
iterations, the beam, the acceptance of the winner, and the choice of the
recommendation from the accepted flags. Each solve is a step between `BeginSolve`
(which charges it) and its result, so `Cancel` may fall into it. Decision vectors
are points; the candidates of an iteration are any non-empty set of points not
visited; objective values are naturals, any value may come out of any solve.
Which points the derivative proposes and the arithmetic of
objectives do not matter to the properties and are left out.

### StudyDocument

Each operation is an operator from a document to the set of documents it may
produce (the empty set is an error); `Transaction` adds the revision and the
checks of `validate`. Records are identified by hashes of their contents in the
code, so a record is its own identity here and adding one twice adds it once.
Requests name states and goals that do not exist as well. A search is replaced by
its possible outcomes (`Outcomes`): the solved trials it saved, at most `MaxTrials`,
each with the trial or the start it was planned from, which precedes it, and its
accepted flag. `TrialStates` gives every trial the state whose parent is the state of
the trial before it, and the last accepted one is recommended, as in
`execute_proposal`. Which trials can be accepted is for `StudySearch`; here any subset
is. Left out: artifacts, hashes,
labels shown to the user, the display context.

### EngineHost

`host` is a `WorkerHost` on the page's side, `thread` its worker with the messages
not yet taken, `outbox` what is on its way back, `engine` a wasm instance with its
handles and its suspended handlers: one per worker and one for the page's own
thread. The page makes calls on studies through the shared host (`CreateStudy`,
`UseStudy`) or long calls on a host of their own (`CallIsolated`) and may abort
them. A worker takes a message, awaits the module, executes and answers; the load
may fail, the browser may report an error at any moment, an execution may trap.
A trap is thrown to the handler, which posts the fatal answer. `study_document_run`
is an async export and the exception: a trap in its poll (`TrapRun`) is thrown to the
event loop while the promise that the handler awaits stays pending (`hung`). The
worker posts nothing and stays open, a stop is not looked at any more, and the same run
hangs again when a worker's error event has it replayed on the page's thread.
`FailUnanswered` hands pending calls to the page's engine, `FailAnswered` rejects
them. A study's contents are the calls that edited it. The synthetic host and the
other handle tables differ in names only.

### SolverPool and RateLimiter

A request's future (`request`) and its blocking task (`task`) are separate, as in
`run_solve_limited`: `Grant` and `Spawn` move the permit into the task, `Timeout`
and `HangUp` drop the future, and the task goes on until it converges, fails or
notices the flag. `sensitivity` is dropped with its client; `solve_stream` runs in
a task of its own and learns of the hang-up when it next sends.

A handler of the rate limiter reads the clock and the client's key (`Read`) and
decides later, under the mutex (`Decide`: prune, refuse or record, sweep). The
clock is discrete and `Delay` bounds the wait for the mutex. Instants are never
subtracted below zero in the code; in the model an instant after `t` is young.

Left out because no property is about it: the 404 for an unknown target after a
solved sensitivity (`Deliver`), a limit of 0, which turns the limiter off, the
`x-real-ip` header as a second source of the key, and direct peers with private
addresses (`Read`).

### LiveStudy

The state is the `Study` value; each mutating method is an action that succeeds or
fails as a whole. `Fold`, `Aggregate` and `Accepted` are the solver's view of the
log, `ReplacementStep` the preview's, `ApplyEdit` the one of saves and exports. Sums
(`Sums`), the replay (`Materialized`) and the history that a save writes (`History`)
are recursive functions over the positions of a sequence. A solution is the point it
is about: demands, limits, injections, rows. `Reload` starts another session from
what was saved. What a file holds is assumed of `Sources`: loads are powers, a
`rate_a` is not negative and 0 where there is none, the ids of its history differ. Powers are whole megawatts, so the
tolerances of 1e-9 disappear. Two things the model made visible and no property
states: the replay checks every edit in turn, so a batch of -3 and +2 MW on a
demand of 2 MW is solved and committed, but cannot be saved; and a network saved
from a Study on an AC power flow instance carries its demands, not its injections.

### GridCase

`page` holds the controller's fields for one backend case, the continuations that
await something (`tasks`: solves, selections, builds), the calls the engine has
not answered (`queue`, first in first out) and the solve stream; `studies` are the
handles in the engine. An action is one event with everything that follows until
each continuation awaits again, because promises continue before the next event.
`waiters` lists who awaits each build, in the order of the awaits, and `Resolve` lets
them continue in that order when its promise settles.
Edits are read when the code reads them: after `getStudy`, before the index map is
fetched. `failed` records that the last solve ended with a message; the message
itself, labels and previews are left out. `Crash` is the loss of the worker.
The server's request carries the deltas rounded to 0.01 MW (`toFixed(2)`), which
whole megawatts do not show; `awaitFocus` before a column request, whose answer the
same sequence number guards, and a successful solve without a column are left out.

## 3. Runs

| Run | Instance | States | Checks |
|---|---|---|---|
| `file_store` | 2 processes, 3 operations, revisions 0 to 2 | 64,494 | types and revision range; `Exclusive`, `ReportedSavesSurvive`, `RefusedMeansNotSaved`, refinement of `StudyRegister`, `LockIsReleased` |
| `search` | 3 points besides the start, 4 values, budgets 0, 1, 3, 4, 5, beams 1 and 2, 0 or 2 iterations, thresholds 0 and 1 | 379,200 | `BudgetRespected`, `RecommendationIsBest`, `LineageImproves`, `ReasonIsTrue`, `CancelStopsSolves`, `Terminates` |
| `document` | 2 networks, 3 operations, 8 records, 2 saved trials | 251,617 | `RecommendationMatchesGoal`, `AppliedIsDecided`, `GoalsFormALine`, `WorkIsKept`, `HistoryGrows` |
| `tabs` | 2 tabs, a creation and 3 operations, queues of 2, 1 token | 762,505 | `ApplyFollowsApproval`, `ApprovalsAreCurrent`, `OutcomeIsTrue`, refinement of `StudyRegister`, `EveryRequestSettles` |
| `host` | 3 calls on studies, 2 hosts, 1 failed load | 428,008 | `PendingIsOwnedOnce`, `AcknowledgedEditsKept`, `EditsInOrder`, `WorkerAnswersAreSound` |
| `host_live` | 2 calls of all kinds, 1 host | 17,889 | `WorkerSeesStop`, `CallsSettle` |
| `pool` | 3 requests, 2 permits, both endpoints | 332,777 | `PoolInv`, `StreamDeadline`, `ReplyIsTrue`, `PoolRecovers` |
| `pool_hangup` | the same | violated | `DeadlineBoundsSolve` |
| `rate_limiter` | 2 handlers, 2 senders, 2 events in 3 ticks | 468,731 | `SendersAreApart`, `IdleBucketsAreSwept` |
| `live_study` | 2 buses, 3 branches, logs of 2 edits, 2 sessions | 18,274 | `SolvedIsCurrent`, `PreviewReaches`, `SavedIsSolved` |
| `grid` | 2 solves, 1 selection, 3 formulations, 1 crash | 1,028,373 | `ScreenIsCurrent`, `StudiesAreOwned`, `SolveEnds` |
| `grid_column` | 1 solve, 2 selections, DC OPF | violated | `ColumnIsCommitted` |

The two violations are findings in `PROJECT.json`:

- `pool_hangup`: "One deadline bounds the whole operation", but a sensitivity
  request whose client hangs up takes its deadline with it, and the solve keeps
  its permit until it converges. `solve_stream` cancels in this case
  (`StreamDeadline` holds).
- `grid_column`: the preview treats the column of a case as "already solved at the
  committed point"; an edit does not invalidate the column request in flight, whose
  answer may arrive after the solve of the edit.

Why the bounds are enough to be interesting (section 4 removes them for the safety
properties it lists):

- *File store.* Two processes are all that can race for one lock; a third only
  adds more losers. Three operations allow a creation, a commit and a conflicting
  one, in any order with kills. Revision 2 is the largest one, so the exhausted
  revision happens.
- *Search.* The budgets end before the first solve, between the two starting
  solves, within the first beam, within the second, and not at all.
- *Document.* Three operations are enough for propose, revise, apply and for an
  edit that fails between them; a first goal, if any, is there before. The limit
  of eight records is met. Two saved trials allow one planned from the other, and a
  recommendation that is not the last trial or not the first.
- *Tabs.* Four operations allow creation, proposal, an interfering operation of
  the other tab, and the Apply of an approval; two queued requests let an Apply
  wait. The kinds are `inspect`, `revise_goal` and `propose`: `branch` does less to
  approvals than `revise_goal`, `edit_demand` is to them what `propose` is. Each
  request takes one fresh identity (`Fresh`), since which one makes no difference.
- *Hosts.* Creation and two edits of a study are the shortest order that can be
  confused; the second host is the one that replaces a crashed one. Isolated hosts
  and stops need one call each, so `host_live` has two calls of every kind.
- *Pool.* One request more than permits, so that one waits.
- *Rate limiter.* One event more than the limit fits into the time, and the window
  ends within it.
- *Live session.* Two edits allow a sum that cancels, two names of one element, an
  edit and its removal; the second session meets the first one's history. The
  instance has a bus with two loads and one without, a branch with and one without
  a stated limit, and one out of service.
- *Grid.* Two solves are enough for one to supersede the other, or for a formulation
  to change there and back, while a selection and two builds are in flight.
  `grid_column` has the second selection.

Deadlock is not checked where the model stops because its bound is used up: tabs
(identities), document (revisions, as in the code), rate limiter (time) and grid
(solves).

Every property has a mutant that violates it under the same configuration.

Fairness:

- `file_store`: a running process goes on with its next step, and an operator who
  has been told of a stale lock removes it some day. Nothing requires a process to
  be started, nor calls to succeed.
- `search`: the host polls the future until it is ready. `Cancel` is not fair.
- `tabs`: weak fairness of `Work` in each tab, that is: the engine answers or
  fails, IndexedDB completes or aborts each transaction, the event loop runs
  callbacks. Closing a tab settles its requests as abandoned. That the engine answers
  is an assumption: behind a run that hangs (see `EngineHost`) the tab's queue waits
  until the tab is closed.
- `host_live`: event loops take what is queued, a started load ends (well or
  badly), an execution between two trials ends or traps. No worker has to start, errors
  are never owed. `CallsSettle` therefore excepts the runs that `TrapRun` left pending.
- `pool`: the runtime polls futures that can go on, timers fire, an iteration of a
  solver ends and looks at the flag. Convergence is not fair: `PoolRecovers` holds
  although no solve converges.
- `grid`: every call, request and stream is answered or fails, which is what the
  hosts, the server's deadline and the browser's network errors give; no call of the
  grid controller is a `study_document_run`.

## 4. Proofs

Eight modules named `..._proofs` hold the theorems. Each one listed here states a
property for every value of the constants. The only assumptions are the named ones
of the components' modules (`ConstantsAssumption`, `SearchAssumption`, ...): bounds
are naturals, the values for "none" are none of the others, kinds are kinds of the
code. No set of
processes, tabs, requests, points or edits has to be finite. Each theorem follows
from one inductive invariant per component, `Inv` (`LimiterInv` of the rate limiter),
which TLC also checked on the runs' instances; there is one lemma per action and one
step per part that the action can disturb.

Three components compute over sequences of any length: the live Study folds and replays
its log, a build of the grid controller resumes everyone who awaits it, a search of the
document derives each trial's state from an earlier trial's. The library's
induction theorems take an operator as a parameter, which the installed provers do not
instantiate; `PositionInduction` is therefore stated for a *set* of positions and proved
from the least position outside of it. With it a recursive function over `0..n` is
shown to exist and to be unique, after which its defining equation can be used.

| Module | Theorem | States |
|---|---|---|
| `FileStudyStore_proofs` | `TypeCorrect` | types, and no saved revision exceeds the largest |
| | `WritersExclusive` | `Exclusive` |
| | `SavesSurvive` | `ReportedSavesSurvive` |
| | `RefusalsAreHonest` | `RefusedMeansNotSaved` |
| | `ImplementsRegister` | `Spec => RegisterSpec` |
| `StudyTabs_proofs` | `ApplyIsApproved` | `ApplyFollowsApproval` |
| | `HeldApprovalsAreCurrent` | `ApprovalsAreCurrent` |
| | `PromisesAreTrue` | `OutcomeIsTrue` |
| | `ImplementsRegister` | `Spec => RegisterSpec` |
| `EngineHost_proofs` | `PromisesAreOwned` | `PendingIsOwnedOnce` |
| | `EditsAreKept` | `AcknowledgedEditsKept` |
| | `EditsAreOrdered` | `EditsInOrder` |
| | `AnswersAreSound` | `WorkerAnswersAreSound` |
| | `StopsAreSeen` | `WorkerSeesStop` |
| `StudySearch_proofs` | `BudgetIsRespected` | `BudgetRespected` |
| | `RecommendationIsTheBest` | `RecommendationIsBest` |
| | `LineageIsImproving` | `LineageImproves` |
| | `ReasonIsTheReason` | `ReasonIsTrue` |
| | `NoSolveAfterCancel` | `CancelStopsSolves`, an action property |
| `StudyDocument_proofs` | `RecommendationIsForTheGoal` | `RecommendationMatchesGoal` |
| | `ApplyIsRecorded` | `AppliedIsDecided` |
| | `GoalsAreALine` | `GoalsFormALine` |
| | `ValidateKeepsWork` | `WorkIsKept` |
| | `HistoryIsKept` | `HistoryGrows`, an action property |
| `Server_proofs` | `PermitsAreConserved` | `PoolInv` |
| | `RepliesAreTrue` | `ReplyIsTrue` |
| | `StreamKeepsDeadline` | `StreamDeadline` |
| | `LimitsHold` | `SendersAreApart` |
| | `SweepsAreComplete` | `IdleBucketsAreSwept`, an action property |
| `LiveStudy_proofs` | `SolutionIsCurrent` | `SolvedIsCurrent` |
| | `PreviewReachesTarget` | `PreviewReaches` |
| | `SavesAreSolved` | `SavedIsSolved` |
| `GridCase_proofs` | `ScreenStaysCurrent` | `ScreenIsCurrent` |
| | `StudiesStayOwned` | `StudiesAreOwned` |

### FileStudyStore

- `LockHeld`: a process in the critical steps owns the lock file. The operator
  removes locks of dead processes only, which is what makes this inductive and
  `Exclusive` a consequence.
- `CandidateOK`: a running process has a candidate within the range, and no result
  before it unlocks.
- `BaseIsPast`: the file is a later version of what `study run` loaded, and with
  equal revisions it is that very bundle. This is why comparing revision numbers
  is enough in `commit`; it needs that a loss of power, which does bring older
  files back, ends every process that has loaded a newer one.
- `CandidateIsNext`, `CandidateIsSaved`: what the candidate is to the file before
  and after the rename.
- `PossibleIsPast`: all a loss of power may bring back are earlier versions.
- `OperationIsFresh`: an unsaved candidate holds an operation that no possible
  bundle and no other candidate has, which gives `RefusalsAreHonest`.

`Kept` is shown reflexive and transitive, and `Advance` to keep what was there. The
refinement maps `Rename` to `Create` or `Commit`, `Unlock` to `Confirm`, `PowerLoss`
to `Lose`, and all other actions to stuttering.

### StudyTabs

The heart is `Copies`, by way of `Past`: a tab's bundle is a prefix of the stored
one, and the stored one itself when it is as long. A write that passes the
revision check therefore extends what is stored by one operation, and what the tab
knew when it asked is still true. `Held` says of an approval what
`isApprovalCurrent` tests and, beyond it, that only inspections were committed
since the user saw the revision; `Asked` keeps that for the Apply that waits in the
queue, together with the revision it expects: any save before its turn makes it fail
the check. `QueuedOps`, `QueuedOnce`, `UnusedOps` say that
a queued operation is in the store only while its own save is being reported; that
is what makes a rejection true. The refinement maps `Create` to `Create`, a `Commit`
that succeeds to `Commit`, `Created` and a `Publish` after a save to `Confirm`, all
other actions to stuttering.

### EngineHost

Every call is in one place. A host that serves (`Serves`) has exactly its pending
calls in its map, in the order they were made, and each of them is in its worker's
queue, with its engine, in an answer on the way, or is about to be rejected by an
event that is already certain (`Awaited`). A host that does not serve is empty
(`Idle`); the calls of such hosts and of the page are with the page's engine
(`PageInv`). `Orderly` says of each engine that it takes up each call once and edits
in the order of the calls; it relates what the engine has done to what it awaits and
to what is still in the queue, because a replay or a late `wasmReady` moves calls
from one to the other. `Kept` says that an edit answered "ok", or about to be, is in
the engine's table unless the study was freed.

The step that needs the whole of it is `FailUnanswered`, the replay: the worker's
calls move to the page's engine and the worker's tables are lost. That costs no
acknowledged edit, because the host has not answered, so no `create` of it has
succeeded, so (`CallInv`) no edit of it was ever made. `TrapsFirst` says that what
was computed after a trap is behind the fatal answer in the same stream; the page
rejects everything when it reads that one. A trap in the poll of a run has no fatal
answer; nothing is computed after it, because a run is the only call of its worker
(`Alone`). `StopsArrive` follows a stop from the
queue to the set of stops, with the run behind it or before it.

### StudySearch

The budget is checked where it is charged, but the other properties relate places
far apart. `PointIsBest` ties the current value to the last accepted trial;
`WinnerImproves` and `LastIsOpen` say what the unfinished iteration has found, for
the exits in the middle of it; `EveryTrialIsMatched` is `RecommendationIsBest` before
the end: every solved trial is matched, within `min_improvement`, by the best point
or by the winner that has not been settled. `RecordIsComplete` says that the last
accepted trial is the one the current point came from, so that the trial which is
recommended in the end has the best value. `ReasonHolds` shows that no exit
overwrites the reason of another.

### StudyDocument

What the operations have in common is stated once. `Sound(d, x)`: the result `x`
extends the history of `d`, recommends nothing that `d` did not recommend for the same
goal or that an experiment under the new goal did not compute, applies what a
recorded decision applies, and revises at most the active goal. `SoundStep` shows
that sound results keep the invariant; then each operation is shown to be sound,
and that its references exist, before `validate` looks at them (which is
`WorkIsKept`). `ActiveIsLast` is the strengthening that `GoalsFormALine` needs:
equal goals are one record, so it must be known that nothing revises the active goal
yet when a revision of it is added. For a search, `TrialStates` is shown to exist for any
number of trials from the least trial that would have no state (`Least`); every parent is
then the start or the state of an earlier saved trial, and both are in the document
(`ProposeSound`).

### SolverPool

`TaskFollowsRequest` says that a task exists only after its request has moved the
permit into it, and that flags and final replies end a request; with it each of the
three properties is inductive, and the number of holders, which must be finite to
be counted, plus the free permits is the capacity. Requests may be infinitely many.

### RateLimiter

Instants are read outside the mutex, so a bucket need not be in order, and
`prune_rate_bucket` stops at the first young one. `Recorded` says what a bucket is
nevertheless: its entries are the latest of its sender's accepted requests, each read
at most `Delay` before it was accepted, and a request that is no longer in it was
accepted `Window - Delay` ago at least. An event that is accepted therefore finds
all others of its window in the bucket, and there are fewer than the limit. A sweep
with the clock of another sender's request is one more pruning by a prompt handler
(`PruneRecorded`). `KeyIsOwn` is what `expensive_client_key` contributes: the last entry
that is not empty is the one that the proxy appended. The assumptions are that the
wait for the mutex is bounded by `Delay`, not longer than the window, and that an
address is not empty; the clock may run for ever.

### LiveStudy

`Current` is `SolvedIsCurrent` of any Study, with the partition of the log into
commits. `SolveSeesSite` is the lemma everything rests on: what a solve and its
checks read of a Study is its base without coordinates, its instance and its
formulation. So a method that changes the log, the rows or the coordinates keeps
the solution where it must, and the failure path of `set_constraints` restores all
that the old solution belongs to.

The other two theorems compare the three readings of the log. `AggregateMoves`: the
two keys of an element together move it by the sum of all its edits, because the fold
of each key is a total over the log with the other edits counted as zero
(`TotalAdds`). `AtStep` and `AggregateStep` are the same for the difference of two
folds; keys that only one log has count as zero in the other. `ApplyEditMoves` is one
edit of the replay: it is refused or it moves its element, on a bus by moving the first
load and on a branch without losing that a limit is stated. `MaterializedMoves` is the
induction over the log, and `SavedFacts` what follows for each of the three files that
a Study writes. `HistoryInjective` needs that the search for a free number ends: there
are more numbers than entries.

### GridCase

- `Wired`: every call in the queue is awaited by one task, which awaits nothing else;
  everyone in the list of a build awaits that build, once. So an answer continues
  somebody who awaits it, and a task that a list resumes (`Idle`) is not also called.
- `Aimed`: what the newest solve, and the selection that is still live, have sent to
  the engine or to the server is about the point, or the formulation, of the screen.
  Every edit starts a newer solve and every change of formulation a newer selection,
  which is why it survives the user (`AimedLater`).
- `Screen` and `Streaming`: what is shown, and what the open stream may still show.
  They give `ScreenIsCurrent`.
- `Owned`: `StudiesAreOwned` with what it needs: a Study that is being built is neither
  cached nor about to be freed and is not in the engine before `study_new`, and the
  cache is empty while a build is registered. A handle is given out once.

A continuation is an operator on pages. `Continues(p, t, q)` says that `t` went on, that
the page kept its invariant and that whoever else awaited nothing still does; each
operator is shown to continue (`WithStudyContinues`, `FallbackContinues`, ...), and
`ResolveSound` follows the list of a build by induction. `BuildOverSound` is the end of
a build in its three forms: the Study is cached, is freed because nobody wants it, or
is not there, because it could not be built or was lost with the engine.

### Only model-checked

- All liveness properties (`LockIsReleased`, `Terminates`, `EveryRequestSettles`,
  `CallsSettle`, `PoolRecovers`, `SolveEnds`): the prover does not do fairness.
- The two violated properties are false of the code.

## 5. What is not modelled

Most of the repository's lines are numerics, geometry, parsing and drawing: pure
functions of floating point data whose correctness is a matter of accuracy, which
TLC cannot check (it has no reals), and user interface code without a protocol. The
models cover the parts that keep state over several steps; as a share of all lines
these are few.

- Formulations, solvers, sensitivities, capacity planning (`plan.rs`), synthetic
  grids. A solve succeeds or fails, with any value, or is the point it is about.
- Move generation (`feasible_moves`, `within_limits`, `feasible`): convex
  arithmetic on floating point vectors; the search takes any candidates.
- Artifacts and hashes. `validate` checks them record by record; no order of
  operations matters to it. Imported bundles that no sequence of operations
  produces are therefore not initial states of `StudyDocument`, and `import` in a
  tab is modelled for a Study without history.
- The Study workspace of the web app and the WebMCP tools: the display of a
  controller that `StudyTabs` models, and its two-operation edit.
- In the grid controller: loading and activating cases (a case that is activated
  again while it has no solution loads the base solution over an edit solved
  meanwhile), local cases (which have no server), multiconductor cases, AC OPF,
  previews (an aborted selection may leave the Study at older edits than the
  screen, which a preview starts from), saves and ingestion.
- In the hosts: a trap on the page's own thread is reported as an ordinary failure
  and the instance is used on, although the comment at `worker.ts:67` says that a
  trapped instance must not be; `WorkerAnswersAreSound` is stated for workers. A
  stop of a call that was replayed on the page's thread does not reach it. Neither is a
  run that traps in its poll answered, as the same comment has it ("Answer this request,
  then take the worker down"): the model has the behaviour, `CallsSettle` excepts it.
- `commit` of an empty batch adds a commit bound, although `study.rs:1103` says
  that a study with no edits has zero; only the count sees it.
- Durability of IndexedDB against a loss of power.
- Reading commands, listing, exporting, wording of messages, drawing.
- Saved distribution studies (`mc-study-store.ts`): a single write-once `add`.
- Analytics, benchmarks, deployment scripts, Python and WebAssembly bindings.

## 6. Plan

1. `StudyWorkspace` (`workspace.svelte.ts`) on top of `StudyTabs`: the busy flag,
   the display behind the controller, the user's edit as two operations.
2. Loading, activation and local cases in `GridCase`.
3. Proofs: every safety property that a run checks and that holds is now a theorem. What
   the first two items add is to be proved along `StudyTabs_proofs` and
   `GridCase_proofs`: the display as another copy of the controller's bundle, a load as
   one more continuation that `Wired` knows.
