# A verification of p

`p` is a coding agent: a program that sends a conversation to a language model,
executes the tools the model asks for, and keeps the conversation in a session
that survives restarts. This directory holds TLA+ models of the parts of it
that are hard to test, the TLC configurations that check them on small
instances, and proofs, checked by TLAPS, of what matters most.

The models are read from the code under `src/packages/`, file by file;
`PROJECT.json` maps every definition to the lines it stands for.

1. [The system](#1-the-system)
2. [Modules](#2-modules)
3. [What TLC checks](#3-what-tlc-checks)
4. [What is proved](#4-what-is-proved)
5. [Where code and documentation disagree](#5-where-code-and-documentation-disagree)
6. [What is not modelled](#6-what-is-not-modelled)
7. [Plan](#7-plan)
8. [Running it](#8-running-it)

## 1. The system

Everything runs on the event loop of Node: code between two `await`s is atomic,
and everything else that is ready may run at an `await`. That is the grain of
the models. Where several processes share a file, the grain is the system call.

| Part | State | Operations | Hard | Correct when |
|---|---|---|---|---|
| **Tool batches** (`agent/src/agent-loop/context-management.ts`, `streaming-handler.ts`, `tool-result-formatting.ts`) | phase of every call, deliveries of updates, results | prepare, execute, update, finalize, join; a parallel and a sequential driver | tools end in any order; abort at any await; a listener that throws while other tools run | results complete and in source order, nothing outlives the batch, abort stops calls not yet prepared |
| **Completion protocol** (`agent-loop/protocol-limits.ts`, `implicit-completion.ts`, ...) | five counters, fallback flag | judge a response, repair, continue, give up | counters incremented and compared in different places; mode changes between turns | no limit is exceeded, explicit mode ends with `finish_work`, an accepted answer, or a failure it reports |
| **Agent and loop** (`agent/src/agent`, `agent-loop/error-recovery.ts`) | transcript, queues, active run, abort flag | prompt, continue, steer, followUp, abort, reset, clear | nine exits of `runLoop`; queues change while they are drained; failing listeners | events paired, no queued message lost, doubled or reordered, every run settles |
| **Agent harness** (`agent/src/harness/agent-harness.ts`) | phase, three queues, held-back session writes, controller | prompt, compact, navigateTree, abort, queue and session writes | every callback may fail; cleanup of one operation beside the start of the next | no write lost, phase right, nothing of an operation left behind |
| **Harness sessions** (`agent/src/harness/session`) | append-only file, entries and leaf in memory | append, moveTo, open | half-written lines, crashes, overlapping calls, ids cut from a clock | what was acknowledged is in the file, no reference dangles, a reopen gives the memory back |
| **File mutation queue** (`coding-agent/src/core/tools/file-mutation-queue.ts`) | a chain of promises per file | enqueue, run, remove | asynchronous lookup of the key, files that come and go, failing lookups | mutations of one file exclude each other, in call order |
| **Session manager** (`core/session-manager`) | session tree, file, `flushed`, `persistenceError` | append, label, branch, fork, open | delayed first write, link/rename/sync sequence, power loss, repair on open | no acknowledged entry lost; memory and file agree or the session is blocked |
| Agent session (`core/agent-session`) | display queues, retry attempt, compaction state | prompt, retry, compact, navigate | retry racing abort and queued messages; compaction in the middle of a run | one retry at a time, queue display equals agent queues |
| Session runtime (`core/agent-session-runtime.ts`) | the current session and its services | new, resume, fork, import | replacement while events of the old session arrive | exactly one live session; the old one is disposed |
| Auth storage (`core/auth-storage`) | credentials in memory and file, lock | get key with refresh, login, logout | several processes refresh one token; a lock that is taken over | a valid token is never overwritten by an older one |
| Settings manager (`core/settings-manager`) | settings, modified fields, write queue | set, save, reload, flush | fields modified while a write is queued; a failing write | every change reaches the file, changes of others survive |
| **Run budget** (`core/run-budget`) | requests, tokens, dollars, pending calls in a shared file | admit, settle, set policy, read | admission and settlement apart; several processes, each may end in the middle | the file is an atomic ledger; no call goes out uncounted or beyond the limit |
| **Indexing daemon** (`core/indexing-daemon`, `core/indexed-repos`) | registry, runtime per repository, queue, worker, timers | sync, request, drain, preempt, block, retry, reconcile, stop | the registry changes during a sync that works on what it read; preemption; timers racing; restart | no edit, wakeup or change is lost; every change is indexed in the end |
| Code index (`code-index/src/rag`) | manifest, generations, checkpoints | refresh, rebuild, search | crash between generation and manifest switch | search sees a complete generation |
| Event stream (`ai/src/utils/event-stream.ts`) | queue, waiting readers | push, end, iterate | end without result, several readers | every event is read once, in order; readers are released |
| RPC mode, background processes, extension runner, task verification, trust, providers, terminal UI | see `PROJECT.json` | | | |

How they interact: the coding agent's **session** owns an **Agent**, whose loop
executes **tool batches** and consults the **completion protocol** after each
response; the `edit`, `write` and image tools put their work into the **file
mutation queue**. The **harness** is the second host of the same loop: it
feeds it from its own queues and records what the loop emits in a **harness
session**. Budget, credentials and settings are files shared with other
processes of the same user; the daemon is a process of its own, which learns of
the user's wishes through the registry file.

The hazards of all these parts, modelled or not, are listed at their lines
in `PROJECT.json`.

## 2. Modules

| Module | Models | Uses |
|---|---|---|
| `ToolBatch` | one batch of tool calls under either driver | |
| `CompletionProtocol` | the verdict on a response: operators on counters and abstract responses | |
| `PendingMessageQueue` | the queue operators (enqueueGroup, drain, clear) | |
| `AgentLoop` | `Agent` and `runLoop` | `CompletionProtocol`, `PendingMessageQueue` |
| `HarnessSession` | `Session` over `JsonlSessionStorage` | |
| `AgentHarness` | `AgentHarness`, with the loop seen through its callbacks and the session as the order of its appends | |
| `FileMutationQueue` | `withFileMutationQueue` | |
| `SessionManager` | the session manager and the files behind it, down to what a power loss may leave | |
| `BudgetLedger` | what the run budget promises: an atomic ledger | |
| `RunBudget` | `RunBudgetLedger` over `RunBudgetStorage`, by several processes | implements `BudgetLedger` |
| `IndexingDaemon` | the daemon with its registry | |
| `MC...` | the constants of a run | the module named |
| `...Proofs` | the theorems about a module | the module named, `TLAPS` |
| `AgentLoopTurnProofs`, `AgentLoopQueueProofs` | more theorems about `AgentLoop` | `AgentLoopProofs` |

Each module has one action per step of the code between two awaits, named
after the function or the point it stands for. Definitions whose name starts
with `Bug` are plausible mistakes in the definition that follows them; each
property of a run is broken by one of them.

**ToolBatch.** The driver's `for` loop is `cur` and `pc`; a call goes through
the phases idle, started, prepared, executing, settled,
executed, finalized, ended. In
parallel mode every prepared call is a process of its own once `Join` has
started it, as `Promise.all` does. A tool may report up to `MaxUpdates` partial
results, whose deliveries are counted until they return or fail. The results of
tools and the overrides of `afterToolCall` are constants. An awaited emit
returns or throws (`Emit`), at most `MaxThrows` times. Preparation decides
between a prepared call and an immediate error without looking at arguments.

**CompletionProtocol.** A response is a record of what the code tells apart:
stop reason, kind of tool calls, kind of text, repetition. A batch is the record
of what `runLoop` reads of it: progress, waiting, termination, `finish_work`.
The operators give the new counters and the next step for a response. The texts
of repairs are left out.

**AgentLoop.** Every emit is awaited, so the loop is the pair of what it still
has to emit (`out`) and where it goes on afterwards (`pc`); calls of the API
and failures interleave with each emit. Queued messages are numbered, so that
order and loss can be seen. A tool batch is one step with a result from
`Batches`. `throws` counts listeners and hooks that failed; a failure takes
`runWithLifecycle` through `handleRunFailure` and its `finally`. The last
request a bound allows fails, as a provider may at any time, so that bounded runs
also come to an end.

**HarnessSession.** The file is a sequence of lines, each valid or not, and a
flag for the final newline: a torn write leaves an invalid line or joins two. A
writer is one call of `append*` or `moveTo`; with two writers calls overlap at
each await. The clock is a counter of the 65 second windows that the first eight
digits of a UUIDv7 tell apart; `generateEntryId` falls back to the full id as the
code does. `overlapped` records whether two calls ever were in flight together.

**AgentHarness.** An operation is a record with its own `pc`; `runAgentLoop` is
represented by the callbacks and events it gives the harness in the order of
`runLoop`. `generation` is the identity of the two queue arrays that `abort()`
replaces, which the rollback of a failed announcement depends on. Failures are
chosen from `Faults`: listeners, hooks, the turn snapshot, the session. With
`Overlap` an operation may start as soon as the phase is idle, which includes a
subscriber of `agent_end`; without it, once the operation before is settled.

**FileMutationQueue.** A call takes a ticket (its place in the chain
`registrationQueue`), looks its key up when it is served, joins the queue of
that key, runs when the one in front is done and leaves the map if it is the
last. `File` maps paths to the files they lead to; files in `Volatile` appear and
disappear, so that the same path may have a different key the next time.

**SessionManager.** Every call is synchronous, so the actions of a call follow
one another without interleaving; what comes in between is the failure of a
file operation, a kill, or a power loss. A name leads to a content (`live`);
`data` holds what that content may be after a power loss while it is not synced,
`old` what the name may lead to while its directory is not. A line is a record,
damaged or not. `job` is the write under way and where it stands: publish (rename
or link of the synced temporary file), sync of the directory; or write, sync of
an append. `acked` remembers what a call has reported as written.

**BudgetLedger, RunBudget.** `BudgetLedger` has one step per admission,
settlement and change of policy. `RunBudget` does the same in the steps of
`RunBudgetStorage.update`: lock, read and compute (`update`), look again and
rename (`rename`), read back and return (`verify`); any process may end, or fail,
between them. `LedgerIsAtomic` is the refinement, with the file as the ledger.

**IndexingDaemon.** `d` is the daemon's memory: a runtime per repository, the
queue in the order of `queueOrder`, the drain worker and its two flags. What the
code does between two awaits is composed of operators on `d` with the names of the
functions called (`requestRefresh`, `startDrain`, `preemptFor`, `stopDrain`).
`sync` is `runRegistrySync` with the registry it read when it began. `behind` and
`missed` record which indexes are older than the files and which changes
nobody announced. Times are the numbers of the user's edits.

## 3. What TLC checks

| Run | Properties | Shows |
|---|---|---|
| `tool_batch` | `ResultsInSourceOrder`, `ShortBatchWasAborted`, `NothingOutlivesReturn`, `UpdatesPrecedeEnd`, `AbortStopsLaterCalls`, `BatchSettles`, `RunningCallsEnd` | both drivers, two calls: whatever the order in which tools end, results come complete and in source order; an aborted batch prepares no further call; a batch that fails leaves its running calls to end on their own |
| `agent_protocol` | `TurnsPaired`, `ReportMatchesTranscript`, `AbortStopsRequests`, `LimitsHold`, `ExplicitNeedsFinish`, `RunSettles` | one run in each mode against every response and batch, with changes between implicit and explicit mode, hooks, abort and one failure: every exit of `runLoop` leaves turns paired and one `agent_end`; what the run reports is what the transcript holds; no await is left waiting |
| `agent_queues` | `QueuedExactlyOnce`, `NothingLeftUnanswered`, `DeliveredInOrder` | two groups of two messages steered and queued at every await of two runs, with changes of the steering mode, abort, and one reset, clear or failure: no message doubled, reordered or torn from its group, and none lost unless something failed |
| `session` | `MemoryDurable`, `TreeSound`, `MemoryIsFile` | two calls in sequence or overlapping, failing and torn lines, a crash and a reopen |
| `harness` | `WritesKept`, `PhaseTracksOperation`, `QueuedInOnePlace` | two operations of any kind one after the other, and three disturbances out of failures, an abort, queued messages and session writes, at any await |
| `harness_liveness` | `OperationsSettle`, `AbortSettles` | two operations that may overlap, a failing listener, an abort: all of them end |
| `file_queue` | `TypeOK`, `ExclusivePerFile`, `FirstComeFirstServed`, `MapEmptied`, `CallsSettle` | three mutations of a file, the same file by a link, or a file that comes and goes |
| `session_manager` | `AcknowledgedSurvives`, `MemoryIsFile`, `TreeClosed` | two session files, one perhaps damaged, every call, one failing file operation and one kill or power loss between any two: what was reported as written survives; memory and file agree between calls; every tree is closed and nothing is written behind damage |
| `run_budget` | `AdmittedIsCounted`, `HistoryAccepted`, `AdmissionWithinLimit`, `LedgerIsAtomic` | two processes, three calls, a policy of every unit, a change of policy, one failure or end of a process: the file implements the atomic ledger; no call goes out uncounted or beyond the limit |
| `indexing_daemon` | `QueueHasWorker`, `RegistryServed`, `NothingForgotten`, `ChangesIndexed` | two repositories and three disturbances out of two registry edits, a changed file, a failure and a stop or crash: no wakeup, edit or change is lost; what has changed is indexed in the end |
| `doc_missing_file`, `doc_resource_failure` | one each, violated | see [section 5](#5-where-code-and-documentation-disagree) |

**Bounds.** Two calls are enough for both drivers to have one call that has
ended while the other is anywhere, which is what the order of results and the
join depend on; the proofs lift this to any number. In `agent_protocol` three
requests, with a limit of two turns and of 0 or 1 for the other counters, let
every counter reach and pass its limit and a mode change happen before and after.
The last request the bound allows fails, and some runs would go on without it:
`RunSettles` shows that no emit, hook, failure or abort leaves a run waiting, not
that the limits alone bound its length. `LimitsHold` is about the limits. In
`agent_queues` two groups of two messages over two runs of two requests reach
every poll from both sides; `MaxDisturbed` and `MaxResets` allow one failure and
one reset or clear. In `session` three lines allow a branch, a move and an entry
behind it, and two clock windows make ids collide and differ. In `harness` two
operations show what one leaves behind for the next, and two failures reach the
failure of a failure report and of the cleanup; `MaxInputs` limits failures,
aborts, messages and writes together. A prompt of the harness makes one or two
requests and then ends: that the loop ends is `AgentLoop`'s concern. Three calls
in `file_queue` are needed for one to leave while another waits and a third
arrives. In `session_manager` three entries allow a prompt, its answer, which
makes the file, and an append or label behind it; two files allow a fork. In
`run_budget` a limit of two requests is passed by the third call, and a second
usage makes the sum of tokens too large to count. In `indexing_daemon` the second
repository is what a manual request preempts, and two edits let one arrive during
the sync of the other; `MaxInputs` again limits all inputs together.

**Symmetry** is used for the writers of `session`, the operations of `harness`,
the files of `session_manager`, and the processes and the two text calls of
`run_budget`: interchangeable, and those runs have no liveness property.

**Deadlock** is checked in `tool_batch`, whose batch must end, and in
`session_manager` and `run_budget`, where some call is always possible. The other
systems may rest: an agent nobody prompts, a session nobody writes to, a daemon
with nothing to do.

**Fairness.** Liveness assumes weak fairness of every process of the code: the
event loop resumes what is ready (`RunStep`, `Driver`, `OpStep`, `AbortStep`,
`Step`, `DaemonStep`). `IndexingDaemon` spells the last one out with `Ready` and
`OwnStep`, which TLC evaluates faster than ENABLED. It is an assumption on the
environment that the provider, the file system, the tools and the callbacks
settle: except for the timeout of a refresh the code promises nothing if they do
not. No fairness is assumed of the user, of failures, of the start of the daemon,
or of anything that could help a run to its end from outside.

Some properties carry a condition, each because the code does less without it:

- `TurnsPaired`, `ReportMatchesTranscript` and `NothingLeftUnanswered` speak of
  runs in which no listener or hook fails. A listener that rejects `agent_end`
  gets a second one.
- `QueuedExactlyOnce` and `QueuedInOnePlace` exclude loss as long as nothing
  failed; duplication always. A message taken from its queue before a callback
  that throws is gone.
- `TreeSound` promises paths that end, and `MemoryIsFile` of `HarnessSession`
  anything at all, for calls that do not overlap. Overlapping calls may draw the
  same short id, after which an entry can be its own parent, and may write and
  commit in different orders. `MemoryDurable` and the references of `TreeSound`
  hold for them too, unless a torn line has made the file unreadable.
- `WritesKept` speaks of order only for prompts that meet no failure: compact and
  navigateTree keep writes back beyond their end. It is checked for operations
  that follow one another. Two whose flushes overlap can store one write twice
  and drop the next.
- `ExclusivePerFile` and `FirstComeFirstServed` need `NoVolatileAlias`: no file
  that comes and goes is reached by two paths.
- `AcknowledgedSurvives` leaves out files that got their name in a call that did
  not come to sync the directory. Opening such a file again does not sync it
  either, and later appends report success while a power loss may take the name.
- `NothingForgotten` leaves out changes that no watcher was told of; reconcile
  finds those (`ChangesIndexed`).

And the models assume:

- `SessionManager`: one process per session file; a sync that succeeds makes all
  of a file durable; fork is called on an intact file. Temporary files that a
  kill leaves behind are ignored.
- `RunBudget`: the lock of a process that runs is not taken over.
  `proper-lockfile` takes over a lock that was not renewed for ten seconds; a
  process suspended for so long in an update is outside the model. All processes
  start with the same policy. Dollars are whole numbers of some small unit.
- `IndexingDaemon`: a change of the registry is one step, its watcher is told of
  each, and a resource failure can be recorded. A sync serves the repositories it
  knows before new ones. An error of the backends in a sync, or of the release of
  the device after a preemption, ends the process (`Crash`).

## 4. What is proved

For all values of the constants that satisfy the named assumptions of the
modules: `BatchAssumption`, `LoopAssumption` and `LimitsAssumption` give the
constants their types and leave every choice at least one answer;
`PathAssumption` also says that a real path is its own real path;
`BudgetAssumption` says that policies and usages have the fields the code
validates, with natural numbers in them, and that there are finitely many calls;
`SessionAssumption` that there are finitely many writers; `HarnessAssumption`
gives the bounds and the faults their types.

**`ToolBatchProofs`**: any number of calls, results, overrides, updates and
failures. `TypeCorrect`; then `BatchInvariant`, the inductive invariant, and
from it `ResultsOrdered`, `ShortOnlyWhenAborted`, `ReturnIsFinal`,
`UpdatesBeforeEnd` and the action property `AbortStopsCalls`.
`ResultsInSourceOrder` alone is not inductive: it speaks of the end, when both
arrays are complete. `BatchInv` says for each position of the
driver which phases the calls before, at and after `cur` are in (`CursorInv`,
`EarlierInv`), that the pending set is the calls started and not ended, that
updates are under way only for calls that execute, which positions each driver
has, that `finalizedCalls` is 1, 2, ... up to `cur` or the call before, and that
the messages are a prefix of it. Each part is preserved by each action, one lemma
per part.

**`AgentLoopProofs`**: any responses, batches, limits, queues and failures.
`AbortBounded`: a run makes at most one request after abort. The strengthening
`LateInv` adds that after such a request the run is between it and the test of
the signal, which it cannot pass. `LimitsNeverExceeded`: no counter passes its
limit in a run that goes on. `LimitsInv` adds that between the test of the turn
limit and the count of the turn there is room for one more; lemmas about the
protocol's operators say how each of them moves the counters. `TypeCorrect`
needs facts about `Flat` (`groups.flat()`), whose definition is a recursive
function: they are proved by taking the least index at which they would fail,
which `WellFoundedInduction` says there is. `NothingUnanswered`: `AnswerInv` says
at each point of the loop that the transcript ends with an answer, that an answer
is about to be emitted, or that another turn is due; `CutInv` that only a response
cut short is continued, and that it has no batch which could end the run. The
theorem has the condition `MaxWaiting > 0`. With a limit of 0, which the options
admit, the warning about waiting is pushed in the turn of `finish_work` itself and
nothing answers it.

**`AgentLoopTurnProofs`**. `TurnsArePaired`: `TurnsInv` counts for each position
the turns that will be open once what is still in `out` has been emitted; the
property speaks only of what has been. `ExplicitRunsFinish`: `ExplicitInv` carries
the reason for the end from the verdict on the response through `prepareNextTurn`,
the stop hook and both polls to the end. `ReportIsTranscript`: `newMessages` is
extended before the events go out, the transcript when they do; `ReportInv` says
by which messages the one is ahead of the other at each point.

**`AgentLoopQueueProofs`**: any number of groups of any size. `QueuedOnce`:
`PlacesInv` lines the places of a message up (transcript, `out`, `pending`, queue,
cleared) and says that of two messages of a queue the earlier is never behind the
later; disjointness alone is not inductive when a whole queue is drained into
`pending`. `OrderKept`: `GroupsInv` adds that a group leaves its queue whole and
that a group which has begun to enter the transcript is completed by what `out`
emits next.

**`HarnessSessionProofs`**: any number of writers, lines, restarts and torn
writes. `SessionInvariant`, the inductive invariant: the memory is durable; a call
refers to entries it has seen and, once its line is written, is in the file
(`OpInv`); references go back in the file and the leaf is what the entries say
(`BackInv`); and as long as no calls overlap (`SoloInv`) ids are unique and the
file is the memory or one entry ahead (`FileInv`). The last is what makes paths
end: an entry has one position, and its parent an earlier one. From it:
`MemoryIsDurable`, `SessionIsTree`, `MemoryMatchesFile`.

**`AgentHarnessProofs`**: any number of operations, messages, writes and failures,
for operations that follow one another (`~Overlap`), as the runs check it.
`PhaseTracked`: `PhaseInv` says what phase, controller, run promise and completion
mode are at each position of the one operation in flight. `WritesAreKept`:
`WritesInv` allows the first pending write to be in the session too between
`FlushAppend` and `FlushShift`, of which `PhaseInv` allows only one at a time;
`OrderInv` adds that the session is behind what is pending. `QueuedOnce`:
`MessagesInv` orders transcript, inbox and queue of every kind and says where an
inbox may hold what; the rollback of a failed announcement puts the inbox back in
front of its queue and needs both.

**`FileMutationQueueProofs`**: any number of calls, paths and files.
`QueuesCorrect`, the inductive invariant: tickets are unique and served in
order; a call that has begun has only finished ones in front of it in its queue
(`BegunInv`); a waiting call waits for the last in front of it, or for nobody
when all were done (`PrevInv`); the map holds the last call of each queue that
is not done (`MapInv`). The last is needed because a new call learns of the
others only through the map, `PrevInv` because it starts on the word of a single
predecessor. `KeyIsFile`: under `NoVolatileAlias` the key is the real path
whenever it was looked up. Together: `ExclusiveHolds`, `OrderHolds`; and, without
the condition, `MapEmptiedHolds`.

**`RunBudgetProofs`**: any number of processes, changes of policy and faults, any
finite set of calls. `BudgetInvariant`, the inductive invariant: a process in an
update holds the lock, the record it read is the file until it renames, and its
change is one step of the ledger (`LockInv`, `OneStep`); the requests in the file
cover the admitted calls and the one that is counted and not yet told so
(`ChargedInv`, needed because a process that ends after the rename leaves a
request nobody owns); the file is ahead of what every process has seen
(`HistoryInv`). From it: `LedgerImplemented`, the refinement of `BudgetLedger`,
where only `rename` is a step of the ledger and all else stutters;
`AdmittedCounted`, `AdmissionLimited` and `HistoryIsAccepted`.

**Only model-checked.** Liveness (`BatchSettles`, `RunningCallsEnd`, `RunSettles`,
`OperationsSettle`, `AbortSettles`, `CallsSettle`, `ChangesIndexed`) rests on
fairness and ENABLED, which are beyond the prover. The properties of
`SessionManager` and `IndexingDaemon` are not proved yet. `SessionManager` picks the
lines of a branch and of a fork with `SelectSeq`, whose argument is an operator: a
fact about it for every sequence needs an induction that the provers cannot
instantiate, and it would have to be rewritten with index sets first. The
invariants of `IndexingDaemon` need the composed operators on `d` taken apart one
by one.

The proofs write out the few facts about sequences that they use instead of
extending `SequenceTheorems`: every fact in scope costs time at every step. A leaf
that names no prover is Zenon's (`USE Zenon`); those with arithmetic, records or
sequences name the SMT solver.

## 5. Where code and documentation disagree

Two runs end in a counterexample to a sentence of the repository.

- `doc_missing_file`: "Serialize file mutation operations targeting the same
  file" (`core/tools/file-mutation-queue.ts:29`). The key of a file that does not
  exist is the path as given; a file about to be created below a linked directory
  has a queue per path, and two mutations of it run side by side.
- `doc_resource_failure`: "Resource failures require an explicit priority request
  before indexing can resume" (`core/indexing-daemon/types.ts:86`). The catch of
  `drainWorker` handles a failure only when no retry timer is set
  (`health-check.ts:132`): when a refresh that started while the timer of an
  earlier failure was pending ends in a resource failure, the repository is not
  blocked, and the timer starts another refresh.

Met while modelling, from reading the code and without a run of their own:

- a listener that rejects `agent_end` is followed by further events and a second
  `agent_end` (`agent/README.md:202`);
- after the hybrid fallback a successful `finish_work` does not take the branch
  that ends the run at once (`agent/README.md:137`);
- compact, navigateTree and a prompt that fails before its run go idle without
  flushing session writes (`agent/docs/agent-harness.md:88`);
- `reset()` in the middle of a run clears `isStreaming` while the run goes on;
- the hybrid fallback survives a switch to `explicit_finish`;
- `abort()` of the harness before the controller exists signals nobody and waits
  for the run to end by itself;
- next-turn messages are lost when a `before_agent_start` hook throws;
- a subscriber of `agent_end` that prompts again has its flushes run beside those
  of the first operation (`agent-harness.ts:532`);
- a manual request that arrives while a repository just blocked is still active,
  releasing the device, is acknowledged and starts nothing
  (`status-monitoring.ts:57`);
- a sync that works on entries read before a resource failure, or a drain stopped
  to be resumed, may queue a blocked repository again.

## 6. What is not modelled

Most of the repository, by lines: the map covers a little over two percent of the
implementation. The models are of the parts with a protocol that tests hardly
reach; the rest is listed here and in `PROJECT.json` with its reason.

- Contents: texts of messages, arguments of tools, summaries, configuration
  values. The models keep what the control flow tells apart.
- Streaming deltas and progress events: they change nothing but the message on
  display.
- The stream wrappers `agentLoop` and `agentLoopContinue`, and parsing of tool
  calls that a model writes as text, of which only the verdict is kept.
- In the harness: the values behind the setters, the inside of compact and
  navigateTree (one step), labels, forking and listing of sessions. A subscriber
  that awaits `abort()` or `waitForIdle()` from inside a run waits for itself;
  such calls are excluded, as the documentation excludes them.
- In the session manager: migrations of old versions, sessions without a file,
  listing, `buildSessionContext`, and the branch of the publication that meets an
  identical file.
- In the run budget: the checks of the path and how a session finds its ledger.
- In the daemon: progress and status files, the idle timer of the embedding
  device, the daemon lock, the qdrant process, and reconcile's own sync of the
  registry.
- Providers (network protocols), rendering, the site, benchmarks and scripts have
  no protocol of their own to check.
- The components of the plan below, which have protocols worth checking and no
  model yet.

## 7. Plan

In the order of what could go wrong with a user's work:

1. `AuthStorage`: several processes, the lock with take-over, refresh. To prove:
   without take-over no refreshed token is overwritten by an older one.
2. `SettingsManager`: modified fields, write queue, failing writes, a second
   process.
3. The manifest and generations of the code index, composed with
   `IndexingDaemon`: search sees complete generations only.
4. `AgentSession`: display queues against the agent's, retry, compaction;
   composed with `PendingMessageQueue`.
5. `EventStream`, then RPC correlation, the extension runner, background
   processes, the session runtime, and the small editors of the terminal (input
   buffer, undo stack, kill ring).

Abstract specifications worth stating, beside `BudgetLedger`: a tool batch as
"each call gets one result, in order"; a session store as a set of acknowledged
entries with a leaf, for `SessionManager` and `HarnessSession`; a
mutual-exclusion queue per file.

Theorems to come: `AcknowledgedSurvives` of `SessionManager` for any number of
files, failures and crashes; `QueueHasWorker` of `IndexingDaemon`; that
`AgentHarness` keeps its writes when operations overlap but flushes do not.

## 8. Running it

    tlc -workers 2 -config AgentQueues.cfg MCAgentLoop
    tlapm FileMutationQueueProofs.tla

`PROJECT.json` lists the module and the configuration of every run. The longest,
`agent_queues`, has 2.2 million states and takes two to four minutes on two
cores. From nothing, `AgentLoopQueueProofs` and `AgentLoopTurnProofs` take ten to
twelve minutes each, `AgentHarnessProofs` eight, `AgentLoopProofs` and
`HarnessSessionProofs` about five; the others less than two.
