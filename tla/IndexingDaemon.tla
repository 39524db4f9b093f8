--------------------------- MODULE IndexingDaemon ---------------------------
(***************************************************************************)
(* The indexing daemon (packages/coding-agent/src/core/indexing-daemon):   *)
(* it keeps one runtime per repository that the registry (indexed-repos)   *)
(* enables, queues a refresh when a repository's files, its registry entry *)
(* or a timer ask for one, and lets a single drain worker carry out the    *)
(* refreshes by priority.  A manual request preempts; a resource failure   *)
(* blocks the repository until the next manual request.                    *)
(*                                                                         *)
(* The daemon is one event loop.  A step runs from one await to the next;  *)
(* what it does to the daemon's memory `d` is composed from operators that *)
(* stand for the calls it makes.  The registry file and the repositories   *)
(* change at any time.                                                     *)
(***************************************************************************)
EXTENDS Integers, Sequences, SequencesExt, FiniteSets, FiniteSetsExt

CONSTANTS
  Repos, none,
  MaxEdits,      \* bound: edits of the registry by the user
  MaxChanges,    \* bound: changes of repository files
  MaxFailures,   \* bound: refreshes and initializations that fail
  MaxCrashes,    \* bound: times the daemon is stopped or dies
  MaxInputs      \* bound: all of these together

ASSUME DaemonAssumption ==
  /\ none \notin Repos
  /\ \A b \in {MaxEdits, MaxChanges, MaxFailures, MaxCrashes, MaxInputs} : b \in Nat

VARIABLES
  d,         \* the daemon's memory
  sync,      \* runRegistrySync in progress
  requested, \* registrySyncRequested
  reg,       \* the registry file
  regEvent,  \* the registry has changed and its watcher has not been run
  event,     \* repositories whose watcher has not been run after a change
  behind,    \* repositories whose index is older than their files
  missed,    \* repositories with a change that no watcher has told of, or in vain
  scanned,   \* repositories the refresh in progress has read as they are now
  failed,    \* repositories with a resource failure and no user edit since
  edits, changes, failures, crashes

bounds == <<edits, changes, failures, crashes>>
More == edits + changes + failures + crashes < MaxInputs
disk == <<event, behind, missed, scanned>>
vars == <<d, sync, requested, reg, regEvent, disk, failed, bounds>>
-----------------------------------------------------------------------------
(* An entry of the registry: whether indexing is enabled, updatedAt, the
   priorityRequest (0: none) and the resourceFailure.  Times are the numbers
   of the edits. *)
Entry == [on : BOOLEAN, at : 0..MaxEdits, prio : 0..MaxEdits, fail : BOOLEAN]

(* parseManualRequestPriority: above every parseRequestPriority *)
ManualPriority(at) == MaxEdits + at
IsManual(priority) == priority > MaxEdits

(* A RepositoryRuntime.  `dirty` is membership of d.line, which is ordered by
   queueOrder. *)
Closed ==
  [here |-> FALSE, active |-> FALSE, prio |-> 0, aprio |-> 0, at |-> 0, req |-> 0,
   blocked |-> FALSE, debounce |-> FALSE, retry |-> FALSE]

Opened(e) ==
  [Closed EXCEPT !.here = TRUE, !.at = e.at, !.req = e.prio, !.blocked = e.fail]

NoWorker == [step |-> "off", repo |-> none, stop |-> FALSE, pre |-> FALSE, abort |-> FALSE]
NoSync == [step |-> "none", snap |-> <<>>, todo |-> {}, repo |-> none]

Started == [rt |-> [r \in Repos |-> Closed], line |-> <<>>, w |-> NoWorker,
            paused |-> FALSE, mode |-> "up"]

Up(s) == s.mode = "up"
Dirty(s, r) == Contains(s.line, r)
-----------------------------------------------------------------------------
(* requestRefresh and the drain worker *)

(* requestRefresh without debounce, before it calls startDrain *)
Requested(s, r, priority) ==
  IF ~Up(s) \/ ~s.rt[r].here \/ (s.rt[r].blocked /\ ~IsManual(priority)) THEN s
  ELSE [s EXCEPT !.rt[r].blocked = FALSE,
                 !.rt[r].debounce = FALSE,
                 !.rt[r].prio = Max({@, priority}),
                 !.line = IF Dirty(s, r) THEN @ ELSE Append(@, r)]

Candidates(s) == {r \in Repos : s.rt[r].here /\ ~s.rt[r].active /\ Dirty(s, r)}

Place(s, r) == CHOOSE i \in DOMAIN s.line : s.line[i] = r

Earlier(s, r, c) ==
  \/ s.rt[r].prio > s.rt[c].prio
  \/ s.rt[r].prio = s.rt[c].prio /\ Place(s, r) <= Place(s, c)

(* drainWorker takes the next runtime, or returns when there is none. *)
Pick(s) ==
  IF Candidates(s) = {} THEN [s EXCEPT !.w = NoWorker]
  ELSE LET r == CHOOSE r \in Candidates(s) : \A c \in Candidates(s) : Earlier(s, r, c)
       IN [s EXCEPT !.line = Remove(@, r),
                    !.rt[r].active = TRUE, !.rt[r].aprio = s.rt[r].prio, !.rt[r].prio = 0,
                    !.w = [NoWorker EXCEPT !.step = "init", !.repo = r]]

startDrain(s) ==
  IF ~Up(s) \/ s.paused \/ s.w.step # "off" \/ Candidates(s) = {} THEN s ELSE Pick(s)

requestRefresh(s, r, priority) == startDrain(Requested(s, r, priority))

(* finally of drainWorker, and its loop *)
WorkerGoesOn(s) ==
  LET free == [s EXCEPT !.rt[s.w.repo].active = FALSE, !.rt[s.w.repo].aprio = 0]
  IN IF Up(s) /\ ~s.w.stop THEN Pick(free) ELSE startDrain([free EXCEPT !.w = NoWorker])

Running(s) == s.w.step \in {"init", "refresh"}

(* mutant: the preempted repository is not queued again *)
BugPreemptForgets(s, r) ==
  IF s.rt[r].active \/ ~Dirty(s, r) \/ ~Running(s) \/ s.w.stop \/ s.w.pre
     \/ s.w.repo = r \/ s.rt[r].prio <= s.rt[s.w.repo].aprio
  THEN s
  ELSE [s EXCEPT !.w.pre = TRUE, !.w.abort = TRUE]

preemptFor(s, r) ==
  IF s.rt[r].active \/ ~Dirty(s, r) \/ ~Running(s) \/ s.w.stop \/ s.w.pre
     \/ s.w.repo = r \/ s.rt[r].prio <= s.rt[s.w.repo].aprio
  THEN s
  ELSE LET victim == s.w.repo
       IN [Requested(s, victim, s.rt[victim].aprio) EXCEPT !.w.pre = TRUE, !.w.abort = TRUE]

(* stopDrain, up to its await; the repository being indexed is queued again,
   first, if the drain is to be resumed. *)
stopDrain(s, abort, resume) ==
  LET again == IF resume /\ s.w.step # "off" /\ s.rt[s.w.repo].here /\ ~Dirty(s, s.w.repo)
               THEN <<s.w.repo>> \o s.line ELSE s.line
  IN [s EXCEPT !.paused = TRUE, !.line = again,
               !.w.stop = s.w.step # "off", !.w.abort = @ \/ (abort /\ Running(s))]

closeRuntime(s, r) == [s EXCEPT !.rt[r] = Closed, !.line = Remove(@, r)]
-----------------------------------------------------------------------------
(* The registry *)

(* setRepoIndexingDecision writes an entry with neither request nor failure. *)
Decide(r, on) ==
  /\ edits < MaxEdits /\ More
  /\ edits' = edits + 1
  /\ reg' = [reg EXCEPT ![r] = [on |-> on, at |-> edits + 1, prio |-> 0, fail |-> FALSE]]
  /\ regEvent' = TRUE
  /\ failed' = failed \ {r}
  /\ UNCHANGED <<d, sync, requested, disk, changes, failures, crashes>>

(* requestIndexingForRepo *)
Touch(r) ==
  /\ edits < MaxEdits /\ More /\ reg[r].on
  /\ edits' = edits + 1
  /\ reg' = [reg EXCEPT ![r].at = edits + 1]
  /\ regEvent' = TRUE
  /\ UNCHANGED <<d, sync, requested, disk, failed, changes, failures, crashes>>

(* prioritizeIndexingForRepo *)
Prioritize(r) ==
  /\ edits < MaxEdits /\ More /\ reg[r].on
  /\ edits' = edits + 1
  /\ reg' = [reg EXCEPT ![r].prio = edits + 1, ![r].fail = FALSE]
  /\ regEvent' = TRUE
  /\ failed' = failed \ {r}
  /\ UNCHANGED <<d, sync, requested, disk, changes, failures, crashes>>

(* acknowledgeIndexingPriorityForRepo *)
Acknowledged(g, r, request) ==
  IF request # 0 /\ g[r].prio = request THEN [g EXCEPT ![r].prio = 0] ELSE g

(* recordIndexingResourceFailureForRepo *)
FailureRecorded(g, r) ==
  IF g[r].on THEN [g EXCEPT ![r].prio = 0, ![r].fail = TRUE] ELSE g

(* The daemon writes the registry, and its own watcher is told. *)
Save(g, pending) ==
  /\ reg' = g
  /\ regEvent' = (pending \/ g # reg)
-----------------------------------------------------------------------------
(* runRegistrySync *)

(* What the sync does for a repository that has a runtime, with the entry it
   read when it began; x holds the daemon's memory and the registry. *)
Served(x, r, e) ==
  IF e.fail THEN [x EXCEPT !.d.rt[r].blocked = TRUE]
  ELSE LET new == e.prio # 0 /\ x.d.rt[r].req # e.prio
           asked ==
             IF ~new THEN x
             ELSE IF x.d.rt[r].active
             THEN [d |-> [x.d EXCEPT !.rt[r].req = 0], reg |-> Acknowledged(x.reg, r, e.prio)]
             ELSE [x EXCEPT !.d = preemptFor(Requested([@ EXCEPT !.rt[r].req = e.prio], r,
                                                       ManualPriority(e.prio)), r)]
       IN IF asked.d.rt[r].at = e.at THEN asked
          ELSE [asked EXCEPT !.d = Requested([@ EXCEPT !.rt[r].at = e.at], r, e.at)]

(* The entries: those with a runtime first, then, one await each, the new
   ones.  When all are done the drain is started. *)
Entries(s, snap, pending) ==
  LET x == FoldSet(LAMBDA r, y : Served(y, r, snap[r]), [d |-> s, reg |-> reg],
                   {r \in Repos : snap[r].on /\ s.rt[r].here})
      new == {r \in Repos : snap[r].on /\ ~s.rt[r].here}
  IN /\ Save(x.reg, pending)
     /\ IF new = {} THEN d' = startDrain(x.d) /\ sync' = NoSync
        ELSE d' = x.d /\ sync' = [NoSync EXCEPT !.step = "entries", !.snap = snap, !.todo = new]

NeedsBackends(s, snap) == \E r \in Repos : snap[r].on /\ ~snap[r].fail /\ ~s.rt[r].here

(* runRegistrySync, up to its first await.  A request of a search to wake the
   backends makes it wait for them too. *)
SyncStarts(s, pending) ==
  LET gone == {r \in Repos : s.rt[r].here /\ ~reg[r].on}
      left == FoldSet(LAMBDA r, t : closeRuntime(t, r), s, gone)
  IN IF gone # {}
     THEN /\ d' = stopDrain(left, TRUE, TRUE)
          /\ sync' = [NoSync EXCEPT !.step = "drain", !.snap = reg]
          /\ Save(reg, pending)
     ELSE \/ /\ d' = s /\ sync' = [NoSync EXCEPT !.step = "backends", !.snap = reg]
             /\ Save(reg, pending)
          \/ ~NeedsBackends(s, reg) /\ Entries(s, reg, pending)

syncVars == <<disk, failed, bounds>>

(* mutant: an event during a sync is taken to be part of it *)
BugSyncOnce ==
  /\ Up(d) /\ regEvent
  /\ IF sync.step = "none" THEN SyncStarts(d, FALSE)
     ELSE regEvent' = FALSE /\ UNCHANGED <<d, sync, reg>>
  /\ UNCHANGED <<requested, syncVars>>

(* The watcher of the registry: syncRegistry. *)
RegistryWatched ==
  /\ Up(d) /\ regEvent
  /\ IF sync.step = "none" THEN SyncStarts(d, FALSE) /\ UNCHANGED requested
     ELSE requested' = TRUE /\ regEvent' = FALSE /\ UNCHANGED <<d, sync, reg>>
  /\ UNCHANGED syncVars

(* finally of syncRegistry *)
SyncAgain ==
  /\ Up(d) /\ requested /\ sync.step = "none"
  /\ requested' = FALSE
  /\ SyncStarts(d, regEvent)
  /\ UNCHANGED syncVars

(* stopDrain has waited for the worker. *)
SyncDrained ==
  /\ sync.step = "drain" /\ d.w.step = "off"
  /\ IF Up(d)
     THEN d' = startDrain([d EXCEPT !.paused = FALSE]) /\ sync' = [sync EXCEPT !.step = "backends"]
     ELSE UNCHANGED d /\ sync' = NoSync
  /\ UNCHANGED <<requested, reg, regEvent, syncVars>>

SyncBackends ==
  /\ sync.step = "backends"
  /\ Entries(d, sync.snap, regEvent)
  /\ UNCHANGED <<requested, syncVars>>

(* mutant: the refreshes the sync asked for are left to the next event *)
BugNoDrain(s, todo) ==
  IF todo = {} THEN d' = s /\ sync' = NoSync
  ELSE d' = s /\ sync' = [sync EXCEPT !.step = "entries", !.todo = todo, !.repo = none]

EntryDone(s, todo) ==
  IF todo = {} THEN d' = startDrain(s) /\ sync' = NoSync
  ELSE d' = s /\ sync' = [sync EXCEPT !.step = "entries", !.todo = todo, !.repo = none]

(* A new runtime; its watcher is set before its index is looked at, and is not
   told of what an earlier one was not told of. *)
SyncOpens(r) ==
  /\ sync.step = "entries" /\ r \in sync.todo
  /\ LET e == sync.snap[r]
         s == [d EXCEPT !.rt[r] = Opened(e)]
     IN IF e.fail THEN EntryDone(s, sync.todo \ {r})
        ELSE d' = s /\ sync' = [sync EXCEPT !.step = "initialize", !.repo = r, !.todo = @ \ {r}]
  /\ event' = event \ {r}
  /\ UNCHANGED <<requested, reg, regEvent, behind, missed, scanned, failed, bounds>>

Fails == failures < MaxFailures /\ More /\ failures' = failures + 1

(* service.initialize told whether the index is fresh, or threw. *)
SyncInitialized ==
  LET r == sync.repo
      e == sync.snap[r]
      manual == preemptFor(Requested(d, r, ManualPriority(e.prio)), r)
      updated == Requested(d, r, e.at)
  IN /\ sync.step = "initialize"
     /\ \/ /\ EntryDone(IF e.prio # 0 THEN manual
                        ELSE IF r \in behind THEN updated ELSE d, sync.todo)
           /\ UNCHANGED failures
        \/ EntryDone(updated, sync.todo) /\ Fails
     /\ UNCHANGED <<requested, reg, regEvent, disk, failed, edits, changes, crashes>>
-----------------------------------------------------------------------------
(* The drain worker *)

(* ensureBackends and service.initialize are done; a pending manual request is
   acknowledged and the refresh begins to read the files. *)
WorkerInitialized ==
  LET r == d.w.repo
  IN /\ d.w.step = "init"
     /\ Save(Acknowledged(reg, r, d.rt[r].req), regEvent)
     /\ d' = [d EXCEPT !.w.step = "refresh", !.rt[r].req = 0]
     /\ scanned' = scanned \cup {r}
     /\ UNCHANGED <<sync, requested, event, behind, missed, failed, bounds>>

WorkerRefreshed ==
  LET r == d.w.repo
  IN /\ d.w.step = "refresh"
     /\ d' = WorkerGoesOn([d EXCEPT !.rt[r].blocked = FALSE])
     /\ behind' = IF r \in scanned THEN behind \ {r} ELSE behind
     /\ missed' = IF r \in scanned THEN missed \ {r} ELSE missed
     /\ scanned' = scanned \ {r}
     /\ UNCHANGED <<sync, requested, reg, regEvent, event, failed, bounds>>

(* An error that is no resource failure, such as the timeout: retryTimer *)
RetryLater(s, r) ==
  WorkerGoesOn([s EXCEPT !.rt[r].blocked = FALSE, !.rt[r].retry = TRUE])

(* A resource failure: nothing is left that would start a refresh. *)
Block(s, r) ==
  [s EXCEPT !.rt[r].blocked = TRUE, !.rt[r].prio = 0, !.rt[r].debounce = FALSE,
            !.rt[r].req = 0, !.line = Remove(@, r), !.w.step = "release"]

(* catch of drainWorker; an error during an abort is that abort's *)
WorkerFails(resource) ==
  LET r == d.w.repo
      handled == ~d.w.pre /\ Up(d) /\ ~d.w.stop /\ d.rt[r].here /\ ~d.rt[r].retry
  IN /\ Running(d)
     /\ IF d.w.abort THEN ~resource /\ UNCHANGED failures ELSE Fails
     /\ IF handled /\ resource
        THEN Save(FailureRecorded(reg, r), regEvent) /\ d' = Block(d, r)
        ELSE /\ UNCHANGED <<reg, regEvent>>
             /\ d' = IF d.w.pre THEN [d EXCEPT !.w.step = "release"]
                     ELSE IF handled THEN RetryLater(d, r) ELSE WorkerGoesOn(d)
     /\ failed' = IF resource THEN failed \cup {r} ELSE failed
     /\ scanned' = scanned \ {r}
     /\ UNCHANGED <<sync, requested, event, behind, missed, edits, changes, crashes>>

(* releaseEmbeddingDevice has returned. *)
WorkerReleased ==
  /\ d.w.step = "release"
  /\ d' = WorkerGoesOn(d)
  /\ UNCHANGED <<sync, requested, reg, regEvent, disk, failed, bounds>>
-----------------------------------------------------------------------------
(* The repositories and the timers *)

(* A file changes; its watcher is told unless there is none or the system
   drops the event. *)
Change(r, told) ==
  /\ changes < MaxChanges /\ More
  /\ changes' = changes + 1
  /\ behind' = behind \cup {r}
  /\ scanned' = scanned \ {r}
  /\ told => d.rt[r].here
  /\ event' = IF told THEN event \cup {r} ELSE event
  /\ missed' = IF told THEN missed ELSE missed \cup {r}
  /\ UNCHANGED <<d, sync, requested, reg, regEvent, failed, edits, failures, crashes>>

timerVars == <<sync, requested, reg, regEvent, behind, scanned, failed>>

(* The watcher of a repository: requestRefresh with debounce *)
Watched(r) ==
  /\ r \in event
  /\ event' = event \ {r}
  /\ IF ~Up(d) \/ ~d.rt[r].here \/ d.rt[r].blocked
     THEN missed' = missed \cup {r} /\ UNCHANGED d
     ELSE d' = [d EXCEPT !.rt[r].debounce = TRUE] /\ UNCHANGED missed
  /\ UNCHANGED <<timerVars, bounds>>

DebounceOver(r) ==
  /\ d.rt[r].debounce
  /\ d' = startDrain([d EXCEPT !.rt[r].debounce = FALSE,
                               !.line = IF Dirty(d, r) THEN @ ELSE Append(@, r)])
  /\ UNCHANGED <<timerVars, event, missed, bounds>>

Retry(r) ==
  /\ d.rt[r].retry
  /\ d' = requestRefresh([d EXCEPT !.rt[r].retry = FALSE], r, 0)
  /\ UNCHANGED <<timerVars, event, missed, bounds>>

(* mutant: reconcile looks after runtimes in error only *)
BugErrorsOnly(r) ==
  /\ Up(d) /\ sync.step = "none" /\ d.rt[r].retry
  /\ d.rt[r].here /\ ~d.rt[r].active /\ ~Dirty(d, r) /\ ~d.rt[r].debounce /\ ~d.rt[r].blocked

(* reconcile looks at a runtime that nothing is going on for. *)
Idle(r) ==
  /\ Up(d) /\ sync.step = "none"
  /\ d.rt[r].here /\ ~d.rt[r].active /\ ~Dirty(d, r) /\ ~d.rt[r].debounce /\ ~d.rt[r].blocked

Reconcile(r) ==
  /\ Idle(r)
  /\ IF r \in behind THEN UNCHANGED failures ELSE Fails
  /\ d' = requestRefresh(d, r, 0)
  /\ UNCHANGED <<timerVars, event, missed, edits, changes, crashes>>
-----------------------------------------------------------------------------
(* The end of the daemon *)

(* stop and prepareForRestart: pauseIntake *)
Stop ==
  /\ Up(d) /\ crashes < MaxCrashes /\ More
  /\ crashes' = crashes + 1
  /\ d' = [d EXCEPT !.mode = "stopping",
                    !.rt = [r \in Repos |->
                              [@[r] EXCEPT !.debounce = FALSE, !.retry = FALSE]]]
  /\ event' = {} /\ missed' = missed \cup event
  /\ UNCHANGED <<sync, requested, reg, regEvent, behind, scanned, failed, edits, changes,
                 failures>>

(* The sync has settled: stopDrain, at once for a graceful stop. *)
StopDrains(abort) ==
  /\ d.mode = "stopping" /\ sync.step = "none"
  /\ d' = [stopDrain(d, abort, FALSE) EXCEPT !.mode = "draining"]
  /\ UNCHANGED <<sync, requested, reg, regEvent, disk, failed, bounds>>

Down ==
  /\ d' = [Started EXCEPT !.mode = "down"]
  /\ sync' = NoSync /\ requested' = FALSE
  /\ event' = {} /\ missed' = missed \cup event /\ scanned' = {}

Stopped ==
  /\ d.mode = "draining" /\ d.w.step = "off"
  /\ Down
  /\ UNCHANGED <<reg, regEvent, behind, failed, bounds>>

(* The process dies; an error of ensureBackends in a sync, or of
   releaseEmbeddingDevice after a preemption, that nobody handles is one way. *)
Crash ==
  /\ d.mode # "down" /\ crashes < MaxCrashes /\ More
  /\ crashes' = crashes + 1
  /\ Down
  /\ UNCHANGED <<reg, regEvent, behind, failed, edits, changes, failures>>

(* start, with another process or after a crash *)
Start ==
  /\ d.mode = "down"
  /\ SyncStarts(Started, FALSE)
  /\ UNCHANGED <<requested, disk, failed, bounds>>
-----------------------------------------------------------------------------
(* The specification *)

Init ==
  /\ d = [Started EXCEPT !.mode = "down"] /\ sync = NoSync /\ requested = FALSE
  /\ \E enabled \in SUBSET Repos :
       reg = [r \in Repos |-> [on |-> r \in enabled, at |-> 0, prio |-> 0, fail |-> FALSE]]
  /\ regEvent = FALSE
  /\ event = {} /\ behind \in SUBSET {r \in Repos : reg[r].on} /\ missed = {} /\ scanned = {} /\ failed = {}
  /\ edits = 0 /\ changes = 0 /\ failures = 0 /\ crashes = 0

UserStep ==
  \E r \in Repos :
    \/ \E on \in BOOLEAN : Decide(r, on)
    \/ Touch(r) \/ Prioritize(r)
    \/ \E told \in BOOLEAN : Change(r, told)

SyncStep ==
  \/ RegistryWatched \/ SyncAgain \/ SyncDrained \/ SyncBackends \/ SyncInitialized
  \/ \E r \in Repos : SyncOpens(r)

WorkerStep ==
  \/ WorkerInitialized \/ WorkerRefreshed \/ WorkerReleased
  \/ \E resource \in BOOLEAN : WorkerFails(resource)

StopStep == Stopped \/ \E abort \in BOOLEAN : StopDrains(abort)

TimerStep ==
  \E r \in Repos : Watched(r) \/ DebounceOver(r) \/ Retry(r) \/ Reconcile(r)

DaemonStep == SyncStep \/ WorkerStep \/ TimerStep \/ StopStep

Next == UserStep \/ DaemonStep \/ Stop \/ Crash \/ Start

Spec == Init /\ [][Next]_vars

(* What the event loop has to run: a promise that settles (a refresh is bounded
   by its timeout), an event of a watcher, a timer.  This is ENABLED DaemonStep. *)
Ready ==
  \/ Up(d) /\ regEvent
  \/ Up(d) /\ requested /\ sync.step = "none"
  \/ sync.step \in {"backends", "entries", "initialize"}
  \/ sync.step = "drain" /\ d.w.step = "off"
  \/ d.w.step # "off" \/ event # {}
  \/ \E r \in Repos : d.rt[r].debounce \/ d.rt[r].retry
  \/ \E r \in behind : Idle(r)
  \/ d.mode = "stopping" /\ sync.step = "none"
  \/ d.mode = "draining" /\ d.w.step = "off"

(* A step that is neither an input nor the start of the daemon *)
OwnStep == d.mode # "down" /\ UNCHANGED <<edits, changes, crashes>>

(* As long as something is ready the event loop runs some of it, which is
   WF_vars(DaemonStep).  Nobody is obliged to start the daemon. *)
FairSpec == Spec /\ ([]<>~Ready \/ []<><<OwnStep>>_vars)
-----------------------------------------------------------------------------
(* Properties *)

(* No wakeup is lost: when no sync is under way and the drain is not paused, a
   repository that is queued has a worker that will come to it. *)
QueueHasWorker ==
  Up(d) /\ ~d.paused /\ sync.step = "none" /\ Candidates(d) # {} => d.w.step # "off"

(* No edit of the registry is overlooked, although a sync works with entries
   it read before its awaits: when no sync is under way or called for, the
   repositories served are the enabled ones, each with the latest updatedAt and
   with the manual request that is still in the registry. *)
RegistryServed ==
  Up(d) /\ sync.step = "none" /\ ~requested /\ ~regEvent =>
    \A r \in Repos :
      /\ d.rt[r].here = reg[r].on
      /\ reg[r].on /\ ~reg[r].fail =>
           d.rt[r].at = reg[r].at /\ reg[r].prio \in {0, d.rt[r].req}

(* A repository whose index is behind its files is not forgotten: unless the
   change was never announced, or the repository is blocked, something is
   under way that will have it refreshed - a watcher, a timer, its place in the
   queue, or the worker.  Preemption, a drain stopped for another repository
   and failures are no exceptions. *)
NothingForgotten ==
  \A r \in behind \ missed :
    Up(d) /\ d.rt[r].here /\ ~d.rt[r].blocked =>
      \/ r \in event \/ d.rt[r].debounce \/ d.rt[r].retry
      \/ Dirty(d, r) \/ d.rt[r].active
      \/ sync.step = "initialize" /\ sync.repo = r

(* Every change of an enabled repository is indexed in the end, announced or
   not, as long as the daemon stays up and resource failures do not block it. *)
ChangesIndexed ==
  \A r \in Repos :
    r \in behind ~> r \notin behind \/ ~Up(d) \/ ~reg[r].on \/ d.rt[r].blocked

(* packages/coding-agent/src/core/indexing-daemon/types.ts:86, "Resource
   failures require an explicit priority request before indexing can resume": no
   refresh begins after a resource failure until the user has edited the
   registry entry. *)
ResourceFailureBlocks ==
  [][\A r \in failed : d'.rt[r].active => d.rt[r].active]_vars
=============================================================================
