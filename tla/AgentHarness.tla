---------------------------- MODULE AgentHarness ----------------------------
(***************************************************************************)
(* AgentHarness (packages/agent/src/harness/agent-harness.ts): the         *)
(* operations prompt (skill and promptFromTemplate included), compact and  *)
(* navigateTree, the queues of user messages, the session writes that are  *)
(* held back while an operation runs, and abort.                           *)
(*                                                                         *)
(* An operation is one call in flight; it interleaves with every other     *)
(* call of the API at each of its awaits.  runAgentLoop is modelled by the *)
(* callbacks and events it gives the harness, in the order of              *)
(* runLoop, and the session by the order of its appends.                   *)
(***************************************************************************)
EXTENDS Integers, Sequences, Functions

CONSTANTS
  Ops,           \* calls of prompt, compact and navigateTree
  noneOp,        \* stands for undefined
  Kinds,         \* which of the three the application makes
  Overlap,       \* whether it may start one as soon as the phase is idle, or
                 \* only once the call before has been settled
  Faults,        \* which callbacks and services may fail
  MaxFaults, MaxQueued, MaxWrites, MaxAborts, MaxRequests,
  MaxInputs      \* bound: faults, queued messages, writes and aborts together

ASSUME HarnessAssumption ==
  /\ noneOp \notin Ops
  /\ Kinds \subseteq {"prompt", "compact", "navigate"}
  /\ Overlap \in BOOLEAN
  /\ Faults \subseteq {"listener", "hook", "snapshot", "session"}
  /\ \A b \in {MaxFaults, MaxQueued, MaxWrites, MaxAborts, MaxRequests, MaxInputs} : b \in Nat

VARIABLES
  phase,            \* this.phase
  controller,       \* the operation that set this.runAbortController
  signalled,        \* operations whose abort signal has fired
  runPromise,       \* the operation whose promise this.runPromise is
  completionMode,   \* this.completionMode
  pendingWrites,    \* this.pendingSessionWrites
  steerQueue, followUpQueue, nextTurnQueue,
  generation,       \* how often abort() has replaced the two queue arrays
  op,               \* the operations
  abortCall,        \* the call of abort() in flight
  delivered,        \* queued messages in the session, in the order of their entries
  written,          \* writes in the session, in the order of their entries
  sent,             \* the queue each queued message was sent to
  accepted,         \* writes accepted so far
  cleared,          \* queued messages that abort() returned to its caller
  faults

runVars == <<phase, controller, signalled, runPromise, completionMode>>
queueVars == <<steerQueue, followUpQueue, nextTurnQueue, generation>>
inputVars == <<sent, accepted, cleared>>
session == <<delivered, written>>
vars == <<runVars, queueVars, inputVars, abortCall, pendingWrites, op, session,
          faults>>

-----------------------------------------------------------------------------
(* The operations *)

PhaseOf(kind) ==
  CASE kind = "prompt" -> "turn"
    [] kind = "compact" -> "compaction"
    [] kind = "navigate" -> "branch_summary"

PromptMessage == 0

Unstarted ==
  [pc |-> "unstarted", kind |-> "prompt", ret |-> "cleanup", inbox |-> <<>>,
   generation |-> 0, polled |-> FALSE, last |-> "stop", requests |-> 0,
   failing |-> FALSE, error |-> FALSE, ended |-> FALSE, original |-> "base"]

Init ==
  /\ phase = "idle"
  /\ controller = noneOp /\ signalled = {} /\ runPromise = noneOp
  /\ completionMode = "base"
  /\ pendingWrites = <<>>
  /\ steerQueue = <<>> /\ followUpQueue = <<>> /\ nextTurnQueue = <<>>
  /\ generation = 0
  /\ op = [o \in Ops |-> Unstarted]
  /\ abortCall = [pc |-> "idle", waits |-> noneOp, calls |-> 0]
  /\ delivered = <<>> /\ written = <<>>
  /\ sent = <<>> /\ accepted = 0 /\ cleared = {}
  /\ faults = 0

InFlight(o) == op[o].pc \notin {"unstarted", "done"}

At(o, p) == op[o].pc = p

Go(o, p) == op' = [op EXCEPT ![o].pc = p]

Done(o) == op' = [op EXCEPT ![o] = [Unstarted EXCEPT !.pc = "done", !.kind = op[o].kind]]

(* flushPendingSessionWrites, then on to p *)
GoFlush(o, p) == op' = [op EXCEPT ![o].pc = "flush", ![o].ret = p]

More == Len(sent) + accepted + faults + abortCall.calls < MaxInputs

Fault(kind) ==
  /\ kind \in Faults /\ faults < MaxFaults /\ More
  /\ faults' = faults + 1

(* An error inside runAgentLoop: emitRunFailure, unless it is what fails. *)
Thrown(o) ==
  op' = IF op[o].failing
        THEN [op EXCEPT ![o].pc = "flush", ![o].ret = "cleanup", ![o].error = TRUE]
        ELSE [op EXCEPT ![o].pc = "failure", ![o].failing = TRUE]

Callable == phase = "idle" /\ (Overlap \/ \A o \in Ops : ~InFlight(o))
-----------------------------------------------------------------------------
(* prompt, up to the start of the loop *)

Prompt(o, mode) ==
  /\ At(o, "unstarted") /\ "prompt" \in Kinds
  /\ Callable
  /\ phase' = "turn"
  /\ runPromise' = o
  /\ completionMode' = IF mode = "none" THEN completionMode ELSE mode
  /\ op' = [op EXCEPT ![o].pc = "snapshot", ![o].original = completionMode]
  /\ UNCHANGED <<controller, signalled, queueVars, inputVars, abortCall,
                 pendingWrites, session, faults>>

(* mutant: an operation that fails before its run starts stays busy *)
BugStayBusy(o) ==
  /\ completionMode' = op[o].original
  /\ runPromise' = noneOp
  /\ Done(o)
  /\ UNCHANGED phase

(* catch and finally of prompt *)
Rejected(o) ==
  /\ phase' = "idle"
  /\ completionMode' = op[o].original
  /\ runPromise' = noneOp
  /\ Done(o)

SnapshotThrows(o) ==
  /\ At(o, "snapshot")
  /\ Fault("snapshot")
  /\ Rejected(o)
  /\ UNCHANGED <<controller, signalled, queueVars, inputVars, abortCall,
                 pendingWrites, session>>

(* createTurnState, then executeTurn takes the whole nextTurn queue. *)
TakeNextTurn(o) ==
  /\ At(o, "snapshot")
  /\ op' = [op EXCEPT ![o].inbox = Append(nextTurnQueue, PromptMessage),
                      ![o].pc = IF nextTurnQueue = <<>> THEN "before" ELSE "taken"]
  /\ nextTurnQueue' = <<>>
  /\ UNCHANGED <<runVars, steerQueue, followUpQueue, generation, inputVars,
                 abortCall, pendingWrites, session, faults>>

TakeAnnounced(o) ==
  /\ At(o, "taken")
  /\ Go(o, "before")
  /\ UNCHANGED <<runVars, queueVars, inputVars, abortCall, pendingWrites,
                 session, faults>>

TakeThrows(o) ==
  /\ At(o, "taken")
  /\ Fault("listener")
  /\ nextTurnQueue' = SubSeq(op[o].inbox, 1, Len(op[o].inbox) - 1) \o nextTurnQueue
  /\ Rejected(o)
  /\ UNCHANGED <<controller, signalled, steerQueue, followUpQueue, generation,
                 inputVars, abortCall, pendingWrites, session>>

BeforeStartThrows(o) ==
  /\ At(o, "before")
  /\ Fault("hook")
  /\ Rejected(o)
  /\ UNCHANGED <<controller, signalled, queueVars, inputVars, abortCall,
                 pendingWrites, session>>

(* before_agent_start returned: only now is there something to abort. *)
StartLoop(o) ==
  /\ At(o, "before")
  /\ controller' = o
  /\ Go(o, "inject")
  /\ UNCHANGED <<phase, signalled, runPromise, completionMode, queueVars,
                 inputVars, abortCall, pendingWrites, session, faults>>
-----------------------------------------------------------------------------
(* runAgentLoop, as the harness sees it *)

runStepVars == <<runVars, queueVars, inputVars, abortCall, pendingWrites>>

(* message_end of a prompt, steering or follow-up message: handleAgentEvent
   appends it to the session, then tells the subscribers. *)
Appended(m) == IF m = PromptMessage THEN delivered ELSE Append(delivered, m)

Inject(o) ==
  /\ At(o, "inject") /\ op[o].inbox # <<>>
  /\ delivered' = Appended(Head(op[o].inbox))
  /\ op' = [op EXCEPT ![o].inbox = Tail(@)]
  /\ UNCHANGED <<runStepVars, written, faults>>

InjectThrows(o) ==
  /\ At(o, "inject") /\ op[o].inbox # <<>>
  /\ \/ Fault("session") /\ UNCHANGED delivered
     \/ Fault("listener") /\ delivered' = Appended(Head(op[o].inbox))
  /\ op' = [op EXCEPT ![o].pc = "failure", ![o].failing = TRUE, ![o].inbox = <<>>]
  /\ UNCHANGED <<runStepVars, written>>

(* The steering queue is polled once before the first request. *)
Injected(o) ==
  /\ At(o, "inject") /\ op[o].inbox = <<>>
  /\ op' = [op EXCEPT ![o].pc = IF op[o].polled THEN "request" ELSE "steer",
                      ![o].polled = TRUE]
  /\ UNCHANGED <<runStepVars, session, faults>>

(* The provider's answer; the loop repeats while there are tool calls. *)
Request(o) ==
  /\ At(o, "request")
  /\ \E r \in {"stop", "tools", "failed"} :
       /\ o \in signalled => r = "failed"
       /\ r = "tools" => op[o].requests + 1 < MaxRequests
       /\ op' = [op EXCEPT ![o].pc = "message", ![o].last = r, ![o].requests = @ + 1]
  /\ UNCHANGED <<runStepVars, session, faults>>

(* message_end of the assistant message and of the tool results, or of the
   failure message of emitRunFailure *)
Messages(o) ==
  /\ op[o].pc \in {"message", "failure"}
  /\ Go(o, "turn_end")
  /\ UNCHANGED <<runStepVars, session, faults>>

MessagesThrow(o) ==
  /\ op[o].pc \in {"message", "failure"}
  /\ Fault("session") \/ Fault("listener")
  /\ Thrown(o)
  /\ UNCHANGED <<runStepVars, session>>

(* turn_end: an error of a subscriber waits until the writes are flushed. *)
TurnEnd(o) ==
  /\ At(o, "turn_end")
  /\ GoFlush(o, "save_point")
  /\ UNCHANGED <<runStepVars, session, faults>>

TurnEndThrows(o) ==
  /\ At(o, "turn_end")
  /\ Fault("listener")
  /\ op' = [op EXCEPT ![o].pc = "flush", ![o].ret = "save_point", ![o].error = TRUE]
  /\ UNCHANGED <<runStepVars, session>>

SavePoint(o) ==
  /\ At(o, "save_point") /\ ~op[o].error
  /\ IF op[o].failing \/ op[o].last = "failed"
     THEN GoFlush(o, "agent_end")
     ELSE GoFlush(o, "prepare")
  /\ UNCHANGED <<runStepVars, session, faults>>

SavePointThrows(o) ==
  /\ At(o, "save_point")
  /\ IF op[o].error THEN UNCHANGED faults ELSE Fault("listener")
  /\ op' = IF op[o].failing
           THEN [op EXCEPT ![o].pc = "flush", ![o].ret = "cleanup", ![o].error = TRUE]
           ELSE [op EXCEPT ![o].pc = "failure", ![o].failing = TRUE, ![o].error = FALSE]
  /\ UNCHANGED <<runStepVars, session>>

(* prepareNextTurn has flushed; createTurnState.  The loop then looks at the
   signal and, if it fired, ends with one more message. *)
Prepare(o) ==
  /\ At(o, "prepare")
  /\ op' = IF o \in signalled
           THEN [op EXCEPT ![o].pc = "message", ![o].last = "failed"]
           ELSE [op EXCEPT ![o].pc = "steer"]
  /\ UNCHANGED <<runStepVars, session, faults>>

PrepareThrows(o) ==
  /\ At(o, "prepare")
  /\ Fault("snapshot")
  /\ Thrown(o)
  /\ UNCHANGED <<runStepVars, session>>
-----------------------------------------------------------------------------
(* drainQueuedMessages; the queue modes may be changed at any time *)

DrainCounts(queue) == IF queue = <<>> THEN {0} ELSE {1, Len(queue)}

(* mutant: the loop polls again instead of ending *)
BugPollAgain(o) == IF op[o].requests = 0 THEN "request" ELSE "steer"

(* Where the loop goes after a poll that returned nothing *)
AfterEmptyPoll(o) ==
  IF op[o].pc = "steer"
  THEN IF op[o].requests = 0 \/ op[o].last = "tools" THEN "request" ELSE "followUp"
  ELSE "agent_end"

Take(o, queue, n) ==
  op' = [op EXCEPT ![o].inbox = SubSeq(queue, 1, n),
                   ![o].generation = generation,
                   ![o].pc = IF @ = "steer" THEN "steered" ELSE "followed"]

NothingQueued(o) ==
  /\ \/ At(o, "steer") /\ steerQueue = <<>>
     \/ At(o, "followUp") /\ followUpQueue = <<>>
  /\ IF AfterEmptyPoll(o) = "agent_end" THEN GoFlush(o, "agent_end")
     ELSE Go(o, AfterEmptyPoll(o))
  /\ UNCHANGED <<runStepVars, session, faults>>

(* mutant: the queue is read and not emptied *)
BugDrainKeeps(o) ==
  /\ At(o, "steer") /\ steerQueue # <<>>
  /\ Take(o, steerQueue, 1)
  /\ UNCHANGED <<runStepVars, session, faults>>

GetSteering(o) ==
  /\ At(o, "steer") /\ steerQueue # <<>>
  /\ \E n \in DrainCounts(steerQueue) :
       /\ Take(o, steerQueue, n)
       /\ steerQueue' = SubSeq(steerQueue, n + 1, Len(steerQueue))
  /\ UNCHANGED <<runVars, followUpQueue, nextTurnQueue, generation, inputVars,
                 abortCall, pendingWrites, session, faults>>

GetFollowUp(o) ==
  /\ At(o, "followUp") /\ followUpQueue # <<>>
  /\ \E n \in DrainCounts(followUpQueue) :
       /\ Take(o, followUpQueue, n)
       /\ followUpQueue' = SubSeq(followUpQueue, n + 1, Len(followUpQueue))
  /\ UNCHANGED <<runVars, steerQueue, nextTurnQueue, generation, inputVars,
                 abortCall, pendingWrites, session, faults>>

Drained(o) ==
  /\ op[o].pc \in {"steered", "followed"}
  /\ Go(o, "inject")
  /\ UNCHANGED <<runStepVars, session, faults>>

(* The messages go back to the array they came from, which is no queue any
   more when abort() has replaced it. *)
DrainThrows(o) ==
  /\ op[o].pc \in {"steered", "followed"}
  /\ Fault("listener")
  /\ IF op[o].generation # generation THEN UNCHANGED <<steerQueue, followUpQueue>>
     ELSE IF op[o].pc = "steered"
     THEN steerQueue' = op[o].inbox \o steerQueue /\ UNCHANGED followUpQueue
     ELSE followUpQueue' = op[o].inbox \o followUpQueue /\ UNCHANGED steerQueue
  /\ op' = [op EXCEPT ![o].pc = "failure", ![o].failing = TRUE, ![o].inbox = <<>>]
  /\ UNCHANGED <<runVars, nextTurnQueue, generation, inputVars, abortCall,
                 pendingWrites, session>>
-----------------------------------------------------------------------------
(* flushPendingSessionWrites *)

(* mutant: the write leaves the queue before it is appended *)
BugShiftFirst(o) ==
  /\ At(o, "flush") /\ pendingWrites # <<>>
  /\ pendingWrites' = Tail(pendingWrites)
  /\ \/ written' = Append(written, Head(pendingWrites)) /\ UNCHANGED <<op, faults>>
     \/ Fault("session") /\ Thrown(o) /\ UNCHANGED written
  /\ UNCHANGED <<runVars, queueVars, inputVars, abortCall, delivered>>

FlushAppend(o) ==
  /\ At(o, "flush") /\ pendingWrites # <<>>
  /\ written' = Append(written, Head(pendingWrites))
  /\ Go(o, "appended")
  /\ UNCHANGED <<runStepVars, delivered, faults>>

FlushShift(o) ==
  /\ At(o, "appended")
  /\ pendingWrites' = IF pendingWrites = <<>> THEN <<>> ELSE Tail(pendingWrites)
  /\ Go(o, "flush")
  /\ UNCHANGED <<runVars, queueVars, inputVars, abortCall, session, faults>>

(* The append rejects.  In the last flush of executeTurn that is the error
   the operation ends with. *)
FlushThrows(o) ==
  /\ At(o, "flush") /\ pendingWrites # <<>>
  /\ Fault("session")
  /\ op' = IF op[o].ret = "cleanup" THEN [op EXCEPT ![o].pc = "cleanup", ![o].error = TRUE]
           ELSE IF op[o].failing
           THEN [op EXCEPT ![o].pc = "flush", ![o].ret = "cleanup", ![o].error = TRUE]
           ELSE [op EXCEPT ![o].pc = "failure", ![o].failing = TRUE, ![o].error = FALSE]
  /\ UNCHANGED <<runStepVars, session>>

(* agent_end: the phase is idle before anyone is told. *)
FlushDone(o) ==
  /\ At(o, "flush") /\ pendingWrites = <<>>
  /\ IF op[o].ret = "agent_end"
     THEN phase' = "idle" /\ op' = [op EXCEPT ![o].pc = "agent_end", ![o].ended = TRUE]
     ELSE UNCHANGED phase /\ Go(o, op[o].ret)
  /\ UNCHANGED <<controller, signalled, runPromise, completionMode, queueVars,
                 inputVars, abortCall, pendingWrites, session, faults>>
-----------------------------------------------------------------------------
(* The end of a run *)

(* The subscribers of agent_end, then those of settled *)
Notify(o) ==
  /\ op[o].pc \in {"agent_end", "settled"}
  /\ IF At(o, "agent_end") THEN Go(o, "settled") ELSE GoFlush(o, "cleanup")
  /\ UNCHANGED <<runStepVars, session, faults>>

NotifyThrows(o) ==
  /\ op[o].pc \in {"agent_end", "settled"}
  /\ Fault("listener")
  /\ Thrown(o)
  /\ UNCHANGED <<runStepVars, session>>

(* finally of executeTurn, then catch and finally of prompt *)
Cleanup(o) ==
  /\ At(o, "cleanup")
  /\ controller' = noneOp
  /\ phase' = IF op[o].error THEN "idle" ELSE phase
  /\ completionMode' = op[o].original
  /\ runPromise' = noneOp
  /\ Done(o)
  /\ UNCHANGED <<signalled, queueVars, inputVars, abortCall, pendingWrites,
                 session, faults>>
-----------------------------------------------------------------------------
(* compact and navigateTree: they append to the session themselves, and leave
   the pending writes alone *)

Structural(o, kind) ==
  /\ At(o, "unstarted") /\ kind \in Kinds
  /\ Callable
  /\ phase' = PhaseOf(kind)
  /\ op' = [op EXCEPT ![o].pc = "work", ![o].kind = kind]
  /\ UNCHANGED <<controller, signalled, runPromise, completionMode, queueVars,
                 inputVars, abortCall, pendingWrites, session, faults>>

(* The summary has been appended, or the call was cancelled, or something
   failed: the phase is idle in each case. *)
StructuralEnd(o) ==
  /\ At(o, "work")
  /\ phase' = "idle"
  /\ Done(o)
  /\ UNCHANGED <<controller, signalled, runPromise, completionMode, queueVars,
                 inputVars, abortCall, pendingWrites, session, faults>>
-----------------------------------------------------------------------------
(* What the application may call at any time *)

outsideVars == <<runVars, abortCall, op, faults>>

Send(queue) == sent' = Append(sent, queue)

Steer ==
  /\ phase # "idle" /\ Len(sent) < MaxQueued /\ More
  /\ Send("steer")
  /\ steerQueue' = Append(steerQueue, Len(sent) + 1)
  /\ UNCHANGED <<outsideVars, followUpQueue, nextTurnQueue, generation, accepted,
                 cleared, pendingWrites, session>>

FollowUp ==
  /\ phase # "idle" /\ Len(sent) < MaxQueued /\ More
  /\ Send("followUp")
  /\ followUpQueue' = Append(followUpQueue, Len(sent) + 1)
  /\ UNCHANGED <<outsideVars, steerQueue, nextTurnQueue, generation, accepted,
                 cleared, pendingWrites, session>>

NextTurn ==
  /\ Len(sent) < MaxQueued /\ More
  /\ Send("nextTurn")
  /\ nextTurnQueue' = Append(nextTurnQueue, Len(sent) + 1)
  /\ UNCHANGED <<outsideVars, steerQueue, followUpQueue, generation, accepted,
                 cleared, pendingWrites, session>>

(* appendMessage, setModel, setThinkingLevel, setTools, setActiveTools *)
SessionWrite ==
  /\ accepted < MaxWrites /\ More
  /\ accepted' = accepted + 1
  /\ IF phase = "idle"
     THEN written' = Append(written, accepted + 1) /\ UNCHANGED pendingWrites
     ELSE pendingWrites' = Append(pendingWrites, accepted + 1) /\ UNCHANGED written
  /\ UNCHANGED <<outsideVars, queueVars, sent, cleared, delivered>>

(* abort: the queues are replaced by new arrays and the run in progress, if
   it has a controller yet, is signalled. *)
Abort ==
  /\ abortCall.pc = "idle" /\ abortCall.calls < MaxAborts /\ More
  /\ cleared' = cleared \cup Range(steerQueue) \cup Range(followUpQueue)
  /\ steerQueue' = <<>> /\ followUpQueue' = <<>>
  /\ generation' = generation + 1
  /\ signalled' = IF controller = noneOp THEN signalled ELSE signalled \cup {controller}
  /\ abortCall' = [abortCall EXCEPT !.pc = "announced", !.calls = @ + 1]
  /\ UNCHANGED <<phase, controller, runPromise, completionMode, nextTurnQueue, sent,
                 accepted, pendingWrites, op, session, faults>>

(* waitForIdle reads runPromise after the subscribers of queue_update. *)
AbortWaits ==
  /\ abortCall.pc = "announced"
  /\ abortCall' = [abortCall EXCEPT !.pc = "waiting", !.waits = runPromise]
  /\ UNCHANGED <<runVars, queueVars, inputVars, pendingWrites, op, session,
                 faults>>

(* mutant: the promise of a run is dropped and never resolved *)
BugNeverResolved ==
  /\ abortCall.pc = "waiting"
  /\ abortCall.waits = noneOp
  /\ abortCall' = [abortCall EXCEPT !.pc = "idle"]
  /\ UNCHANGED <<runVars, queueVars, inputVars, pendingWrites, op, session,
                 faults>>

AbortReturns ==
  /\ abortCall.pc = "waiting"
  /\ abortCall.waits \in {noneOp} \cup {o \in Ops : At(o, "done")}
  /\ abortCall' = [abortCall EXCEPT !.pc = "idle", !.waits = noneOp]
  /\ UNCHANGED <<runVars, queueVars, inputVars, pendingWrites, op, session,
                 faults>>
-----------------------------------------------------------------------------
(* The specification *)

OpStep(o) ==
  \/ TakeNextTurn(o) \/ TakeAnnounced(o) \/ StartLoop(o)
  \/ Inject(o) \/ Injected(o) \/ Request(o) \/ Messages(o)
  \/ TurnEnd(o) \/ SavePoint(o) \/ Prepare(o)
  \/ NothingQueued(o) \/ GetSteering(o) \/ GetFollowUp(o) \/ Drained(o)
  \/ FlushAppend(o) \/ FlushShift(o) \/ FlushDone(o)
  \/ Notify(o) \/ Cleanup(o)
  \/ StructuralEnd(o)
  \/ op[o].error /\ SavePointThrows(o)

OpThrows(o) ==
  \/ SnapshotThrows(o) \/ TakeThrows(o) \/ BeforeStartThrows(o)
  \/ InjectThrows(o) \/ MessagesThrow(o) \/ TurnEndThrows(o)
  \/ ~op[o].error /\ SavePointThrows(o)
  \/ PrepareThrows(o) \/ DrainThrows(o) \/ FlushThrows(o) \/ NotifyThrows(o)

Start(o) ==
  \/ \E mode \in {"none", "explicit"} : Prompt(o, mode)
  \/ \E kind \in {"compact", "navigate"} : Structural(o, kind)

AbortStep == AbortWaits \/ AbortReturns

Next ==
  \/ \E o \in Ops : Start(o) \/ OpStep(o) \/ OpThrows(o)
  \/ Steer \/ FollowUp \/ NextTurn \/ SessionWrite
  \/ Abort \/ AbortStep

Spec == Init /\ [][Next]_vars

(* Every operation in flight is resumed, and so is abort(): the provider, the
   file system and the callbacks settle, and the event loop runs what is
   ready. *)
FairSpec ==
  /\ Spec
  /\ \A o \in Ops : WF_vars(OpStep(o))
  /\ WF_vars(AbortStep)
-----------------------------------------------------------------------------
(* Properties *)

OpPcs == {"unstarted", "snapshot", "taken", "before", "inject", "request", "message",
          "failure", "turn_end", "save_point", "prepare", "steer", "steered",
          "followUp", "followed", "flush", "appended", "agent_end", "settled",
          "cleanup", "work", "done"}

Modes == {"base", "explicit"}
SentIds == 1..Len(sent)
NoneOrOp == Ops \cup {noneOp}

OpType ==
  [pc : OpPcs, kind : {"prompt", "compact", "navigate"},
   ret : {"save_point", "prepare", "agent_end", "cleanup"},
   inbox : Seq(SentIds \cup {PromptMessage}), generation : Nat, polled : BOOLEAN,
   last : {"stop", "tools", "failed"}, requests : Nat, failing : BOOLEAN,
   error : BOOLEAN, ended : BOOLEAN, original : Modes]

AbortType == [pc : {"idle", "announced", "waiting"}, waits : NoneOrOp, calls : Nat]

(* Every variable has its type: each step leaves the operations at a point
   from which they can go on. *)
TypeOK ==
  /\ phase \in {"idle", "turn", "compaction", "branch_summary"}
  /\ controller \in NoneOrOp /\ runPromise \in NoneOrOp /\ signalled \subseteq Ops
  /\ completionMode \in Modes
  /\ pendingWrites \in Seq(1..accepted)
  /\ steerQueue \in Seq(SentIds) /\ followUpQueue \in Seq(SentIds)
  /\ nextTurnQueue \in Seq(SentIds)
  /\ generation \in Nat /\ accepted \in Nat /\ faults \in Nat
  /\ op \in [Ops -> OpType]
  /\ abortCall \in AbortType
  /\ sent \in Seq({"steer", "followUp", "nextTurn"})
  /\ delivered \in Seq(SentIds) /\ written \in Seq(1..accepted)
  /\ cleared \subseteq SentIds

(* A write that the harness accepted is held back or in the session, at most
   once, whatever fails in between; and as long as there are only prompts and
   nothing fails, writes reach the session in the order in which they were
   accepted, those held back during a run and those made while idle alike. *)
WritesKept ==
  /\ IsInjective(written)
  /\ 1..accepted \subseteq Range(written) \cup Range(pendingWrites)
  /\ faults = 0 /\ (\A o \in Ops : op[o].kind = "prompt") =>
       \A i, j \in DOMAIN written : i < j => written[i] < written[j]

(* The phase is that of the operation that has not come to its end: no failure
   leaves the harness busy, and none lets a second operation in.  Once no
   operation is in flight nothing of one remains: no phase, no controller, no
   promise to wait for, no completion mode that one call asked for. *)
PhaseTracksOperation ==
  /\ \A o \in Ops : InFlight(o) /\ ~op[o].ended => phase = PhaseOf(op[o].kind)
  /\ (\A o \in Ops : ~InFlight(o)) =>
       phase = "idle" /\ controller = noneOp /\ runPromise = noneOp /\ completionMode = "base"

(* Where message m is: its positions in the queues, in the session and in what
   an operation has taken and not yet delivered. *)
Positions(place, seq, m) == {<<place, i>> : i \in {j \in DOMAIN seq : seq[j] = m}}

Places(m) ==
  Positions("steer", steerQueue, m) \cup Positions("followUp", followUpQueue, m)
    \cup Positions("nextTurn", nextTurnQueue, m) \cup Positions("session", delivered, m)
    \cup (UNION {Positions(o, op[o].inbox, m) : o \in Ops})
    \cup {<<"cleared", i>> : i \in cleared \cap {m}}

(* A queued message is never in two places: it is not delivered twice, and not
   delivered after abort() gave it back; as long as nothing fails it is not lost
   either.  Messages of one queue are delivered in the order they were sent. *)
QueuedInOnePlace ==
  /\ \A m \in SentIds :
       (\A p, q \in Places(m) : p = q) /\ (faults = 0 => Places(m) # {})
  /\ \A i, j \in DOMAIN delivered :
       i < j /\ sent[delivered[i]] = sent[delivered[j]] => delivered[i] < delivered[j]

(* Every operation that was started is settled, and with it the promise that
   waitForIdle() waits for. *)
OperationsSettle == \A o \in Ops : InFlight(o) ~> ~InFlight(o)

(* abort() returns. *)
AbortSettles == abortCall.pc # "idle" ~> abortCall.pc = "idle"
=============================================================================
