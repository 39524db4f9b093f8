------------------------------ MODULE AgentLoop ------------------------------
(***************************************************************************)
(* The Agent (packages/agent/src/agent) and the loop it runs               *)
(* (packages/agent/src/agent-loop): prompts, continuations, the steering   *)
(* and follow-up queues, abort, reset, and runLoop with its completion     *)
(* protocol.  The execution of a tool batch is one step here; ToolBatch    *)
(* opens it up.                                                            *)
(*                                                                         *)
(* Every emit is awaited, so the loop is modelled by what it still has to  *)
(* emit (`out`) before it goes on at `pc`; calls from outside and failing  *)
(* listeners interleave with the emits.                                    *)
(***************************************************************************)
EXTENDS CompletionProtocol, PendingMessageQueue

CONSTANTS Responses,     \* what the provider may answer
          Batches,       \* what a batch of tool calls may come to
          StartModes,    \* completion modes a run may start in
          NextModes,     \* completion modes prepareNextTurn may ask for
          Appends,       \* numbers of messages prepareNextTurn may append
          StopAnswers,   \* what shouldStopAfterTurn may answer
          AcceptAnswers, \* what allowImplicitCompletion may answer
          SteeringModes, \* queue modes the host may set
          FollowUpModes,
          GroupSizes,    \* sizes of the groups passed to steer and followUp
          MaxQueued,     \* bound: messages passed to steer and followUp
          MaxRequests,   \* bound: model requests; the last one fails
          MaxRuns,       \* bound: runs started
          MaxDisturbed,  \* bound: failures of listeners and host hooks, and calls
                         \* of reset and the clear methods, together
          MaxResets      \* bound: the latter alone

ASSUME LoopAssumption ==
  /\ Responses \subseteq Response
  /\ \E r \in Responses : r.stop = "error"
  /\ Batches \subseteq Batch
  /\ \A r \in Responses : BatchesOf(r.calls) \cap Batches # {}
  /\ StartModes \subseteq Modes /\ NextModes \subseteq Modes
  /\ Appends \in SUBSET Nat \ {{}}
  /\ StopAnswers \in SUBSET BOOLEAN \ {{}}
  /\ AcceptAnswers \in SUBSET BOOLEAN \ {{}}
  /\ SteeringModes \subseteq QueueModes /\ FollowUpModes \subseteq QueueModes
  /\ GroupSizes \subseteq Nat
  /\ MaxQueued \in Nat /\ MaxRequests \in Nat /\ MaxRuns \in Nat
  /\ MaxDisturbed \in Nat /\ MaxResets \in Nat

VARIABLES
  \* Agent
  activeRun, isStreaming, aborted,
  messages,                     \* _state.messages
  steeringQueue, followUpQueue, steeringMode, followUpMode,
  \* runLoop
  pc, out, completionMode,
  configMode,                   \* config.completionMode
  st,                           \* the counters of CompletionProtocolState
  allowImplicit,                \* its allowImplicitCompletion flag
  firstTurn, skipPoll,
  pending,                      \* pendingMessages
  more,                         \* hasMoreToolCalls
  turn,                         \* the locals of one pass of the inner loop
  newMessages,
  \* what happened, for the properties
  queued,                       \* the messages passed to steer and followUp
  delivered,                    \* queued messages recorded in the transcript
  cleared,                      \* queued messages dropped by clear or reset
  openTurns, agentEnds,         \* turn_start minus turn_end; agent_end
  base,                         \* Len(messages) when the run started
  requests, lateRequests,       \* model requests; those begun after abort
  runs, throws, resets

agentVars == <<activeRun, isStreaming, aborted>>
queueVars == <<steeringQueue, followUpQueue, steeringMode, followUpMode>>
protocolVars == <<completionMode, configMode, st, allowImplicit>>
loopVars == <<firstTurn, skipPoll, pending, more, turn>>
eventVars == <<messages, newMessages, delivered, openTurns, agentEnds>>
inputVars == <<queued, cleared, resets>>
countVars == <<requests, lateRequests>>
runVars == <<runs, base>>
vars == <<agentVars, queueVars, pc, out, protocolVars, loopVars, eventVars,
          inputVars, countVars, runVars, throws>>

-----------------------------------------------------------------------------
(* Messages are numbers: 1..MaxQueued for the queued ones, in the order they
   were passed to the agent, and negative for the others. *)
Assistant == -1
ToolResult == -2
Internal == -3     \* repair, continuation, warning, message of prepareNextTurn
Terminal == -4     \* assistant message of emitAbortedTurn, emitProtocolFailure
Failure == -5      \* assistant message of handleRunFailure
Prompt == -6

IsAssistant(m) == m \in {Assistant, Terminal, Failure}

(* Events to emit.  A message stands for message_start and message_end;
   `push`: the loop pushes it to newMessages after the emit. *)
Event(type) == [type |-> type, msg |-> 0, push |-> FALSE]
TurnStart == Event("turn_start")
TurnEnd == Event("turn_end")
AgentStart == Event("agent_start")
RequestStart == Event("request_start")
AgentEnd == Event("agent_end")
Protocol == Event("completion_protocol")
(* mutant: a message is emitted but not added to the messages of the run *)
BugNoPush(m) == [type |-> "message", msg |-> m, push |-> FALSE]

Message(m) == [type |-> "message", msg |-> m, push |-> TRUE]
Announce(m) == [type |-> "message", msg |-> m, push |-> FALSE]

Announcements(ms) == [i \in 1..Len(ms) |-> Announce(ms[i])]
MessageEvents(ms) == [i \in 1..Len(ms) |-> Message(ms[i])]
When(cond, events) == IF cond THEN events ELSE <<>>

NoResponse == [stop |-> "stop", calls |-> "none", text |-> "answer",
               repetitive |-> FALSE]
NoBatch == [terminate |-> FALSE, madeProgress |-> FALSE, waiting |-> FALSE,
            completion |-> FALSE, finishOk |-> FALSE]
NoTurn == [resp |-> NoResponse, batch |-> NoBatch, repair |-> "none",
           implicit |-> FALSE, continues |-> FALSE]

Init ==
  /\ activeRun = FALSE /\ isStreaming = FALSE /\ aborted = FALSE
  /\ messages = <<>>
  /\ steeringQueue = <<>> /\ followUpQueue = <<>>
  /\ steeringMode \in SteeringModes /\ followUpMode \in FollowUpModes
  /\ pc = "idle" /\ out = <<>>
  /\ configMode \in StartModes /\ completionMode = configMode
  /\ st = createCompletionProtocolState /\ allowImplicit = FALSE
  /\ firstTurn = TRUE /\ skipPoll = FALSE
  /\ pending = <<>> /\ more = TRUE /\ turn = NoTurn
  /\ newMessages = <<>>
  /\ queued = <<>> /\ delivered = <<>> /\ cleared = {}
  /\ openTurns = 0 /\ agentEnds = 0
  /\ base = 0 /\ requests = 0 /\ lateRequests = 0
  /\ runs = 0 /\ throws = 0 /\ resets = 0

-----------------------------------------------------------------------------
(* Calls from outside, possible at every await. *)

(* Agent.steer and Agent.followUp with a group of k messages. *)
NewGroup(k) == [i \in 1..k |-> Len(queued) + i]

Enqueue(k, kind) ==
  /\ Len(queued) + k <= MaxQueued
  /\ queued' = queued \o [i \in 1..k |-> [kind |-> kind, group |-> Len(queued)]]

Steer(k) ==
  /\ Enqueue(k, "steer")
  /\ steeringQueue' = enqueueGroup(steeringQueue, NewGroup(k))
  /\ UNCHANGED <<agentVars, followUpQueue, steeringMode, followUpMode, pc, out,
                 protocolVars, loopVars, eventVars, cleared, resets, countVars,
                 runVars, throws>>

FollowUp(k) ==
  /\ Enqueue(k, "followUp")
  /\ followUpQueue' = enqueueGroup(followUpQueue, NewGroup(k))
  /\ UNCHANGED <<agentVars, steeringQueue, steeringMode, followUpMode, pc, out,
                 protocolVars, loopVars, eventVars, cleared, resets, countVars,
                 runVars, throws>>

SetQueueModes ==
  /\ steeringMode' \in SteeringModes /\ followUpMode' \in FollowUpModes
  /\ UNCHANGED <<agentVars, steeringQueue, followUpQueue, pc, out,
                 protocolVars, loopVars, eventVars, inputVars, countVars,
                 runVars, throws>>

Abort ==
  /\ activeRun /\ ~aborted
  /\ aborted' = TRUE
  /\ UNCHANGED <<activeRun, isStreaming, queueVars, pc, out, protocolVars,
                 loopVars, eventVars, inputVars, countVars, runVars, throws>>

Ids(groups) == Range(Flat(groups))

ClearSteeringQueue ==
  /\ throws + resets < MaxDisturbed /\ resets < MaxResets /\ resets' = resets + 1
  /\ steeringQueue' = <<>>
  /\ cleared' = cleared \cup Ids(steeringQueue)
  /\ UNCHANGED <<agentVars, followUpQueue, steeringMode, followUpMode, pc, out,
                 protocolVars, loopVars, eventVars, queued, countVars, runVars,
                 throws>>

ClearFollowUpQueue ==
  /\ throws + resets < MaxDisturbed /\ resets < MaxResets /\ resets' = resets + 1
  /\ followUpQueue' = <<>>
  /\ cleared' = cleared \cup Ids(followUpQueue)
  /\ UNCHANGED <<agentVars, steeringQueue, steeringMode, followUpMode, pc, out,
                 protocolVars, loopVars, eventVars, queued, countVars, runVars,
                 throws>>

ClearAllQueues ==
  /\ throws + resets < MaxDisturbed /\ resets < MaxResets /\ resets' = resets + 1
  /\ steeringQueue' = <<>> /\ followUpQueue' = <<>>
  /\ cleared' = cleared \cup Ids(steeringQueue) \cup Ids(followUpQueue)
  /\ UNCHANGED <<agentVars, steeringMode, followUpMode, pc, out, protocolVars,
                 loopVars, eventVars, queued, countVars, runVars, throws>>

(* Agent.reset does not look at activeRun. *)
Reset ==
  /\ throws + resets < MaxDisturbed /\ resets < MaxResets /\ resets' = resets + 1
  /\ messages' = <<>> /\ isStreaming' = FALSE
  /\ steeringQueue' = <<>> /\ followUpQueue' = <<>>
  /\ cleared' = cleared \cup Ids(steeringQueue) \cup Ids(followUpQueue)
  /\ UNCHANGED <<activeRun, aborted, steeringMode, followUpMode, pc, out,
                 protocolVars, loopVars, newMessages, delivered, openTurns,
                 agentEnds, queued, countVars, runVars, throws>>

-----------------------------------------------------------------------------
(* runWithLifecycle, runAgentLoop and runAgentLoopContinue. *)

StartRun(prompts, skipInitialSteeringPoll) ==
  /\ ~activeRun /\ runs < MaxRuns
  /\ runs' = runs + 1
  /\ activeRun' = TRUE /\ isStreaming' = TRUE /\ aborted' = FALSE
  /\ configMode' \in StartModes /\ completionMode' = configMode'
  /\ skipPoll' = skipInitialSteeringPoll
  /\ newMessages' = prompts /\ base' = Len(messages)
  /\ out' = <<AgentStart, TurnStart>> \o Announcements(prompts)
  /\ pc' = "poll"
  /\ openTurns' = 0 /\ agentEnds' = 0 /\ requests' = 0 /\ lateRequests' = 0
  /\ UNCHANGED <<st, allowImplicit, firstTurn, pending, more, turn, messages,
                 delivered, inputVars, throws>>

AgentPrompt == StartRun(<<Prompt>>, FALSE) /\ UNCHANGED queueVars

Last(s) == s[Len(s)]

EndsWithAssistant == IsAssistant(Last(messages))

(* Agent.continue after an assistant message: the queued steering messages
   become the prompts, else the follow-ups do. *)
ContinueSteering ==
  /\ messages # <<>> /\ EndsWithAssistant
  /\ steeringQueue # <<>>
  /\ StartRun(Drained(steeringMode, steeringQueue), TRUE)
  /\ steeringQueue' = Remaining(steeringMode, steeringQueue)
  /\ UNCHANGED <<followUpQueue, steeringMode, followUpMode>>

ContinueFollowUp ==
  /\ messages # <<>> /\ EndsWithAssistant
  /\ steeringQueue = <<>> /\ followUpQueue # <<>>
  /\ StartRun(Drained(followUpMode, followUpQueue), FALSE)
  /\ followUpQueue' = Remaining(followUpMode, followUpQueue)
  /\ UNCHANGED <<steeringQueue, steeringMode, followUpMode>>

ContinueTranscript ==
  /\ messages # <<>> /\ ~EndsWithAssistant
  /\ StartRun(<<>>, FALSE)
  /\ UNCHANGED queueVars

(* finishRun; the locals of the finished run are gone with it. *)
FinishRun ==
  /\ activeRun' = FALSE /\ isStreaming' = FALSE /\ aborted' = FALSE
  /\ pc' = "idle" /\ out' = <<>>
  /\ st' = createCompletionProtocolState /\ allowImplicit' = FALSE
  /\ firstTurn' = TRUE /\ skipPoll' = FALSE
  /\ pending' = <<>> /\ more' = TRUE /\ turn' = NoTurn
  /\ UNCHANGED <<queueVars, completionMode, configMode, inputVars, countVars,
                 runVars>>

(* handleRunFailure. *)
HandleRunFailure ==
  /\ pc' = "failing"
  /\ out' = <<Announce(Failure), TurnEnd, AgentEnd>>
  /\ pending' = <<>>
  /\ UNCHANGED <<agentVars, queueVars, protocolVars, firstTurn, skipPoll, more,
                 turn, inputVars, countVars, runVars>>

(* A failure rejects the executor, or, in handleRunFailure itself, reaches the
   finally clause of runWithLifecycle at once. *)
RunThrows ==
  /\ throws + resets < MaxDisturbed /\ throws' = throws + 1
  /\ IF pc = "failing" THEN FinishRun ELSE HandleRunFailure

(* mutant: finishRun is not in a finally clause *)
BugSettleOnSuccess ==
  /\ pc = "ended" /\ out = <<>>
  /\ newMessages' = <<>>
  /\ FinishRun
  /\ UNCHANGED <<messages, delivered, openTurns, agentEnds, throws>>

Settle ==
  /\ pc \in {"ended", "failing"} /\ out = <<>>
  /\ newMessages' = <<>>
  /\ FinishRun
  /\ UNCHANGED <<messages, delivered, openTurns, agentEnds, throws>>

-----------------------------------------------------------------------------
(* processEvents: the reducer, then the listeners. *)

Reduce(e) ==
  /\ messages' = IF e.type = "message" THEN Append(messages, e.msg) ELSE messages
  /\ delivered' = IF e.msg > 0 THEN Append(delivered, e.msg) ELSE delivered
  /\ openTurns' = CASE e.type = "turn_start" -> openTurns + 1
                     [] e.type = "turn_end" -> openTurns - 1
                     [] OTHER -> openTurns
  /\ agentEnds' = IF e.type = "agent_end" THEN agentEnds + 1 ELSE agentEnds

EmitNext ==
  /\ out # <<>>
  /\ LET e == Head(out) IN
       /\ Reduce(e)
       /\ newMessages' = IF e.push THEN Append(newMessages, e.msg)
                                    ELSE newMessages
  /\ out' = Tail(out)
  /\ UNCHANGED <<agentVars, queueVars, pc, protocolVars, loopVars, inputVars,
                 countVars, runVars, throws>>

(* A listener rejects an event: for a message, message_end ... *)
ListenerThrows ==
  /\ out # <<>>
  /\ Reduce(Head(out))
  /\ newMessages' = <<>>
  /\ RunThrows

(* ... or message_start, before the reducer records the message. *)
MessageStartThrows ==
  /\ out # <<>> /\ Head(out).type = "message"
  /\ newMessages' = <<>>
  /\ UNCHANGED <<messages, delivered, openTurns, agentEnds>>
  /\ RunThrows

(* The awaits of runLoop, other than emits, that a host function or the stream
   can reject. *)
HookPoints == {"limit", "request", "stream", "received", "prepare", "stop"}

HookThrows ==
  /\ pc \in HookPoints /\ out = <<>>
  /\ newMessages' = <<>>
  /\ UNCHANGED <<messages, delivered, openTurns, agentEnds>>
  /\ RunThrows

-----------------------------------------------------------------------------
(* runLoop.  At(p): the loop is at p and its emits have been delivered. *)

At(p) == pc = p /\ out = <<>>

Goto(p, events) == pc' = p /\ out' = events

SteeringPoll ==
  IF skipPoll
  THEN pending' = <<>> /\ UNCHANGED steeringQueue
  ELSE /\ pending' = Drained(steeringMode, steeringQueue)
       /\ steeringQueue' = Remaining(steeringMode, steeringQueue)

(* What no step of runLoop touches by itself. *)
outerVars == <<agentVars, followUpQueue, steeringMode, followUpMode, messages,
               delivered, openTurns, agentEnds, inputVars, runVars, throws>>

PollInitial ==
  /\ At("poll")
  /\ SteeringPoll /\ skipPoll' = FALSE
  /\ more' = TRUE
  /\ Goto("loop", When(Enabled(completionMode), <<Protocol>>))
  /\ UNCHANGED <<outerVars, protocolVars, firstTurn, turn, newMessages,
                 countVars>>

(* The top of the inner loop: turn_start, then the pending messages. *)
BeginTurn ==
  /\ At("loop")
  /\ Goto("mode", When(~firstTurn, <<TurnStart>>) \o MessageEvents(pending))
  /\ firstTurn' = FALSE /\ pending' = <<>>
  /\ UNCHANGED <<outerVars, steeringQueue, protocolVars, skipPoll, more, turn,
                 newMessages, countVars>>

ResolveMode ==
  /\ At("mode")
  /\ st' = resolveTurnCompletionMode(st, completionMode, configMode)
  /\ completionMode' = configMode
  /\ Goto("limit", When(configMode # completionMode /\ Enabled(configMode),
                        <<Protocol>>))
  /\ UNCHANGED <<outerVars, steeringQueue, configMode, allowImplicit, loopVars,
                 newMessages, countVars>>

(* mutant: turn_start is emitted even when the turn is already open *)
BugTurnStartedTwice(turnAlreadyStarted) ==
  Goto("ended", <<Protocol, TurnStart, Message(Terminal), TurnEnd, AgentEnd>>)

(* emitProtocolFailure. *)
ProtocolFailure(turnAlreadyStarted) ==
  Goto("ended", <<Protocol>> \o When(~turnAlreadyStarted, <<TurnStart>>)
                  \o <<Message(Terminal), TurnEnd, AgentEnd>>)

OutOfTurns == Enabled(completionMode) /\ st.turns >= MaxTurns

StopAtMaxTurns ==
  /\ At("limit") /\ OutOfTurns
  /\ ProtocolFailure(TRUE)
  /\ UNCHANGED <<outerVars, steeringQueue, protocolVars, loopVars, newMessages,
                 countVars>>

PrepareRequest ==
  /\ At("limit") /\ ~OutOfTurns
  /\ Goto("request", <<RequestStart>>)
  /\ UNCHANGED <<outerVars, steeringQueue, protocolVars, loopVars, newMessages,
                 countVars>>

(* The call of streamFn; it is made whatever the abort signal says. *)
Request ==
  /\ At("request")
  /\ requests' = requests + 1
  /\ lateRequests' = IF aborted THEN lateRequests + 1 ELSE lateRequests
  /\ Goto("stream", <<>>)
  /\ UNCHANGED <<outerVars, steeringQueue, protocolVars, loopVars, newMessages>>

(* The stream ends with response r.  It reports "aborted" only once the signal
   is set, but an abort may also come too late to stop it. *)
Respond(r) ==
  /\ At("stream")
  /\ r.stop = "aborted" => aborted
  /\ requests >= MaxRequests => r.stop = "error"
  /\ turn' = [NoTurn EXCEPT !.resp = r]
  /\ Goto("received", <<Announce(Assistant)>>)
  /\ UNCHANGED <<outerVars, steeringQueue, protocolVars, firstTurn, skipPoll,
                 pending, more, newMessages, countVars>>

Failed(r) == r.stop \in {"error", "aborted"}

CountedTurn(r) == IF r.stop = "length" THEN st ELSE [st EXCEPT !.turns = @ + 1]

ReceiveFailure ==
  /\ At("received") /\ Failed(turn.resp)
  /\ newMessages' = Append(newMessages, Assistant)
  /\ st' = CountedTurn(turn.resp)
  /\ Goto("ended", <<TurnEnd, AgentEnd>>)
  /\ UNCHANGED <<outerVars, steeringQueue, completionMode, configMode,
                 allowImplicit, loopVars, countVars>>

(* Tool calls run unless the response was cut short or needs a repair. *)
Executable(r, repair) == HasCalls(r) /\ r.stop # "length" /\ repair = "none"

Receive ==
  /\ At("received") /\ ~Failed(turn.resp)
  /\ newMessages' = Append(newMessages, Assistant)
  /\ st' = CountedTurn(turn.resp)
  /\ more' = FALSE
  /\ LET r == turn.resp
         repair == RepairBeforeExecution(completionMode, r)
     IN /\ \E accepts \in AcceptAnswers :
             turn' = [turn EXCEPT
                        !.repair = repair,
                        !.implicit = /\ MayAcceptImplicitly(completionMode, r, repair)
                                     /\ accepts]
        /\ IF Executable(r, repair) THEN Goto("execute", <<>>)
                                    ELSE Goto("length", <<TurnEnd>>)
  /\ UNCHANGED <<outerVars, steeringQueue, completionMode, configMode,
                 allowImplicit, firstTurn, skipPoll, pending, countVars>>

(* executeToolCalls; one message stands for the results. *)
ExecuteTools ==
  /\ At("execute")
  /\ \E b \in BatchesOf(turn.resp.calls) \cap Batches :
       turn' = [turn EXCEPT !.batch = b]
  /\ Goto("executed", <<Announce(ToolResult)>>)
  /\ UNCHANGED <<outerVars, steeringQueue, protocolVars, firstTurn, skipPoll,
                 pending, more, newMessages, countVars>>

RecordResults ==
  /\ At("executed")
  /\ more' = ~turn.batch.terminate
  /\ newMessages' = Append(newMessages, ToolResult)
  /\ Goto("length", <<TurnEnd>>)
  /\ UNCHANGED <<outerVars, steeringQueue, protocolVars, firstTurn, skipPoll,
                 pending, turn, countVars>>

(* prepareProviderLengthContinuation. *)
RepetitiveOutput ==
  /\ At("length") /\ turn.repair = "repetitive"
  /\ LET counted == recordSemanticProviderLengthRepair(st) IN
       /\ st' = counted
       /\ IF SemanticLimitReached(counted)
          THEN ProtocolFailure(FALSE) /\ UNCHANGED turn
          ELSE /\ Goto("terminate", <<Protocol, Message(Internal)>>)
               /\ turn' = [turn EXCEPT !.continues = TRUE]
  /\ UNCHANGED <<outerVars, steeringQueue, completionMode, configMode,
                 allowImplicit, firstTurn, skipPoll, pending, more, newMessages,
                 countVars>>

ContinueAfterLength ==
  /\ At("length") /\ turn.repair # "repetitive" /\ turn.resp.stop = "length"
  /\ turn' = [turn EXCEPT !.continues = TRUE]
  /\ Goto("terminate", <<Message(Internal)>>)
  /\ UNCHANGED <<outerVars, steeringQueue, protocolVars, firstTurn, skipPoll,
                 pending, more, newMessages, countVars>>

NoLengthContinuation ==
  /\ At("length") /\ turn.resp.stop # "length"
  /\ Goto("terminate", <<>>)
  /\ UNCHANGED <<outerVars, steeringQueue, protocolVars, loopVars, newMessages,
                 countVars>>

(* A batch of terminating tools ends the run, finish_work apart. *)
BatchEndsRun == turn.batch.terminate /\ ~turn.batch.finishOk

TerminateRun ==
  /\ At("terminate") /\ BatchEndsRun
  /\ Goto("ended", When(turn.batch.completion /\ Enabled(completionMode),
                        <<Protocol>>) \o <<AgentEnd>>)
  /\ UNCHANGED <<outerVars, steeringQueue, protocolVars, loopVars, newMessages,
                 countVars>>

(* mutant: the decision to continue after an output limit is forgotten *)
BugForgetContinuation ==
  /\ At("terminate") /\ ~BatchEndsRun
  /\ LET counted == CountWaitingTurn(st, turn.batch.madeProgress,
                                     turn.batch.waiting)
         warns == WarnsWaiting(counted)
     IN /\ st' = IF warns THEN [counted EXCEPT !.waiting = 0] ELSE counted
        /\ more' = (more \/ warns)
        /\ Goto("protocol", When(warns, <<Protocol, Message(Internal)>>))
  /\ UNCHANGED <<outerVars, steeringQueue, completionMode, configMode,
                 allowImplicit, firstTurn, skipPoll, pending, turn, newMessages,
                 countVars>>

(* Otherwise recordWaitingTurn. *)
RecordWaitingTurn ==
  /\ At("terminate") /\ ~BatchEndsRun
  /\ LET counted == CountWaitingTurn(st, turn.batch.madeProgress,
                                     turn.batch.waiting)
         warns == WarnsWaiting(counted)
     IN /\ st' = IF warns THEN [counted EXCEPT !.waiting = 0] ELSE counted
        /\ more' = (more \/ turn.continues \/ warns)
        /\ Goto("protocol", When(warns, <<Protocol, Message(Internal)>>))
  /\ UNCHANGED <<outerVars, steeringQueue, completionMode, configMode,
                 allowImplicit, firstTurn, skipPoll, pending, turn, newMessages,
                 countVars>>

(* mutant: only hybrid runs are judged *)
BugJudgeHybrid ==
  ~turn.continues /\ completionMode = "hybrid" /\ ~allowImplicit /\ ~turn.implicit

(* The completion protocol judges the turn unless it is continued, the fallback
   to implicit completion is on, or the host accepted the answer. *)
Judged ==
  ~turn.continues /\ Enabled(completionMode) /\ ~allowImplicit /\ ~turn.implicit

NotJudged ==
  /\ At("protocol") /\ ~Judged
  /\ Goto("prepare", <<>>)
  /\ UNCHANGED <<outerVars, steeringQueue, protocolVars, loopVars, newMessages,
                 countVars>>

FinishWork ==
  /\ At("protocol") /\ Judged /\ turn.batch.finishOk
  /\ Goto("ended", <<Protocol, AgentEnd>>)
  /\ UNCHANGED <<outerVars, steeringQueue, protocolVars, loopVars, newMessages,
                 countVars>>

ProtocolRepair ==
  IF turn.repair # "none" THEN turn.repair
  ELSE detectCompletionProtocolRepair(turn.resp, more)

JudgeTurn ==
  /\ At("protocol") /\ Judged /\ ~turn.batch.finishOk
  /\ LET repair == ProtocolRepair
         counted == CountTurn(st, turn.resp, repair, turn.batch.madeProgress,
                              turn.batch.waiting)
         fallback == FallsBackToImplicit(counted, completionMode, repair)
     IN /\ st' = counted
        /\ \/ /\ protocolLimitDiagnostic(counted, completionMode)
              /\ ProtocolFailure(FALSE)
              /\ UNCHANGED <<allowImplicit, more>>
           \/ /\ ~protocolLimitDiagnostic(counted, completionMode)
              /\ repair = "none" \/ fallback
              /\ Goto("prepare", <<>>)
              /\ allowImplicit' = fallback
              /\ UNCHANGED more
           \/ /\ ~protocolLimitDiagnostic(counted, completionMode)
              /\ repair # "none" /\ ~fallback
              /\ Goto("prepare", <<Protocol, Message(Internal)>>)
              /\ more' = TRUE
              /\ UNCHANGED allowImplicit
  /\ UNCHANGED <<outerVars, steeringQueue, completionMode, configMode, firstTurn,
                 skipPoll, pending, turn, newMessages, countVars>>

(* prepareAgentNextTurn. *)
PrepareNextTurn ==
  /\ At("prepare")
  /\ configMode' \in NextModes \cup {configMode}
  /\ \E k \in Appends : Goto("stop", [i \in 1..k |-> Message(Internal)])
  /\ UNCHANGED <<outerVars, steeringQueue, completionMode, st, allowImplicit,
                 loopVars, newMessages, countVars>>

(* emitAbortedTurn. *)
StopAborted ==
  /\ At("stop") /\ aborted
  /\ newMessages' = Append(newMessages, Terminal)
  /\ Goto("ended", <<TurnStart, Announce(Terminal), TurnEnd, AgentEnd>>)
  /\ UNCHANGED <<outerVars, steeringQueue, protocolVars, loopVars, countVars>>

CanStopImplicitly ==
  /\ ~turn.continues
  /\ ~Enabled(completionMode) \/ allowImplicit \/ turn.implicit

ShouldStopAfterTurn ==
  /\ At("stop") /\ ~aborted
  /\ CanStopImplicitly /\ TRUE \in StopAnswers
  /\ Goto("ended", <<AgentEnd>>)
  /\ UNCHANGED <<outerVars, steeringQueue, protocolVars, loopVars, newMessages,
                 countVars>>

(* mutant: the abort signal is not looked at between two turns *)
BugContinueAborted ==
  /\ At("stop")
  /\ ~CanStopImplicitly \/ FALSE \in StopAnswers
  /\ Goto("pollSteering", <<>>)
  /\ UNCHANGED <<outerVars, steeringQueue, protocolVars, loopVars, newMessages,
                 countVars>>

DoNotStop ==
  /\ At("stop") /\ ~aborted
  /\ ~CanStopImplicitly \/ FALSE \in StopAnswers
  /\ Goto("pollSteering", <<>>)
  /\ UNCHANGED <<outerVars, steeringQueue, protocolVars, loopVars, newMessages,
                 countVars>>

(* getSteeringMessages, and the test of the inner loop. *)
PollSteering ==
  /\ At("pollSteering")
  /\ SteeringPoll /\ skipPoll' = FALSE
  /\ Goto(IF more \/ pending' # <<>> THEN "loop" ELSE "pollFollowUp", <<>>)
  /\ UNCHANGED <<outerVars, protocolVars, firstTurn, more, turn, newMessages,
                 countVars>>

(* getFollowUpMessages: the agent would stop here. *)
PollFollowUp ==
  /\ At("pollFollowUp")
  /\ pending' = Drained(followUpMode, followUpQueue)
  /\ followUpQueue' = Remaining(followUpMode, followUpQueue)
  /\ more' = TRUE
  /\ IF pending' # <<>> THEN Goto("loop", <<>>) ELSE Goto("ended", <<AgentEnd>>)
  /\ UNCHANGED <<agentVars, steeringQueue, steeringMode, followUpMode, messages,
                 delivered, openTurns, agentEnds, inputVars, runVars, throws,
                 protocolVars, firstTurn, skipPoll, turn, newMessages, countVars>>

-----------------------------------------------------------------------------
LoopStep ==
  \/ PollInitial \/ BeginTurn \/ ResolveMode \/ StopAtMaxTurns \/ PrepareRequest
  \/ Request \/ (\E r \in Responses : Respond(r)) \/ ReceiveFailure \/ Receive
  \/ ExecuteTools \/ RecordResults
  \/ RepetitiveOutput \/ ContinueAfterLength \/ NoLengthContinuation
  \/ TerminateRun \/ RecordWaitingTurn \/ NotJudged \/ FinishWork \/ JudgeTurn
  \/ PrepareNextTurn \/ StopAborted \/ ShouldStopAfterTurn \/ DoNotStop
  \/ PollSteering \/ PollFollowUp

(* The run takes its next step: a microtask, a listener or a provider answers. *)
RunStep == EmitNext \/ LoopStep \/ Settle

Fault == ListenerThrows \/ MessageStartThrows \/ HookThrows

Outside ==
  \/ AgentPrompt \/ ContinueSteering \/ ContinueFollowUp \/ ContinueTranscript
  \/ (\E k \in GroupSizes : Steer(k) \/ FollowUp(k))
  \/ SetQueueModes \/ Abort
  \/ ClearSteeringQueue \/ ClearFollowUpQueue \/ ClearAllQueues \/ Reset

Next == RunStep \/ Fault \/ Outside

Spec == Init /\ [][Next]_vars

(* The event loop resumes a run that is ready; the provider, the tools and the
   callbacks it awaits settle.  Nothing is assumed of the calls from outside. *)
FairSpec == Spec /\ WF_vars(RunStep)

-----------------------------------------------------------------------------
(* Properties. *)

Pcs == {"idle", "poll", "loop", "mode", "limit", "request", "stream", "received",
        "execute", "executed", "length", "terminate", "protocol", "prepare",
        "stop", "pollSteering", "pollFollowUp", "ended", "failing"}

EventTypes == {"agent_start", "agent_end", "turn_start", "turn_end",
               "request_start", "completion_protocol"}

Queued == 1..Len(queued)
MessageIds == Queued \cup {Assistant, ToolResult, Internal, Terminal, Failure, Prompt}

(* Only a message event carries a message, or is pushed. *)
EventType ==
  [type : {"message"}, msg : MessageIds, push : BOOLEAN]
    \cup [type : EventTypes, msg : {0}, push : {FALSE}]

TurnType == [resp : Response, batch : Batch, repair : Repairs,
             implicit : BOOLEAN, continues : BOOLEAN]

AgentTypeOK ==
  /\ activeRun \in BOOLEAN /\ isStreaming \in BOOLEAN /\ aborted \in BOOLEAN
  /\ messages \in Seq(MessageIds)
  /\ steeringQueue \in Seq(Seq(Queued)) /\ followUpQueue \in Seq(Seq(Queued))
  /\ steeringMode \in QueueModes /\ followUpMode \in QueueModes

LoopTypeOK ==
  /\ pc \in Pcs
  /\ out \in Seq(EventType)
  /\ completionMode \in Modes /\ configMode \in Modes
  /\ st \in Counters /\ allowImplicit \in BOOLEAN
  /\ firstTurn \in BOOLEAN /\ skipPoll \in BOOLEAN /\ more \in BOOLEAN
  /\ pending \in Seq(Queued)
  /\ turn \in TurnType
  /\ newMessages \in Seq(MessageIds)

HistoryTypeOK ==
  /\ queued \in Seq([kind : {"steer", "followUp"}, group : Nat])
  /\ delivered \in Seq(Queued) /\ cleared \subseteq Queued
  /\ openTurns \in Int /\ agentEnds \in Nat /\ base \in Nat
  /\ requests \in Nat /\ lateRequests \in Nat
  /\ runs \in 0..MaxRuns /\ throws \in 0..MaxDisturbed /\ resets \in 0..MaxDisturbed

(* The variables of Agent and runLoop keep their types. *)
TypeOK == AgentTypeOK /\ LoopTypeOK /\ HistoryTypeOK

(* As long as no listener or hook fails, turn_start and turn_end alternate and
   every run emits agent_end exactly once, whichever of its exits it takes. *)
TurnsPaired ==
  throws = 0 =>
    /\ openTurns \in {0, 1}
    /\ agentEnds = 1 => openTurns = 0
    /\ IF activeRun THEN agentEnds <= 1 ELSE agentEnds = (IF runs = 0 THEN 0 ELSE 1)

(* The messages agent_end reports are the ones the run added to the state of the
   agent, in the same order: runLoop keeps its own list, processEvents another. *)
ReportMatchesTranscript ==
  throws = 0 /\ resets = 0 /\ pc = "ended" /\ out = <<AgentEnd>> =>
    newMessages = SubSeq(messages, base + 1, Len(messages))

InFlight == Range(pending) \cup {m \in Queued : \E i \in DOMAIN out : out[i].msg = m}

(* No message passed to steer or followUp is delivered twice or is in two places
   at once, and none disappears unless a listener or hook failed: it waits in its
   queue, is on its way into the transcript, is recorded there, or was cleared. *)
QueuedExactlyOnce ==
  LET places == <<Ids(steeringQueue), Ids(followUpQueue), InFlight,
                  Range(delivered), cleared>>
  IN /\ \A i, j \in DOMAIN places : i # j => places[i] \cap places[j] = {}
     /\ IsInjective(delivered)
     /\ throws = 0 => UNION Range(places) = Queued

(* The messages of one queue enter the transcript in the order they were queued,
   across turns, runs, continuations and changes of the queue mode, and a group
   passed to steer or followUp in one call is never torn apart by the model's
   answer to its first messages. *)
DeliveredInOrder ==
  /\ \A i, j \in DOMAIN delivered :
       /\ i < j
       /\ queued[delivered[i]].kind = queued[delivered[j]].kind
       => delivered[i] < delivered[j]
  /\ \A i, k \in DOMAIN messages :
       /\ i < k /\ messages[i] > 0 /\ messages[k] > 0
       /\ queued[messages[i]].group = queued[messages[k]].group
       => \A j \in i..k : messages[j] > 0

(* After abort at most one more model request starts: the one the loop was
   already on its way to when the signal was set. *)
AbortStopsRequests == lateRequests <= 1

(* While a run goes on, none of the limits of the protocol is exceeded: the turn
   that exceeds one is the last. *)
LimitsHold ==
  pc \notin {"ended", "failing"} =>
    /\ st.noProgress <= MaxNoProgress
    /\ st.malformed <= MaxMalformed
    /\ st.empty <= MaxEmpty
    /\ Enabled(completionMode) => st.turns <= MaxTurns

(* A run in explicit_finish ends only with finish_work, a batch of terminating
   tools, a failed response, a protocol failure, an abort, or an answer the host
   accepted; or when it has fallen back to implicit completion while it was a
   hybrid run, which a later change of mode does not undo. *)
ExplicitNeedsFinish ==
  /\ pc = "ended" /\ out = <<AgentEnd>> /\ completionMode = "explicit_finish"
  => \/ turn.batch.finishOk \/ BatchEndsRun
     \/ Failed(turn.resp) \/ Last(newMessages) = Terminal
     \/ turn.implicit \/ allowImplicit

(* When a run that met no failure settles, and neither shouldStopAfterTurn nor
   prepareNextTurn interfered, the transcript ends with what the agent said or
   with tool results: no prompt, queued message, repair or continuation
   instruction is left without the request it was written for. *)
NothingLeftUnanswered ==
  /\ StopAnswers = {FALSE} /\ Appends = {0}
  /\ ~activeRun /\ throws = 0 /\ resets = 0 /\ messages # <<>>
  => IsAssistant(Last(messages)) \/ Last(messages) = ToolResult

(* Every run settles: waitForIdle resolves whatever the provider answers and
   whichever listener or hook fails. *)
RunSettles == activeRun ~> ~activeRun
=============================================================================
