--------------------------- MODULE AgentLoopProofs ---------------------------
(* Proofs about AgentLoop, for any responses, batches, limits and queues. *)
EXTENDS AgentLoop, WellFoundedInduction, TLAPS

(* A leaf that names no prover is Zenon's. *)
USE Zenon

(* What a step of runLoop does not touch: it happens between two emits of a run
   that goes on, and the state of the agent changes only in processEvents. *)
LEMMA LoopFrame ==
  ASSUME LoopStep
  PROVE  /\ out = <<>>
         /\ UNCHANGED <<agentVars, steeringMode, followUpMode, messages, delivered,
                        openTurns, agentEnds, inputVars, runVars, throws>>
<1>1. CASE \/ PollInitial \/ BeginTurn \/ ResolveMode \/ StopAtMaxTurns \/ PrepareRequest
           \/ Request \/ (\E r \in Responses : Respond(r)) \/ ReceiveFailure
  BY <1>1 DEF PollInitial, BeginTurn, ResolveMode, StopAtMaxTurns, PrepareRequest, Request,
      Respond, ReceiveFailure, At, outerVars
<1>2. CASE \/ Receive \/ ExecuteTools \/ RecordResults \/ RepetitiveOutput
           \/ ContinueAfterLength \/ NoLengthContinuation \/ TerminateRun
           \/ RecordWaitingTurn \/ NotJudged
  BY <1>2 DEF Receive, ExecuteTools, RecordResults, RepetitiveOutput, ContinueAfterLength,
      NoLengthContinuation, TerminateRun, RecordWaitingTurn, NotJudged, At, outerVars
<1>3. CASE \/ FinishWork \/ JudgeTurn \/ PrepareNextTurn \/ StopAborted
           \/ ShouldStopAfterTurn \/ DoNotStop \/ PollSteering \/ PollFollowUp
  BY <1>3 DEF FinishWork, JudgeTurn, PrepareNextTurn, StopAborted, ShouldStopAfterTurn,
      DoNotStop, PollSteering, PollFollowUp, At, outerVars
<1> QED
  BY <1>1, <1>2, <1>3 DEF LoopStep

(* The places of a turn, before and from its request. *)
BeforeRequest == {"poll", "loop", "mode", "limit", "pollSteering", "pollFollowUp"}
AfterRequest == {"stream", "received", "execute", "executed", "length",
                 "terminate", "protocol", "prepare", "stop"}

(* A turn goes on from its request to the test of the abort signal. *)
LEMMA LoopOrder ==
  ASSUME LoopStep
  PROVE  \/ Request
         \/ /\ UNCHANGED countVars
            /\ \/ pc \in BeforeRequest
               \/ pc = "stop" /\ ~aborted
               \/ pc \in AfterRequest /\ pc' \in AfterRequest \cup {"ended"}
<1>1. CASE \/ PollInitial \/ BeginTurn \/ ResolveMode \/ StopAtMaxTurns \/ PrepareRequest
           \/ PollSteering \/ PollFollowUp \/ ShouldStopAfterTurn \/ DoNotStop
  <2>1. /\ UNCHANGED countVars
        /\ \/ pc = "poll" \/ pc = "loop" \/ pc = "mode" \/ pc = "limit"
           \/ pc = "pollSteering" \/ pc = "pollFollowUp" \/ (pc = "stop" /\ ~aborted)
    BY <1>1
    DEF PollInitial, BeginTurn, ResolveMode, StopAtMaxTurns, PrepareRequest, PollSteering,
        PollFollowUp, ShouldStopAfterTurn, DoNotStop, At
  <2> QED
    BY <2>1 DEF BeforeRequest
<1>2. CASE \/ (\E r \in Responses : Respond(r)) \/ ReceiveFailure \/ Receive \/ ExecuteTools
           \/ RecordResults \/ RepetitiveOutput \/ ContinueAfterLength
           \/ NoLengthContinuation
  <2>1. /\ UNCHANGED countVars
        /\ pc = "stream" \/ pc = "received" \/ pc = "execute" \/ pc = "executed" \/ pc = "length"
        /\ \/ pc' = "received" \/ pc' = "ended" \/ pc' = "execute" \/ pc' = "executed"
           \/ pc' = "length" \/ pc' = "terminate"
    BY <1>2
    DEF Respond, ReceiveFailure, Receive, ExecuteTools, RecordResults, RepetitiveOutput,
        ContinueAfterLength, NoLengthContinuation, At, Goto, ProtocolFailure
  <2> QED
    BY <2>1 DEF AfterRequest
<1>3. CASE \/ TerminateRun \/ RecordWaitingTurn \/ NotJudged \/ FinishWork \/ JudgeTurn
           \/ PrepareNextTurn \/ StopAborted
  <2>1. /\ UNCHANGED countVars
        /\ pc = "terminate" \/ pc = "protocol" \/ pc = "prepare" \/ pc = "stop"
        /\ pc' = "ended" \/ pc' = "protocol" \/ pc' = "prepare" \/ pc' = "stop"
    BY <1>3 DEF TerminateRun, RecordWaitingTurn, NotJudged, FinishWork, JudgeTurn,
        PrepareNextTurn, StopAborted, At, Goto, ProtocolFailure
  <2> QED
    BY <2>1 DEF AfterRequest
<1> QED
  BY <1>1, <1>2, <1>3 DEF LoopStep

(* Abort.  After a request that started late the run is on its way to the test
   of the abort signal, which it cannot pass, or it is over. *)
LateInv == \/ lateRequests = 0
           \/ /\ lateRequests = 1
              /\ \/ aborted /\ pc \in AfterRequest
                 \/ pc \in {"ended", "failing", "idle"}

(* No step starts a second late request: the abort test is in the way. *)
LEMMA LateInvStep ==
  ASSUME LateInv, [Next]_vars
  PROVE  LateInv'
<1>1. CASE LoopStep
  <2>1. aborted' = aborted
    BY <1>1, LoopFrame DEF agentVars
  <2>2. CASE Request
    <3>1. /\ pc = "request" /\ pc' = "stream"
          /\ lateRequests' = IF aborted THEN lateRequests + 1 ELSE lateRequests
      BY <2>2 DEF Request, At, Goto
    <3> QED
      BY <2>1, <3>1, SMTT(30) DEF LateInv, AfterRequest
  <2>3. ASSUME UNCHANGED countVars,
               \/ pc \in BeforeRequest
               \/ pc = "stop" /\ ~aborted
               \/ pc \in AfterRequest /\ pc' \in AfterRequest \cup {"ended"}
        PROVE  LateInv'
    <3>1. lateRequests' = lateRequests
      BY <2>3 DEF countVars
    <3> QED
      BY <2>1, <2>3, <3>1, SMTT(30) DEF LateInv, BeforeRequest, AfterRequest
  <2> QED
    BY <1>1, <2>2, <2>3, LoopOrder
<1>2. CASE EmitNext \/ UNCHANGED vars
  BY <1>2 DEF LateInv, EmitNext, vars, agentVars, countVars
<1>3. CASE Settle \/ Fault
  <2>1. lateRequests' = lateRequests /\ (pc' = "idle" \/ pc' = "failing")
    BY <1>3 DEF Settle, Fault, ListenerThrows, MessageStartThrows, HookThrows, RunThrows,
        FinishRun, HandleRunFailure, countVars
  <2> QED
    BY <2>1 DEF LateInv
<1>4. CASE AgentPrompt \/ ContinueSteering \/ ContinueFollowUp \/ ContinueTranscript
  BY <1>4
  DEF LateInv, AgentPrompt, ContinueSteering, ContinueFollowUp, ContinueTranscript, StartRun
<1>5. ASSUME NEW k \in GroupSizes, Steer(k) \/ FollowUp(k) PROVE LateInv'
  BY <1>5 DEF LateInv, Steer, FollowUp, agentVars, countVars
<1>6. CASE Abort
  BY <1>6 DEF LateInv, Abort, countVars
<1>7. CASE \/ SetQueueModes \/ ClearSteeringQueue \/ ClearFollowUpQueue
           \/ ClearAllQueues \/ Reset
  BY <1>7
  DEF LateInv, SetQueueModes, ClearSteeringQueue, ClearFollowUpQueue, ClearAllQueues,
      Reset, agentVars, countVars
<1> QED
  BY <1>1, <1>2, <1>3, <1>4, <1>5, <1>6, <1>7 DEF Next, RunStep, Outside

(* At most one model request starts after abort, in every run of every agent. *)
THEOREM AbortBounded == Spec => []AbortStopsRequests
<1>1. Init => LateInv
  BY DEF Init, LateInv
<1>2. LateInv /\ [Next]_vars => LateInv'
  BY LateInvStep
<1>3. LateInv => AbortStopsRequests
  BY SMTT(30) DEF LateInv, AbortStopsRequests
<1> QED
  BY <1>1, <1>2, <1>3, PTL DEF Spec

-----------------------------------------------------------------------------
(* Outside a run the agent has nothing to do. *)
ActiveInv == ~activeRun => pc = "idle" /\ out = <<>>

(* A run that is over stays over until the next one starts. *)
LEMMA ActiveInvStep ==
  ASSUME ActiveInv, [Next]_vars
  PROVE  ActiveInv'
<1>1. CASE LoopStep
  <2>1. pc # "idle"
    <3>1. pc \in BeforeRequest \/ pc \in AfterRequest \/ pc = "stop" \/ pc = "request"
      BY <1>1, LoopOrder DEF Request, At
    <3> QED
      BY <3>1, SMTT(30) DEF BeforeRequest, AfterRequest
  <2>2. activeRun' = activeRun
    BY <1>1, LoopFrame DEF agentVars
  <2> QED
    BY <2>1, <2>2 DEF ActiveInv
<1>2. CASE EmitNext
  BY <1>2 DEF ActiveInv, EmitNext, agentVars
<1>3. CASE Settle
  BY <1>3 DEF ActiveInv, Settle, FinishRun
<1>4. CASE Fault
  <2>1. out # <<>> \/ pc \in HookPoints
    BY <1>4 DEF Fault, ListenerThrows, MessageStartThrows, HookThrows
  <2>2. activeRun
    BY <2>1, SMTT(30) DEF ActiveInv, HookPoints
  <2>3. FinishRun \/ HandleRunFailure
    BY <1>4 DEF Fault, ListenerThrows, MessageStartThrows, HookThrows, RunThrows
  <2> QED
    BY <2>2, <2>3 DEF ActiveInv, FinishRun, HandleRunFailure, agentVars
<1>5. CASE AgentPrompt \/ ContinueSteering \/ ContinueFollowUp \/ ContinueTranscript
  BY <1>5
  DEF ActiveInv, AgentPrompt, ContinueSteering, ContinueFollowUp, ContinueTranscript, StartRun
<1>6. ASSUME NEW k \in GroupSizes, Steer(k) \/ FollowUp(k) PROVE ActiveInv'
  BY <1>6 DEF ActiveInv, Steer, FollowUp, agentVars
<1>7. CASE \/ SetQueueModes \/ Abort \/ ClearSteeringQueue \/ ClearFollowUpQueue
           \/ ClearAllQueues \/ Reset \/ UNCHANGED vars
  BY <1>7 DEF ActiveInv, SetQueueModes, Abort, ClearSteeringQueue, ClearFollowUpQueue,
      ClearAllQueues, Reset, vars, agentVars
<1> QED
  BY <1>1, <1>2, <1>3, <1>4, <1>5, <1>6, <1>7 DEF Next, RunStep, Outside

(* The limits.  Between the test of the turn limit and the count of the turn
   there is room for one more. *)
LimitsInv ==
  /\ st \in Counters
  /\ LimitsHold
  /\ pc \in {"request", "stream", "received"} /\ Enabled(completionMode) =>
       st.turns < MaxTurns
  /\ pc = "idle" => st = createCompletionProtocolState

(* A new run starts within its limits. *)
LEMMA FreshCounters ==
  /\ createCompletionProtocolState \in Counters
  /\ createCompletionProtocolState.turns <= MaxTurns
  /\ createCompletionProtocolState.noProgress <= MaxNoProgress
  /\ createCompletionProtocolState.malformed <= MaxMalformed
  /\ createCompletionProtocolState.empty <= MaxEmpty
BY LimitsAssumption, SMTT(30) DEF createCompletionProtocolState, Counters

(* What the updates of the counters do to the ones that are limited. *)
LEMMA RestartedCounters ==
  ASSUME NEW s \in Counters, NEW a, NEW b
  PROVE  LET r == resolveTurnCompletionMode(s, a, b) IN
           /\ r \in Counters
           /\ r = s \/ (/\ r.turns = 0 /\ r.noProgress = 0
                        /\ r.malformed = 0 /\ r.empty = 0)
           /\ Enabled(b) /\ ~Enabled(a) => r.turns = 0
           /\ ~(Enabled(b) /\ ~Enabled(a)) => r = s
BY DEF resolveTurnCompletionMode, resetCompletionProgress, Counters

(* Counting a turn moves no limited counter but the turns. *)
LEMMA CountedTurnCounters ==
  ASSUME st \in Counters, NEW r
  PROVE  LET t == CountedTurn(r) IN
           /\ t \in Counters
           /\ t.turns \in {st.turns, st.turns + 1}
           /\ t.noProgress = st.noProgress
           /\ t.malformed = st.malformed /\ t.empty = st.empty
BY SMTT(30) DEF CountedTurn, Counters

(* Recording a repetitive response leaves turns and empty answers alone. *)
LEMMA SemanticCounters ==
  ASSUME NEW s \in Counters
  PROVE  LET t == recordSemanticProviderLengthRepair(s) IN
           /\ t \in Counters
           /\ t.turns = s.turns /\ t.empty = s.empty
<1> DEFINE t == recordSemanticProviderLengthRepair(s)
<1> DEFINE n == s.noProgress + 1
           m == s.malformed + 1
<1>0. t = [s EXCEPT !.noProgress = n, !.malformed = m]
  BY DEF recordSemanticProviderLengthRepair
<1> HIDE DEF n, m, t
<1>1. t = [turns |-> s.turns, noProgress |-> n, waiting |-> s.waiting,
           malformed |-> m, empty |-> s.empty, missing |-> s.missing]
  BY <1>0 DEF Counters
<1>2. /\ s.turns \in Nat /\ n \in Nat /\ s.waiting \in Nat
      /\ m \in Nat /\ s.empty \in Nat /\ s.missing \in Nat
  BY SMTT(30) DEF Counters, n, m
<1>3. t \in Counters /\ t.turns = s.turns /\ t.empty = s.empty
  BY <1>1, <1>2 DEF Counters
<1>4. QED
  BY <1>3 DEF t

(* Judging a turn keeps the counters natural numbers and the turns as they are. *)
LEMMA JudgedCounters ==
  ASSUME NEW s \in Counters, NEW r, NEW repair, NEW p, NEW w
  PROVE  LET t == CountTurn(s, r, repair, p, w) IN
           t \in Counters /\ t.turns = s.turns
<1> DEFINE t == CountTurn(s, r, repair, p, w)
<1>1. CASE repair # "none"
  <2> DEFINE a == Incr(IsMalformedRetry(repair))
             b == Incr(repair = "missing")
             c == Incr(isEmptyAssistantMessage(r))
  <2>1. a \in Nat /\ b \in Nat /\ c \in Nat
    BY DEF Incr
  <2> HIDE DEF a, b, c
  <2>2. t = [turns |-> s.turns, noProgress |-> s.noProgress + 1,
             waiting |-> s.waiting, malformed |-> s.malformed + a,
             empty |-> s.empty + c, missing |-> s.missing + b]
    BY <1>1 DEF CountTurn, Counters, a, b, c
  <2>3. /\ s.turns \in Nat /\ s.noProgress + 1 \in Nat /\ s.waiting \in Nat
        /\ s.malformed + a \in Nat /\ s.empty + c \in Nat /\ s.missing + b \in Nat
    BY <2>1, SMTT(30) DEF Counters
  <2> HIDE DEF t
  <2>4. t \in Counters /\ t.turns = s.turns
    BY <2>2, <2>3 DEF Counters
  <2>5. QED
    BY <2>4 DEF t
<1>2. CASE repair = "none" /\ p
  BY <1>2 DEF CountTurn, Counters, resetCompletionProgress
<1>3. CASE repair = "none" /\ ~p
  <2>1. Incr(~w /\ HasCalls(r)) \in Nat
    BY DEF Incr
  <2>2. QED
    BY <1>3, <2>1, SMTT(30) DEF CountTurn, Counters
<1>4. QED
  BY <1>1, <1>2, <1>3

(* A step that exceeds a limit ends the run. *)
LEMMA LimitsInvStep ==
  ASSUME ActiveInv, LimitsInv, [Next]_vars
  PROVE  LimitsInv'
<1>1. ASSUME UNCHANGED <<st, completionMode>>, pc \notin {"idle", "ended", "failing"},
             pc' # "idle",
             pc' \in {"request", "stream", "received"} =>
               \/ pc \in {"request", "stream", "received"}
               \/ ~Enabled(completionMode) \/ st.turns < MaxTurns
      PROVE  LimitsInv'
  BY <1>1 DEF LimitsInv, LimitsHold
<1>2. CASE ResolveMode
  <2>1. /\ pc = "mode" /\ pc' = "limit" /\ completionMode' = configMode
        /\ st' = resolveTurnCompletionMode(st, completionMode, configMode)
    BY <1>2 DEF ResolveMode, At, Goto
  <2> QED
    BY <2>1, RestartedCounters, LimitsAssumption, SMTT(30) DEF LimitsInv, LimitsHold, Counters
<1>3. CASE PrepareRequest
  <2>1. /\ UNCHANGED <<st, completionMode>> /\ pc = "limit" /\ pc' = "request"
        /\ ~Enabled(completionMode) \/ ~(st.turns >= MaxTurns)
    BY <1>3 DEF PrepareRequest, At, Goto, OutOfTurns, protocolVars
  <2>2. ~(st.turns >= MaxTurns) => st.turns < MaxTurns
    BY LimitsAssumption, SMTT(30) DEF LimitsInv, Counters
  <2> QED
    BY <1>1, <2>1, <2>2, SMTT(30)
<1>4. CASE ReceiveFailure
  <2>1. pc' = "ended" /\ st' = CountedTurn(turn.resp)
    BY <1>4 DEF ReceiveFailure, Goto
  <2> QED
    BY <2>1, CountedTurnCounters, SMTT(30) DEF LimitsInv, LimitsHold
<1>5. CASE Receive
  <2>1. /\ pc = "received" /\ (pc' = "execute" \/ pc' = "length")
        /\ st' = CountedTurn(turn.resp) /\ completionMode' = completionMode
    BY <1>5 DEF Receive, At, Goto
  <2> QED
    BY <2>1, CountedTurnCounters, LimitsAssumption, SMTT(30) DEF LimitsInv, LimitsHold, Counters
<1>6. CASE RepetitiveOutput
  <2> DEFINE counted == recordSemanticProviderLengthRepair(st)
  <2>1. /\ pc = "length" /\ st' = counted /\ completionMode' = completionMode
        /\ pc' = "ended" \/ (pc' = "terminate" /\ ~SemanticLimitReached(counted))
    BY <1>6 DEF RepetitiveOutput, At, Goto, ProtocolFailure
  <2>2. counted \in Counters /\ counted.turns = st.turns /\ counted.empty = st.empty
    BY SemanticCounters, SMTT(30) DEF LimitsInv
  <2> HIDE DEF counted
  <2> QED
    BY <2>1, <2>2, LimitsAssumption, SMTT(30)
       DEF LimitsInv, LimitsHold, SemanticLimitReached, Counters
<1>7. CASE RecordWaitingTurn
  <2>1. /\ pc = "terminate" /\ pc' = "protocol" /\ completionMode' = completionMode
        /\ LET counted == CountWaitingTurn(st, turn.batch.madeProgress, turn.batch.waiting)
           IN st' = IF WarnsWaiting(counted) THEN [counted EXCEPT !.waiting = 0] ELSE counted
    BY <1>7 DEF RecordWaitingTurn, At, Goto
  <2> QED
    BY <2>1, SMTT(30) DEF LimitsInv, LimitsHold, CountWaitingTurn, Counters
<1>8. CASE JudgeTurn
  <2> DEFINE counted == CountTurn(st, turn.resp, ProtocolRepair, turn.batch.madeProgress,
                                  turn.batch.waiting)
  <2>1. /\ pc = "protocol" /\ st' = counted /\ completionMode' = completionMode
        /\ \/ pc' = "ended"
           \/ pc' = "prepare" /\ ~protocolLimitDiagnostic(counted, completionMode)
    BY <1>8 DEF JudgeTurn, ProtocolFailure, At, Goto
  <2>2. counted \in Counters /\ counted.turns = st.turns
    BY JudgedCounters, SMTT(30) DEF LimitsInv
  <2> HIDE DEF counted
  <2>3. ASSUME ~protocolLimitDiagnostic(counted, completionMode)
        PROVE  /\ counted.noProgress <= MaxNoProgress
               /\ counted.malformed <= MaxMalformed
               /\ counted.empty <= MaxEmpty
    BY <2>2, <2>3, LimitsAssumption, SMTT(30) DEF protocolLimitDiagnostic, Counters
  <2> QED
    BY <2>1, <2>2, <2>3, SMTT(30) DEF LimitsInv, LimitsHold
<1>9. CASE \/ PollInitial \/ BeginTurn \/ StopAtMaxTurns \/ Request
           \/ (\E r \in Responses : Respond(r)) \/ ExecuteTools \/ RecordResults
           \/ ContinueAfterLength \/ NoLengthContinuation
  <2>1. /\ UNCHANGED <<st, completionMode>>
        /\ \/ (pc = "poll" /\ pc' = "loop") \/ (pc = "loop" /\ pc' = "mode")
           \/ (pc = "limit" /\ pc' = "ended") \/ (pc = "request" /\ pc' = "stream")
           \/ (pc = "stream" /\ pc' = "received") \/ (pc = "execute" /\ pc' = "executed")
           \/ (pc = "executed" /\ pc' = "length") \/ (pc = "length" /\ pc' = "terminate")
    BY <1>9 DEF PollInitial, BeginTurn, StopAtMaxTurns, Request, Respond, ExecuteTools,
        RecordResults, ContinueAfterLength, NoLengthContinuation, At, Goto,
        ProtocolFailure, protocolVars
  <2> QED
    BY <1>1, <2>1, SMTT(30)
<1>10. CASE \/ TerminateRun \/ NotJudged \/ FinishWork \/ PrepareNextTurn \/ StopAborted
            \/ ShouldStopAfterTurn \/ DoNotStop \/ PollSteering \/ PollFollowUp
  <2>1. /\ UNCHANGED <<st, completionMode>>
        /\ \/ pc = "terminate" \/ pc = "protocol" \/ pc = "prepare" \/ pc = "stop"
           \/ pc = "pollSteering" \/ pc = "pollFollowUp"
        /\ \/ pc' = "ended" \/ pc' = "prepare" \/ pc' = "stop" \/ pc' = "pollSteering"
           \/ pc' = "loop" \/ pc' = "pollFollowUp"
    BY <1>10 DEF TerminateRun, NotJudged, FinishWork, PrepareNextTurn, StopAborted,
        ShouldStopAfterTurn, DoNotStop, PollSteering, PollFollowUp, At, Goto,
        protocolVars
  <2> QED
    BY <1>1, <2>1, SMTT(30)
<1>11. CASE Settle \/ Fault
  <2>1. \/ pc' = "idle" /\ st' = createCompletionProtocolState
        \/ pc' = "failing" /\ st' = st
    BY <1>11 DEF Settle, Fault, ListenerThrows, MessageStartThrows, HookThrows, RunThrows,
        FinishRun, HandleRunFailure, protocolVars
  <2> QED
    BY <2>1, FreshCounters, SMTT(30) DEF LimitsInv, LimitsHold
<1>12. CASE AgentPrompt \/ ContinueSteering \/ ContinueFollowUp \/ ContinueTranscript
  <2>1. /\ ~activeRun /\ pc' = "poll" /\ st' = st
    BY <1>12
    DEF AgentPrompt, ContinueSteering, ContinueFollowUp, ContinueTranscript, StartRun
  <2> QED
    BY <2>1, FreshCounters, SMTT(30) DEF LimitsInv, LimitsHold, ActiveInv
<1>13. ASSUME UNCHANGED <<pc, st, completionMode>> PROVE LimitsInv'
  BY <1>13 DEF LimitsInv, LimitsHold
<1>14. CASE EmitNext \/ UNCHANGED vars
  BY <1>13, <1>14 DEF EmitNext, vars, protocolVars
<1>15. ASSUME NEW k \in GroupSizes, Steer(k) \/ FollowUp(k) PROVE LimitsInv'
  BY <1>13, <1>15 DEF Steer, FollowUp, protocolVars
<1>16. CASE \/ SetQueueModes \/ Abort \/ ClearSteeringQueue \/ ClearFollowUpQueue
            \/ ClearAllQueues \/ Reset
  BY <1>13, <1>16
  DEF SetQueueModes, Abort, ClearSteeringQueue, ClearFollowUpQueue, ClearAllQueues,
      Reset, protocolVars
<1> QED
  BY <1>2, <1>3, <1>4, <1>5, <1>6, <1>7, <1>8, <1>9, <1>10, <1>11, <1>12, <1>14,
     <1>15, <1>16
  DEF Next, RunStep, LoopStep, Outside

(* No run goes on after exceeding a limit of the completion protocol, whatever
   the limits, the responses and the changes of completion mode. *)
THEOREM LimitsNeverExceeded == Spec => []LimitsHold
<1>1. Init => ActiveInv /\ LimitsInv
  BY FreshCounters DEF Init, ActiveInv, LimitsInv, LimitsHold
<1>2. ActiveInv /\ LimitsInv /\ [Next]_vars => (ActiveInv /\ LimitsInv)'
  BY ActiveInvStep, LimitsInvStep
<1>3. LimitsInv => LimitsHold
  BY DEF LimitsInv
<1>4. QED
  BY <1>1, <1>2, <1>3, PTL DEF Spec

-----------------------------------------------------------------------------
(* The queue of groups: what Flat, drain and enqueueGroup do to the
   messages in it. *)

(* Sequences: a larger set of elements, the parts of a sequence. *)
LEMMA SeqMonotonic ==
  ASSUME NEW S, NEW T, S \subseteq T, NEW s \in Seq(S)
  PROVE  s \in Seq(T)
BY SMTT(30)

(* The length, the indices and the elements of a sequence. *)
LEMMA SeqParts ==
  ASSUME NEW S, NEW s \in Seq(S)
  PROVE  /\ Len(s) \in Nat /\ DOMAIN s = 1..Len(s)
         /\ \A i \in DOMAIN s : s[i] \in S
BY SMTT(30)

(* The empty sequence. *)
LEMMA EmptySeq ==
  ASSUME NEW S
  PROVE  /\ <<>> \in Seq(S) /\ Len(<<>>) = 0 /\ DOMAIN <<>> = {}
         /\ \A s \in Seq(S) : s # <<>> => Len(s) \in Nat \ {0}
BY SMTT(30)

(* The first element, and the others. *)
LEMMA HeadTail ==
  ASSUME NEW S, NEW s \in Seq(S), s # <<>>
  PROVE  /\ Head(s) \in S /\ Tail(s) \in Seq(S)
         /\ Len(Tail(s)) = Len(s) - 1
         /\ \A i \in 1..Len(Tail(s)) : Tail(s)[i] = s[i + 1]
BY SMTT(30)

(* An element added at the end. *)
LEMMA AppendParts ==
  ASSUME NEW S, NEW s \in Seq(S), NEW e \in S
  PROVE  /\ Append(s, e) \in Seq(S) /\ Len(Append(s, e)) = Len(s) + 1
         /\ DOMAIN Append(s, e) = 1..(Len(s) + 1)
         /\ \A i \in 1..Len(s) : Append(s, e)[i] = s[i]
         /\ Append(s, e)[Len(s) + 1] = e
BY SMTT(30)

(* Two sequences joined. *)
LEMMA ConcatParts ==
  ASSUME NEW S, NEW s \in Seq(S), NEW t \in Seq(S)
  PROVE  /\ s \o t \in Seq(S) /\ Len(s \o t) = Len(s) + Len(t)
         /\ \A i \in 1..(Len(s) + Len(t)) :
              (s \o t)[i] = IF i <= Len(s) THEN s[i] ELSE t[i - Len(s)]
BY SMTT(30)

(* What is pushed to a list comes last. *)
LEMMA LastAppended ==
  ASSUME NEW S, NEW s \in Seq(S), NEW e
  PROVE  /\ Append(s, e) # <<>> /\ Append(s, e)[Len(Append(s, e))] = e
<1>1. s \in Seq(S \cup {e}) /\ e \in S \cup {e}
  BY SeqMonotonic
<1> DEFINE T == S \cup {e}
<1>2. s \in Seq(T) /\ e \in T
  BY <1>1
<1> HIDE DEF T
<1>3. /\ Len(Append(s, e)) = Len(s) + 1 /\ Append(s, e)[Len(s) + 1] = e
      /\ Append(s, e) \in Seq(T) /\ Len(s) \in Nat
  BY <1>2, AppendParts, SMTT(30)
<1>4. Len(Append(s, e)) # 0
  BY <1>3, SMTT(30)
<1>5. Append(s, e) # <<>>
  BY <1>4, EmptySeq
<1> QED
  BY <1>3, <1>5

(* The empty sequence joined to another. *)
LEMMA ConcatEmptySeq ==
  ASSUME NEW S, NEW s \in Seq(S)
  PROVE  s \o <<>> = s /\ <<>> \o s = s
BY SMTT(30)

(* Induction over the natural numbers, for a set instead of a predicate: the
   least number outside of it would have its predecessor inside. *)
LEMMA Induction ==
  ASSUME NEW S, 0 \in S, \A n \in Nat : n \in S => n + 1 \in S
  PROVE  \A n \in Nat : n \in S
<1> DEFINE less == {ss \in Nat \X Nat : ss[1] < ss[2]}
           T == Nat \ S
<1> SUFFICES ASSUME T # {} PROVE FALSE
  OBVIOUS
<1>1. IsWellFoundedOn(less, Nat)
  BY NatLessThanWellFounded DEF OpToRel
<1>2. \A x, y \in Nat : x < y => <<x, y>> \in less
  OBVIOUS
<1>3. T \subseteq Nat
  OBVIOUS
<1> HIDE DEF less, T
<1>4. PICK m \in T : \A k \in T : ~(<<k, m>> \in less)
  BY <1>1, <1>3, WFMin
<1>5. m \in Nat /\ m \notin S
  BY <1>4 DEF T
<1>6. m # 0 /\ m - 1 \in Nat /\ (m - 1) + 1 = m
  BY <1>5, SMTT(30)
<1>7. m - 1 \notin S
  BY <1>5, <1>6
<1>8. <<m - 1, m>> \in less
  BY <1>2, <1>5, <1>6, SMTT(30)
<1> QED
  BY <1>4, <1>6, <1>7, <1>8 DEF T

(* ... and for the indices of a sequence. *)
LEMMA IndexInduction ==
  ASSUME NEW n \in Nat, NEW S, 1 \in S,
         \A k \in 1..n : k \in S /\ k + 1 \in 1..n => k + 1 \in S
  PROVE  \A k \in 1..n : k \in S
<1> DEFINE T == {k \in Nat : k + 1 \in 1..n => k + 1 \in S}
<1>1. 0 \in T
  BY SMTT(30)
<1>2. ASSUME NEW k \in Nat, k \in T PROVE k + 1 \in T
  <2>1. CASE k + 2 \in 1..n
    <3>1. k + 1 \in 1..n /\ (k + 1) + 1 = k + 2
      BY <2>1, SMTT(30)
    <3>2. k + 1 \in S
      BY <1>2, <3>1
    <3>3. k + 2 \in S
      BY <2>1, <3>1, <3>2
    <3> QED
      BY <3>1, <3>3, SMTT(30)
  <2>2. CASE k + 2 \notin 1..n
    BY <2>2, SMTT(30)
  <2> QED
    BY <2>1, <2>2
<1>3. \A k \in Nat : k \in T
  <2> HIDE DEF T
  <2> QED
    BY <1>1, <1>2, Induction
<1>4. ASSUME NEW k \in 1..n PROVE k \in S
  <2>1. k - 1 \in Nat /\ (k - 1) + 1 = k
    BY SMTT(30)
  <2>2. k - 1 \in T
    <3> HIDE DEF T
    <3> QED
      BY <1>3, <2>1
  <2> QED
    BY <2>1, <2>2
<1> QED
  BY <1>4

(* The recursive function behind Flat joins the first i groups. *)
LEMMA FlattenUnfolds ==
  ASSUME NEW S, NEW s \in Seq(Seq(S)), s # <<>>
  PROVE  \E f \in [1..Len(s) -> Seq(S)] :
           /\ Flat(s) = f[Len(s)]
           /\ f[1] = s[1]
           /\ \A i \in 2..Len(s) : f[i] = f[i - 1] \o s[i]
<1> DEFINE step(f, i) == IF i = 1 THEN s[i] ELSE f[i - 1] \o s[i]
           P(f, k) == f = [i \in 1..k |-> step(f, i)]
           T == {k \in Nat : \E f : P(f, k)}
<1>1. 0 \in T
  <2>1. P([i \in 1..0 |-> {}], 0)
    BY SMTT(30)
  <2> QED
    BY <2>1
<1>2. ASSUME NEW k \in Nat, k \in T PROVE k + 1 \in T
  <2>1. PICK f : P(f, k)
    BY <1>2
  <2> DEFINE g == [i \in 1..(k + 1) |-> step(f, i)]
  <2>2. \A i \in 1..k : g[i] = f[i]
    <3> DEFINE h == [i \in 1..k |-> step(f, i)]
    <3> HIDE DEF step
    <3>1. \A i \in 1..k : g[i] = step(f, i) /\ h[i] = step(f, i)
      BY SMTT(30)
    <3>2. f = h
      BY <2>1
    <3> HIDE DEF g, h
    <3> QED
      BY <3>1, <3>2
  <2>3. ASSUME NEW i \in 1..(k + 1) PROVE step(g, i) = step(f, i)
    <3>1. CASE i = 1
      BY <3>1
    <3>2. CASE i # 1
      <4>1. i - 1 \in 1..k
        BY <3>2, SMTT(30)
      <4>2. g[i - 1] = f[i - 1]
        BY <2>2, <4>1
      <4> HIDE DEF g
      <4> QED
        BY <3>2, <4>2
    <3> QED
      BY <3>1, <3>2
  <2>4. P(g, k + 1)
    <3>1. [i \in 1..(k + 1) |-> step(f, i)] = [i \in 1..(k + 1) |-> step(g, i)]
      <4> HIDE DEF g, step
      <4> QED
        BY <2>3
    <3> QED
      BY <3>1
  <2> HIDE DEF g, P
  <2> QED
    BY <2>4, SMTT(30)
<1>3. Len(s) \in Nat /\ Len(s) > 0 /\ Len(s) # 0
  BY SMTT(30)
<1>4. \E f : P(f, Len(s))
  <2>1. Len(s) \in T
    <3> HIDE DEF T
    <3> QED
      BY <1>1, <1>2, <1>3, Induction
  <2> QED
    BY <2>1
<1> DEFINE flat == CHOOSE f : f = [i \in 1..Len(s) |-> step(f, i)]
<1>5. P(flat, Len(s))
  BY <1>4
<1>6. Flat(s) = flat[Len(s)]
  BY <1>3 DEF Flat
<1> HIDE DEF flat
<1>7. /\ DOMAIN flat = 1..Len(s)
      /\ \A i \in 1..Len(s) : flat[i] = step(flat, i)
  <2> DEFINE h == [i \in 1..Len(s) |-> step(flat, i)]
  <2>1. DOMAIN h = 1..Len(s) /\ \A i \in 1..Len(s) : h[i] = step(flat, i)
    OBVIOUS
  <2>2. flat = h
    BY <1>5
  <2> HIDE DEF h
  <2> QED
    BY <2>1, <2>2
<1>8. /\ flat[1] = s[1]
      /\ \A i \in 2..Len(s) : flat[i] = flat[i - 1] \o s[i]
  <2>1. 1 \in 1..Len(s)
    BY <1>3, SMTT(30)
  <2>2. ASSUME NEW i \in 2..Len(s) PROVE i \in 1..Len(s) /\ i # 1
    BY SMTT(30)
  <2> QED
    BY <1>7, <2>1, <2>2
<1> DEFINE U == {k \in 1..Len(s) : flat[k] \in Seq(S)}
<1>9. 1 \in U
  BY <1>3, <1>8, SMTT(30)
<1>10. ASSUME NEW k \in 1..Len(s), k \in U, k + 1 \in 1..Len(s) PROVE k + 1 \in U
  <2>1. flat[k] \in Seq(S) /\ s[k + 1] \in Seq(S)
    BY <1>10, SMTT(30)
  <2>2. k + 1 \in 2..Len(s) /\ (k + 1) - 1 = k
    BY <1>10, SMTT(30)
  <2>3. flat[k + 1] = flat[k] \o s[k + 1]
    BY <1>8, <2>2
  <2>4. flat[k + 1] \in Seq(S)
    BY <2>1, <2>3, ConcatParts
  <2> QED
    BY <1>10, <2>4
<1>11. ASSUME NEW i \in 1..Len(s) PROVE flat[i] \in Seq(S)
  <2>1. i \in U
    <3> HIDE DEF U
    <3> QED
      BY <1>3, <1>9, <1>10, IndexInduction
  <2> QED
    BY <2>1
<1>12. flat \in [1..Len(s) -> Seq(S)]
  <2>1. flat = [i \in 1..Len(s) |-> flat[i]]
    <3> DEFINE h == [i \in 1..Len(s) |-> step(flat, i)]
    <3>1. flat = h /\ h = [i \in 1..Len(s) |-> h[i]]
      BY <1>5
    <3> HIDE DEF h
    <3> QED
      BY <3>1
  <2> QED
    BY <1>11, <2>1
<1> QED
  BY <1>6, <1>8, <1>12

(* An empty queue holds no message. *)
LEMMA FlattenEmpty == Flat(<<>>) = <<>>
BY DEF Flat

(* A queue, flattened, is a sequence of messages. *)
LEMMA FlattenType ==
  ASSUME NEW S, NEW s \in Seq(Seq(S))
  PROVE  Flat(s) \in Seq(S)
<1>1. CASE s = <<>>
  <2>1. Flat(s) = <<>>
    BY <1>1, FlattenEmpty
  <2> QED
    BY <2>1, EmptySeq
<1>2. CASE s # <<>>
  <2>1. PICK f \in [1..Len(s) -> Seq(S)] : Flat(s) = f[Len(s)]
    BY <1>2, FlattenUnfolds
  <2>2. Len(s) \in 1..Len(s)
    BY <1>2, SMTT(30)
  <2> QED
    BY <2>1, <2>2
<1> QED
  BY <1>1, <1>2

(* A group added to a queue comes after all others. *)
LEMMA FlattenAppend ==
  ASSUME NEW S, NEW s \in Seq(Seq(S)), NEW m \in Seq(S)
  PROVE  Flat(Append(s, m)) = Flat(s) \o m
<1> DEFINE t == Append(s, m)
<1>1. /\ t \in Seq(Seq(S)) /\ t # <<>> /\ Len(t) = Len(s) + 1
      /\ \A i \in 1..Len(s) : t[i] = s[i]
      /\ t[Len(s) + 1] = m /\ Len(s) \in Nat
  BY AppendParts, SeqParts, SMTT(30)
<1> HIDE DEF t
<1>2. PICK g \in [1..Len(t) -> Seq(S)] :
        /\ Flat(t) = g[Len(t)] /\ g[1] = t[1]
        /\ \A i \in 2..Len(t) : g[i] = g[i - 1] \o t[i]
  <2>1. t \in Seq(Seq(S)) /\ t # <<>>
    BY <1>1
  <2> QED
    BY <2>1, FlattenUnfolds
<1>3. CASE s = <<>>
  <2>1. Flat(s) = <<>> /\ Len(s) = 0 /\ Len(t) = 1
    BY <1>1, <1>3, SMTT(30) DEF Flat
  <2>2. Flat(t) = m
    BY <1>1, <1>2, <2>1
  <2> QED
    BY <2>1, <2>2, ConcatEmptySeq DEF t
<1>4. CASE s # <<>>
  <2>1. PICK f \in [1..Len(s) -> Seq(S)] :
          /\ Flat(s) = f[Len(s)] /\ f[1] = s[1]
          /\ \A i \in 2..Len(s) : f[i] = f[i - 1] \o s[i]
    BY <1>4, FlattenUnfolds
  <2>2. Len(s) > 0
    BY <1>4, SMTT(30)
  <2> DEFINE U == {k \in 1..Len(s) : g[k] = f[k]}
  <2>3. 1 \in U
    BY <1>1, <1>2, <2>1, <2>2, SMTT(30)
  <2>4. ASSUME NEW k \in 1..Len(s), k \in U, k + 1 \in 1..Len(s) PROVE k + 1 \in U
    <3>1. /\ g[k] = f[k] /\ (k + 1) - 1 = k
          /\ k + 1 \in 2..Len(s) /\ k + 1 \in 2..Len(t)
          /\ t[k + 1] = s[k + 1]
      BY <1>1, <2>4, SMTT(30)
    <3>2. f[k + 1] = f[k] \o s[k + 1]
      BY <2>1, <3>1
    <3>3. g[k + 1] = g[k] \o t[k + 1]
      BY <1>2, <3>1
    <3>4. g[k + 1] = f[k + 1]
      BY <3>1, <3>2, <3>3
    <3> QED
      BY <2>4, <3>4
  <2>5. Len(s) \in U
    <3>1. Len(s) \in 1..Len(s)
      BY <1>1, <2>2, SMTT(30)
    <3> HIDE DEF U
    <3> QED
      BY <1>1, <2>3, <2>4, <3>1, IndexInduction
  <2>6. g[Len(s)] = f[Len(s)]
    BY <2>5
  <2>7. g[Len(t)] = g[Len(s)] \o m
    <3>1. Len(t) \in 2..Len(t) /\ Len(t) - 1 = Len(s) /\ t[Len(t)] = m
      BY <1>1, <2>2, SMTT(30)
    <3> QED
      BY <1>2, <3>1
  <2> QED
    BY <1>2, <2>1, <2>6, <2>7 DEF t
<1> QED
  BY <1>3, <1>4

(* The first group comes before all others. *)
LEMMA FlattenHead ==
  ASSUME NEW S, NEW s \in Seq(Seq(S)), s # <<>>
  PROVE  Flat(s) = Head(s) \o Flat(Tail(s))
<1> DEFINE t == Tail(s)
<1>0. ASSUME NEW x \in Seq(S), NEW y \in Seq(S), NEW z \in Seq(S)
      PROVE  (x \o y) \o z = x \o (y \o z)
  BY SMTT(30)
<1>1. /\ t \in Seq(Seq(S)) /\ Len(t) = Len(s) - 1 /\ Len(t) \in Nat
      /\ \A i \in 1..Len(t) : t[i] = s[i + 1]
      /\ Head(s) = s[1] /\ s[1] \in Seq(S)
  BY SMTT(30)
<1>2. PICK f \in [1..Len(s) -> Seq(S)] :
        /\ Flat(s) = f[Len(s)] /\ f[1] = s[1]
        /\ \A i \in 2..Len(s) : f[i] = f[i - 1] \o s[i]
  BY FlattenUnfolds
<1>3. CASE t = <<>>
  <2>1. Flat(t) = <<>>
    <3> HIDE DEF t
    <3> QED
      BY <1>3, FlattenEmpty
  <2>0. Len(s) = 1
    <3> HIDE DEF t
    <3>1. Len(t) = 0
      BY <1>3
    <3> QED
      BY <1>1, <3>1, SMTT(30)
  <2>2. Flat(s) = s[1]
    BY <1>2, <2>0
  <2> QED
    BY <1>1, <2>1, <2>2, ConcatEmptySeq
<1>4. CASE t # <<>>
  <2> HIDE DEF t
  <2>1. PICK g \in [1..Len(t) -> Seq(S)] :
          /\ Flat(t) = g[Len(t)] /\ g[1] = t[1]
          /\ \A i \in 2..Len(t) : g[i] = g[i - 1] \o t[i]
    BY <1>1, <1>4, FlattenUnfolds, ZenonT(40)
  <2>2. Len(t) > 0
    BY <1>1, <1>4, SMTT(30)
  <2> DEFINE joined(k) == s[1] \o g[k]
             U == {k \in 1..Len(t) : f[k + 1] = joined(k)}
  <2>3. 1 \in U
    <3>1. 2 \in 2..Len(s) /\ t[1] = s[2] /\ 2 - 1 = 1 /\ 1 + 1 = 2 /\ 1 \in 1..Len(t)
      BY <1>1, <2>2, SMTT(30)
    <3>2. f[1 + 1] = joined(1)
      BY <1>2, <2>1, <3>1, ZenonT(40)
    <3> HIDE DEF joined
    <3> QED
      BY <3>1, <3>2
  <2>4. ASSUME NEW k \in 1..Len(t), k \in U, k + 1 \in 1..Len(t) PROVE k + 1 \in U
    <3>1. /\ k + 1 \in 2..Len(t) /\ (k + 1) - 1 = k
          /\ k + 2 \in 2..Len(s) /\ (k + 2) - 1 = k + 1 /\ (k + 1) + 1 = k + 2
          /\ t[k + 1] = s[(k + 1) + 1] /\ t[k + 1] \in Seq(S)
      <4>1. /\ k + 1 \in 2..Len(t) /\ (k + 1) - 1 = k
            /\ k + 2 \in 2..Len(s) /\ (k + 2) - 1 = k + 1 /\ (k + 1) + 1 = k + 2
        <5>1. /\ k \in Nat /\ Len(t) \in Nat /\ k + 1 <= Len(t)
              /\ Len(s) = Len(t) + 1 /\ k >= 1
          BY <1>1, <2>4, SMTT(30)
        <5> QED
          BY <5>1, SMTT(30)
      <4>2. t[k + 1] = s[(k + 1) + 1] /\ t[k + 1] \in Seq(S)
        BY <1>1, <2>4, SeqParts
      <4> QED
        BY <4>1, <4>2
    <3>2. f[k + 2] = f[k + 1] \o s[k + 2]
      BY <1>2, <3>1
    <3>3. g[k + 1] = g[k] \o t[k + 1]
      BY <2>1, <3>1
    <3>4. g[k] \in Seq(S)
      BY <2>1
    <3>5. (s[1] \o g[k]) \o t[k + 1] = s[1] \o (g[k] \o t[k + 1])
      BY <1>0, <1>1, <3>1, <3>4
    <3>6. f[k + 1] = s[1] \o g[k]
      BY <2>4
    <3>7. f[(k + 1) + 1] = joined(k + 1)
      BY <3>1, <3>2, <3>3, <3>5, <3>6
    <3> HIDE DEF joined
    <3> QED
      BY <2>4, <3>7
  <2>5. Len(t) \in U
    <3>1. Len(t) \in 1..Len(t)
      BY <1>1, <2>2, SMTT(30)
    <3> HIDE DEF U
    <3> QED
      BY <1>1, <2>3, <2>4, <3>1, IndexInduction
  <2>6. f[Len(s)] = s[1] \o g[Len(t)]
    <3>1. Len(t) + 1 = Len(s)
      BY <1>1, SMTT(30)
    <3> QED
      BY <2>5, <3>1
  <2> QED
    BY <1>1, <1>2, <2>1, <2>6 DEF t
<1> QED
  BY <1>3, <1>4

(* drain takes messages from the front of the queue and leaves the others: what
   it returns, followed by what it leaves, is what was there. *)
LEMMA DrainSplits ==
  ASSUME NEW S, NEW s \in Seq(Seq(S)), NEW mode \in QueueModes
  PROVE  /\ Drained(mode, s) \in Seq(S)
         /\ Remaining(mode, s) \in Seq(Seq(S))
         /\ Flat(s) = Drained(mode, s) \o Flat(Remaining(mode, s))
<1>1. CASE s = <<>>
  BY <1>1, FlattenEmpty, ConcatEmptySeq, SMTT(30) DEF Drained, Remaining
<1>2. CASE s # <<>> /\ mode = "all"
  <2>1. Drained(mode, s) = Flat(s) /\ Remaining(mode, s) = <<>>
    BY <1>2 DEF Drained, Remaining
  <2>2. Flat(<<>>) = <<>>
    BY FlattenEmpty
  <2>3. Flat(s) \in Seq(S)
    BY FlattenType
  <2> QED
    BY <2>1, <2>2, <2>3, ConcatEmptySeq, SMTT(30)
<1>3. CASE s # <<>> /\ mode # "all"
  <2>1. Drained(mode, s) = Head(s) /\ Remaining(mode, s) = Tail(s)
    BY <1>3 DEF Drained, Remaining
  <2> QED
    BY <1>3, <2>1, FlattenHead, SMTT(30)
<1> QED
  BY <1>1, <1>2, <1>3

(* enqueueGroup adds messages behind the others. *)
LEMMA EnqueueAppends ==
  ASSUME NEW S, NEW s \in Seq(Seq(S)), NEW m \in Seq(S)
  PROVE  /\ enqueueGroup(s, m) \in Seq(Seq(S))
         /\ Flat(enqueueGroup(s, m)) = Flat(s) \o m
<1>1. CASE m = <<>>
  BY <1>1, FlattenType, ConcatEmptySeq DEF enqueueGroup
<1>2. CASE m # <<>>
  BY <1>2, FlattenAppend, SMTT(30) DEF enqueueGroup
<1> QED
  BY <1>1, <1>2

-----------------------------------------------------------------------------
(* Types. *)

(* The numbers of the unqueued messages are not those of queued ones. *)
LEMMA MessageNumbers ==
  ASSUME Len(queued) \in Nat
  PROVE  /\ Queued \subseteq MessageIds /\ MessageIds \subseteq Int /\ 0 \notin MessageIds
         /\ {Assistant, ToolResult, Internal, Terminal, Failure, Prompt} \subseteq MessageIds
         /\ \A m \in MessageIds : m > 0 => m \in Queued
         /\ \A m \in Queued : m > 0 /\ m \in Int
BY SMTT(30) DEF MessageIds, Queued, Assistant, ToolResult, Internal, Terminal, Failure, Prompt

(* The events the loop emits. *)
LEMMA EventsTyped ==
  /\ \A e \in {TurnStart, TurnEnd, AgentStart, RequestStart, AgentEnd, Protocol} :
       e \in EventType
  /\ \A m \in MessageIds : Message(m) \in EventType /\ Announce(m) \in EventType
<1>1. ASSUME NEW t \in EventTypes PROVE Event(t) \in EventType
  BY DEF Event, EventType
<1>2. /\ "turn_start" \in EventTypes /\ "turn_end" \in EventTypes
      /\ "agent_start" \in EventTypes /\ "request_start" \in EventTypes
      /\ "agent_end" \in EventTypes /\ "completion_protocol" \in EventTypes
  BY DEF EventTypes
<1>3. \A e \in {TurnStart, TurnEnd, AgentStart, RequestStart, AgentEnd, Protocol} :
        e \in EventType
  BY <1>1, <1>2 DEF TurnStart, TurnEnd, AgentStart, RequestStart, AgentEnd, Protocol
<1>4. \A m \in MessageIds : Message(m) \in EventType /\ Announce(m) \in EventType
  BY DEF Message, Announce, EventType
<1> QED
  BY <1>3, <1>4

(* An event is a message or carries none. *)
LEMMA EventShape ==
  ASSUME NEW e \in EventType
  PROVE  /\ e.push \in BOOLEAN
         /\ e.type = "message" => e.msg \in MessageIds
         /\ e.type # "message" => e.msg = 0 /\ e.push = FALSE
         /\ e.msg \in MessageIds \cup {0}
         /\ e.msg \in MessageIds /\ 0 \notin MessageIds => e.type = "message"
BY DEF EventType, EventTypes

(* The events for a list of messages. *)
LEMMA ListsTyped ==
  ASSUME NEW s \in Seq(MessageIds)
  PROVE  /\ Announcements(s) \in Seq(EventType) /\ Len(Announcements(s)) = Len(s)
         /\ MessageEvents(s) \in Seq(EventType) /\ Len(MessageEvents(s)) = Len(s)
         /\ \A i \in 1..Len(s) : /\ Announcements(s)[i] = Announce(s[i])
                                 /\ MessageEvents(s)[i] = Message(s[i])
<1>1. \A i \in 1..Len(s) : s[i] \in MessageIds
  BY SMTT(30)
<1>2. \A i \in 1..Len(s) : Announce(s[i]) \in EventType /\ Message(s[i]) \in EventType
  BY <1>1, EventsTyped
<1>3. Len(s) \in Nat
  BY SMTT(30)
<1> DEFINE a(i) == Announce(s[i])
           b(i) == Message(s[i])
           n == Len(s)
<1>4. n \in Nat /\ \A i \in 1..n : a(i) \in EventType /\ b(i) \in EventType
  BY <1>2, <1>3
<1> HIDE DEF a, b, n
<1>5. /\ [i \in 1..n |-> a(i)] \in Seq(EventType) /\ Len([i \in 1..n |-> a(i)]) = n
      /\ [i \in 1..n |-> b(i)] \in Seq(EventType) /\ Len([i \in 1..n |-> b(i)]) = n
  BY <1>4, SMTT(30)
<1>6. \A i \in 1..n : [j \in 1..n |-> a(j)][i] = a(i) /\ [j \in 1..n |-> b(j)][i] = b(i)
  OBVIOUS
<1> QED
  BY <1>5, <1>6 DEF Announcements, MessageEvents, a, b, n

(* The scalars of the agent and the loop. *)
ScalarsOK ==
  /\ activeRun \in BOOLEAN /\ isStreaming \in BOOLEAN /\ aborted \in BOOLEAN
  /\ steeringMode \in QueueModes /\ followUpMode \in QueueModes
  /\ pc \in Pcs /\ completionMode \in Modes /\ configMode \in Modes
  /\ allowImplicit \in BOOLEAN /\ firstTurn \in BOOLEAN /\ skipPoll \in BOOLEAN
  /\ more \in BOOLEAN
  /\ openTurns \in Int /\ agentEnds \in Nat /\ base \in Nat
  /\ requests \in Nat /\ lateRequests \in Nat
  /\ runs \in 0..MaxRuns /\ throws \in 0..MaxDisturbed /\ resets \in 0..MaxDisturbed

(* ... keep their types in the steps of runLoop. *)
LEMMA LoopScalars ==
  ASSUME ScalarsOK, LoopStep
  PROVE  ScalarsOK'
<1>1. UNCHANGED <<activeRun, isStreaming, aborted, steeringMode, followUpMode, openTurns,
                  agentEnds, base, runs, throws, resets>>
  BY LoopFrame DEF agentVars, inputVars, runVars
<1>2. ASSUME pc' \in Pcs, completionMode' \in Modes, configMode' \in Modes,
             allowImplicit' \in BOOLEAN, firstTurn' \in BOOLEAN, skipPoll' \in BOOLEAN,
             more' \in BOOLEAN, requests' \in Nat, lateRequests' \in Nat
      PROVE  ScalarsOK'
  BY <1>1, <1>2 DEF ScalarsOK
<1>3. CASE \/ StopAtMaxTurns \/ PrepareRequest \/ (\E r \in Responses : Respond(r))
           \/ ReceiveFailure \/ ExecuteTools \/ RepetitiveOutput \/ ContinueAfterLength
           \/ NoLengthContinuation \/ TerminateRun \/ NotJudged \/ FinishWork
           \/ StopAborted \/ ShouldStopAfterTurn \/ DoNotStop
  <2>1. UNCHANGED <<completionMode, configMode, allowImplicit, firstTurn, skipPoll, more,
                    requests, lateRequests>>
    BY <1>3 DEF StopAtMaxTurns, PrepareRequest, Respond, ReceiveFailure, ExecuteTools,
        RepetitiveOutput, ContinueAfterLength, NoLengthContinuation, TerminateRun,
        NotJudged, FinishWork, StopAborted, ShouldStopAfterTurn, DoNotStop,
        protocolVars, loopVars, countVars
  <2>2. \/ pc' = "ended" \/ pc' = "request" \/ pc' = "received" \/ pc' = "executed"
        \/ pc' = "terminate" \/ pc' = "prepare" \/ pc' = "pollSteering"
    BY <1>3 DEF StopAtMaxTurns, PrepareRequest, Respond, ReceiveFailure, ExecuteTools,
        RepetitiveOutput, ContinueAfterLength, NoLengthContinuation, TerminateRun,
        NotJudged, FinishWork, StopAborted, ShouldStopAfterTurn, DoNotStop,
        ProtocolFailure, Goto
  <2>3. pc' \in Pcs
    BY <2>2 DEF Pcs
  <2> QED
    BY <1>2, <2>1, <2>3 DEF ScalarsOK
<1>4. CASE \/ PollInitial \/ BeginTurn \/ Receive \/ RecordResults \/ RecordWaitingTurn
           \/ PollSteering \/ PollFollowUp
  <2>1. UNCHANGED <<completionMode, configMode, allowImplicit, requests, lateRequests>>
    BY <1>4
    DEF PollInitial, BeginTurn, Receive, RecordResults, RecordWaitingTurn, PollSteering,
        PollFollowUp, protocolVars, countVars
  <2>2. /\ firstTurn' = firstTurn \/ firstTurn' = FALSE
        /\ skipPoll' = skipPoll \/ skipPoll' = FALSE
    BY <1>4
    DEF PollInitial, BeginTurn, Receive, RecordResults, RecordWaitingTurn, PollSteering,
        PollFollowUp
  <2>3. \/ more' = more \/ more' = TRUE \/ more' = FALSE \/ more' = ~turn.batch.terminate
        \/ \E warns : more' = (more \/ turn.continues \/ warns)
    BY <1>4
    DEF PollInitial, BeginTurn, Receive, RecordResults, RecordWaitingTurn, PollSteering,
        PollFollowUp
  <2>4. \/ pc' = "loop" \/ pc' = "mode" \/ pc' = "execute" \/ pc' = "length"
        \/ pc' = "protocol" \/ pc' = "pollFollowUp" \/ pc' = "ended"
    BY <1>4
    DEF PollInitial, BeginTurn, Receive, RecordResults, RecordWaitingTurn, PollSteering,
        PollFollowUp, Goto
  <2>5. pc' \in Pcs
    BY <2>4 DEF Pcs
  <2>6. firstTurn' \in BOOLEAN /\ skipPoll' \in BOOLEAN /\ more' \in BOOLEAN
    BY <2>2, <2>3 DEF ScalarsOK
  <2> QED
    BY <1>2, <2>1, <2>5, <2>6 DEF ScalarsOK
<1>5. CASE ResolveMode \/ PrepareNextTurn
  <2>1. /\ UNCHANGED <<allowImplicit, firstTurn, skipPoll, more, requests, lateRequests>>
        /\ completionMode' = completionMode \/ completionMode' = configMode
        /\ configMode' \in NextModes \cup {configMode}
        /\ pc' = "limit" \/ pc' = "stop"
    BY <1>5 DEF ResolveMode, PrepareNextTurn, Goto, loopVars, countVars
  <2>2. configMode' \in Modes
    BY <2>1, LoopAssumption DEF ScalarsOK
  <2>3. pc' \in Pcs
    BY <2>1 DEF Pcs
  <2> QED
    BY <1>2, <2>1, <2>2, <2>3 DEF ScalarsOK
<1>6. CASE Request
  <2>1. /\ UNCHANGED <<completionMode, configMode, allowImplicit, firstTurn, skipPoll, more>>
        /\ requests' = requests + 1 /\ pc' = "stream"
        /\ lateRequests' = IF aborted THEN lateRequests + 1 ELSE lateRequests
    BY <1>6 DEF Request, Goto, protocolVars, loopVars
  <2>2. requests' \in Nat /\ lateRequests' \in Nat
    BY <2>1, SMTT(30) DEF ScalarsOK
  <2>3. pc' \in Pcs
    BY <2>1 DEF Pcs
  <2> QED
    BY <1>2, <2>1, <2>2, <2>3 DEF ScalarsOK
<1>7. CASE JudgeTurn
  <2>1. /\ UNCHANGED <<completionMode, configMode, firstTurn, skipPoll, requests, lateRequests>>
        /\ more' = more \/ more' = TRUE
        /\ \/ allowImplicit' = allowImplicit
           \/ \E c, r : allowImplicit' = FallsBackToImplicit(c, completionMode, r)
        /\ pc' = "ended" \/ pc' = "prepare"
    BY <1>7 DEF JudgeTurn, ProtocolFailure, Goto, countVars
  <2>2. allowImplicit' \in BOOLEAN
    BY <2>1 DEF FallsBackToImplicit, ScalarsOK
  <2>3. pc' \in Pcs
    BY <2>1 DEF Pcs
  <2> QED
    BY <1>2, <2>1, <2>2, <2>3 DEF ScalarsOK
<1> QED
  BY <1>3, <1>4, <1>5, <1>6, <1>7 DEF LoopStep

(* The steps of runLoop and the calls from outside but steer and followUp leave
   the numbers of messages as they are. *)
LEMMA SameNumbers ==
  ASSUME UNCHANGED queued
  PROVE  Queued' = Queued /\ MessageIds' = MessageIds /\ EventType' = EventType
BY DEF Queued, MessageIds, EventType

(* The locals of a turn have their types at its start. *)
LEMMA NoTurnTyped == NoTurn \in TurnType
BY DEF NoTurn, TurnType, NoResponse, NoBatch, Response, Batch, Repairs

(* The repair found before execution is one of the repairs. *)
LEMMA RepairTyped ==
  ASSUME NEW mode, NEW r
  PROVE  RepairBeforeExecution(mode, r) \in Repairs
BY DEF RepairBeforeExecution, detectCompletionProtocolRepair, Repairs

(* The data of the agent and the loop. *)
DataOK ==
  /\ messages \in Seq(MessageIds) /\ newMessages \in Seq(MessageIds)
  /\ steeringQueue \in Seq(Seq(Queued)) /\ followUpQueue \in Seq(Seq(Queued))
  /\ out \in Seq(EventType) /\ pending \in Seq(Queued) /\ turn \in TurnType
  /\ queued \in Seq([kind : {"steer", "followUp"}, group : Nat])
  /\ delivered \in Seq(Queued) /\ cleared \subseteq Queued

(* ... keep their types in the steps of runLoop. *)
LEMMA LoopData ==
  ASSUME ScalarsOK, DataOK, LoopStep
  PROVE  DataOK'
<1> DEFINE goal == /\ steeringQueue' \in Seq(Seq(Queued))
                   /\ followUpQueue' \in Seq(Seq(Queued))
                   /\ out' \in Seq(EventType) /\ pending' \in Seq(Queued)
                   /\ newMessages' \in Seq(MessageIds) /\ turn' \in TurnType
<1> USE DEF DataOK, ScalarsOK
<1>1. /\ TurnStart \in EventType /\ TurnEnd \in EventType /\ AgentEnd \in EventType
      /\ RequestStart \in EventType /\ Protocol \in EventType
      /\ Message(Internal) \in EventType /\ Message(Terminal) \in EventType
      /\ Announce(Assistant) \in EventType /\ Announce(ToolResult) \in EventType
      /\ Announce(Terminal) \in EventType
  BY MessageNumbers, EventsTyped, SMTT(30)
<1>2. /\ Queued \subseteq MessageIds /\ Assistant \in MessageIds
      /\ ToolResult \in MessageIds /\ Terminal \in MessageIds
  BY MessageNumbers, SMTT(30)
<1>3. ASSUME NEW started
      PROVE  <<Protocol>> \o When(~started, <<TurnStart>>)
               \o <<Message(Terminal), TurnEnd, AgentEnd>> \in Seq(EventType)
  BY <1>1, SMTT(30) DEF When
<1>8. /\ <<>> \in Seq(EventType) /\ <<TurnEnd>> \in Seq(EventType)
      /\ <<AgentEnd>> \in Seq(EventType)
      /\ <<Protocol, Message(Internal)>> \in Seq(EventType)
  BY <1>1, SMTT(30)
<1>9. ASSUME ProtocolFailure(FALSE) PROVE out' \in Seq(EventType)
  <2>1. out' = <<Protocol>> \o When(~FALSE, <<TurnStart>>)
                 \o <<Message(Terminal), TurnEnd, AgentEnd>>
    BY <1>9 DEF ProtocolFailure, Goto
  <2> QED
    BY <2>1, <1>3
<1>4. goal
  <2>1. CASE PollInitial
    <3>1. Drained(steeringMode, steeringQueue) \in Seq(Queued)
          /\ Remaining(steeringMode, steeringQueue) \in Seq(Seq(Queued))
      BY DrainSplits
    <3>2. pending' \in Seq(Queued) /\ steeringQueue' \in Seq(Seq(Queued))
      BY <2>1, <3>1, EmptySeq, ZenonT(40) DEF PollInitial, SteeringPoll
    <3> QED
      BY <2>1, <3>2, <1>1, SMTT(30) DEF PollInitial, Goto, When, outerVars
  <2>2. CASE BeginTurn
    <3>1. pending \in Seq(MessageIds)
      BY <1>2, SeqMonotonic
    <3>2. MessageEvents(pending) \in Seq(EventType)
      BY <3>1, ListsTyped
    <3>3. When(~firstTurn, <<TurnStart>>) \in Seq(EventType)
      BY <1>1, SMTT(30) DEF When
    <3>4. out' \in Seq(EventType)
      BY <2>2, <3>2, <3>3, ConcatParts, ZenonT(40) DEF BeginTurn, Goto
    <3> QED
      BY <2>2, <3>4, SMTT(30) DEF BeginTurn, outerVars
  <2>3. CASE ResolveMode
    BY <2>3, <1>1, SMTT(30)
    DEF ResolveMode, At, Goto, outerVars, protocolVars, loopVars, When
  <2>4. CASE StopAtMaxTurns
    BY <2>4, <1>1, <1>3, ZenonT(40) DEF StopAtMaxTurns, At, Goto, outerVars, protocolVars, loopVars,
        ProtocolFailure
  <2>5. CASE PrepareRequest
    BY <2>5, <1>1, SMTT(30) DEF PrepareRequest, At, Goto, outerVars, protocolVars, loopVars
  <2>6. CASE Request
    BY <2>6, <1>1 DEF Request, At, Goto, outerVars, protocolVars, loopVars
  <2>7. ASSUME NEW r \in Responses, Respond(r) PROVE goal
    <3>1. [NoTurn EXCEPT !.resp = r] \in TurnType
      BY LoopAssumption, NoTurnTyped, ZenonT(40) DEF TurnType
    <3> QED
      BY <2>7, <1>1, <3>1, SMTT(30) DEF Respond, Goto, outerVars
  <2>8. CASE ReceiveFailure
    BY <2>8, <1>1, <1>2, SMTT(30)
    DEF ReceiveFailure, At, Goto, outerVars, protocolVars, loopVars
  <2>9. CASE Receive
    <3>1. RepairBeforeExecution(completionMode, turn.resp) \in Repairs
      BY RepairTyped
    <3>2. turn' \in TurnType
      BY <2>9, <3>1, LoopAssumption DEF Receive, TurnType
    <3>3. newMessages' \in Seq(MessageIds)
      BY <2>9, <1>2, SMTT(30) DEF Receive
    <3>4. out' \in Seq(EventType)
      <4>1. out' = <<>> \/ out' = <<TurnEnd>>
        BY <2>9 DEF Receive, Goto
      <4> QED
        BY <4>1, <1>8
    <3> QED
      BY <2>9, <3>2, <3>3, <3>4 DEF Receive, outerVars
  <2>10. CASE ExecuteTools
    <3>1. turn' \in TurnType
      BY <2>10, LoopAssumption, ZenonT(40) DEF ExecuteTools, TurnType
    <3> QED
      BY <2>10, <3>1, <1>1, SMTT(30) DEF ExecuteTools, Goto, outerVars
  <2>11. CASE RecordResults
    BY <2>11, <1>1, <1>2, SMTT(30)
    DEF RecordResults, At, Goto, outerVars, protocolVars, loopVars
  <2>12. CASE RepetitiveOutput
    <3>1. turn' \in TurnType
      BY <2>12 DEF RepetitiveOutput, TurnType
    <3>2. out' \in Seq(EventType)
      <4>1. \/ ProtocolFailure(FALSE)
            \/ out' = <<Protocol, Message(Internal)>>
        BY <2>12 DEF RepetitiveOutput, Goto
      <4> QED
        BY <4>1, <1>8, <1>9
    <3> QED
      BY <2>12, <3>1, <3>2 DEF RepetitiveOutput, outerVars
  <2>13. CASE ContinueAfterLength
    <3>1. turn' \in TurnType
      BY <2>13 DEF ContinueAfterLength, TurnType
    <3> QED
      BY <2>13, <1>1, <3>1, SMTT(30) DEF ContinueAfterLength, Goto, outerVars
  <2>14. CASE NoLengthContinuation
    BY <2>14, <1>1, ZenonT(40) DEF NoLengthContinuation, At, Goto, outerVars, protocolVars, loopVars
  <2>15. CASE TerminateRun
    BY <2>15, <1>1, SMTT(30)
    DEF TerminateRun, At, Goto, outerVars, protocolVars, loopVars, When
  <2>16. CASE RecordWaitingTurn
    BY <2>16, <1>1, SMTT(30)
    DEF RecordWaitingTurn, At, Goto, outerVars, protocolVars, loopVars, When
  <2>17. CASE NotJudged
    BY <2>17, <1>1, ZenonT(40) DEF NotJudged, At, Goto, outerVars, protocolVars, loopVars
  <2>18. CASE FinishWork
    BY <2>18, <1>1, SMTT(30) DEF FinishWork, At, Goto, outerVars, protocolVars, loopVars
  <2>19. CASE JudgeTurn
    <3>1. \/ ProtocolFailure(FALSE)
          \/ out' = <<>> \/ out' = <<Protocol, Message(Internal)>>
      BY <2>19 DEF JudgeTurn, Goto
    <3>3. out' \in Seq(EventType)
      BY <3>1, <1>8, <1>9
    <3> QED
      BY <2>19, <3>3 DEF JudgeTurn, outerVars
  <2>20. CASE PrepareNextTurn
    <3>1. PICK k \in Appends : out' = [i \in 1..k |-> Message(Internal)]
      BY <2>20 DEF PrepareNextTurn, Goto
    <3>2. k \in Nat
      BY LoopAssumption
    <3>3. out' \in Seq(EventType)
      BY <1>1, <3>1, <3>2, SMTT(30)
    <3> QED
      BY <2>20, <3>3 DEF PrepareNextTurn, outerVars, loopVars
  <2>21. CASE StopAborted
    BY <2>21, <1>1, <1>2, SMTT(30)
    DEF StopAborted, At, Goto, outerVars, protocolVars, loopVars
  <2>22. CASE ShouldStopAfterTurn
    BY <2>22, <1>1, SMTT(30)
    DEF ShouldStopAfterTurn, At, Goto, outerVars, protocolVars, loopVars
  <2>23. CASE DoNotStop
    BY <2>23, <1>1, ZenonT(40) DEF DoNotStop, At, Goto, outerVars, protocolVars, loopVars
  <2>24. CASE PollSteering
    <3>1. Drained(steeringMode, steeringQueue) \in Seq(Queued)
          /\ Remaining(steeringMode, steeringQueue) \in Seq(Seq(Queued))
      BY DrainSplits
    <3>2. pending' \in Seq(Queued) /\ steeringQueue' \in Seq(Seq(Queued))
      BY <2>24, <3>1, EmptySeq DEF PollSteering, SteeringPoll
    <3> QED
      BY <2>24, <3>2, <1>1, SMTT(30) DEF PollSteering, Goto, When, outerVars
  <2>25. CASE PollFollowUp
    <3>1. Drained(followUpMode, followUpQueue) \in Seq(Queued)
          /\ Remaining(followUpMode, followUpQueue) \in Seq(Seq(Queued))
      BY DrainSplits
    <3> QED
      <4>1. out' = <<>> \/ out' = <<AgentEnd>>
        BY <2>25 DEF PollFollowUp, Goto
      <4>2. out' \in Seq(EventType)
        BY <4>1, <1>8
      <4> QED
        BY <2>25, <3>1, <4>2 DEF PollFollowUp
  <2> QED
    BY <2>1, <2>2, <2>3, <2>4, <2>5, <2>6, <2>7, <2>8, <2>9, <2>10, <2>11, <2>12,
       <2>13, <2>14, <2>15, <2>16, <2>17, <2>18, <2>19, <2>20, <2>21, <2>22,
       <2>23, <2>24, <2>25, ZenonT(40)
    DEF LoopStep
<1>5. UNCHANGED <<messages, delivered, queued, cleared>>
  BY LoopFrame DEF inputVars
<1>6. Queued' = Queued /\ MessageIds' = MessageIds /\ EventType' = EventType
  BY <1>5, SameNumbers
<1>7. TurnType' = TurnType
  BY DEF TurnType
<1> QED
  BY <1>4, <1>5, <1>6, <1>7

(* processEvents keeps the types of what it changes. *)
LEMMA ReduceTyped ==
  ASSUME ScalarsOK, DataOK, out # <<>>, Reduce(Head(out))
  PROVE  /\ Head(out) \in EventType /\ Tail(out) \in Seq(EventType)
         /\ messages' \in Seq(MessageIds) /\ delivered' \in Seq(Queued)
         /\ openTurns' \in Int /\ agentEnds' \in Nat
         /\ Head(out).push => Head(out).msg \in MessageIds
<1> DEFINE e == Head(out)
<1>1. e \in EventType /\ Tail(out) \in Seq(EventType)
  BY HeadTail DEF DataOK
<1>2. /\ e.type = "message" => e.msg \in MessageIds
      /\ e.type # "message" => e.msg = 0 /\ e.push = FALSE
  BY <1>1, EventShape
<1>3. Len(queued) \in Nat
  BY SMTT(30) DEF DataOK
<1>4. e.msg > 0 => e.msg \in Queued
  BY <1>2, <1>3, MessageNumbers, SMTT(30)
<1>5. Reduce(e)
  OBVIOUS
<1> HIDE DEF e
<1>6. messages' \in Seq(MessageIds) /\ delivered' \in Seq(Queued)
  BY <1>2, <1>4, <1>5, SMTT(30) DEF Reduce, DataOK
<1>7. openTurns' \in Int /\ agentEnds' \in Nat
  BY <1>5, SMTT(30) DEF Reduce, ScalarsOK
<1> QED
  BY <1>1, <1>2, <1>6, <1>7 DEF e

(* The step of an emit keeps the types. *)
LEMMA EmitTyped ==
  ASSUME ScalarsOK, DataOK, EmitNext
  PROVE  ScalarsOK' /\ DataOK'
<1>1. /\ out # <<>> /\ Reduce(Head(out)) /\ out' = Tail(out)
      /\ newMessages' = IF Head(out).push THEN Append(newMessages, Head(out).msg)
                        ELSE newMessages
      /\ UNCHANGED <<agentVars, queueVars, pc, protocolVars, loopVars, inputVars,
                     countVars, runVars, throws>>
  BY DEF EmitNext
<1>2. /\ Tail(out) \in Seq(EventType) /\ messages' \in Seq(MessageIds)
      /\ delivered' \in Seq(Queued) /\ openTurns' \in Int /\ agentEnds' \in Nat
      /\ Head(out).push => Head(out).msg \in MessageIds
  BY <1>1, ReduceTyped
<1>3. newMessages' \in Seq(MessageIds)
  BY <1>1, <1>2, SMTT(30) DEF DataOK
<1>4. Queued' = Queued /\ MessageIds' = MessageIds /\ EventType' = EventType
  BY <1>1, SameNumbers DEF inputVars
<1>5. ScalarsOK'
  BY <1>1, <1>2
  DEF ScalarsOK, agentVars, queueVars, protocolVars, loopVars, inputVars, countVars, runVars
<1>6. TurnType' = TurnType
  BY DEF TurnType
<1>7. DataOK'
  BY <1>1, <1>2, <1>3, <1>4, <1>6 DEF DataOK, queueVars, loopVars, inputVars
<1> QED
  BY <1>5, <1>7

(* The end of a run and handleRunFailure keep the types. *)
LEMMA EndTyped ==
  ASSUME ScalarsOK, DataOK, FinishRun \/ HandleRunFailure,
         messages' \in Seq(MessageIds), delivered' \in Seq(Queued), newMessages' = <<>>,
         openTurns' \in Int, agentEnds' \in Nat, throws' \in 0..MaxDisturbed
  PROVE  ScalarsOK' /\ DataOK'
<1>1. /\ UNCHANGED <<queueVars, completionMode, configMode, inputVars, countVars, runVars>>
      /\ activeRun' \in BOOLEAN /\ isStreaming' \in BOOLEAN /\ aborted' \in BOOLEAN
      /\ pc' \in Pcs /\ allowImplicit' \in BOOLEAN /\ firstTurn' \in BOOLEAN
      /\ skipPoll' \in BOOLEAN /\ more' \in BOOLEAN /\ pending' = <<>>
      /\ turn' \in {turn, NoTurn}
  BY ZenonT(40) DEF FinishRun, HandleRunFailure, agentVars, protocolVars, ScalarsOK, Pcs
<1>2. Queued' = Queued /\ MessageIds' = MessageIds /\ EventType' = EventType
  BY <1>1, SameNumbers DEF inputVars
<1>3. Len(queued) \in Nat
  BY SMTT(30) DEF DataOK
<1>4. /\ <<>> \in Seq(EventType) /\ <<>> \in Seq(MessageIds) /\ <<>> \in Seq(Queued)
      /\ <<Announce(Failure), TurnEnd, AgentEnd>> \in Seq(EventType)
  BY <1>3, MessageNumbers, EventsTyped, SMTT(30)
<1>5. out' \in {<<>>, <<Announce(Failure), TurnEnd, AgentEnd>>}
  BY DEF FinishRun, HandleRunFailure
<1>6. out' \in Seq(EventType) /\ turn' \in TurnType /\ TurnType' = TurnType
  BY <1>1, <1>4, <1>5, NoTurnTyped DEF DataOK, TurnType
<1>7. ScalarsOK'
  BY <1>1 DEF ScalarsOK, queueVars, inputVars, countVars, runVars
<1>8. DataOK'
  BY <1>1, <1>2, <1>4, <1>6 DEF DataOK, queueVars, inputVars
<1> QED
  BY <1>7, <1>8

(* A failing listener or hook keeps them, and so does the end of a run. *)
LEMMA FaultTyped ==
  ASSUME ScalarsOK, DataOK, Settle \/ Fault
  PROVE  ScalarsOK' /\ DataOK'
<1>0. throws + resets < MaxDisturbed => throws + 1 \in 0..MaxDisturbed
  BY LoopAssumption, SMTT(30) DEF ScalarsOK
<1>1. CASE Settle
  BY <1>1, EndTyped DEF Settle, ScalarsOK, DataOK
<1>2. ASSUME RunThrows, newMessages' = <<>>, messages' \in Seq(MessageIds),
             delivered' \in Seq(Queued), openTurns' \in Int, agentEnds' \in Nat
      PROVE  ScalarsOK' /\ DataOK'
  <2>1. (FinishRun \/ HandleRunFailure) /\ throws' \in 0..MaxDisturbed
    BY <1>0, <1>2 DEF RunThrows
  <2> QED
    BY <1>2, <2>1, EndTyped
<1>3. CASE ListenerThrows
  BY <1>2, <1>3, ReduceTyped DEF ListenerThrows
<1>4. CASE MessageStartThrows \/ HookThrows
  BY <1>2, <1>4 DEF MessageStartThrows, HookThrows, ScalarsOK, DataOK
<1> QED
  BY <1>1, <1>3, <1>4, ZenonT(40) DEF Fault

(* A run starts with messages of the agent. *)
LEMMA StartTyped ==
  ASSUME ScalarsOK, DataOK, NEW prompts \in Seq(MessageIds), NEW skip \in BOOLEAN,
         StartRun(prompts, skip), UNCHANGED <<steeringMode, followUpMode>>,
         steeringQueue' \in Seq(Seq(Queued)), followUpQueue' \in Seq(Seq(Queued))
  PROVE  ScalarsOK' /\ DataOK'
<1>1. /\ Queued' = Queued /\ MessageIds' = MessageIds /\ EventType' = EventType
      /\ TurnType' = TurnType
  BY SameNumbers DEF StartRun, inputVars, TurnType
<1>2. Len(messages) \in Nat
  BY SMTT(30) DEF DataOK
<1>3. ScalarsOK'
  <2>1. /\ openTurns' = 0 /\ agentEnds' = 0 /\ requests' = 0 /\ lateRequests' = 0
        /\ base' = Len(messages) /\ runs < MaxRuns /\ runs' = runs + 1
        /\ UNCHANGED <<throws, resets>>
    BY DEF StartRun, inputVars
  <2>2. /\ openTurns' \in Int /\ agentEnds' \in Nat /\ base' \in Nat
        /\ requests' \in Nat /\ lateRequests' \in Nat /\ runs' \in 0..MaxRuns
        /\ throws' \in 0..MaxDisturbed /\ resets' \in 0..MaxDisturbed
    <3>1. 0 \in Int /\ 0 \in Nat /\ MaxRuns \in Nat
      <4>1. 0 \in Int /\ 0 \in Nat
        BY SMTT(30)
      <4>2. MaxRuns \in Nat
        BY LoopAssumption
      <4> QED
        BY <4>1, <4>2
    <3>2. /\ runs \in 0..MaxRuns /\ throws \in 0..MaxDisturbed
          /\ resets \in 0..MaxDisturbed
      BY DEF ScalarsOK
    <3>3. runs + 1 \in 0..MaxRuns
      BY <2>1, <3>1, <3>2, SMTT(30)
    <3> QED
      BY <1>2, <2>1, <3>1, <3>2, <3>3
  <2>3. configMode' \in Modes /\ completionMode' \in Modes
    BY LoopAssumption DEF StartRun
  <2>4. pc' \in Pcs
    BY DEF StartRun, Pcs
  <2> QED
    BY <2>2, <2>3, <2>4 DEF StartRun, ScalarsOK
<1>4. <<AgentStart, TurnStart>> \in Seq(EventType) /\ Announcements(prompts) \in Seq(EventType)
  <2>1. AgentStart \in EventType /\ TurnStart \in EventType
    BY EventsTyped
  <2>2. Announcements(prompts) \in Seq(EventType)
    BY ListsTyped
  <2> QED
    BY <2>1, <2>2, SMTT(30)
<1>5. out' \in Seq(EventType)
  BY <1>4, ConcatParts DEF StartRun
<1>6. DataOK'
  BY <1>1, <1>5 DEF StartRun, DataOK, inputVars
<1> QED
  BY <1>3, <1>6

(* The ways to start a run: prompt, and continue in its three forms. *)
Starts == AgentPrompt \/ ContinueSteering \/ ContinueFollowUp \/ ContinueTranscript

(* They keep the types. *)
LEMMA StartsTyped ==
  ASSUME ScalarsOK, DataOK, Starts
  PROVE  ScalarsOK' /\ DataOK'
<1>0. Len(queued) \in Nat /\ Queued \subseteq MessageIds
  BY MessageNumbers, SMTT(30) DEF DataOK
<1>1. CASE AgentPrompt
  <2>1. <<Prompt>> \in Seq(MessageIds)
    BY <1>0, MessageNumbers, SMTT(30)
  <2> QED
    BY <1>1, <2>1, StartTyped DEF AgentPrompt, queueVars, DataOK
<1>2. CASE ContinueTranscript
  <2>1. <<>> \in Seq(MessageIds)
    BY SMTT(30)
  <2> QED
    BY <1>2, <2>1, StartTyped DEF ContinueTranscript, queueVars, DataOK
<1>3. CASE ContinueSteering
  <2>1. /\ Drained(steeringMode, steeringQueue) \in Seq(Queued)
        /\ Remaining(steeringMode, steeringQueue) \in Seq(Seq(Queued))
    BY DrainSplits DEF DataOK, ScalarsOK
  <2>2. Drained(steeringMode, steeringQueue) \in Seq(MessageIds)
    BY <1>0, <2>1, SeqMonotonic
  <2> QED
    BY <1>3, <2>1, <2>2, StartTyped DEF ContinueSteering, DataOK
<1>4. CASE ContinueFollowUp
  <2>1. /\ Drained(followUpMode, followUpQueue) \in Seq(Queued)
        /\ Remaining(followUpMode, followUpQueue) \in Seq(Seq(Queued))
    BY DrainSplits DEF DataOK, ScalarsOK
  <2>2. Drained(followUpMode, followUpQueue) \in Seq(MessageIds)
    BY <1>0, <2>1, SeqMonotonic
  <2> QED
    BY <1>4, <2>1, <2>2, StartTyped DEF ContinueFollowUp, DataOK
<1> QED
  BY <1>1, <1>2, <1>3, <1>4 DEF Starts

(* A run starts with messages the model knows as prompts, or with none. *)
LEMMA StartsWith ==
  ASSUME ScalarsOK, DataOK, Starts
  PROVE  \E prompts \in Seq(MessageIds), skip \in BOOLEAN : StartRun(prompts, skip)
<1>1. Len(queued) \in Nat /\ Queued \subseteq MessageIds
  BY MessageNumbers, SMTT(30) DEF DataOK
<1>2. /\ <<Prompt>> \in Seq(MessageIds) /\ <<>> \in Seq(MessageIds)
      /\ Drained(steeringMode, steeringQueue) \in Seq(Queued)
      /\ Drained(followUpMode, followUpQueue) \in Seq(Queued)
  <2>1. Prompt \in MessageIds
    BY <1>1, MessageNumbers
  <2>2. <<Prompt>> \in Seq(MessageIds) /\ <<>> \in Seq(MessageIds)
    BY <2>1, SMTT(30)
  <2>3. /\ steeringQueue \in Seq(Seq(Queued)) /\ steeringMode \in QueueModes
        /\ followUpQueue \in Seq(Seq(Queued)) /\ followUpMode \in QueueModes
    BY DEF DataOK, ScalarsOK
  <2>4. /\ Drained(steeringMode, steeringQueue) \in Seq(Queued)
        /\ Drained(followUpMode, followUpQueue) \in Seq(Queued)
    BY <2>3, DrainSplits
  <2> QED
    BY <2>2, <2>4
<1>3. /\ Drained(steeringMode, steeringQueue) \in Seq(MessageIds)
      /\ Drained(followUpMode, followUpQueue) \in Seq(MessageIds)
  BY <1>1, <1>2, SeqMonotonic
<1> QED
  BY <1>2, <1>3
  DEF Starts, AgentPrompt, ContinueSteering, ContinueFollowUp, ContinueTranscript

(* steer and followUp number their messages behind the earlier ones. *)
LEMMA EnqueueNumbers ==
  ASSUME DataOK, NEW k \in Nat, NEW kind \in {"steer", "followUp"}, Enqueue(k, kind)
  PROVE  /\ queued' \in Seq([kind : {"steer", "followUp"}, group : Nat])
         /\ Len(queued) \in Nat /\ Len(queued') = Len(queued) + k
         /\ \A m \in Queued : queued'[m] = queued[m]
         /\ \A m \in Queued' \ Queued : queued'[m] = [kind |-> kind, group |-> Len(queued)]
         /\ Queued \subseteq Queued' /\ MessageIds \subseteq MessageIds'
         /\ EventType \subseteq EventType'
         /\ NewGroup(k) \in Seq(Queued') /\ Len(NewGroup(k)) = k
         /\ \A i \in 1..k : NewGroup(k)[i] = Len(queued) + i
<1> DEFINE T == [kind : {"steer", "followUp"}, group : Nat]
           r == [kind |-> kind, group |-> Len(queued)]
           s == [i \in 1..k |-> r]
<1>1. queued \in Seq(T) /\ Len(queued) \in Nat
  BY SMTT(30) DEF DataOK
<1>2. r \in T
  BY <1>1
<1> HIDE DEF T, r
<1>3. s \in Seq(T) /\ Len(s) = k /\ \A i \in 1..k : s[i] = r
  BY <1>2, SMTT(30)
<1>4. queued' = queued \o s
  BY DEF Enqueue, r
<1> HIDE DEF s
<1>5. /\ queued' \in Seq(T) /\ Len(queued') = Len(queued) + k
      /\ \A i \in 1..Len(queued') :
           queued'[i] = IF i <= Len(queued) THEN queued[i] ELSE s[i - Len(queued)]
  BY <1>1, <1>3, <1>4, ConcatParts, ZenonT(40)
<1>6. \A m \in Queued : queued'[m] = queued[m]
  BY <1>1, <1>5, SMTT(30) DEF Queued
<1>7. \A m \in Queued' \ Queued : queued'[m] = r
  BY <1>1, <1>3, <1>5, SMTT(30) DEF Queued
<1>8. Queued \subseteq Queued'
  BY <1>1, <1>5, SMTT(30) DEF Queued
<1>9. MessageIds \subseteq MessageIds'
  BY <1>8 DEF MessageIds
<1>10. EventType \subseteq EventType'
  BY <1>9 DEF EventType
<1>11. \A i \in 1..k : Len(queued) + i \in Queued'
  BY <1>1, <1>5, SMTT(30) DEF Queued
<1>12. NewGroup(k) \in Seq(Queued') /\ Len(NewGroup(k)) = k
       /\ \A i \in 1..k : NewGroup(k)[i] = Len(queued) + i
  <2> DEFINE n == Len(queued)
             Q == Queued'
  <2>1. \A i \in 1..k : n + i \in Q
    BY <1>11
  <2> HIDE DEF n, Q
  <2>2. [i \in 1..k |-> n + i] \in Seq(Q) /\ Len([i \in 1..k |-> n + i]) = k
    BY <2>1, SMTT(30)
  <2> QED
    BY <2>2 DEF NewGroup, n, Q
<1> QED
  BY <1>1, <1>5, <1>6, <1>7, <1>8, <1>9, <1>10, <1>12, ZenonT(40) DEF T, r

(* A step of the agent that only queues messages, and what it leaves alone. *)
Enqueued(k, kind) ==
  /\ Enqueue(k, kind)
  /\ steeringQueue' = IF kind = "steer" THEN enqueueGroup(steeringQueue, NewGroup(k))
                      ELSE steeringQueue
  /\ followUpQueue' = IF kind = "steer" THEN followUpQueue
                      ELSE enqueueGroup(followUpQueue, NewGroup(k))
  /\ UNCHANGED <<agentVars, steeringMode, followUpMode, pc, out, protocolVars, loopVars,
                 eventVars, cleared, resets, countVars, runVars, throws>>

(* Both are of this form. *)
LEMMA Enqueues ==
  ASSUME NEW k, Steer(k) \/ FollowUp(k)
  PROVE  Enqueued(k, "steer") \/ Enqueued(k, "followUp")
BY DEF Steer, FollowUp, Enqueued

(* steer and followUp keep the types. *)
LEMMA EnqueueTyped ==
  ASSUME ScalarsOK, DataOK, NEW k \in Nat, NEW kind \in {"steer", "followUp"},
         Enqueued(k, kind)
  PROVE  ScalarsOK' /\ DataOK'
<1>1. /\ queued' \in Seq([kind : {"steer", "followUp"}, group : Nat])
      /\ Queued \subseteq Queued' /\ MessageIds \subseteq MessageIds'
      /\ EventType \subseteq EventType' /\ NewGroup(k) \in Seq(Queued')
  BY EnqueueNumbers DEF Enqueued
<1>2. ScalarsOK'
  BY DEF Enqueued, ScalarsOK, agentVars, protocolVars, loopVars, eventVars, countVars, runVars
<1>3. /\ Seq(Queued) \subseteq Seq(Queued') /\ Seq(MessageIds) \subseteq Seq(MessageIds')
      /\ Seq(EventType) \subseteq Seq(EventType')
  BY <1>1, SeqMonotonic
<1>4. Seq(Seq(Queued)) \subseteq Seq(Seq(Queued'))
  BY <1>3, SeqMonotonic
<1>5. steeringQueue \in Seq(Seq(Queued')) /\ followUpQueue \in Seq(Seq(Queued'))
  BY <1>4 DEF DataOK
<1>6. /\ enqueueGroup(steeringQueue, NewGroup(k)) \in Seq(Seq(Queued'))
      /\ enqueueGroup(followUpQueue, NewGroup(k)) \in Seq(Seq(Queued'))
  BY <1>1, <1>5, EnqueueAppends
<1>7. steeringQueue' \in Seq(Seq(Queued')) /\ followUpQueue' \in Seq(Seq(Queued'))
  BY <1>5, <1>6 DEF Enqueued
<1>8. TurnType' = TurnType
  BY DEF TurnType
<1>9. UNCHANGED <<messages, newMessages, out, pending, turn, delivered, cleared>>
  BY DEF Enqueued, loopVars, eventVars
<1>10. DataOK'
  BY <1>1, <1>3, <1>7, <1>8, <1>9, ZenonT(40) DEF DataOK
<1> QED
  BY <1>2, <1>10

(* The messages of a queue are queued ones. *)
LEMMA IdsQueued ==
  ASSUME NEW S, NEW q \in Seq(Seq(S))
  PROVE  Ids(q) \subseteq S
<1>1. Flat(q) \in Seq(S)
  BY FlattenType
<1> QED
  BY <1>1, SMTT(30) DEF Ids, Range

(* Calls that queue nothing and start no run. *)
Quiet == \/ SetQueueModes \/ Abort \/ ClearSteeringQueue \/ ClearFollowUpQueue
         \/ ClearAllQueues \/ Reset

(* What they leave alone, and what they may do to the rest. *)
LEMMA QuietFrame ==
  ASSUME DataOK, Quiet
  PROVE  /\ UNCHANGED <<activeRun, pc, out, protocolVars, loopVars, newMessages, delivered,
                        openTurns, agentEnds, queued, countVars, runVars, throws>>
         /\ messages' = messages \/ (messages' = <<>> /\ resets' = resets + 1)
         /\ steeringQueue' = steeringQueue \/ steeringQueue' = <<>>
         /\ followUpQueue' = followUpQueue \/ followUpQueue' = <<>>
         /\ \/ resets' = resets
            \/ throws + resets < MaxDisturbed /\ resets' = resets + 1
         /\ cleared' = cleared
              \cup (IF steeringQueue' = steeringQueue THEN {} ELSE Ids(steeringQueue))
              \cup (IF followUpQueue' = followUpQueue THEN {} ELSE Ids(followUpQueue))
<1>0. Ids(<<>>) = {}
  BY FlattenEmpty, SMTT(30) DEF Ids, Range
<1>1. CASE SetQueueModes \/ Abort
  BY <1>1 DEF SetQueueModes, Abort, queueVars, inputVars, eventVars, agentVars
<1>2. CASE ClearSteeringQueue
  BY <1>0, <1>2 DEF ClearSteeringQueue, eventVars, agentVars
<1>3. CASE ClearFollowUpQueue
  BY <1>0, <1>3 DEF ClearFollowUpQueue, eventVars, agentVars
<1>4. CASE ClearAllQueues
  BY <1>0, <1>4 DEF ClearAllQueues, eventVars, agentVars
<1>5. CASE Reset
  BY <1>0, <1>5 DEF Reset, eventVars, agentVars
<1> QED
  BY <1>1, <1>2, <1>3, <1>4, <1>5 DEF Quiet

(* They keep the types. *)
LEMMA QuietTyped ==
  ASSUME ScalarsOK, DataOK, Quiet
  PROVE  ScalarsOK' /\ DataOK'
<1>1. /\ UNCHANGED <<activeRun, pc, out, protocolVars, loopVars, newMessages, delivered,
                     openTurns, agentEnds, queued, countVars, runVars, throws>>
      /\ messages' = messages \/ messages' = <<>>
      /\ steeringQueue' = steeringQueue \/ steeringQueue' = <<>>
      /\ followUpQueue' = followUpQueue \/ followUpQueue' = <<>>
      /\ resets' = resets \/ (throws + resets < MaxDisturbed /\ resets' = resets + 1)
      /\ cleared' \subseteq cleared \cup Ids(steeringQueue) \cup Ids(followUpQueue)
  BY QuietFrame
<1>2. Ids(steeringQueue) \subseteq Queued /\ Ids(followUpQueue) \subseteq Queued
  BY IdsQueued DEF DataOK
<1>3. resets' \in 0..MaxDisturbed
  <2>1. resets' = resets \/ (throws + resets < MaxDisturbed /\ resets' = resets + 1)
    BY <1>1
  <2>2. resets \in 0..MaxDisturbed /\ throws \in 0..MaxDisturbed /\ MaxDisturbed \in Nat
    BY LoopAssumption DEF ScalarsOK
  <2> QED
    BY <2>1, <2>2, SMTT(30)
<1>4. /\ isStreaming' \in BOOLEAN /\ aborted' \in BOOLEAN
      /\ steeringMode' \in QueueModes /\ followUpMode' \in QueueModes
  BY LoopAssumption
  DEF ScalarsOK, Quiet, SetQueueModes, Abort, ClearSteeringQueue, ClearFollowUpQueue,
      ClearAllQueues, Reset, agentVars, queueVars
<1>5. ScalarsOK'
  BY <1>1, <1>3, <1>4 DEF ScalarsOK, protocolVars, loopVars, countVars, runVars
<1>6. /\ Queued' = Queued /\ MessageIds' = MessageIds /\ EventType' = EventType
      /\ TurnType' = TurnType
  BY <1>1, SameNumbers DEF TurnType
<1>7. /\ <<>> \in Seq(MessageIds) /\ <<>> \in Seq(Seq(Queued))
  BY SMTT(30)
<1>8. cleared' \subseteq Queued
  BY <1>1, <1>2 DEF DataOK
<1>9. DataOK'
  BY <1>1, <1>6, <1>7, <1>8 DEF DataOK, loopVars
<1> QED
  BY <1>5, <1>9

(* Every step is one of runLoop, an emit, the end of a run, a failure, the start
   of a run, a call of steer or followUp, or another call from outside. *)
LEMMA StepKinds ==
  ASSUME [Next]_vars
  PROVE  \/ LoopStep \/ EmitNext \/ Settle \/ Fault \/ Starts \/ Quiet
         \/ (\E k \in GroupSizes : Enqueued(k, "steer") \/ Enqueued(k, "followUp"))
         \/ UNCHANGED vars
BY Enqueues DEF Next, RunStep, Outside, Starts, Quiet

(* The types are kept by every step ... *)
LEMMA TypesStep ==
  ASSUME ScalarsOK, DataOK, [Next]_vars
  PROVE  ScalarsOK' /\ DataOK'
<1>1. ASSUME NEW k \in GroupSizes, Enqueued(k, "steer") \/ Enqueued(k, "followUp")
      PROVE  ScalarsOK' /\ DataOK'
  <2>1. k \in Nat
    BY LoopAssumption
  <2> QED
    BY <1>1, <2>1, EnqueueTyped
<1>2. CASE UNCHANGED vars
  <2>1. Queued' = Queued /\ MessageIds' = MessageIds /\ EventType' = EventType
    BY <1>2, SameNumbers DEF vars, inputVars
  <2>2. TurnType' = TurnType
    BY DEF TurnType
  <2> QED
    BY <1>2, <2>1, <2>2, ZenonT(40)
    DEF ScalarsOK, DataOK, vars, agentVars, queueVars, protocolVars, loopVars, eventVars,
        inputVars, countVars, runVars
<1> QED
  BY <1>1, <1>2, StepKinds, LoopScalars, LoopData, EmitTyped, FaultTyped, StartsTyped,
     QuietTyped, ZenonT(40)

(* ... and hold at the start. *)
LEMMA TypesInit ==
  ASSUME Init
  PROVE  ScalarsOK /\ DataOK
<1>1. ScalarsOK
  <2>1. /\ openTurns \in Int /\ agentEnds \in Nat /\ base \in Nat
        /\ requests \in Nat /\ lateRequests \in Nat /\ runs \in 0..MaxRuns
        /\ throws \in 0..MaxDisturbed /\ resets \in 0..MaxDisturbed
    BY LoopAssumption, SMTT(30) DEF Init
  <2>2. /\ steeringMode \in QueueModes /\ followUpMode \in QueueModes
        /\ configMode \in Modes /\ completionMode \in Modes
    BY LoopAssumption DEF Init
  <2>3. pc \in Pcs
    BY DEF Init, Pcs
  <2> QED
    BY <2>1, <2>2, <2>3, ZenonT(40) DEF Init, ScalarsOK
<1>2. DataOK
  BY NoTurnTyped, SMTT(30) DEF Init, DataOK
<1> QED
  BY <1>1, <1>2

(* The variables of Agent and runLoop keep their types: counters stay natural
   numbers, the queues and the transcript hold messages that were passed to the
   agent or made by it, and no event carries a message it should not. *)
THEOREM TypeCorrect == Spec => []TypeOK
<1>1. Init => ActiveInv /\ LimitsInv /\ ScalarsOK /\ DataOK
  BY FreshCounters, TypesInit DEF Init, ActiveInv, LimitsInv, LimitsHold
<1>2. ActiveInv /\ LimitsInv /\ ScalarsOK /\ DataOK /\ [Next]_vars =>
        (ActiveInv /\ LimitsInv /\ ScalarsOK /\ DataOK)'
  BY ActiveInvStep, LimitsInvStep, TypesStep
<1>3. LimitsInv /\ ScalarsOK /\ DataOK => TypeOK
  BY DEF LimitsInv, ScalarsOK, DataOK, TypeOK, AgentTypeOK, LoopTypeOK, HistoryTypeOK
<1> QED
  BY <1>1, <1>2, <1>3, PTL DEF Spec

-----------------------------------------------------------------------------
(* What the transcript ends with. *)

(* What the agent said, or the results of its tools. *)
Answered(m) == IsAssistant(m) \/ m = ToolResult

(* The transcript ms ends with it; the events s bring no message any more; the
   last message they bring is such a one. *)
Spoken(ms) == ms # <<>> /\ Answered(ms[Len(ms)])
Still(s) == \A i \in DOMAIN s : s[i].type # "message"
Closing(s) == \E i \in DOMAIN s : /\ s[i].type = "message" /\ Answered(s[i].msg)
                                  /\ \A j \in DOMAIN s : j > i => s[j].type # "message"

(* A turn is continued only after a response cut short, whose tool calls were not
   executed: it has no batch that could end the run. *)
CutInv ==
  /\ turn.continues \/ turn.repair = "repetitive" => turn.resp.stop = "length"
  /\ turn.resp.stop = "length" => ~turn.batch.terminate /\ ~turn.batch.finishOk
  /\ pc = "execute" => turn.resp.stop # "length"

(* At point p, with events s to emit and transcript ms, no message will be left
   unanswered if the run ends; or, past the point where the response is judged,
   another turn is due (continues, goesOn).  A turn with a successful finish_work
   (finish) adds nothing to the transcript. *)
Answers(p, s, ms, continues, goesOn, finish) ==
  LET done == Spoken(ms) /\ Still(s) IN
    /\ p # "failing"
    /\ p = "idle" => s = <<>> /\ (ms = <<>> \/ Spoken(ms))
    /\ p \in {"execute", "length", "pollFollowUp"} => done
    /\ p = "received" => s = <<Announce(Assistant)>> \/ done
    /\ p = "executed" => s = <<Announce(ToolResult)>> \/ done
    /\ p = "terminate" => continues \/ done
    /\ p \in {"protocol", "prepare", "stop", "pollSteering"} => goesOn \/ done
    /\ p = "protocol" /\ finish => done
    /\ p = "ended" => Closing(s) \/ done

(* Nothing failed, was cleared or interfered with the end of a turn. *)
Undisturbed == throws = 0 /\ resets = 0 /\ StopAnswers = {FALSE} /\ Appends = {0}

AnswerInv ==
  Undisturbed => Answers(pc, out, messages, turn.continues, more, turn.batch.finishOk)

(* Only a response with a repetitive output is repaired as one. *)
LEMMA RepetitiveIsCut ==
  ASSUME NEW r \in Response, NEW mode, RepairBeforeExecution(mode, r) = "repetitive"
  PROVE  r.stop = "length"
<1>1. detectCompletionProtocolRepair(r, TRUE) = "repetitive"
  BY DEF RepairBeforeExecution
<1>2. CASE ~r.repetitive
  BY <1>1, <1>2 DEF detectCompletionProtocolRepair
<1>3. CASE r.repetitive
  BY <1>3 DEF Response
<1> QED
  BY <1>2, <1>3

(* The steps of runLoop keep CutInv, *)
LEMMA LoopCut ==
  ASSUME DataOK, CutInv, LoopStep
  PROVE  CutInv'
<1>1. ASSUME turn' = turn, pc' # "execute" PROVE CutInv'
  BY <1>1 DEF CutInv
<1>2. CASE \E r \in Responses : Respond(r)
  <2>1. PICK r \in Responses : Respond(r)
    BY <1>2
  <2>2. pc' = "received" /\ turn' = [NoTurn EXCEPT !.resp = r]
    BY <2>1 DEF Respond, Goto
  <2>3. /\ ~turn'.continues /\ turn'.repair = "none"
        /\ ~turn'.batch.terminate /\ ~turn'.batch.finishOk
    BY <2>2 DEF NoTurn, NoBatch
  <2> QED
    BY <2>2, <2>3 DEF CutInv
<1>3. CASE Receive
  <2> DEFINE repair == RepairBeforeExecution(completionMode, turn.resp)
  <2>1. /\ \E implicit : turn' = [turn EXCEPT !.repair = repair, !.implicit = implicit]
        /\ pc' = "execute" => Executable(turn.resp, repair)
    BY <1>3 DEF Receive, Goto
  <2>2. turn \in TurnType
    BY DEF DataOK
  <2> HIDE DEF repair
  <2>3. /\ turn'.repair = repair /\ turn'.resp = turn.resp /\ turn'.batch = turn.batch
        /\ turn'.continues = turn.continues
    BY <2>1, <2>2 DEF TurnType
  <2>4. turn.resp \in Response
    BY <2>2 DEF TurnType
  <2>5. repair = "repetitive" => turn.resp.stop = "length"
    BY <2>4, RepetitiveIsCut DEF repair
  <2>6. pc' = "execute" => turn.resp.stop # "length"
    BY <2>1 DEF Executable
  <2> QED
    BY <2>3, <2>5, <2>6 DEF CutInv
<1>4. CASE ExecuteTools
  <2>1. /\ pc = "execute" /\ pc' = "executed" /\ \E b : turn' = [turn EXCEPT !.batch = b]
    BY <1>4 DEF ExecuteTools, At, Goto
  <2>2. turn \in TurnType
    BY DEF DataOK
  <2>3. /\ turn'.repair = turn.repair /\ turn'.resp = turn.resp
        /\ turn'.continues = turn.continues
    BY <2>1, <2>2 DEF TurnType
  <2>4. pc' # "execute"
    BY <2>1
  <2> QED
    BY <2>1, <2>3, <2>4 DEF CutInv
<1>5. CASE RepetitiveOutput \/ ContinueAfterLength
  <2>1. /\ turn.repair = "repetitive" \/ turn.resp.stop = "length"
        /\ pc' \in {"terminate", "ended"}
        /\ turn' = turn \/ turn' = [turn EXCEPT !.continues = TRUE]
    BY <1>5 DEF RepetitiveOutput, ContinueAfterLength, Goto, ProtocolFailure
  <2>2. turn \in TurnType
    BY DEF DataOK
  <2>3. turn'.repair = turn.repair /\ turn'.resp = turn.resp /\ turn'.batch = turn.batch
    BY <2>1, <2>2 DEF TurnType
  <2>4. turn.resp.stop = "length"
    BY <2>1 DEF CutInv
  <2>5. pc' # "execute"
    BY <2>1
  <2> QED
    BY <2>3, <2>4, <2>5 DEF CutInv
<1>6. CASE \/ PollInitial \/ BeginTurn \/ ResolveMode \/ StopAtMaxTurns \/ PrepareRequest
           \/ Request \/ ReceiveFailure \/ RecordResults \/ NoLengthContinuation
  <2>1. turn' = turn
    BY <1>6 DEF PollInitial, BeginTurn, ResolveMode, StopAtMaxTurns, PrepareRequest,
        Request, ReceiveFailure, RecordResults, NoLengthContinuation, loopVars
  <2>2. pc' \in {"loop", "mode", "limit", "request", "stream", "ended", "length",
                 "terminate"}
    BY <1>6 DEF PollInitial, BeginTurn, ResolveMode, StopAtMaxTurns, PrepareRequest,
        Request, ReceiveFailure, RecordResults, NoLengthContinuation, Goto,
        ProtocolFailure
  <2>3. pc' # "execute"
    BY <2>2
  <2> QED
    BY <1>1, <2>1, <2>3
<1>7. CASE \/ TerminateRun \/ RecordWaitingTurn \/ NotJudged \/ FinishWork \/ JudgeTurn
           \/ PrepareNextTurn \/ StopAborted \/ ShouldStopAfterTurn \/ DoNotStop
           \/ PollSteering \/ PollFollowUp
  <2>1. turn' = turn
    BY <1>7 DEF TerminateRun, RecordWaitingTurn, NotJudged, FinishWork, JudgeTurn,
        PrepareNextTurn, StopAborted, ShouldStopAfterTurn, DoNotStop, PollSteering,
        PollFollowUp, loopVars
  <2>2. pc' \in {"ended", "protocol", "prepare", "stop", "pollSteering", "loop",
                 "pollFollowUp"}
    BY <1>7 DEF TerminateRun, RecordWaitingTurn, NotJudged, FinishWork, JudgeTurn,
        PrepareNextTurn, StopAborted, ShouldStopAfterTurn, DoNotStop, PollSteering,
        PollFollowUp, Goto, ProtocolFailure
  <2>3. pc' # "execute"
    BY <2>2
  <2> QED
    BY <1>1, <2>1, <2>3
<1> QED
  BY <1>2, <1>3, <1>4, <1>5, <1>6, <1>7 DEF LoopStep

(* and so does every other step. *)
LEMMA CutInvStep ==
  ASSUME DataOK, CutInv, [Next]_vars
  PROVE  CutInv'
<1>1. CASE Settle \/ Fault
  <2>1. pc' \in {"idle", "failing"} /\ (turn' = turn \/ turn' = NoTurn)
    BY <1>1 DEF Settle, Fault, ListenerThrows, MessageStartThrows, HookThrows, RunThrows,
        FinishRun, HandleRunFailure
  <2>2. pc' # "execute"
    BY <2>1
  <2>3. /\ ~NoTurn.continues /\ NoTurn.repair # "repetitive"
        /\ ~NoTurn.batch.terminate /\ ~NoTurn.batch.finishOk
    BY DEF NoTurn, NoBatch
  <2> QED
    BY <2>1, <2>2, <2>3 DEF CutInv
<1>2. CASE Starts
  <2>1. pc' = "poll" /\ turn' = turn
    BY <1>2
    DEF Starts, AgentPrompt, ContinueSteering, ContinueFollowUp, ContinueTranscript, StartRun
  <2>2. pc' # "execute"
    BY <2>1
  <2> QED
    BY <2>1, <2>2 DEF CutInv
<1>3. ASSUME UNCHANGED <<pc, turn>> PROVE CutInv'
  BY <1>3 DEF CutInv
<1>4. CASE Quiet
  BY <1>3, <1>4, QuietFrame DEF loopVars
<1>5. ASSUME NEW k, NEW kind, Enqueued(k, kind) PROVE CutInv'
  BY <1>3, <1>5 DEF Enqueued, loopVars
<1>6. CASE EmitNext \/ UNCHANGED vars
  BY <1>3, <1>6 DEF EmitNext, vars, loopVars
<1> QED
  BY <1>1, <1>2, <1>4, <1>5, <1>6, StepKinds, LoopCut

(* Two events one after the other. *)
LEMMA PairParts ==
  ASSUME NEW a, NEW b
  PROVE  DOMAIN (<<a>> \o <<b>>) = 1..2 /\ (<<a>> \o <<b>>)[1] = a /\ (<<a>> \o <<b>>)[2] = b
<1> DEFINE S == {a, b}
           s == <<a>>
           t == <<b>>
<1>1. s \in Seq(S) /\ t \in Seq(S) /\ Len(s) = 1 /\ Len(t) = 1 /\ s[1] = a /\ t[1] = b
  BY SMTT(30)
<1> HIDE DEF S, s, t
<1>2. s \o t \in Seq(S) /\ Len(s \o t) = 2 /\ (s \o t)[1] = s[1] /\ (s \o t)[2] = t[1]
  <2>1. /\ s \o t \in Seq(S) /\ Len(s \o t) = 1 + 1
        /\ \A i \in 1..(1 + 1) : (s \o t)[i] = IF i <= 1 THEN s[i] ELSE t[i - 1]
    BY <1>1, ConcatParts, SMTT(30)
  <2> QED
    BY <2>1, SMTT(30)
<1>3. DOMAIN (s \o t) = 1..2
  BY <1>2, SMTT(30)
<1> QED
  BY <1>1, <1>2, <1>3 DEF s, t

(* The events of the loop that are no messages. *)
LEMMA StillEvents ==
  /\ Still(<<>>) /\ Still(<<TurnEnd>>) /\ Still(<<AgentEnd>>)
  /\ Still(<<TurnEnd, AgentEnd>>) /\ Still(<<Protocol, AgentEnd>>)
<1>1. /\ TurnEnd.type # "message" /\ AgentEnd.type # "message"
      /\ Protocol.type # "message"
  BY DEF TurnEnd, AgentEnd, Protocol, Event
<1> QED
  BY <1>1, SMTT(30) DEF Still

(* emitProtocolFailure and emitAbortedTurn end the run with a message of the
   agent. *)
LEMMA EndsAnswered ==
  /\ ProtocolFailure(TRUE) \/ ProtocolFailure(FALSE) => pc' = "ended" /\ Closing(out')
  /\ StopAborted => pc' = "ended" /\ Closing(out')
<1>1. /\ TurnEnd.type # "message" /\ AgentEnd.type # "message"
      /\ Message(Terminal).type = "message" /\ Message(Terminal).msg = Terminal
      /\ Announce(Terminal).type = "message" /\ Announce(Terminal).msg = Terminal
  BY DEF TurnEnd, AgentEnd, Event, Announce, Message
<1>2. Answered(Terminal)
  BY DEF Answered, IsAssistant
<1>3. ASSUME NEW started \in BOOLEAN, ProtocolFailure(started)
      PROVE  pc' = "ended" /\ Closing(out')
  <2> DEFINE s == <<Protocol>> \o When(~started, <<TurnStart>>)
             r == <<Message(Terminal), TurnEnd, AgentEnd>>
             n == Len(s)
  <2>1. pc' = "ended" /\ out' = s \o r
    BY <1>3 DEF ProtocolFailure, Goto
  <2>2. DOMAIN (s \o r) = 1..(n + 3) /\ n \in Nat
        /\ (s \o r)[n + 1] = Message(Terminal) /\ (s \o r)[n + 2] = TurnEnd
        /\ (s \o r)[n + 3] = AgentEnd
    BY SMTT(30) DEF When
  <2> HIDE DEF s, r, n
  <2>3. ASSUME NEW j \in DOMAIN out', j > n + 1 PROVE out'[j].type # "message"
    <3>1. j = n + 2 \/ j = n + 3
      BY <2>1, <2>2, <2>3, SMTT(30)
    <3> QED
      BY <1>1, <2>1, <2>2, <3>1, ZenonT(40)
  <2>4. n + 1 \in DOMAIN out' /\ out'[n + 1] = Message(Terminal)
    BY <2>1, <2>2, SMTT(30)
  <2> QED
    BY <1>1, <1>2, <2>1, <2>3, <2>4 DEF Closing
<1>4. ASSUME StopAborted PROVE pc' = "ended" /\ Closing(out')
  <2>1. pc' = "ended" /\ out' = <<TurnStart, Announce(Terminal), TurnEnd, AgentEnd>>
    BY <1>4 DEF StopAborted, Goto
  <2>2. /\ DOMAIN out' = 1..4 /\ out'[2] = Announce(Terminal)
        /\ out'[3] = TurnEnd /\ out'[4] = AgentEnd
    BY <2>1, SMTT(30)
  <2>3. ASSUME NEW j \in DOMAIN out', j > 2 PROVE out'[j].type # "message"
    <3>1. j = 3 \/ j = 4
      BY <2>2, <2>3, SMTT(30)
    <3> QED
      BY <1>1, <2>2, <3>1
  <2>4. 2 \in DOMAIN out'
    BY <2>2, SMTT(30)
  <2> QED
    BY <1>1, <1>2, <2>1, <2>2, <2>3, <2>4, ZenonT(40) DEF Closing
<1> QED
  BY <1>3, <1>4

(* A turn with a successful finish_work made progress, so that no warning about
   waiting is written after it. *)
LEMMA FinishWarnsNot ==
  ASSUME DataOK, st \in Counters, MaxWaiting > 0, turn.batch.finishOk
  PROVE  ~WarnsWaiting(CountWaitingTurn(st, turn.batch.madeProgress, turn.batch.waiting))
<1>1. turn.batch \in Batch
  BY DEF DataOK, TurnType
<1>2. turn.batch.madeProgress
  BY <1>1 DEF Batch
<1>3. [st EXCEPT !.waiting = 0].waiting = 0
  BY DEF Counters
<1> QED
  BY <1>2, <1>3, LimitsAssumption, SMTT(30) DEF CountWaitingTurn, WarnsWaiting

(* The steps of runLoop keep AnswerInv, *)
LEMMA LoopAnswer ==
  ASSUME MaxWaiting > 0, ScalarsOK, DataOK, st \in Counters, CutInv, AnswerInv, LoopStep
  PROVE  AnswerInv'
<1>1. out = <<>> /\ messages' = messages /\ throws' = throws /\ resets' = resets
  BY LoopFrame DEF inputVars
<1> SUFFICES ASSUME Undisturbed
             PROVE  Answers(pc', out', messages', turn'.continues, more', turn'.batch.finishOk)
  BY <1>1 DEF AnswerInv, Undisturbed
<1> DEFINE goal == Answers(pc', out', messages', turn'.continues, more', turn'.batch.finishOk)
           done == Spoken(messages)
<1> SUFFICES goal
  OBVIOUS
<1>2. Still(out) /\ ~Closing(out) /\ out # <<Announce(Assistant)>> /\ out # <<Announce(ToolResult)>>
  BY <1>1, SMTT(30) DEF Still, Closing
<1>3. /\ pc \in {"execute", "length", "pollFollowUp", "received", "executed"} => done
      /\ pc = "terminate" => turn.continues \/ done
      /\ pc \in {"protocol", "prepare", "stop", "pollSteering"} => more \/ done
      /\ pc = "protocol" /\ turn.batch.finishOk => done
      /\ pc = "ended" => done
  <2>1. Answers(pc, out, messages, turn.continues, more, turn.batch.finishOk)
    BY DEF AnswerInv
  <2>2. pc \in {"execute", "length", "pollFollowUp", "received", "executed"}
          => pc \in {"execute", "length", "pollFollowUp"} \/ pc = "received" \/ pc = "executed"
    OBVIOUS
  <2> QED
    BY <1>2, <2>1, <2>2 DEF Answers
<1> HIDE DEF done
<1>4. ASSUME pc' \in {"loop", "mode", "limit", "request", "stream"} PROVE goal
  <2>1. /\ pc' # "failing" /\ pc' # "idle" /\ pc' # "received" /\ pc' # "executed"
        /\ pc' # "terminate" /\ pc' # "protocol" /\ pc' # "ended"
        /\ pc' \notin {"execute", "length", "pollFollowUp"}
        /\ pc' \notin {"protocol", "prepare", "stop", "pollSteering"}
    BY <1>4
  <2> QED
    BY <2>1 DEF Answers
<1>5. ASSUME done, Still(out'), pc' \notin {"failing", "idle"} PROVE goal
  <2>1. pc' # "failing" /\ pc' # "idle"
    BY <1>5
  <2> QED
    BY <1>1, <1>5, <2>1 DEF Answers, done
<1>6. ASSUME pc' = "ended", Closing(out') PROVE goal
  <2>1. /\ pc' # "failing" /\ pc' # "idle" /\ pc' # "received" /\ pc' # "executed"
        /\ pc' # "terminate" /\ pc' # "protocol"
        /\ pc' \notin {"execute", "length", "pollFollowUp"}
        /\ pc' \notin {"protocol", "prepare", "stop", "pollSteering"}
    BY <1>6
  <2> QED
    BY <1>6, <2>1 DEF Answers
<1>7. ASSUME pc' \in {"prepare", "stop", "pollSteering"}, more' \/ done, more' \/ Still(out')
      PROVE  goal
  <2>1. /\ pc' # "failing" /\ pc' # "idle" /\ pc' # "received" /\ pc' # "executed"
        /\ pc' # "terminate" /\ pc' # "protocol" /\ pc' # "ended"
        /\ pc' \notin {"execute", "length", "pollFollowUp"}
    BY <1>7
  <2> QED
    BY <1>1, <1>7, <2>1 DEF Answers, done
<1>8. ASSUME pc' = "terminate", turn'.continues PROVE goal
  <2>1. /\ pc' # "failing" /\ pc' # "idle" /\ pc' # "received" /\ pc' # "executed"
        /\ pc' # "protocol" /\ pc' # "ended"
        /\ pc' \notin {"execute", "length", "pollFollowUp"}
        /\ pc' \notin {"protocol", "prepare", "stop", "pollSteering"}
    BY <1>8
  <2> QED
    BY <1>8, <2>1 DEF Answers
<1>9. CASE PollInitial \/ BeginTurn \/ ResolveMode \/ PrepareRequest \/ Request
  <2>1. pc' \in {"loop", "mode", "limit", "request", "stream"}
    BY <1>9 DEF PollInitial, BeginTurn, ResolveMode, PrepareRequest, Request, Goto
  <2> QED
    BY <1>4, <2>1
<1>10. CASE StopAtMaxTurns
  BY <1>6, <1>10, EndsAnswered DEF StopAtMaxTurns
<1>11. CASE \/ (\E r \in Responses : Respond(r)) \/ ExecuteTools
  <2>1. \/ pc' = "received" /\ out' = <<Announce(Assistant)>>
        \/ pc' = "executed" /\ out' = <<Announce(ToolResult)>>
    BY <1>11 DEF Respond, ExecuteTools, Goto
  <2>2. /\ pc' # "failing" /\ pc' # "idle" /\ pc' # "ended"
        /\ pc' # "terminate" /\ pc' # "protocol"
        /\ pc' \notin {"execute", "length", "pollFollowUp"}
        /\ pc' \notin {"protocol", "prepare", "stop", "pollSteering"}
        /\ pc' = "received" => pc' # "executed"
    BY <2>1
  <2> QED
    BY <2>1, <2>2 DEF Answers
<1>12. CASE \/ ReceiveFailure \/ Receive \/ RecordResults \/ NoLengthContinuation
            \/ PollFollowUp
  <2>1. /\ pc \in {"received", "executed", "length", "pollFollowUp"}
        /\ pc' \in {"ended", "execute", "length", "terminate", "loop"}
        /\ out' \in {<<>>, <<TurnEnd>>, <<AgentEnd>>, <<TurnEnd, AgentEnd>>}
    BY <1>12
    DEF ReceiveFailure, Receive, RecordResults, NoLengthContinuation, PollFollowUp, At, Goto
  <2>2. /\ pc \in {"execute", "length", "pollFollowUp", "received", "executed"}
        /\ pc' \notin {"failing", "idle"}
    BY <2>1
  <2>3. Still(out')
    BY <2>1, StillEvents
  <2> QED
    BY <1>3, <1>5, <2>2, <2>3
<1>13. CASE RepetitiveOutput \/ ContinueAfterLength
  <2>1. \/ ProtocolFailure(FALSE)
        \/ pc' = "terminate" /\ turn' = [turn EXCEPT !.continues = TRUE]
    BY <1>13 DEF RepetitiveOutput, ContinueAfterLength, Goto
  <2>2. turn' = [turn EXCEPT !.continues = TRUE] => turn'.continues
    BY DEF DataOK, TurnType
  <2> QED
    BY <1>6, <1>8, <2>1, <2>2, EndsAnswered, ZenonT(40)
<1>14. CASE TerminateRun
  <2>1. /\ pc = "terminate" /\ turn.batch.terminate /\ pc' = "ended"
        /\ out' = When(turn.batch.completion /\ Enabled(completionMode), <<Protocol>>)
                    \o <<AgentEnd>>
    BY <1>14 DEF TerminateRun, At, Goto, BatchEndsRun
  <2>2. done
    BY <1>3, <2>1 DEF CutInv
  <2>3. Still(out')
    <3>1. AgentEnd.type # "message" /\ Protocol.type # "message"
      BY DEF AgentEnd, Protocol, Event
    <3>2. CASE out' = <<>> \o <<AgentEnd>>
      <4>1. DOMAIN out' = 1..1 /\ out'[1] = AgentEnd
        BY <3>2, SMTT(30)
      <4> QED
        BY <3>1, <4>1, SMTT(30) DEF Still
    <3>3. CASE out' = <<Protocol>> \o <<AgentEnd>>
      <4>1. DOMAIN out' = 1..2 /\ out'[1] = Protocol /\ out'[2] = AgentEnd
        BY <3>3, PairParts, ZenonT(40)
      <4> QED
        BY <3>1, <4>1, SMTT(30) DEF Still
    <3> QED
      BY <2>1, <3>2, <3>3 DEF When
  <2>4. pc' \notin {"failing", "idle"}
    BY <2>1
  <2> QED
    BY <1>5, <2>2, <2>3, <2>4
<1>15. CASE RecordWaitingTurn
  <2> DEFINE warns == WarnsWaiting(CountWaitingTurn(st, turn.batch.madeProgress,
                                                    turn.batch.waiting))
  <2>1. /\ pc = "terminate" /\ pc' = "protocol" /\ turn' = turn
        /\ more' = (more \/ turn.continues \/ warns)
        /\ out' = When(warns, <<Protocol, Message(Internal)>>)
    BY <1>15 DEF RecordWaitingTurn, At, Goto
  <2>2. turn.batch.finishOk => ~turn.continues /\ ~warns
    BY FinishWarnsNot DEF CutInv
  <2> HIDE DEF warns
  <2>3. ~warns => Still(out')
    BY <2>1, StillEvents DEF When
  <2>4. pc' \notin {"failing", "idle"}
    BY <2>1
  <2>5. CASE turn.continues \/ warns
    <3>1. more' /\ ~turn'.batch.finishOk
      BY <2>1, <2>2, <2>5
    <3>2. /\ pc' # "failing" /\ pc' # "idle" /\ pc' # "received" /\ pc' # "executed"
          /\ pc' # "terminate" /\ pc' # "ended"
          /\ pc' \notin {"execute", "length", "pollFollowUp"}
      BY <2>1
    <3> QED
      BY <3>1, <3>2 DEF Answers
  <2>6. CASE ~turn.continues /\ ~warns
    BY <1>3, <1>5, <2>1, <2>3, <2>4, <2>6, ZenonT(40)
  <2> QED
    BY <2>5, <2>6
<1>16. CASE NotJudged \/ DoNotStop
  <2>1. /\ pc \in {"protocol", "prepare", "stop", "pollSteering"}
        /\ pc' \in {"prepare", "stop", "pollSteering"} /\ more' = more /\ out' = <<>>
    BY <1>16 DEF NotJudged, DoNotStop, At, Goto, loopVars
  <2> QED
    BY <1>3, <1>7, <2>1, StillEvents
<1>17. CASE FinishWork
  <2>1. /\ pc = "protocol" /\ turn.batch.finishOk /\ pc' = "ended"
        /\ out' = <<Protocol, AgentEnd>>
    BY <1>17 DEF FinishWork, At, Goto
  <2>2. pc' \notin {"failing", "idle"}
    BY <2>1
  <2> QED
    BY <1>3, <1>5, <2>1, <2>2, StillEvents, ZenonT(40)
<1>18. CASE JudgeTurn
  <2>1. /\ pc = "protocol"
        /\ \/ ProtocolFailure(FALSE)
           \/ pc' = "prepare" /\ out' = <<>> /\ more' = more
           \/ pc' = "prepare" /\ more' = TRUE
    BY <1>18 DEF JudgeTurn, At, Goto
  <2>2. pc' = "prepare" => pc' \in {"prepare", "stop", "pollSteering"}
    OBVIOUS
  <2>3. pc \in {"protocol", "prepare", "stop", "pollSteering"}
    BY <2>1
  <2> QED
    BY <1>3, <1>6, <1>7, <2>1, <2>2, <2>3, EndsAnswered, StillEvents, ZenonT(40)
<1>19. CASE PrepareNextTurn
  <2>1. /\ pc = "prepare" /\ pc' = "stop" /\ more' = more
        /\ \E k \in Appends : out' = [i \in 1..k |-> Message(Internal)]
    BY <1>19 DEF PrepareNextTurn, At, Goto, loopVars
  <2>2. Appends = {0}
    BY DEF Undisturbed
  <2>3. Still(out')
    BY <2>1, <2>2, SMTT(30) DEF Still
  <2>4. /\ pc \in {"protocol", "prepare", "stop", "pollSteering"}
        /\ pc' \in {"prepare", "stop", "pollSteering"}
    BY <2>1
  <2> QED
    BY <1>3, <1>7, <2>1, <2>3, <2>4
<1>20. CASE StopAborted
  BY <1>6, <1>20, EndsAnswered
<1>21. CASE ShouldStopAfterTurn
  <2>1. TRUE \in StopAnswers
    BY <1>21 DEF ShouldStopAfterTurn
  <2> QED
    BY <2>1 DEF Undisturbed
<1>22. CASE PollSteering
  <2>1. /\ pc = "pollSteering" /\ out' = <<>>
        /\ pc' = "loop" \/ (pc' = "pollFollowUp" /\ ~more)
    BY <1>22 DEF PollSteering, At, Goto
  <2>2. /\ pc \in {"protocol", "prepare", "stop", "pollSteering"}
        /\ pc' = "loop" => pc' \in {"loop", "mode", "limit", "request", "stream"}
        /\ pc' \notin {"failing", "idle"}
    BY <2>1
  <2> QED
    BY <1>3, <1>4, <1>5, <2>1, <2>2, StillEvents, ZenonT(40)
<1> QED
  BY <1>9, <1>10, <1>11, <1>12, <1>13, <1>14, <1>15, <1>16, <1>17, <1>18, <1>19,
     <1>20, <1>21, <1>22, ZenonT(40) DEF LoopStep

(* an emit keeps it, *)
LEMMA EmitAnswer ==
  ASSUME DataOK, AnswerInv, EmitNext
  PROVE  AnswerInv'
<1>1. /\ out # <<>> /\ out' = Tail(out)
      /\ messages' = IF Head(out).type = "message" THEN Append(messages, Head(out).msg)
                     ELSE messages
      /\ UNCHANGED <<pc, turn, more, throws, resets>>
  BY DEF EmitNext, Reduce, loopVars, inputVars
<1> SUFFICES ASSUME Undisturbed
             PROVE  Answers(pc', out', messages', turn'.continues, more', turn'.batch.finishOk)
  BY <1>1 DEF AnswerInv, Undisturbed
<1>2. /\ Len(out) \in Nat /\ DOMAIN out = 1..Len(out) /\ Head(out) = out[1]
      /\ 1 \in DOMAIN out /\ DOMAIN out' = 1..(Len(out) - 1)
      /\ \A i \in 1..(Len(out) - 1) : out'[i] = out[i + 1]
  BY <1>1, HeadTail, SMTT(30) DEF DataOK
<1>3. ASSUME NEW j \in DOMAIN out'
      PROVE  j + 1 \in DOMAIN out /\ j + 1 > 1 /\ out'[j] = out[j + 1]
  <2>1. j \in 1..(Len(out) - 1) /\ j + 1 \in 1..Len(out) /\ j + 1 > 1
    BY <1>2, <1>3, SMTT(30)
  <2> QED
    BY <1>2, <2>1, ZenonT(40)
<1>4. ASSUME Spoken(messages), Still(out) PROVE Spoken(messages') /\ Still(out')
  <2>1. messages' = messages
    BY <1>1, <1>2, <1>4 DEF Still
  <2>2. Still(out')
    BY <1>3, <1>4 DEF Still
  <2> QED
    BY <1>4, <2>1, <2>2
<1>5. ASSUME out[1].type = "message", Answered(out[1].msg),
             \A j \in DOMAIN out : j > 1 => out[j].type # "message"
      PROVE  Spoken(messages') /\ Still(out')
  <2>1. messages' = Append(messages, out[1].msg)
    BY <1>1, <1>2, <1>5
  <2>2. messages' # <<>> /\ messages'[Len(messages')] = out[1].msg
    BY <2>1, LastAppended, ZenonT(40) DEF DataOK
  <2>3. Still(out')
    BY <1>3, <1>5 DEF Still
  <2> QED
    BY <1>5, <2>2, <2>3 DEF Spoken
<1>6. ASSUME NEW m, out = <<Announce(m)>>, Answered(m)
      PROVE  Spoken(messages') /\ Still(out')
  <2>1. out[1].type = "message" /\ out[1].msg = m /\ \A j \in DOMAIN out : ~(j > 1)
    BY <1>6, SMTT(30) DEF Announce
  <2> QED
    BY <1>5, <1>6, <2>1
<1>7. Answered(Assistant) /\ Answered(ToolResult)
  BY DEF Answered, IsAssistant
<1>8. ASSUME Closing(out) PROVE Closing(out') \/ (Spoken(messages') /\ Still(out'))
  <2>1. PICK i \in DOMAIN out : /\ out[i].type = "message" /\ Answered(out[i].msg)
                                /\ \A j \in DOMAIN out : j > i => out[j].type # "message"
    BY <1>8 DEF Closing
  <2>2. CASE i = 1
    BY <1>5, <2>1, <2>2
  <2>3. CASE i # 1
    <3>1. i - 1 \in 1..(Len(out) - 1) /\ (i - 1) + 1 = i
      BY <1>2, <2>1, <2>3, SMTT(30)
    <3>2. i - 1 \in DOMAIN out' /\ out'[i - 1] = out[i]
      <4>1. out'[i - 1] = out[(i - 1) + 1]
        BY <1>2, <3>1
      <4> QED
        BY <1>2, <3>1, <4>1
    <3>3. ASSUME NEW j \in DOMAIN out', j > i - 1 PROVE out'[j].type # "message"
      <4>1. j + 1 > i
        BY <1>2, <2>1, <3>3, SMTT(30)
      <4> QED
        BY <1>3, <2>1, <4>1, ZenonT(40)
    <3> QED
      BY <2>1, <3>2, <3>3, ZenonT(40) DEF Closing
  <2> QED
    BY <2>2, <2>3
<1>9. Answers(pc, out, messages, turn.continues, more, turn.batch.finishOk)
  BY DEF AnswerInv
<1>10. pc # "idle"
  BY <1>1, <1>9 DEF Answers
<1> QED
  BY <1>1, <1>4, <1>6, <1>7, <1>8, <1>9, <1>10, ZenonT(40) DEF Answers

(* and so does every other step. *)
LEMMA AnswerInvStep ==
  ASSUME MaxWaiting > 0, ScalarsOK, DataOK, st \in Counters, CutInv, AnswerInv, [Next]_vars
  PROVE  AnswerInv'
<1>1. CASE Settle
  <2>1. /\ pc' = "idle" /\ out' = <<>> /\ out = <<>> /\ pc \in {"ended", "failing"}
        /\ UNCHANGED <<throws, resets, messages>>
    BY <1>1 DEF Settle, FinishRun, inputVars
  <2> SUFFICES ASSUME Undisturbed
               PROVE  Answers(pc', out', messages', turn'.continues, more', turn'.batch.finishOk)
    BY <2>1 DEF AnswerInv, Undisturbed
  <2>2. Answers(pc, out, messages, turn.continues, more, turn.batch.finishOk)
    BY DEF AnswerInv
  <2>3. ~Closing(out)
    BY <2>1, SMTT(30) DEF Closing
  <2>4. pc = "failing" \/ pc = "ended"
    BY <2>1
  <2>5. Spoken(messages)
    BY <2>2, <2>3, <2>4 DEF Answers
  <2>6. /\ pc' # "failing" /\ pc' # "received" /\ pc' # "executed"
        /\ pc' # "terminate" /\ pc' # "protocol" /\ pc' # "ended"
        /\ pc' \notin {"execute", "length", "pollFollowUp"}
        /\ pc' \notin {"protocol", "prepare", "stop", "pollSteering"}
    BY <2>1
  <2> QED
    BY <2>1, <2>5, <2>6 DEF Answers
<1>2. CASE Fault
  <2>1. throws' = throws + 1
    BY <1>2 DEF Fault, ListenerThrows, MessageStartThrows, HookThrows, RunThrows
  <2>2. throws \in 0..MaxDisturbed
    BY DEF ScalarsOK
  <2>3. throws' # 0
    BY <2>1, <2>2, SMTT(30)
  <2> QED
    BY <2>3 DEF AnswerInv, Undisturbed
<1>3. CASE Starts
  <2>1. pc' = "poll"
    BY <1>3
    DEF Starts, AgentPrompt, ContinueSteering, ContinueFollowUp, ContinueTranscript, StartRun
  <2>2. /\ pc' # "failing" /\ pc' # "idle" /\ pc' # "received" /\ pc' # "executed"
        /\ pc' # "terminate" /\ pc' # "protocol" /\ pc' # "ended"
        /\ pc' \notin {"execute", "length", "pollFollowUp"}
        /\ pc' \notin {"protocol", "prepare", "stop", "pollSteering"}
    BY <2>1
  <2> QED
    BY <2>2 DEF AnswerInv, Answers
<1>4. ASSUME UNCHANGED <<pc, out, turn, more, throws>>,
             UNCHANGED <<messages, resets>> \/ resets' = resets + 1
      PROVE  AnswerInv'
  <2>1. CASE UNCHANGED <<messages, resets>>
    BY <1>4, <2>1 DEF AnswerInv, Undisturbed
  <2>2. CASE resets' = resets + 1
    <3>1. resets \in 0..MaxDisturbed
      BY DEF ScalarsOK
    <3>2. resets' # 0
      BY <2>2, <3>1, SMTT(30)
    <3> QED
      BY <3>2 DEF AnswerInv, Undisturbed
  <2> QED
    BY <1>4, <2>1, <2>2
<1>5. CASE Quiet
  <2>1. /\ UNCHANGED <<pc, out, turn, more, throws>>
        /\ messages' = messages \/ resets' = resets + 1
        /\ resets' = resets \/ resets' = resets + 1
    BY <1>5, QuietFrame DEF loopVars
  <2> QED
    BY <1>4, <2>1
<1>6. ASSUME NEW k, NEW kind, Enqueued(k, kind) PROVE AnswerInv'
  BY <1>4, <1>6 DEF Enqueued, loopVars, eventVars
<1>7. CASE UNCHANGED vars
  BY <1>4, <1>7 DEF vars, loopVars, eventVars, inputVars
<1> QED
  BY <1>1, <1>2, <1>3, <1>5, <1>6, <1>7, StepKinds, LoopAnswer, EmitAnswer, ZenonT(40)

(* When a run settles, and nothing failed, was cleared or interfered with the end
   of a turn, the transcript ends with what the agent said or with tool results,
   whatever the responses, the queues, the modes and the other limits: no prompt,
   queued message, repair, warning or continuation instruction is left without
   the request it was written for.  With a limit of no waiting turns at all the
   warning comes even behind a successful finish_work, and is left unanswered. *)
THEOREM NothingUnanswered == MaxWaiting > 0 => (Spec => []NothingLeftUnanswered)
<1> SUFFICES ASSUME MaxWaiting > 0 PROVE Spec => []NothingLeftUnanswered
  OBVIOUS
<1> DEFINE inv == ActiveInv /\ LimitsInv /\ ScalarsOK /\ DataOK /\ CutInv /\ AnswerInv
<1>1. Init => inv
  <2> SUFFICES ASSUME Init PROVE inv
    OBVIOUS
  <2>1. ActiveInv /\ LimitsInv /\ ScalarsOK /\ DataOK
    BY FreshCounters, TypesInit DEF Init, ActiveInv, LimitsInv, LimitsHold
  <2>2. pc = "idle" /\ out = <<>> /\ messages = <<>> /\ turn = NoTurn
    BY DEF Init
  <2>3. CutInv
    BY <2>2 DEF NoTurn, NoBatch, CutInv
  <2>4. AnswerInv
    <3>1. /\ pc # "failing" /\ pc # "received" /\ pc # "executed"
          /\ pc # "terminate" /\ pc # "protocol" /\ pc # "ended"
          /\ pc \notin {"execute", "length", "pollFollowUp"}
          /\ pc \notin {"protocol", "prepare", "stop", "pollSteering"}
      BY <2>2
    <3> QED
      BY <2>2, <3>1 DEF AnswerInv, Answers
  <2> QED
    BY <2>1, <2>3, <2>4
<1>2. inv /\ [Next]_vars => inv'
  <2> SUFFICES ASSUME inv, [Next]_vars PROVE inv'
    OBVIOUS
  <2>1. st \in Counters
    BY DEF LimitsInv
  <2> QED
    BY <2>1, ActiveInvStep, LimitsInvStep, TypesStep, CutInvStep, AnswerInvStep, ZenonT(40)
<1>3. inv => NothingLeftUnanswered
  <2> SUFFICES ASSUME ActiveInv, AnswerInv, Undisturbed, ~activeRun, messages # <<>>
               PROVE  IsAssistant(Last(messages)) \/ Last(messages) = ToolResult
    BY DEF NothingLeftUnanswered, Undisturbed
  <2>1. Spoken(messages)
    BY DEF ActiveInv, AnswerInv, Answers
  <2> QED
    BY <2>1 DEF Spoken, Answered, Last
<1> QED
  BY <1>1, <1>2, <1>3, PTL DEF Spec

==============================================================================
