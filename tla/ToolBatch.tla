------------------------------ MODULE ToolBatch ------------------------------
(***************************************************************************)
(* The execution of the tool calls of one assistant message by the agent   *)
(* loop (packages/agent/src/agent-loop).  The calls are numbered 1..N in   *)
(* the order of the message.  The driver is executeToolCallsParallel or    *)
(* executeToolCallsSequential; in parallel mode every prepared call is a   *)
(* process of its own once Promise.all has started it.  The abort signal,  *)
(* the tools, the beforeToolCall/afterToolCall hooks and the event         *)
(* listeners are the environment: they interleave with the driver at every *)
(* await.                                                                  *)
(***************************************************************************)
EXTENDS Integers, Sequences, FiniteSets

CONSTANTS N,            \* number of tool calls in the assistant message
          Results,      \* what tool.execute may resolve to
          Overrides,    \* what afterToolCall may return
          Keep,         \* an omitted field of an override
          MaxUpdates,   \* bound: partial results one tool reports
          MaxThrows     \* bound: listener failures in one batch

Calls == 1..N

Progress == {"new", "waiting"}

(* An AgentToolResult, and one with the isError/executed flags of a
   FinalizedToolCallOutcome. *)
Result == [terminate : BOOLEAN, progress : Progress, completion : BOOLEAN]
Outcome == [result : Result, isError : BOOLEAN, executed : BOOLEAN]
Override == [terminate : BOOLEAN \cup {Keep}, progress : Progress \cup {Keep},
             completion : {TRUE, Keep}, isError : BOOLEAN \cup {Keep}]

ASSUME BatchAssumption ==
  /\ N \in Nat \ {0}
  /\ Results \subseteq Result
  /\ Overrides \subseteq Override
  /\ Keep \notin BOOLEAN /\ Keep \notin Progress
  /\ MaxUpdates \in Nat
  /\ MaxThrows \in Nat

VARIABLES sequential,       \* which of the two drivers executes the batch
          pc,               \* where the driver is
          cur,              \* the call the driver's for loop is at
          aborted,          \* signal.aborted
          phase,            \* where each call is
          outcome,          \* what each call came to
          updating,         \* deliveries of tool_execution_update under way
          reported,         \* partial results reported so far
          updateFailed,     \* calls with an update whose delivery rejected
          pendingToolCalls, \* Agent state: calls started and not ended
          finalizedCalls,   \* the array of that name, as call numbers
          messages,         \* tool result messages emitted, as call numbers
          transcript,       \* Agent state: result messages recorded so far
          throws            \* listener failures so far

callVars == <<outcome, updating, reported, updateFailed>>
outVars == <<messages, transcript>>
vars == <<sequential, pc, cur, aborted, phase, callVars, pendingToolCalls,
          finalizedCalls, outVars, throws>>

(* createErrorToolResult: no terminate, no progress, no completion. *)
ErrorResult == [terminate |-> FALSE, progress |-> "new", completion |-> FALSE]
Immediate == [result |-> ErrorResult, isError |-> TRUE, executed |-> FALSE]
Errored == [result |-> ErrorResult, isError |-> TRUE, executed |-> TRUE]

Init ==
  /\ sequential \in BOOLEAN
  /\ pc = "start"
  /\ cur = 1
  /\ aborted \in BOOLEAN
  /\ phase = [c \in Calls |-> "idle"]
  /\ outcome = [c \in Calls |-> Immediate]
  /\ updating = [c \in Calls |-> 0]
  /\ reported = [c \in Calls |-> 0]
  /\ updateFailed = {}
  /\ pendingToolCalls = {}
  /\ finalizedCalls = <<>>
  /\ messages = <<>>
  /\ transcript = <<>>
  /\ throws = 0

(* An awaited emit: the listeners return and the driver goes on at `next`, or
   one of them throws and the batch rejects. *)
Emit(next) ==
  \/ pc' = next /\ UNCHANGED throws
  \/ throws < MaxThrows /\ throws' = throws + 1 /\ pc' = "failed"

EmitStart ==
  /\ pc = "start"
  /\ phase' = [phase EXCEPT ![cur] = "started"]
  /\ pendingToolCalls' = pendingToolCalls \cup {cur}
  /\ Emit("prepare")
  /\ UNCHANGED <<sequential, cur, aborted, callVars, finalizedCalls, outVars>>

(* prepareToolCall answers with an immediate error: unknown tool, invalid
   arguments, blocked by the hook, hook failure, or the signal is aborted. *)
PrepareImmediate ==
  /\ pc = "prepare"
  /\ phase' = [phase EXCEPT ![cur] = "finalized"]
  /\ outcome' = [outcome EXCEPT ![cur] = Immediate]
  /\ pc' = "await"
  /\ UNCHANGED <<sequential, cur, aborted, updating, reported, updateFailed,
                 pendingToolCalls, finalizedCalls, outVars, throws>>

BugIgnoreAbort == TRUE

(* The last test of prepareToolCall before it answers "prepared". *)
NotAborted == ~aborted

(* prepareToolCall answers "prepared", which it does only when the signal is
   not aborted.  The parallel driver pushes a thunk; the sequential one calls
   executePreparedToolCall at once. *)
Prepare ==
  /\ pc = "prepare"
  /\ NotAborted
  /\ IF sequential
     THEN /\ phase' = [phase EXCEPT ![cur] = "executing"]
          /\ pc' = "await"
          /\ UNCHANGED finalizedCalls
     ELSE /\ phase' = [phase EXCEPT ![cur] = "prepared"]
          /\ pc' = "check"
          /\ finalizedCalls' = Append(finalizedCalls, cur)
  /\ UNCHANGED <<sequential, cur, aborted, callVars, pendingToolCalls,
                 outVars, throws>>

(* Execution of one call: executePreparedToolCall and
   finalizeExecutedToolCall. *)

(* The tool reports a partial result; updates after it settled are dropped. *)
Update(c) ==
  /\ phase[c] = "executing"
  /\ reported[c] < MaxUpdates
  /\ reported' = [reported EXCEPT ![c] = @ + 1]
  /\ updating' = [updating EXCEPT ![c] = @ + 1]
  /\ UNCHANGED <<sequential, pc, cur, aborted, phase, outcome, updateFailed,
                 pendingToolCalls, finalizedCalls, outVars, throws>>

(* The listeners of an update return, or one of them throws. *)
UpdateDelivered(c) ==
  /\ updating[c] > 0
  /\ updating' = [updating EXCEPT ![c] = @ - 1]
  /\ \/ UNCHANGED <<updateFailed, throws>>
     \/ /\ throws < MaxThrows
        /\ throws' = throws + 1
        /\ updateFailed' = updateFailed \cup {c}
  /\ UNCHANGED <<sequential, pc, cur, aborted, phase, outcome, reported,
                 pendingToolCalls, finalizedCalls, outVars>>

(* tool.execute resolves or rejects: acceptingUpdates becomes false. *)
Settle(c) ==
  /\ phase[c] = "executing"
  /\ phase' = [phase EXCEPT ![c] = "settled"]
  /\ \/ \E r \in Results :
          outcome' = [outcome EXCEPT ![c] =
                        [result |-> r, isError |-> FALSE, executed |-> TRUE]]
     \/ outcome' = [outcome EXCEPT ![c] = Errored]
  /\ UNCHANGED <<sequential, pc, cur, aborted, updating, reported,
                 updateFailed, pendingToolCalls, finalizedCalls, outVars,
                 throws>>

BugUpdatesNotAwaited(c) == TRUE

(* await Promise.all(updateEvents) *)
UpdatesDelivered(c) == updating[c] = 0

(* Every update has been delivered; a failed delivery makes the call fail. *)
Executed(c) ==
  /\ phase[c] = "settled"
  /\ UpdatesDelivered(c)
  /\ phase' = [phase EXCEPT ![c] = "executed"]
  /\ outcome' = IF c \in updateFailed THEN [outcome EXCEPT ![c] = Errored]
                                   ELSE outcome
  /\ UNCHANGED <<sequential, pc, cur, aborted, updating, reported,
                 updateFailed, pendingToolCalls, finalizedCalls, outVars,
                 throws>>

(* a.field ?? b.field *)
Default(a, b) == IF a = Keep THEN b ELSE a

Overridden(o, a) ==
  [o EXCEPT !.result = [terminate  |-> Default(a.terminate, o.result.terminate),
                        progress   |-> Default(a.progress, o.result.progress),
                        completion |-> Default(a.completion, o.result.completion)],
            !.isError = Default(a.isError, o.isError)]

(* afterToolCall is absent or returns nothing, overrides fields, or throws. *)
Finalize(c) ==
  /\ phase[c] = "executed"
  /\ phase' = [phase EXCEPT ![c] = "finalized"]
  /\ \/ UNCHANGED outcome
     \/ \E a \in Overrides :
          outcome' = [outcome EXCEPT ![c] = Overridden(outcome[c], a)]
     \/ outcome' = [outcome EXCEPT ![c] = Errored]
  /\ UNCHANGED <<sequential, pc, cur, aborted, updating, reported,
                 updateFailed, pendingToolCalls, finalizedCalls, outVars,
                 throws>>

BugDropImmediate == finalizedCalls

Pushed == Append(finalizedCalls, cur)

(* emitToolExecutionEnd for the call the driver itself waits for: every call in
   sequential mode, an immediate one in parallel mode. *)
EmitEnd ==
  /\ pc = "await"
  /\ phase[cur] = "finalized"
  /\ phase' = [phase EXCEPT ![cur] = "ended"]
  /\ pendingToolCalls' = pendingToolCalls \ {cur}
  /\ Emit(IF sequential THEN "result" ELSE "check")
  /\ finalizedCalls' = IF ~sequential /\ pc' = "check"
                       THEN Pushed ELSE finalizedCalls
  /\ UNCHANGED <<sequential, cur, aborted, callVars, outVars>>

BugCancelOnFailure == pc = "join"

(* A thunk goes on whether or not Promise.all has already rejected. *)
ThunksRun == pc \in {"join", "failed"}

(* emitToolExecutionEnd inside a thunk of the parallel driver.  A listener that
   throws rejects Promise.all; the other calls go on. *)
EmitEndConcurrent(c) ==
  /\ ThunksRun
  /\ ~sequential
  /\ phase[c] = "finalized"
  /\ phase' = [phase EXCEPT ![c] = "ended"]
  /\ pendingToolCalls' = pendingToolCalls \ {c}
  /\ Emit(pc)
  /\ UNCHANGED <<sequential, cur, aborted, callVars, finalizedCalls, outVars>>

(* emitToolResultMessage: message_start, then message_end, at which the agent
   state records the message before the listeners of message_end run. *)
EmitResultMessage(c, next) ==
  /\ Emit(next)
  /\ IF pc' = "failed"
     THEN /\ UNCHANGED messages
          /\ transcript' \in {transcript, Append(transcript, c)}
     ELSE /\ messages' = Append(messages, c)
          /\ transcript' = Append(transcript, c)

(* The sequential driver emits the result of a call right after its end. *)
EmitResult ==
  /\ pc = "result"
  /\ EmitResultMessage(cur, "check")
  /\ finalizedCalls' = IF pc' = "check" THEN Append(finalizedCalls, cur)
                                        ELSE finalizedCalls
  /\ UNCHANGED <<sequential, cur, aborted, phase, callVars, pendingToolCalls>>

BugOneCallLess == cur + 1 < N /\ ~aborted

MoreCalls == cur < N /\ ~aborted

(* The end of the loop body: stop at the last call or when aborted.  The
   parallel driver then starts every thunk. *)
Check ==
  /\ pc = "check"
  /\ IF MoreCalls
     THEN cur' = cur + 1 /\ pc' = "start" /\ UNCHANGED phase
     ELSE /\ UNCHANGED cur
          /\ pc' = IF sequential THEN "returned" ELSE "join"
          /\ phase' = [c \in Calls |-> IF phase[c] = "prepared"
                                       THEN "executing" ELSE phase[c]]
  /\ UNCHANGED <<sequential, aborted, callVars, pendingToolCalls,
                 finalizedCalls, outVars, throws>>

BugJoinAny == \E i \in DOMAIN finalizedCalls : phase[finalizedCalls[i]] = "ended"
BugJoinEveryCall == \A c \in Calls : phase[c] = "ended"

AllEnded == \A i \in DOMAIN finalizedCalls : phase[finalizedCalls[i]] = "ended"

(* Promise.all resolves. *)
Join ==
  /\ pc = "join"
  /\ AllEnded
  /\ pc' = "results"
  /\ UNCHANGED <<sequential, cur, aborted, phase, callVars, pendingToolCalls,
                 finalizedCalls, outVars, throws>>

(* The parallel driver emits the result messages one after the other. *)
EmitResults ==
  /\ pc = "results"
  /\ Len(messages) < Len(finalizedCalls)
  /\ EmitResultMessage(finalizedCalls[Len(messages) + 1], "results")
  /\ UNCHANGED <<sequential, cur, aborted, phase, callVars, pendingToolCalls,
                 finalizedCalls>>

Return ==
  /\ pc = "results"
  /\ Len(messages) = Len(finalizedCalls)
  /\ pc' = "returned"
  /\ UNCHANGED <<sequential, cur, aborted, phase, callVars, pendingToolCalls,
                 finalizedCalls, outVars, throws>>

(* Agent.abort, from the user interface at any await. *)
Abort ==
  /\ ~aborted
  /\ pc # "returned"
  /\ aborted' = TRUE
  /\ UNCHANGED <<sequential, pc, cur, phase, callVars, pendingToolCalls,
                 finalizedCalls, outVars, throws>>

Running(c) == phase[c] \in {"executing", "settled", "executed", "finalized"}

(* The batch is over and nothing of it is still running. *)
Quiescent ==
  /\ pc \in {"returned", "failed"}
  /\ \A c \in Calls : updating[c] = 0 /\ ~Running(c)

Done == Quiescent /\ UNCHANGED vars

Driver == \/ EmitStart \/ PrepareImmediate \/ Prepare \/ EmitEnd
          \/ EmitResult \/ Check \/ Join \/ EmitResults \/ Return

CallStep(c) == \/ UpdateDelivered(c) \/ Settle(c) \/ Executed(c)
               \/ Finalize(c) \/ EmitEndConcurrent(c)

Next == \/ Driver
        \/ \E c \in Calls : CallStep(c) \/ Update(c)
        \/ Abort
        \/ Done

Spec == Init /\ [][Next]_vars

(* Weak fairness of the driver and of every call that runs: the event loop
   resumes what is ready, listeners return, and a tool settles (the code gives
   tool.execute no timeout, so this last part is a demand on the tools). *)
FairSpec == Spec /\ WF_vars(Driver) /\ \A c \in Calls : WF_vars(CallStep(c))

-----------------------------------------------------------------------------
(* The batch the driver returns: createExecutedToolCallBatch. *)

Finalized == {outcome[finalizedCalls[i]] : i \in DOMAIN finalizedCalls}

shouldTerminateToolBatch ==
  /\ finalizedCalls # <<>>
  /\ \A o \in Finalized : ~o.isError /\ o.result.terminate

madeProgress == \E o \in Finalized : ~o.isError /\ o.result.progress # "waiting"

waiting == /\ ~madeProgress
           /\ \E o \in Finalized : ~o.isError /\ o.result.progress = "waiting"

completion == /\ shouldTerminateToolBatch
              /\ Len(finalizedCalls) = 1
              /\ outcome[finalizedCalls[1]].result.completion

-----------------------------------------------------------------------------
(* Properties *)

Phases == {"idle", "started", "prepared", "executing", "settled", "executed",
           "finalized", "ended"}

DriverTypeOK ==
  /\ sequential \in BOOLEAN
  /\ pc \in {"start", "prepare", "await", "result", "check", "join", "results",
             "returned", "failed"}
  /\ cur \in Calls
  /\ aborted \in BOOLEAN
  /\ throws \in Nat

CallTypeOK ==
  /\ phase \in [Calls -> Phases]
  /\ outcome \in [Calls -> Outcome]
  /\ updating \in [Calls -> Nat]
  /\ reported \in [Calls -> Nat]
  /\ updateFailed \subseteq Calls

OutputTypeOK ==
  /\ pendingToolCalls \subseteq Calls
  /\ finalizedCalls \in Seq(Calls)
  /\ messages \in Seq(Calls)
  /\ transcript \in Seq(Calls)

(* Type correctness of the batch state. *)
TypeOK == DriverTypeOK /\ CallTypeOK /\ OutputTypeOK

(* When the driver returns, every call it started has exactly one tool result
   message, in the order of the assistant message, whatever the order in which
   the tools completed, and the agent state recorded the same messages. *)
ResultsInSourceOrder ==
  pc = "returned" => /\ messages = [i \in 1..cur |-> i]
                     /\ transcript = messages

(* A batch that returns with calls left out was aborted. *)
ShortBatchWasAborted == pc = "returned" /\ cur < N => aborted

(* When the driver returns nothing of the batch goes on: no tool runs, no update
   is being delivered, and the agent shows no pending tool call. *)
NothingOutlivesReturn ==
  pc = "returned" => /\ \A c \in Calls : ~Running(c) /\ updating[c] = 0
                     /\ pendingToolCalls = {}

(* Every tool_execution_update of a call is delivered before its
   tool_execution_end is emitted. *)
UpdatesPrecedeEnd ==
  \A c \in Calls : phase[c] \in {"executed", "finalized", "ended"} => updating[c] = 0

(* A call that had not been started when the signal was aborted is never
   executed. *)
AbortStopsLaterCalls ==
  \A c \in Calls :
    [](aborted /\ phase[c] = "idle" => [](phase[c] \notin {"prepared", "executing"}))

(* The batch settles: it returns, or a listener failed and it rejects. *)
BatchSettles == <>(pc \in {"returned", "failed"})

(* A rejected batch does not stop the calls already running: each of them still
   runs to its end. *)
RunningCallsEnd == \A c \in Calls : Running(c) ~> phase[c] = "ended"

-----------------------------------------------------------------------------
(* The inductive invariant behind the safety properties. *)

Upto(k) == [i \in 1..k |-> i]

Preparing == {"start", "prepare", "await", "result", "check"}

(* Where the calls are, given where the driver is: nothing beyond cur has been
   touched, the calls before cur are prepared or ended (ended in sequential
   mode) while the loop runs, and after the join they have all ended. *)
CursorInv ==
  /\ \A c \in Calls : c > cur => phase[c] = "idle"
  /\ pc = "start" => phase[cur] = "idle"
  /\ pc = "prepare" => phase[cur] = "started"
  /\ pc = "await" => Running(cur)
  /\ pc = "await" /\ ~sequential => phase[cur] = "finalized"
  /\ pc = "result" => phase[cur] = "ended"
  /\ pc = "check" => phase[cur] \in {"prepared", "ended"}
  /\ pc = "check" /\ sequential => phase[cur] = "ended"

EarlierInv ==
  /\ pc \in Preparing =>
       \A c \in Calls : c < cur =>
         phase[c] = "ended" \/ (~sequential /\ phase[c] = "prepared")
  /\ pc = "join" => \A c \in Calls : c <= cur => Running(c) \/ phase[c] = "ended"
  /\ pc \in {"results", "returned"} =>
       \A c \in Calls : c <= cur => phase[c] = "ended"

(* The agent's pending set, and the updates still being delivered. *)
PendingInv == pendingToolCalls = {c \in Calls : phase[c] \notin {"idle", "ended"}}
UpdatesInv == \A c \in Calls : updating[c] = 0 \/ phase[c] \in {"executing", "settled"}

(* Which pcs each driver has, and what its arrays hold there. *)
ModeInv ==
  /\ sequential => pc \notin {"join", "results"}
  /\ ~sequential => pc # "result"
FinalizedInv ==
  pc # "failed" =>
    finalizedCalls = Upto(IF pc \in Preparing \ {"check"} THEN cur - 1 ELSE cur)
MessagesInv ==
  pc # "failed" =>
    /\ transcript = messages
    /\ sequential => messages = finalizedCalls
    /\ ~sequential =>
         /\ pc \in Preparing \cup {"join"} => messages = <<>>
         /\ pc = "results" => \E k \in 0..cur : messages = Upto(k)
         /\ pc = "returned" => messages = finalizedCalls
ShortInv == pc \in {"join", "results", "returned"} /\ cur < N => aborted

BatchInv == /\ CursorInv /\ EarlierInv /\ PendingInv /\ UpdatesInv
            /\ ModeInv /\ FinalizedInv /\ MessagesInv /\ ShortInv
=============================================================================
