------------------------- MODULE CompletionProtocol -------------------------
(***************************************************************************)
(* The completion protocol of the agent loop as operators: which repair a  *)
(* response calls for, how the counters of CompletionProtocolState move,   *)
(* and when their limits stop the run (packages/agent/src/agent-loop).     *)
(***************************************************************************)
EXTENDS Integers

CONSTANTS MaxTurns, MaxNoProgress, MaxWaiting, MaxMalformed, MaxEmpty,
          MaxMissing,          \* maxMissingFinishRetries outside explicit_finish
          MaxMissingExplicit   \* and in explicit_finish

ASSUME LimitsAssumption ==
  /\ MaxTurns \in Nat /\ MaxNoProgress \in Nat /\ MaxWaiting \in Nat
  /\ MaxMalformed \in Nat /\ MaxEmpty \in Nat
  /\ MaxMissing \in Nat /\ MaxMissingExplicit \in Nat

Modes == {"implicit", "explicit_finish", "hybrid"}
Enabled(mode) == mode \in {"explicit_finish", "hybrid"}

(* An assistant message, as far as the protocol tells messages apart: why the
   provider stopped, which tool calls it holds (none, tools without finish_work,
   finish_work alone, finish_work among others), what its text is when it holds
   no call (nothing, an answer, a tool call written as text), and whether the
   provider reported a repetitive loop, which it does with a "length" stop. *)
Response ==
  {r \in [stop : {"stop", "toolUse", "length", "error", "aborted"},
          calls : {"none", "tools", "finish", "mixed"},
          text : {"empty", "answer", "malformed"},
          repetitive : BOOLEAN] :
     r.repetitive => r.stop = "length"}

(* An ExecutedToolCallBatch; finishOk: it holds a successful finish_work
   result, which counts as progress (hooks that mark it as waiting are left
   out).  Each combination is one createExecutedToolCallBatch can return. *)
Batch ==
  {b \in [terminate : BOOLEAN, madeProgress : BOOLEAN, waiting : BOOLEAN,
          completion : BOOLEAN, finishOk : BOOLEAN] :
     /\ ~(b.madeProgress /\ b.waiting)
     /\ b.terminate => (b.madeProgress \/ b.waiting)
     /\ b.finishOk => b.madeProgress
     /\ b.completion => b.terminate}

(* The batches the calls of a response can come to. *)
BatchesOf(calls) ==
  {b \in Batch : /\ calls = "tools" => ~b.finishOk
                 /\ calls = "finish" =>
                      (b.finishOk <=> b.madeProgress) /\ ~b.waiting}

Counters == [turns : Nat, noProgress : Nat, waiting : Nat, malformed : Nat,
             empty : Nat, missing : Nat]

createCompletionProtocolState ==
  [turns |-> 0, noProgress |-> 0, waiting |-> 0, malformed |-> 0, empty |-> 0,
   missing |-> 0]

resetCompletionProgress(st) ==
  [st EXCEPT !.noProgress = 0, !.waiting = 0, !.empty = 0, !.malformed = 0,
             !.missing = 0]

MissingLimit(mode) ==
  IF mode = "explicit_finish" THEN MaxMissingExplicit ELSE MaxMissing

HasCalls(r) == r.calls # "none"

hasMalformedOrTruncatedToolCall(r) ==
  \/ r.stop = "length"
  \/ r.stop = "toolUse" /\ ~HasCalls(r)
  \/ ~HasCalls(r) /\ r.text = "malformed"

isEmptyAssistantMessage(r) == ~HasCalls(r) /\ r.text = "empty"

Repairs == {"none", "repetitive", "malformed", "mixed", "missing"}

detectCompletionProtocolRepair(r, more) ==
  CASE r.repetitive -> "repetitive"
    [] ~r.repetitive /\ hasMalformedOrTruncatedToolCall(r) -> "malformed"
    [] ~hasMalformedOrTruncatedToolCall(r) /\ r.calls = "mixed" -> "mixed"
    [] ~hasMalformedOrTruncatedToolCall(r) /\ r.calls # "mixed"
         /\ (~HasCalls(r) \/ ~more) -> "missing"
    [] OTHER -> "none"

(* The repairs announced as malformed_tool_call_retry. *)
IsMalformedRetry(repair) == repair \in {"repetitive", "malformed", "mixed"}

requiresSpecializedProviderLengthRepair(r) ==
  r.stop = "length" /\ (HasCalls(r) \/ r.repetitive)

(* The repair found before any tool call is executed. *)
RepairBeforeExecution(mode, r) ==
  IF /\ Enabled(mode)
     /\ r.stop # "length" \/ requiresSpecializedProviderLengthRepair(r)
  THEN detectCompletionProtocolRepair(r, TRUE)
  ELSE "none"

(* acceptsImplicitCompletion up to the question put to the host. *)
MayAcceptImplicitly(mode, r, repair) ==
  /\ Enabled(mode)
  /\ ~HasCalls(r)
  /\ r.stop # "length"
  /\ repair = "missing"
  /\ ~isEmptyAssistantMessage(r)

Incr(cond) == IF cond THEN 1 ELSE 0

(* Entering an enabled protocol from "implicit" restarts the counters. *)
resolveTurnCompletionMode(st, previous, next) ==
  IF Enabled(next) /\ ~Enabled(previous)
  THEN [resetCompletionProgress(st) EXCEPT !.turns = 0]
  ELSE st

recordSemanticProviderLengthRepair(st) ==
  [st EXCEPT !.noProgress = @ + 1, !.malformed = @ + 1]

(* mutant: only the malformed-tool limit is applied *)
BugSemanticLimit(st) == st.malformed > MaxMalformed

SemanticLimitReached(st) ==
  st.malformed > MaxMalformed \/ st.noProgress > MaxNoProgress

(* The first part of recordWaitingTurn; the counter is then compared with the
   limit and cleared when a warning is issued. *)
CountWaitingTurn(st, madeProgress, waited) ==
  IF madeProgress THEN [st EXCEPT !.waiting = 0]
  ELSE IF waited THEN [st EXCEPT !.waiting = @ + 1] ELSE st

WarnsWaiting(st) == st.waiting >= MaxWaiting

(* What one turn under the protocol does to the counters. *)
CountTurn(st, r, repair, madeProgress, waited) ==
  IF repair # "none"
  THEN [st EXCEPT !.noProgress = @ + 1,
                  !.malformed = @ + Incr(IsMalformedRetry(repair)),
                  !.missing = @ + Incr(repair = "missing"),
                  !.empty = @ + Incr(isEmptyAssistantMessage(r))]
  ELSE IF madeProgress THEN resetCompletionProgress(st)
  ELSE [st EXCEPT !.noProgress = @ + Incr(~waited /\ HasCalls(r))]

protocolLimitDiagnostic(st, mode) ==
  \/ st.malformed > MaxMalformed
  \/ st.empty > MaxEmpty
  \/ mode = "explicit_finish" /\ st.missing > MissingLimit(mode)
  \/ st.noProgress > MaxNoProgress

FallsBackToImplicit(st, mode, repair) ==
  mode = "hybrid" /\ repair = "missing" /\ st.missing > MissingLimit(mode)
=============================================================================
