----------------------------- MODULE MCAgentLoop -----------------------------
(***************************************************************************)
(* Instances of AgentLoop for TLC.                                         *)
(***************************************************************************)
EXTENDS AgentLoop

R(stop, calls, text) ==
  [stop |-> stop, calls |-> calls, text |-> text, repetitive |-> FALSE]

ErrorResponse == R("error", "none", "answer")

(* Every response, up to what the protocol cannot tell apart. *)
AllResponses ==
  {r \in Response : /\ r.stop \in {"error", "aborted"} =>
                         r.calls = "none" /\ r.text = "answer"
                    /\ r.calls # "none" => r.text = "answer"}

AllBatches == Batch

(* Responses and batches enough to continue, to stop and to fail. *)
FewResponses ==
  {R("stop", "none", "answer"), R("toolUse", "tools", "answer"),
   R("length", "none", "answer"), ErrorResponse}

ProgressBatch == [NoBatch EXCEPT !.madeProgress = TRUE]
FewBatches == {ProgressBatch, [ProgressBatch EXCEPT !.terminate = TRUE]}
=============================================================================
