----------------------------- MODULE MCToolBatch -----------------------------
(* ToolBatch with a few tool calls. *)
EXTENDS ToolBatch

CONSTANT KeepValue

(* A plain success, one that asks to stop the loop, and one that only waited. *)
MCResults ==
  {[terminate |-> FALSE, progress |-> "new", completion |-> FALSE],
   [terminate |-> TRUE, progress |-> "waiting", completion |-> TRUE]}

(* Hooks that turn a success into a failure and back. *)
MCOverrides ==
  {[terminate |-> KeepValue, progress |-> KeepValue, completion |-> KeepValue,
    isError |-> TRUE],
   [terminate |-> TRUE, progress |-> "waiting", completion |-> KeepValue,
    isError |-> FALSE]}
=============================================================================
