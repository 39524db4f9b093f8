------------------------------ MODULE MCRunBudget ------------------------------
(***************************************************************************)
(* An instance of RunBudget for TLC: two processes, three calls, the last  *)
(* of an image adapter that reports neither tokens nor cost, a policy of   *)
(* every unit, and usages that are missing or, when two are added, too     *)
(* large to count.                                                         *)
(***************************************************************************)
EXTENDS RunBudget, TLC

CONSTANTS p, q, a, b, image

TwoProcs == {p, q}
ThreeCalls == {a, b, image}
TextCalls == {a, b}
Alike == Permutations(TwoProcs) \cup Permutations(TextCalls)

(* The values of Unlimited and Unknown are spelled out: TLC cannot follow a
   constant of the instance L that is defined by L. *)
Limit(unit, n) == [unit |-> unit, limit |-> n]
SomePolicies == {Limit("none", 0), Limit("requests", 2), Limit("tokens", 3), Limit("usd", 1)}

Usage(tokens, usd) == [tokens |-> tokens, usd |-> usd]
SomeUsages == {Usage(0, -1), Usage(2, 1)}
=============================================================================
