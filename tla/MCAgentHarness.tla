--------------------------- MODULE MCAgentHarness ---------------------------
(***************************************************************************)
(* Instances of AgentHarness for TLC.                                      *)
(***************************************************************************)
EXTENDS AgentHarness, TLC

CONSTANTS o1, o2
TwoOps == {o1, o2}

OpSymmetry == Permutations(Ops)
=============================================================================
