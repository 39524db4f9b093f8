-------------------------- MODULE MCHarnessSession --------------------------
(***************************************************************************)
(* Instances of HarnessSession for TLC.                                    *)
(***************************************************************************)
EXTENDS HarnessSession, TLC

CONSTANTS w1, w2

TwoWriters == {w1, w2}

WriterSymmetry == Permutations(Writers)
=============================================================================
