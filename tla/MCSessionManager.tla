--------------------------- MODULE MCSessionManager ---------------------------
(***************************************************************************)
(* An instance of SessionManager for TLC.  A file may be empty or damaged  *)
(* from the start, or hold a session with an answer.                       *)
(***************************************************************************)
EXTENDS SessionManager, TLC

CONSTANTS one, two

TwoFiles == {one, two}

FileSymmetry == Permutations(TwoFiles)

GivenFiles ==
  {<<>>, <<Bad>>, <<Header, Line("user", 1, 0, 0), Line("assistant", 2, 1, 0)>>}
=============================================================================
