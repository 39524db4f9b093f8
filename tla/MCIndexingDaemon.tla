-------------------------- MODULE MCIndexingDaemon --------------------------
(***************************************************************************)
(* Instances of IndexingDaemon for TLC.                                    *)
(***************************************************************************)
EXTENDS IndexingDaemon, TLC

CONSTANTS r1, r2
TwoRepos == {r1, r2}
=============================================================================
