------------------------- MODULE MCFileMutationQueue -------------------------
(***************************************************************************)
(* An instance of FileMutationQueue for TLC: a file that exists, with a    *)
(* symbolic link to it, and a file that comes and goes; and a file that    *)
(* comes and goes with two paths to it.                                    *)
(***************************************************************************)
EXTENDS FileMutationQueue

LinkedPaths == {"target", "link", "fresh"}
LinkedFile == [p \in LinkedPaths |-> IF p = "link" THEN "target" ELSE p]

AliasPaths == {"target", "link"}
AliasFile == [p \in AliasPaths |-> "target"]
=============================================================================
