---------------------------- MODULE MCRepoManager ----------------------------
(***************************************************************************)
(* Small instances of RepoManager: modules and revisions that are alike.   *)
(***************************************************************************)
EXTENDS RepoManager, TLC

Symmetric == Permutations(Modules) \cup Permutations(Hashes) \cup Permutations(Callers)
=============================================================================
