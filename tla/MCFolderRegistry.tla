-------------------------- MODULE MCFolderRegistry --------------------------
(* TLC instances of FolderRegistry.                                        *)
EXTENDS FolderRegistry, TLC

Symmetry == Permutations(Requests) \cup Permutations(Backends) \cup Permutations(Openers)
=============================================================================
