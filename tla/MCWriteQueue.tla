---------------------------- MODULE MCWriteQueue ----------------------------
(* Instances of WriteQueue for TLC. *)
EXTENDS WriteQueue, TLC

(* Handlers, databases, names and the usable entries are interchangeable. *)
Symmetry ==
    Permutations(Handlers) \union Permutations(Databases) \union
    Permutations(Names) \union Permutations(Entries \ Corrupt)
=============================================================================
