---------------------------- MODULE MCConnections ----------------------------
(* Connections on a small instance: requests are interchangeable, and so are
   the names other than 'default'. *)
EXTENDS Connections, TLC

Symmetry == Permutations(Names \ {Default}) \union Permutations(Handlers)
=============================================================================
