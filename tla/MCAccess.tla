------------------------------ MODULE MCAccess ------------------------------
(* OAuthServer and the accounts on one small instance: accounts and addresses
   are interchangeable. *)
EXTENDS OAuthServer, TLC

Symmetry == Permutations(Ids) \union Permutations(Emails)
=============================================================================
