------------------------------ MODULE MCServer ------------------------------
(* Server on a small instance, for model checking. *)
EXTENDS Server, TLC

Symmetric == Permutations(Tokens) \cup Permutations(Handlers)

=============================================================================
