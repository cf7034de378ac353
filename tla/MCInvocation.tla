---------------------------- MODULE MCInvocation -----------------------------
(* Invocation with interchangeable controllers. *)
EXTENDS Invocation, TLC

Symmetry == Permutations(Controllers)
=============================================================================
