---------------------------- MODULE MCHttpService ----------------------------
(* HttpService with interchangeable requests and workers. *)
EXTENDS HttpService, TLC

Symmetry == Permutations(Requests) \cup Permutations(Workers)
=============================================================================
