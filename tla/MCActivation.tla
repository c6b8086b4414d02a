----------------------------- MODULE MCActivation -----------------------------
(* Activation with a few concurrent requests.                                *)
EXTENDS Activation, TLC

Symmetric == Permutations(Requests) \cup Permutations(Targets)
=============================================================================
