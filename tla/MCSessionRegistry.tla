-------------------------- MODULE MCSessionRegistry --------------------------
(* SessionRegistry on a few processes, and the promise it implements.       *)
EXTENDS SessionRegistry, TLC

Symmetric == Permutations(Sessions)
=============================================================================
