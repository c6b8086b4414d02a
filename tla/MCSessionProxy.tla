---------------------------- MODULE MCSessionProxy ----------------------------
(* SessionProxy with a few concurrent requests.                              *)
EXTENDS SessionProxy, TLC

Symmetric == Permutations(Requests)
=============================================================================
