---------------------------- MODULE MCPublications ----------------------------
(* Publications with few enough ports that they are handed out again.        *)
EXTENDS Publications
=============================================================================
