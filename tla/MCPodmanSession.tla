--------------------------- MODULE MCPodmanSession ---------------------------
(* PodmanSession with the code's lease of four heartbeat intervals.         *)
EXTENDS PodmanSession
=============================================================================
