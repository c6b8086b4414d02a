------------------------------- MODULE MCConnect -------------------------------
(***************************************************************************)
(* A session's way to its SSH forward, and the Heimdal metadata it reads   *)
(* through that forward (platform.go:253-266).  The two share no state: a  *)
(* forward that goes away is one of the failures of a reader, and nothing  *)
(* of the metadata acts on the route.  Each behaviour is therefore of one  *)
(* of them, with the other at its start, and their product is not built.   *)
(***************************************************************************)
EXTENDS SshRoute, HeimdalMetadata

VARIABLE part

\* What the other part starts with does not matter.  Environments and publishers
\* are interchangeable: the first publisher's environment may be any.
ConnectInit ==
  /\ RouteInit /\ Init
  /\ environment[CHOOSE p \in Publishers : TRUE] = CHOOSE e \in Environments : TRUE
  /\ \/ part = "route" /\ \A p \in Publishers, r \in Readers : wanted[r] = environment[p]
     \/ part = "metadata" /\ interactive

RouteStep == part = "route" /\ RouteNext /\ UNCHANGED <<part, vars>>
MetadataStep == part = "metadata" /\ Next /\ UNCHANGED <<part, routeVars>>

ConnectNext == RouteStep \/ MetadataStep

FairConnectSpec ==
  /\ ConnectInit /\ [][ConnectNext]_<<part, vars, routeVars>>
  /\ RouteFairness
=============================================================================
