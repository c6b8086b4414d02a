-------------------------- MODULE SessionAdmission --------------------------
(***************************************************************************)
(* What ADR 0018 promises of concurrent sessions, with no registry: a      *)
(* session joins only while the sessions are fewer than its own limit and  *)
(* than that of every session already there, and at most one of them has   *)
(* Podman registry access.  SessionRegistry implements it with files.      *)
(***************************************************************************)
EXTENDS Naturals, FiniteSets

CONSTANTS Sessions, Limits

VARIABLES limit,    \* the limit each active session brought; 0 when not active
          holders   \* the sessions with registry access

vars == <<limit, holders>>

Active == {s \in Sessions : limit[s] # 0}

Init == limit = [s \in Sessions |-> 0] /\ holders = {}

Join(s, l) ==
  /\ s \notin Active
  /\ Cardinality(Active) < l
  /\ \A t \in Active : Cardinality(Active) < limit[t]
  /\ limit' = [limit EXCEPT ![s] = l]
  /\ UNCHANGED holders

Claim(s) ==
  /\ s \in Active /\ holders = {}
  /\ holders' = {s}
  /\ UNCHANGED limit

Release(s) ==
  /\ holders = {s}
  /\ holders' = {}
  /\ UNCHANGED limit

\* Leaving, in whatever way, gives the access up.
Leave(s) ==
  /\ s \in Active
  /\ limit' = [limit EXCEPT ![s] = 0]
  /\ holders' = holders \ {s}

Next == \E s \in Sessions :
          \/ \E l \in Limits : Join(s, l)
          \/ Claim(s) \/ Release(s) \/ Leave(s)

Spec == Init /\ [][Next]_vars
=============================================================================
