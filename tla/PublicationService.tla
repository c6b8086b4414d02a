-------------------------- MODULE PublicationService --------------------------
(***************************************************************************)
(* What ADR 0012 promises of published sessions, with no gateway, port,    *)
(* token or file: a session is published once, and advertised from then    *)
(* until some time after it is withdrawn, unless somebody who tidies up    *)
(* cannot tell whether it is still there; a client that found it there     *)
(* reaches that session and no other, and withdrawing it ends every tunnel *)
(* through it at once.  Publications implements it.                        *)
(***************************************************************************)
CONSTANTS Publications, Clients, NoPublication

VARIABLES state,       \* "unpublished", "published" or "withdrawn"
          advertised,  \* the publications a client can find
          unprobed,    \* those that somebody who looked for them could not ask
          tunnel       \* the publication each client is connected through

vars == <<state, advertised, unprobed, tunnel>>

Init ==
  /\ state = [p \in Publications |-> "unpublished"]
  /\ advertised = {} /\ unprobed = {}
  /\ tunnel = [k \in Clients |-> NoPublication]

Publish(p) ==
  /\ state[p] = "unpublished"
  /\ state' = [state EXCEPT ![p] = "published"]
  /\ advertised' = advertised \cup {p}
  /\ UNCHANGED <<unprobed, tunnel>>

\* In whatever way, and also before it is published: there is no way back.
Withdraw(p) ==
  /\ state[p] # "withdrawn"
  /\ state' = [state EXCEPT ![p] = "withdrawn"]
  /\ tunnel' = [k \in Clients |-> IF tunnel[k] = p THEN NoPublication ELSE tunnel[k]]
  /\ UNCHANGED <<advertised, unprobed>>

\* Whoever tidies up asks each publication whether it is still there, and may fail
\* to for a reason of its own.
CannotAsk(p) ==
  /\ state[p] = "published"
  /\ unprobed' = unprobed \cup {p}
  /\ UNCHANGED <<state, advertised, tunnel>>

\* Only what is withdrawn, or could not be asked, is taken down, by its owner or by
\* somebody else.
Forget(p) ==
  /\ state[p] = "withdrawn" \/ p \in unprobed
  /\ p \in advertised
  /\ advertised' = advertised \ {p}
  /\ UNCHANGED <<state, unprobed, tunnel>>

Connect(k, p) ==
  /\ tunnel[k] = NoPublication /\ state[p] = "published"
  /\ tunnel' = [tunnel EXCEPT ![k] = p]
  /\ UNCHANGED <<state, advertised, unprobed>>

Disconnect(k) ==
  /\ tunnel[k] # NoPublication
  /\ tunnel' = [tunnel EXCEPT ![k] = NoPublication]
  /\ UNCHANGED <<state, advertised, unprobed>>

Next ==
  \/ \E p \in Publications : Publish(p) \/ Withdraw(p) \/ CannotAsk(p) \/ Forget(p)
  \/ \E k \in Clients : Disconnect(k) \/ \E p \in Publications : Connect(k, p)

Spec == Init /\ [][Next]_vars
=============================================================================
