----------------------------- MODULE Publications -----------------------------
(***************************************************************************)
(* Published sessions: sessionPublication, its gateway, and the directory  *)
(* of descriptors that every bivrost process shares, of                    *)
(* internal/session/publication.go.  A publication listens on a loopback   *)
(* port with a token of its own and names both in a descriptor.  Nothing   *)
(* locks the directory: whoever publishes or cleans probes what it finds   *)
(* and removes the descriptors whose gateway is gone.  Ports come back:    *)
(* after a gateway closes or its process dies, another gateway or another  *)
(* program may listen on its port.                                         *)
(***************************************************************************)
EXTENDS Naturals

CONSTANTS Publications,  \* every publication any session ever makes
          Ports,         \* the loopback ports the system hands out
          Cleaners,      \* processes that clean the directory
          Short,         \* those that may lack what a dial takes: descriptors, ports, memory
          Clients,       \* connections of local clients such as kubectl
          Free, Other,   \* a port nobody, or some other program, listens on
          NoPort, NoPublication

ASSUME PublicationsAssumption ==
  /\ Publications \cap {Free, Other, NoPublication} = {} /\ Free # Other
  /\ NoPort \notin Ports /\ Short \subseteq Cleaners

VARIABLES stage,    \* how far each publication's owner is
          port,     \* the port a publication's descriptor names
          owner,    \* who listens on each port
          file,     \* "none", "tmp" or "json"
          aged,     \* publications whose temporary file is over a minute old
          conn,     \* the connection each client has through a gateway
          cleaner,  \* where each cleaner is
          listed,   \* the descriptors it read and has not probed yet
          gone,     \* those whose owner it found gone
          undialed  \* history: the open ones that some cleaner had no means to dial

cleanVars == <<cleaner, listed, gone, undialed>>
vars == <<stage, port, owner, file, aged, conn, cleaner, listed, gone, undialed>>

\* publish: "listening" its gateway serves, "temp" the temporary file is being
\* written, "open" renamed; close: "closed" the flag is set and the connections
\* are closed, "unbound" the server too; "gone" at the end, "dead" in a crash.
Stages == {"unborn", "listening", "temp", "open", "closed", "unbound", "gone", "dead"}
Serving == {"listening", "temp", "open"}

NoConn == [gate |-> NoPublication, for |-> NoPublication, at |-> "none"]

Init ==
  /\ stage = [p \in Publications |-> "unborn"]
  /\ port = [p \in Publications |-> NoPort]
  /\ owner = [n \in Ports |-> Free]
  /\ file = [p \in Publications |-> "none"] /\ aged = {}
  /\ conn = [k \in Clients |-> NoConn]
  /\ cleaner = [c \in Cleaners |-> "idle"]
  /\ listed = [c \in Cleaners |-> {}] /\ gone = [c \in Cleaners |-> {}] /\ undialed = {}

-----------------------------------------------------------------------------
(* acrActivation.publish, once it may, and sessionPublication.close.       *)

Listen(p) ==
  /\ stage[p] = "unborn"
  /\ \E n \in Ports :
       /\ owner[n] = Free
       /\ owner' = [owner EXCEPT ![n] = p]
       /\ port' = [port EXCEPT ![p] = n]
  /\ stage' = [stage EXCEPT ![p] = "listening"]
  /\ UNCHANGED <<file, aged, conn, cleanVars>>

CreateTemp(p) ==
  /\ stage[p] = "listening"
  /\ stage' = [stage EXCEPT ![p] = "temp"]
  /\ file' = [file EXCEPT ![p] = "tmp"]
  /\ UNCHANGED <<port, owner, aged, conn, cleanVars>>

\* Nothing bounds the time between creating the file and renaming it: the
\* process may be suspended.
TempAges(p) ==
  /\ file[p] = "tmp"
  /\ aged' = aged \cup {p}
  /\ UNCHANGED <<stage, port, owner, file, conn, cleanVars>>

Rename(p) ==
  /\ stage[p] = "temp" /\ file[p] = "tmp"
  /\ file' = [file EXCEPT ![p] = "json"]
  /\ aged' = aged \ {p}
  /\ stage' = [stage EXCEPT ![p] = "open"]
  /\ UNCHANGED <<port, owner, conn, cleanVars>>

\* close under p.mu, of an open publication that is withdrawn, or of one whose
\* file could not be created, written or renamed.
CloseConnections(p) ==
  /\ stage[p] \in Serving
  /\ stage' = [stage EXCEPT ![p] = "closed"]
  /\ conn' = [k \in Clients |->
                IF conn[k].gate = p /\ conn[k].at = "open" THEN NoConn ELSE conn[k]]
  /\ UNCHANGED <<port, owner, file, aged, cleanVars>>

CloseServer(p) ==
  /\ stage[p] = "closed"
  /\ owner' = [owner EXCEPT ![port[p]] = Free]
  /\ stage' = [stage EXCEPT ![p] = "unbound"]
  /\ UNCHANGED <<port, file, aged, conn, cleanVars>>

\* A cleaner may have removed the file already.
RemoveFile(p) ==
  /\ stage[p] = "unbound"
  /\ file' = [file EXCEPT ![p] = "none"]
  /\ aged' = aged \ {p}
  /\ stage' = [stage EXCEPT ![p] = "gone"]
  /\ UNCHANGED <<port, owner, conn, cleanVars>>

\* The owner dies: the system closes its sockets, its file stays.
Die(p) ==
  /\ stage[p] \in Serving \cup {"closed", "unbound"}
  /\ stage' = [stage EXCEPT ![p] = "dead"]
  /\ owner' = [n \in Ports |-> IF owner[n] = p THEN Free ELSE owner[n]]
  /\ conn' = [k \in Clients |-> IF conn[k].gate = p THEN NoConn ELSE conn[k]]
  /\ UNCHANGED <<port, file, aged, cleanVars>>

OtherProgram ==
  /\ \E n \in Ports :
       \/ owner[n] = Free /\ owner' = [owner EXCEPT ![n] = Other]
       \/ owner[n] = Other /\ owner' = [owner EXCEPT ![n] = Free]
  /\ UNCHANGED <<stage, port, file, aged, conn, cleanVars>>

-----------------------------------------------------------------------------
(* sessionPublication.ServeHTTP, for a CONNECT with the token a client read *)
(* from p's descriptor at some time, perhaps long ago.                      *)

\* Mistake: the gateway takes any token for its own.
AnyToken(p, q) == TRUE

Authorized(p, q) == p = q

\* Nobody but the owner has the token before the descriptor has its name.
Told(p) == stage[p] \notin {"unborn", "listening", "temp"}

Connect(k, p) ==
  /\ conn[k] = NoConn /\ Told(p)
  /\ port[p] \in Ports /\ owner[port[p]] \in Publications
  /\ LET q == owner[port[p]] IN
       /\ Authorized(p, q)
       /\ stage[q] \in Serving
       /\ conn' = [conn EXCEPT ![k] = [gate |-> q, for |-> p, at |-> "dialing"]]
  /\ UNCHANGED <<stage, port, owner, file, aged, cleanVars>>

\* The upstream answers and the connection is taken over, or either fails.
Dialed(k) ==
  /\ conn[k].at = "dialing"
  /\ \/ conn' = [conn EXCEPT ![k].at = "dialed"]
     \/ conn' = [conn EXCEPT ![k] = NoConn]
  /\ UNCHANGED <<stage, port, owner, file, aged, cleanVars>>

\* Mistake: closed is not looked at again.
RegisterLate(k) ==
  /\ conn[k].at = "dialed"
  /\ conn' = [conn EXCEPT ![k].at = "open"]
  /\ UNCHANGED <<stage, port, owner, file, aged, cleanVars>>

\* Under p.mu: look at closed again, then record the pair for close to find.
Register(k) ==
  /\ conn[k].at = "dialed"
  /\ conn' = [conn EXCEPT ![k] = IF stage[conn[k].gate] \in Serving
                                 THEN [conn[k] EXCEPT !.at = "open"] ELSE NoConn]
  /\ UNCHANGED <<stage, port, owner, file, aged, cleanVars>>

Disconnect(k) ==
  /\ conn[k].at = "open"
  /\ conn' = [conn EXCEPT ![k] = NoConn]
  /\ UNCHANGED <<stage, port, owner, file, aged, cleanVars>>

-----------------------------------------------------------------------------
(* cleanPublicationDirectory: read the directory and remove old temporary   *)
(* files; probe the descriptors, several at a time; remove those found gone. *)

StartClean(c) ==
  /\ cleaner[c] = "idle"
  /\ cleaner' = [cleaner EXCEPT ![c] = "reading"]
  /\ UNCHANGED <<stage, port, owner, file, aged, conn, listed, gone, undialed>>

RemoveOldTemp(c, p) ==
  /\ cleaner[c] = "reading" /\ file[p] = "tmp" /\ p \in aged
  /\ file' = [file EXCEPT ![p] = "none"]
  /\ aged' = aged \ {p}
  /\ UNCHANGED <<stage, port, owner, conn, cleanVars>>

ReadDescriptors(c) ==
  /\ cleaner[c] = "reading" /\ \A p \in aged : file[p] # "tmp"
  /\ listed' = [listed EXCEPT ![c] = {p \in Publications : file[p] = "json"}]
  /\ cleaner' = [cleaner EXCEPT ![c] = "probing"]
  /\ UNCHANGED <<stage, port, owner, file, aged, conn, gone, undialed>>

\* publicationOwnerGone.
Judged(c, p) ==
  /\ cleaner[c] = "probing" /\ p \in listed[c]
  /\ listed' = [listed EXCEPT ![c] = @ \ {p}]
  /\ UNCHANGED <<stage, port, owner, file, aged, conn, cleaner>>
TakenForGone(c, p) == Judged(c, p) /\ gone' = [gone EXCEPT ![c] = @ \cup {p}]

\* Refused is gone, and so are a gateway that rejects the token and one that says
\* it ended.
NeverRefused(p) == FALSE    \* mistake: no connection is not a conclusive answer
Refused(p) == owner[port[p]] = Free
Answer403Or410(p) ==
  LET q == owner[port[p]] IN
    \/ q \in Publications /\ (~Authorized(p, q) \/ stage[q] \notin Serving)
    \/ q = Other
FindGone(c, p) ==
  /\ TakenForGone(c, p) /\ UNCHANGED undialed
  /\ Refused(p) \/ Answer403Or410(p)

\* A dial that fails in the cleaner's own process or system is an error and no
\* timeout either: the test does not tell it from a refusal, whoever listens.
FailToDial(c, p) ==
  /\ c \in Short
  /\ TakenForGone(c, p)
  /\ undialed' = IF stage[p] = "open" THEN undialed \cup {p} ELSE undialed

\* Mistake: an owner that does not answer in time is taken for gone.
TimeOutAsGone(c, p) == TakenForGone(c, p) /\ UNCHANGED undialed

\* A timeout, or another answer, leaves the file alone; a refusal is certain.
FindNothing(c, p) ==
  /\ Judged(c, p) /\ UNCHANGED <<gone, undialed>>
  /\ ~Refused(p)

Probe(c, p) == FindGone(c, p) \/ FailToDial(c, p) \/ FindNothing(c, p)

\* The caller's context ends: what was not probed is left alone.
CancelClean(c) ==
  /\ cleaner[c] = "probing"
  /\ cleaner' = [cleaner EXCEPT ![c] = "cancelled"]
  /\ listed' = [listed EXCEPT ![c] = {}]
  /\ UNCHANGED <<stage, port, owner, file, aged, conn, gone, undialed>>

Probed(c) == cleaner[c] \in {"probing", "cancelled"} /\ listed[c] = {}
RemoveGone(c) ==
  /\ Probed(c)
  /\ IF gone[c] = {}
     THEN cleaner' = [cleaner EXCEPT ![c] = "idle"] /\ UNCHANGED <<file, gone>>
     ELSE /\ \E p \in gone[c] : /\ file' = [file EXCEPT ![p] = "none"]
                                /\ gone' = [gone EXCEPT ![c] = @ \ {p}]
          /\ UNCHANGED cleaner
  /\ UNCHANGED <<stage, port, owner, aged, conn, listed, undialed>>

\* A file that cannot be removed ends the clean.
RemoveFails(c) ==
  /\ \/ cleaner[c] = "reading" /\ \E p \in aged : file[p] = "tmp"
     \/ Probed(c) /\ gone[c] # {}
  /\ cleaner' = [cleaner EXCEPT ![c] = "idle"]
  /\ gone' = [gone EXCEPT ![c] = {}]
  /\ UNCHANGED <<stage, port, owner, file, aged, conn, listed, undialed>>

Clean(c) ==
  \/ (\E p \in Publications : RemoveOldTemp(c, p) \/ Probe(c, p))
  \/ ReadDescriptors(c) \/ RemoveGone(c)

Publish(p) == Listen(p) \/ CreateTemp(p) \/ Rename(p)
Close(p) == CloseServer(p) \/ RemoveFile(p)

Next ==
  \/ \E p \in Publications :
       Publish(p) \/ Close(p) \/ CloseConnections(p) \/ TempAges(p) \/ Die(p)
  \/ OtherProgram
  \/ \E k \in Clients : Dialed(k) \/ Register(k) \/ Disconnect(k)
                        \/ \E p \in Publications : Connect(k, p)
  \/ \E c \in Cleaners : StartClean(c) \/ CancelClean(c) \/ RemoveFails(c) \/ Clean(c)

Spec == Init /\ [][Next]_vars

\* A close that has begun goes on unless its process dies, and so does a clean;
\* that a clean is started again and again is up to users: publish runs one.  "A
\* live gateway answers /health immediately": it does not time out every time.
FairSpec ==
  /\ Spec
  /\ \A c \in Cleaners, p \in Publications :
       SF_vars(FindGone(c, p) /\ owner[port[p]] # Other)
  /\ \A p \in Publications : WF_vars(Close(p))
  /\ \A c \in Cleaners : WF_vars(Clean(c)) /\ WF_vars(StartClean(c))

-----------------------------------------------------------------------------
(* Properties.                                                             *)

TypeOK ==
  /\ stage \in [Publications -> Stages]
  /\ port \in [Publications -> Ports \cup {NoPort}]
  /\ owner \in [Ports -> Publications \cup {Free, Other}]
  /\ file \in [Publications -> {"none", "tmp", "json"}]
  /\ aged \subseteq Publications
  /\ conn \in [Clients -> [gate : Publications \cup {NoPublication},
                           for : Publications \cup {NoPublication},
                           at : {"none", "dialing", "dialed", "open"}]]
  /\ cleaner \in [Cleaners -> {"idle", "reading", "probing", "cancelled"}]
  /\ listed \in [Cleaners -> SUBSET Publications]
  /\ gone \in [Cleaners -> SUBSET Publications] /\ undialed \subseteq Publications

\* No clean removes the descriptor of a session that is published, however long
\* it takes between reading the directory and removing what it found gone, unless
\* a cleaner had no means to dial that session.
DescriptorKept ==
  \A p \in Publications : stage[p] = "open" /\ p \notin undialed => file[p] = "json"

\* "Only remove recognised descriptors whose local owner is conclusively gone.
\* Timeouts and other ambiguous failures leave files alone" (publication.go:408-409).
OwnerConclusivelyGone == \A p \in Publications : stage[p] = "open" => file[p] = "json"

\* The promise of ADR 0012 this directory of descriptors implements: a client is
\* connected once its pair of connections is recorded, through the publication whose
\* descriptor it read; "Unpublish closes existing gateway connections", also of a
\* request that was let in before and is dialing, and "a cached kubeconfig cannot
\* reconnect to a new owner when the old loopback port is reused".
Service == INSTANCE PublicationService WITH
  state <- [p \in Publications |->
              CASE ~Told(p)          -> "unpublished"
                [] stage[p] = "open" -> "published"
                [] OTHER             -> "withdrawn"],
  advertised <- {p \in Publications : file[p] = "json"},
  unprobed <- undialed,
  tunnel <- [k \in Clients |-> IF conn[k].at = "open" THEN conn[k].for ELSE NoPublication]

ImplementsService == Service!Spec

\* The descriptor a crash leaves behind is removed in the end, unless cleaning
\* keeps being cancelled, files cannot be removed, or another program keeps
\* listening on its port.
CrashReclaimed ==
  /\ <>[][\A c \in Cleaners : ~CancelClean(c) /\ ~RemoveFails(c)]_vars
  /\ <>[](\A n \in Ports : owner[n] # Other)
  => \A p \in Publications : stage[p] = "dead" /\ file[p] = "json" ~> file[p] = "none"

=============================================================================
