----------------------------- MODULE SessionProxy -----------------------------
(***************************************************************************)
(* The proxy of a session: runningProxy of internal/session/proxy.go and   *)
(* the routers behind it, proxy.Router of internal/proxy/proxy.go.  Each   *)
(* CONNECT request is a goroutine that reads the current router, finds the *)
(* way to its target and dials, joins the router's connections and copies  *)
(* in two more goroutines.  replaceRoutes puts a router with the private   *)
(* hosts of Heimdal's metadata in place while requests are in progress,    *)
(* close ends the last one.                                                *)
(***************************************************************************)
EXTENDS Naturals

CONSTANTS Requests,     \* CONNECT requests of the session's programs
          MaxRouters    \* bound on the routers the proxy goes through

ASSUME ProxyAssumption == MaxRouters \in Nat \ {0}

VARIABLES
  current,      \* runningProxy.router
  closed,       \* Router.closed
  tracked,      \* Router.connections: the requests whose pair it has
  closeList,    \* the pairs a Router.Close has still to close
  returned,     \* the routers whose Close has returned
  listening,    \* the HTTP server accepts requests
  caller,       \* the platform session: in replaceRoutes, close, or neither
  upstream,     \* BIVROST_UPSTREAM_PROXY is set
  at,           \* where each request is
  target,       \* the kind of name it asks for
  via,          \* the router it read
  route,        \* what its upstream connection goes through or to
  ends,         \* its open connections
  copying       \* the copies that still run: toClient, toUpstream

routerVars == <<current, closed, tracked, closeList, returned>>
requestVars == <<upstream, at, target, via, route, ends, copying>>
taken == <<upstream, target, via, route>>
vars == <<routerVars, listening, caller, requestVars>>

Routers == 1..MaxRouters
Pair == {"client", "upstream"}
Copies == {"toClient", "toUpstream"}
Source == [toClient |-> "upstream", toUpstream |-> "client"]

Init ==
  /\ current = 1
  /\ closed = {} /\ returned = {}
  /\ tracked = [r \in Routers |-> {}]
  /\ closeList = [r \in Routers |-> {}]
  /\ listening = TRUE /\ caller = "idle"
  /\ upstream \in BOOLEAN
  /\ at = [c \in Requests |-> "none"]
  /\ target = [c \in Requests |-> "other"]
  /\ route = [c \in Requests |-> "none"]
  /\ via = [c \in Requests |-> 1]
  /\ ends = [c \in Requests |-> {}]
  /\ copying = [c \in Requests |-> {}]

Goto(c, point) == at' = [at EXCEPT ![c] = point]

-----------------------------------------------------------------------------
(* Routing.  A name is "listed" when the first router knows it, the registry's
   hosts and the profile's private hosts; "learned" when it came with Heimdal's
   routes; "local" when it is an address or localhost.                       *)

Targets == {"listed", "learned", "other", "local"}

IsTunnelHost(r, name) == name = "listed" \/ (name = "learned" /\ r > 1)

Way(r, name) ==
  IF IsTunnelHost(r, name) THEN "socks" ELSE IF upstream THEN "proxy" ELSE "direct"

\* What a lookup may find, and what of it is dialed: one of the public addresses.
Dialable(addresses) == addresses \ {"private"}
DirectRoutes == UNION {Dialable(addresses) : addresses \in SUBSET {"public", "private"}}

RoutesOf(way) == IF way = "direct" THEN DirectRoutes ELSE {way}

-----------------------------------------------------------------------------
(* Router.ServeHTTP.                                                       *)

\* The server's handler reads the router once; the name is checked then.
Accept(c) ==
  /\ listening /\ at[c] = "none"
  /\ via' = [via EXCEPT ![c] = current]
  /\ \E name \in Targets :
       /\ target' = [target EXCEPT ![c] = name]
       /\ IF name = "local"
          THEN Goto(c, "done") /\ UNCHANGED ends
          ELSE Goto(c, "dialing") /\ ends' = [ends EXCEPT ![c] = {"client"}]
  /\ UNCHANGED <<routerVars, listening, caller, upstream, route, copying>>

\* Mistake: a tunnel host that the SOCKS proxy does not reach is tried without it.
ConnectOrFallBack(c) ==
  /\ at[c] = "dialing"
  /\ \E way \in RoutesOf(Way(via[c], target[c])) \cup DirectRoutes :
       /\ route' = [route EXCEPT ![c] = way]
       /\ ends' = [ends EXCEPT ![c] = @ \cup {"upstream"}]
       /\ Goto(c, IF way = "public" THEN "dialed" ELSE "greeting")
  /\ UNCHANGED <<routerVars, listening, caller, upstream, target, via, copying>>

\* dialSOCKS, dialHTTPProxy, dialDirect: only the direct socket is ready at once.
Connect(c) ==
  /\ at[c] = "dialing"
  /\ \E way \in RoutesOf(Way(via[c], target[c])) :
       /\ route' = [route EXCEPT ![c] = way]
       /\ ends' = [ends EXCEPT ![c] = @ \cup {"upstream"}]
       /\ Goto(c, IF way \in {"socks", "proxy"} THEN "greeting" ELSE "dialed")
  /\ UNCHANGED <<routerVars, listening, caller, upstream, target, via, copying>>

\* The proxy that was dialed answers in time that it has reached the target.
Greet(c) ==
  /\ at[c] = "greeting" /\ Goto(c, "dialed")
  /\ UNCHANGED <<routerVars, listening, caller, taken, ends, copying>>

\* Setup has a deadline, so dialing always ends; what was opened is closed.
DialFails(c) ==
  /\ at[c] \in {"dialing", "greeting"}
  /\ ends' = [ends EXCEPT ![c] = {}]
  /\ Goto(c, "done")
  /\ UNCHANGED <<routerVars, listening, caller, taken, copying>>

\* Mistake: the pair that is refused is not closed.
TrackLeaks(c) ==
  /\ at[c] = "dialed"
  /\ IF via[c] \in closed
     THEN Goto(c, "done") /\ UNCHANGED tracked
     ELSE tracked' = [tracked EXCEPT ![via[c]] = @ \cup {c}] /\ Goto(c, "tracked")
  /\ UNCHANGED <<current, closed, closeList, returned, listening, caller, taken, ends, copying>>

\* After the connection is hijacked.
Track(c) ==
  /\ at[c] = "dialed"
  /\ IF via[c] \in closed
     THEN Goto(c, "done") /\ ends' = [ends EXCEPT ![c] = {}] /\ UNCHANGED tracked
     ELSE /\ tracked' = [tracked EXCEPT ![via[c]] = @ \cup {c}]
          /\ Goto(c, "tracked") /\ UNCHANGED ends
  /\ UNCHANGED <<current, closed, closeList, returned, listening, caller, taken, copying>>

HijackFails(c) ==
  /\ at[c] = "dialed"
  /\ Goto(c, "done") /\ ends' = [ends EXCEPT ![c] = {}]
  /\ UNCHANGED <<routerVars, listening, caller, taken, copying>>

\* The answer is written; a client that is gone already ends the request.
Answer(c) ==
  /\ at[c] = "tracked"
  /\ \/ "client" \in ends[c] /\ Goto(c, "copying") /\ copying' = [copying EXCEPT ![c] = Copies]
     \/ Goto(c, "finishing") /\ UNCHANGED copying
  /\ UNCHANGED <<routerVars, listening, caller, taken, ends>>

\* io.Copy may return at any time: a connection fails, or has been idle for as long
\* as activity allows.  It is sure to return when the one it reads from is closed.
CopyEnds(c, copy) ==
  /\ at[c] \in {"copying", "closing"} /\ copy \in copying[c]
  /\ copying' = [copying EXCEPT ![c] = @ \ {copy}]
  /\ UNCHANGED <<routerVars, listening, caller, taken, at, ends>>

\* Mistake: only the client's connection is closed.
CloseHalf(c) ==
  /\ at[c] = "copying" /\ copying[c] # Copies
  /\ ends' = [ends EXCEPT ![c] = @ \ {"client"}]
  /\ Goto(c, "closing")
  /\ UNCHANGED <<routerVars, listening, caller, taken, copying>>

\* After the first copy both connections are closed, which ends the second.
CloseTunnel(c) ==
  /\ at[c] = "copying" /\ copying[c] # Copies
  /\ ends' = [ends EXCEPT ![c] = {}]
  /\ Goto(c, "closing")
  /\ UNCHANGED <<routerVars, listening, caller, taken, copying>>

TunnelClosed(c) ==
  /\ at[c] = "closing" /\ copying[c] = {}
  /\ Goto(c, "finishing")
  /\ UNCHANGED <<routerVars, listening, caller, taken, ends, copying>>

\* The deferred closes and untrack.
Finish(c) ==
  /\ at[c] = "finishing"
  /\ ends' = [ends EXCEPT ![c] = {}]
  /\ tracked' = [tracked EXCEPT ![via[c]] = @ \ {c}]
  /\ Goto(c, "done")
  /\ UNCHANGED <<current, closed, closeList, returned, listening, caller, taken, copying>>

-----------------------------------------------------------------------------
(* Router.Close: mark and collect under the lock, then close one by one.   *)

\* Mistake: the map is cleared before it is collected.
ClearFirst(r) ==
  /\ closed' = closed \cup {r}
  /\ tracked' = [tracked EXCEPT ![r] = {}]
  /\ UNCHANGED closeList
BeginRouterClose(r) ==
  /\ closed' = closed \cup {r}
  /\ closeList' = [closeList EXCEPT ![r] = tracked[r]]
  /\ tracked' = [tracked EXCEPT ![r] = {}]

ClosePair(r) ==
  /\ \E c \in closeList[r] :
       /\ ends' = [ends EXCEPT ![c] = {}]
       /\ closeList' = [closeList EXCEPT ![r] = @ \ {c}]
  /\ UNCHANGED <<current, closed, tracked, returned, listening, caller, taken, at, copying>>

\* The caller's Close returns, and with it replaceRoutes or close.
EndRouterClose(r) ==
  /\ r \in closed \ returned /\ closeList[r] = {}
  /\ returned' = returned \cup {r}
  /\ caller' = IF caller = "replacing" THEN "idle" ELSE "closed"
  /\ UNCHANGED <<current, closed, tracked, closeList, listening, requestVars>>

-----------------------------------------------------------------------------
(* runningProxy.                                                           *)

\* Under routesMu: the new router is in place before the old one is closed.
SwapRouter ==
  /\ caller = "idle" /\ current < MaxRouters
  /\ current' = current + 1
  /\ caller' = "swapped"
  /\ UNCHANGED <<closed, tracked, closeList, returned, listening, requestVars>>

ClosePrevious ==
  /\ caller = "swapped"
  /\ BeginRouterClose(current - 1)
  /\ caller' = "replacing"
  /\ UNCHANGED <<current, returned, listening, requestVars>>

\* server.Close stops the listener and closes connections nobody has taken over.
CloseServer ==
  /\ caller = "idle"
  /\ listening' = FALSE
  /\ ends' = [c \in Requests |->
                IF at[c] \in {"dialing", "greeting", "dialed"} THEN ends[c] \ {"client"} ELSE ends[c]]
  /\ caller' = "stopping"
  /\ UNCHANGED <<routerVars, taken, at, copying>>

CloseRouter ==
  /\ caller = "stopping"
  /\ BeginRouterClose(current)
  /\ caller' = "closing"
  /\ UNCHANGED <<current, returned, listening, requestVars>>

Caller == SwapRouter \/ ClosePrevious \/ CloseServer \/ CloseRouter
Closing == \E r \in Routers : ClosePair(r) \/ EndRouterClose(r)

Handle(c) ==
  \/ Connect(c) \/ Greet(c) \/ DialFails(c) \/ Track(c) \/ HijackFails(c) \/ Answer(c)
  \/ CloseTunnel(c) \/ TunnelClosed(c) \/ Finish(c)

Next ==
  \/ \E c \in Requests :
       Accept(c) \/ Handle(c) \/ \E copy \in Copies : CopyEnds(c, copy)
  \/ Caller \/ Closing

Spec == Init /\ [][Next]_vars

\* A request goes on by itself, except that a copy may wait as long as the
\* connection it reads from is open.
FairSpec ==
  /\ Spec
  /\ \A c \in Requests : WF_vars(Handle(c))
  /\ \A c \in Requests, copy \in Copies : WF_vars(Source[copy] \notin ends[c] /\ CopyEnds(c, copy))
  /\ WF_vars(Closing) /\ WF_vars(ClosePrevious \/ CloseRouter)

-----------------------------------------------------------------------------
(* Properties.                                                             *)

TypeOK ==
  /\ current \in Routers /\ closed \subseteq Routers /\ returned \subseteq closed
  /\ tracked \in [Routers -> SUBSET Requests]
  /\ closeList \in [Routers -> SUBSET Requests]
  /\ listening \in BOOLEAN
  /\ caller \in {"idle", "swapped", "replacing", "stopping", "closing", "closed"}
  /\ at \in [Requests -> {"none", "dialing", "greeting", "dialed", "tracked", "copying",
                          "closing", "finishing", "done"}]
  /\ upstream \in BOOLEAN
  /\ target \in [Requests -> Targets]
  /\ via \in [Requests -> Routers]
  /\ route \in [Requests -> {"none", "socks", "proxy", "public"}]
  /\ ends \in [Requests -> SUBSET Pair]
  /\ copying \in [Requests -> SUBSET Copies]

\* "Tunnels opened through the previous routes are closed", and Close "prevents
\* new tunnels from being registered": once replaceRoutes or close has returned,
\* nothing is carried through the old router, not even for a request that read it
\* long before and was dialing all the while.
Carrying(c) == at[c] \in {"tracked", "copying"} /\ ends[c] = Pair
NoTunnelThroughClosed == \A c \in Requests : via[c] \in returned => ~Carrying(c)

\* Once replaceRoutes has returned, every tunnel goes the way that the routes in
\* force name for its target: what was reached over the open network before the
\* routes were known does not stay, and nothing private ever leaves the SSH forward.
Settled == \A r \in 1..current - 1 : r \in returned
RoutesInForce ==
  Settled => \A c \in Requests :
    Carrying(c) => route[c] \in RoutesOf(Way(current, target[c]))

\* No connection is left open by a request that is over, however it ended.
NothingLeaks == \A c \in Requests : at[c] = "done" => ends[c] = {}

\* Half a tunnel does not stay: when one of its copies ends, or the router closes
\* its connections, the other copy ends too and the request is over.
TunnelEnds ==
  \A c \in Requests :
    at[c] = "copying" /\ (ends[c] # Pair \/ copying[c] # Copies) ~> at[c] = "done"

=============================================================================
