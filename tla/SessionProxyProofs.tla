-------------------------- MODULE SessionProxyProofs --------------------------
(***************************************************************************)
(* Theorems about SessionProxy, for any requests and any number of         *)
(* routers.  A tunnel is always in the hands of its router, among the      *)
(* connections it tracks or those its Close has still to close (Held), and *)
(* a router whose Close has returned has neither (Control).  A request     *)
(* that outlives its router is refused when it joins, so it never carries  *)
(* anything; and what is carried took the way its router named (OnItsWay). *)
(***************************************************************************)
EXTENDS SessionProxy, TLAPS

\* Routers are closed one after another, by replaceRoutes and then by close.
Control ==
  /\ caller \in {"idle", "stopping"} =>
       closed = 1 .. current - 1 /\ returned = 1 .. current - 1
  /\ caller = "swapped" =>
       current > 1 /\ closed = 1 .. current - 2 /\ returned = 1 .. current - 2
  /\ caller = "replacing" =>
       current > 1 /\ closed = 1 .. current - 1 /\ returned = 1 .. current - 2
  /\ caller = "closing" => closed = 1 .. current /\ returned = 1 .. current - 1
  /\ caller = "closed" => closed = 1 .. current /\ returned = 1 .. current

\* A closed router tracks nothing, and only a Close in progress has a list.
Lists ==
  \A r \in Routers :
    /\ r \in closed => tracked[r] = {}
    /\ r \notin closed \ returned => closeList[r] = {}

\* Close finds every tunnel.
Held == \A c \in Requests : Carrying(c) => c \in tracked[via[c]] \cup closeList[via[c]]

\* Only a request in progress has connections.
Quiet == \A c \in Requests : at[c] \in {"none", "done"} => ends[c] = {}

\* An upstream connection went the way of the router the request read.
OnItsWay ==
  \A c \in Requests :
    /\ via[c] <= current
    /\ at[c] \in {"greeting", "dialed", "tracked", "copying"} =>
         route[c] \in RoutesOf(Way(via[c], target[c]))

IInv == TypeOK /\ Control /\ Lists /\ Held /\ Quiet /\ OnItsWay

-----------------------------------------------------------------------------
\* What is dialed directly is a public address.
LEMMA DirectIsPublic == DirectRoutes \subseteq {"public"}
<1> SUFFICES ASSUME NEW addresses \in SUBSET {"public", "private"},
                    NEW address \in addresses \ {"private"}
             PROVE  address = "public"
  BY DEF DirectRoutes, Dialable
<1> QED  OBVIOUS

\* There are only these ways.
LEMMA WaysOut ==
  ASSUME NEW r, NEW name
  PROVE  RoutesOf(Way(r, name)) \subseteq {"none", "socks", "proxy", "public"}
  BY DirectIsPublic DEF RoutesOf, Way

\* Before the first request the first router is in place and open.
LEMMA InitIInv == Init => IInv
<1> SUFFICES ASSUME Init PROVE IInv
  OBVIOUS
<1>1. TypeOK
  BY ProxyAssumption DEF Init, TypeOK, Routers, Targets
<1>2. Control /\ Lists
  BY DEF Init, Control, Lists
<1>3. Held /\ Quiet /\ OnItsWay
  BY DEF Init, Held, Quiet, OnItsWay, Carrying
<1> QED  BY <1>1, <1>2, <1>3 DEF IInv

-----------------------------------------------------------------------------
\* Type correctness, which needs of Control only that a router being closed
\* is one of the routers.
LEMMA TypeStep == TypeOK /\ Control /\ [Next]_vars => TypeOK'
<1> SUFFICES ASSUME TypeOK, Control, [Next]_vars PROVE TypeOK'
  OBVIOUS
<1> USE ProxyAssumption
    DEF TypeOK, Routers, Pair, Copies, Goto, routerVars, requestVars, taken
<1>1. CASE UNCHANGED vars
  BY <1>1 DEF vars
<1>2. ASSUME NEW c \in Requests, Accept(c) PROVE TypeOK'
  <2>1. PICK name \in Targets : target' = [target EXCEPT ![c] = name]
    BY <1>2 DEF Accept
  <2>2. target' \in [Requests -> Targets]
    BY <2>1
  <2>3. via' \in [Requests -> Routers]
    BY <1>2 DEF Accept
  <2>4. ends' \in [Requests -> SUBSET Pair]
    BY <1>2 DEF Accept
  <2>5. at' \in [Requests -> {"none", "dialing", "greeting", "dialed", "tracked", "copying",
                             "closing", "finishing", "done"}]
    BY <1>2 DEF Accept
  <2> QED  BY <1>2, <2>2, <2>3, <2>4, <2>5 DEF Accept
<1>3. ASSUME NEW c \in Requests, Connect(c) PROVE TypeOK'
  BY <1>3, WaysOut DEF Connect
<1>4. ASSUME NEW c \in Requests, Greet(c) \/ DialFails(c) \/ HijackFails(c) \/ Answer(c)
      PROVE  TypeOK'
  <2>1. CASE Greet(c)  BY <2>1 DEF Greet
  <2>2. CASE DialFails(c)  BY <2>2 DEF DialFails
  <2>3. CASE HijackFails(c)  BY <2>3 DEF HijackFails
  <2>4. CASE Answer(c)
    <3>1. copying' \in [Requests -> SUBSET Copies]
      <4>1. copying' = [copying EXCEPT ![c] = Copies] \/ copying' = copying
        BY <2>4 DEF Answer
      <4> QED  BY <4>1
    <3>2. at' \in [Requests -> {"none", "dialing", "greeting", "dialed", "tracked",
                               "copying", "closing", "finishing", "done"}]
      <4>1. at' = [at EXCEPT ![c] = "copying"] \/ at' = [at EXCEPT ![c] = "finishing"]
        BY <2>4 DEF Answer
      <4> QED  BY <4>1
    <3> QED  BY <2>4, <3>1, <3>2 DEF Answer
  <2> QED  BY <1>4, <2>1, <2>2, <2>3, <2>4
<1>5. ASSUME NEW c \in Requests, Track(c) \/ Finish(c) PROVE TypeOK'
  <2>1. CASE Track(c) /\ via[c] \in closed  BY <2>1 DEF Track
  <2>2. CASE Track(c) /\ via[c] \notin closed
    <3>1. tracked' = [tracked EXCEPT ![via[c]] = tracked[via[c]] \cup {c}]
      BY <2>2 DEF Track
    <3>2. tracked' \in [Routers -> SUBSET Requests]
      BY <3>1
    <3> QED  BY <2>2, <3>2 DEF Track
  <2>3. CASE Finish(c)  BY <2>3 DEF Finish
  <2> QED  BY <1>5, <2>1, <2>2, <2>3
<1>6. ASSUME NEW c \in Requests, CloseTunnel(c) \/ TunnelClosed(c) PROVE TypeOK'
  BY <1>6 DEF CloseTunnel, TunnelClosed
<1>7. ASSUME NEW c \in Requests, NEW copy \in Copies, CopyEnds(c, copy) PROVE TypeOK'
  BY <1>7 DEF CopyEnds
<1>8. CASE SwapRouter
  BY <1>8 DEF SwapRouter
<1>9. CASE ClosePrevious \/ CloseRouter
  <2>1. ASSUME NEW r \in Routers, BeginRouterClose(r),
               caller' \in {"replacing", "closing"},
               UNCHANGED <<current, returned, listening, requestVars>>
        PROVE  TypeOK'
    BY <2>1 DEF BeginRouterClose
  <2>2. CASE ClosePrevious
    BY <2>1, <2>2 DEF ClosePrevious, Control
  <2>3. CASE CloseRouter
    BY <2>1, <2>3 DEF CloseRouter
  <2> QED  BY <1>9, <2>2, <2>3
<1>10. CASE CloseServer
  BY <1>10 DEF CloseServer
<1>11. ASSUME NEW r \in Routers, ClosePair(r) \/ EndRouterClose(r) PROVE TypeOK'
  <2>1. CASE ClosePair(r)
    <3>1. PICK c \in closeList[r] :
            /\ ends' = [ends EXCEPT ![c] = {}]
            /\ closeList' = [closeList EXCEPT ![r] = @ \ {c}]
      BY <2>1 DEF ClosePair
    <3> QED  BY <2>1, <3>1 DEF ClosePair
  <2>2. CASE EndRouterClose(r)
    BY <2>2 DEF EndRouterClose
  <2> QED  BY <1>11, <2>1, <2>2
<1> QED
  BY <1>1, <1>2, <1>3, <1>4, <1>5, <1>6, <1>7, <1>8, <1>9, <1>10, <1>11
     DEF Next, Handle, Caller, Closing

-----------------------------------------------------------------------------
\* Requests leave the routers to replaceRoutes and close; joining a router is
\* possible only while it is open.
LEMMA ControlRequest ==
  ASSUME IInv, NEW c \in Requests, Accept(c) \/ Handle(c) \/ \E copy \in Copies : CopyEnds(c, copy)
  PROVE  (Control /\ Lists)'
<1> USE DEF IInv, TypeOK, Control, Lists, routerVars
<1>1. CASE Track(c)  BY <1>1 DEF Track
<1>2. CASE Finish(c)  BY <1>2 DEF Finish
<1>3. CASE Accept(c) \/ Connect(c) \/ Greet(c) \/ DialFails(c)
  BY <1>3 DEF Accept, Connect, Greet, DialFails
<1>4. CASE HijackFails(c) \/ Answer(c) \/ CloseTunnel(c) \/ TunnelClosed(c)
  BY <1>4 DEF HijackFails, Answer, CloseTunnel, TunnelClosed
<1>5. ASSUME NEW copy \in Copies, CopyEnds(c, copy) PROVE (Control /\ Lists)'
  BY <1>5 DEF CopyEnds
<1> QED  BY <1>1, <1>2, <1>3, <1>4, <1>5 DEF Handle

\* The session's calls: one router is closed at a time, and none twice.
LEMMA ControlCaller ==
  ASSUME IInv, Caller \/ Closing
  PROVE  (Control /\ Lists)'
<1> USE DEF IInv, TypeOK, Routers, requestVars
<1>1. CASE SwapRouter  BY <1>1 DEF SwapRouter, Control, Lists
<1>2. CASE ClosePrevious
  <2>1. Control'  BY <1>2 DEF ClosePrevious, BeginRouterClose, Control
  <2>2. current - 1 \in Routers /\ current - 1 \notin closed
    BY <1>2, ProxyAssumption DEF ClosePrevious, Control
  <2>3. Lists'  BY <1>2, <2>2 DEF ClosePrevious, BeginRouterClose, Lists
  <2> QED  BY <2>1, <2>3
<1>3. CASE CloseServer  BY <1>3 DEF CloseServer, Control, Lists, routerVars
<1>4. CASE CloseRouter
  <2>1. Control'  BY <1>4 DEF CloseRouter, BeginRouterClose, Control
  <2>2. Lists'  BY <1>4 DEF CloseRouter, BeginRouterClose, Lists
  <2> QED  BY <2>1, <2>2
<1>5. ASSUME NEW r \in Routers, ClosePair(r) PROVE (Control /\ Lists)'
  BY <1>5 DEF ClosePair, Control, Lists
<1>6. ASSUME NEW r \in Routers, EndRouterClose(r) PROVE (Control /\ Lists)'
  <2>1. Control'  BY <1>6 DEF EndRouterClose, Control
  <2>2. Lists'  BY <1>6 DEF EndRouterClose, Lists
  <2> QED  BY <2>1, <2>2
<1> QED  BY <1>1, <1>2, <1>3, <1>4, <1>5, <1>6 DEF Caller, Closing

-----------------------------------------------------------------------------
\* Whatever a request does, its own tunnel is tracked and it ends without connections.
LEMMA RequestStep ==
  ASSUME IInv, NEW c \in Requests, Accept(c) \/ Handle(c) \/ \E copy \in Copies : CopyEnds(c, copy)
  PROVE  (Held /\ Quiet /\ OnItsWay)'
<1> USE DEF IInv, TypeOK, Held, Quiet, OnItsWay, Carrying, Goto, routerVars, taken, Way, Routers
<1>1. CASE Accept(c)
  <2>1. current <= current  BY DEF Routers
  <2>2. Held'  BY <1>1 DEF Accept
  <2>3. ASSUME NEW name, target' = [target EXCEPT ![c] = name]
        PROVE  Quiet'
    <3>1. CASE at' = [at EXCEPT ![c] = "done"] /\ UNCHANGED ends
      BY <1>1, <3>1 DEF Accept
    <3>2. CASE at' = [at EXCEPT ![c] = "dialing"] /\ ends' = [ends EXCEPT ![c] = {"client"}]
      BY <1>1, <3>2 DEF Accept
    <3> QED  BY <1>1, <3>1, <3>2 DEF Accept
  <2>4. OnItsWay'  BY <1>1, <2>1 DEF Accept
  <2> QED  BY <1>1, <2>2, <2>3, <2>4 DEF Accept
<1>2. CASE Connect(c)  BY <1>2 DEF Connect, Pair
<1>3. CASE Greet(c)  BY <1>3 DEF Greet
<1>4. CASE DialFails(c) \/ HijackFails(c)
  <2>1. CASE DialFails(c)  BY <2>1 DEF DialFails, Pair
  <2>2. CASE HijackFails(c)  BY <2>2 DEF HijackFails, Pair
  <2> QED  BY <1>4, <2>1, <2>2
<1>5. CASE Track(c)
  <2>1. CASE via[c] \in closed
    <3>1. at' = [at EXCEPT ![c] = "done"] /\ ends' = [ends EXCEPT ![c] = {}]
      BY <1>5, <2>1 DEF Track
    <3>2. UNCHANGED <<current, tracked, closeList, upstream, target, via, route>>
      BY <1>5, <2>1 DEF Track
    <3> QED  BY <3>1, <3>2 DEF Pair
  <2>2. CASE via[c] \notin closed
    <3>1. /\ tracked' = [tracked EXCEPT ![via[c]] = tracked[via[c]] \cup {c}]
          /\ at' = [at EXCEPT ![c] = "tracked"] /\ at[c] = "dialed"
      BY <1>5, <2>2 DEF Track
    <3>2. UNCHANGED <<current, closeList, upstream, target, via, route, ends>>
      BY <1>5, <2>2 DEF Track
    <3>3. Held'
      <4> SUFFICES ASSUME NEW d \in Requests, Carrying(d)'
                   PROVE  d \in tracked'[via[d]] \cup closeList[via[d]]
        BY <3>2
      <4> QED  BY <3>1, <3>2
    <3>4. (Quiet /\ OnItsWay)'
      BY <3>1, <3>2
    <3> QED  BY <3>3, <3>4
  <2> QED  BY <2>1, <2>2
<1>6. CASE Answer(c)
  <2>1. CASE at' = [at EXCEPT ![c] = "copying"]  BY <1>6, <2>1 DEF Answer
  <2>2. CASE at' = [at EXCEPT ![c] = "finishing"]  BY <1>6, <2>2 DEF Answer
  <2> QED  BY <1>6, <2>1, <2>2 DEF Answer
<1>7. CASE CloseTunnel(c) \/ TunnelClosed(c)
  <2>1. CASE CloseTunnel(c)  BY <2>1 DEF CloseTunnel, Pair
  <2>2. CASE TunnelClosed(c)  BY <2>2 DEF TunnelClosed
  <2> QED  BY <1>7, <2>1, <2>2
<1>8. CASE Finish(c)  BY <1>8 DEF Finish
<1>9. ASSUME NEW copy \in Copies, CopyEnds(c, copy) PROVE (Held /\ Quiet /\ OnItsWay)'
  BY <1>9 DEF CopyEnds
<1> QED  BY <1>1, <1>2, <1>3, <1>4, <1>5, <1>6, <1>7, <1>8, <1>9 DEF Handle

\* A Close takes over every tunnel of its router and gives none up.
LEMMA CallerStep ==
  ASSUME IInv, Caller \/ Closing
  PROVE  (Held /\ Quiet /\ OnItsWay)'
<1> USE DEF IInv, TypeOK, Held, Quiet, OnItsWay, Carrying, routerVars, requestVars, taken, Way,
            Routers
<1>1. CASE SwapRouter  BY <1>1 DEF SwapRouter
<1>2. CASE ClosePrevious
  <2>1. current - 1 \in Routers /\ current - 1 \notin closed
    BY <1>2, ProxyAssumption DEF ClosePrevious, Control
  <2>2. closeList[current - 1] = {}
    BY <2>1 DEF Lists
  <2> QED  BY <1>2, <2>1, <2>2 DEF ClosePrevious, BeginRouterClose
<1>3. CASE CloseServer  BY <1>3 DEF CloseServer, Pair
<1>4. CASE CloseRouter
  <2>1. closeList[current] = {}
    BY <1>4 DEF CloseRouter, Control, Lists
  <2> QED  BY <1>4, <2>1 DEF CloseRouter, BeginRouterClose
<1>5. ASSUME NEW r \in Routers, ClosePair(r) PROVE (Held /\ Quiet /\ OnItsWay)'
  <2>1. PICK c \in closeList[r] : /\ ends' = [ends EXCEPT ![c] = {}]
                                  /\ closeList' = [closeList EXCEPT ![r] = @ \ {c}]
    BY <1>5 DEF ClosePair
  <2>2. UNCHANGED <<current, tracked, upstream, at, via, target, route, copying>>
    BY <1>5 DEF ClosePair
  <2>3. c \in Requests
    BY <1>5, <2>1
  <2>4. \A d \in Requests : ends'[d] = IF d = c THEN {} ELSE ends[d]
    BY <2>1
  <2>5. \A d \in Requests, q \in Routers : d # c =>
          (d \in closeList'[q] <=> d \in closeList[q])
    BY <1>5, <2>1
  <2>6. Held'
    <3> SUFFICES ASSUME NEW d \in Requests, Carrying(d)'
                 PROVE  d \in tracked[via[d]] \cup closeList'[via[d]]
      BY <2>2
    <3>1. d # c /\ Carrying(d)
      BY <2>2, <2>4 DEF Pair
    <3> QED  BY <2>5, <3>1
  <2>7. Quiet'
    BY <2>2, <2>4
  <2>8. OnItsWay'
    BY <2>2
  <2> QED  BY <2>6, <2>7, <2>8
<1>6. ASSUME NEW r \in Routers, EndRouterClose(r) PROVE (Held /\ Quiet /\ OnItsWay)'
  BY <1>6 DEF EndRouterClose
<1> QED  BY <1>1, <1>2, <1>3, <1>4, <1>5, <1>6 DEF Caller, Closing

\* All of it together is inductive.
LEMMA Invariant == Spec => []IInv
<1>1. Init => IInv  BY InitIInv
<1>2. ASSUME IInv, [Next]_vars PROVE IInv'
  <2>1. TypeOK'  BY <1>2, TypeStep DEF IInv
  <2>2. CASE UNCHANGED vars
    <3>1. (Control /\ Lists)'
      BY <1>2, <2>2 DEF vars, IInv, Control, Lists, routerVars
    <3>2. (Held /\ Quiet /\ OnItsWay)'
      BY <1>2, <2>2 DEF vars, IInv, Held, Quiet, OnItsWay, Carrying, Way, routerVars, requestVars
    <3> QED  BY <2>1, <3>1, <3>2 DEF IInv
  <2>3. ASSUME NEW c \in Requests,
               Accept(c) \/ Handle(c) \/ \E copy \in Copies : CopyEnds(c, copy)
        PROVE  IInv'
    BY <1>2, <2>1, <2>3, ControlRequest, RequestStep DEF IInv
  <2>4. CASE Caller \/ Closing
    BY <1>2, <2>1, <2>4, ControlCaller, CallerStep DEF IInv
  <2> QED  BY <1>2, <2>2, <2>3, <2>4 DEF Next
<1> QED  BY <1>1, <1>2, PTL DEF Spec

-----------------------------------------------------------------------------
\* Every variable keeps its type.
THEOREM ProxyTypeCorrect == Spec => []TypeOK
<1>1. IInv => TypeOK  BY DEF IInv
<1> QED  BY <1>1, Invariant, PTL

\* Router.Close "terminates all established tunnels and prevents new tunnels from
\* being registered": once it has returned nothing is carried, also not for a
\* request that read the router before.
THEOREM ClosedCarriesNothing == Spec => []NoTunnelThroughClosed
<1>1. ASSUME IInv PROVE NoTunnelThroughClosed
  <2>1. \A r \in returned : r \in closed /\ r \in Routers
    BY <1>1 DEF IInv, TypeOK
  <2> QED  BY <1>1, <2>1 DEF IInv, TypeOK, Lists, Held, NoTunnelThroughClosed
<1> QED  BY <1>1, Invariant, PTL

\* replaceRoutes: once every earlier router is closed, what is carried goes the way
\* the routes in force name for it.
THEOREM CurrentRoutesRule == Spec => []RoutesInForce
<1>1. ASSUME IInv, Settled, NEW c \in Requests, Carrying(c)
      PROVE  route[c] \in RoutesOf(Way(current, target[c]))
  <2>1. via[c] \notin returned
    BY <1>1 DEF IInv, TypeOK, Lists, Held
  <2>2. via[c] = current
    BY <1>1, <2>1 DEF IInv, TypeOK, OnItsWay, Settled, Routers
  <2> QED  BY <1>1, <2>2 DEF IInv, OnItsWay, Carrying
<1>2. IInv => RoutesInForce  BY <1>1 DEF RoutesInForce
<1> QED  BY <1>2, Invariant, PTL

\* ServeHTTP's early returns and deferred calls close what they opened.
THEOREM RequestsLeakNothing == Spec => []NothingLeaks
<1>1. IInv => NothingLeaks  BY DEF IInv, Quiet, NothingLeaks
<1> QED  BY <1>1, Invariant, PTL
=============================================================================
