-------------------------- MODULE PublicationsProofs --------------------------
(***************************************************************************)
(* Theorems about Publications, for any publications, ports, cleaners and   *)
(* clients, and any of them short of what a dial takes.  Nothing locks the   *)
(* directory of descriptors; what protects an open publication is that its  *)
(* gateway has the port its descriptor names for as long as it is open      *)
(* (Bound), so that a probe that gets through does not find it gone         *)
(* (Doomed), and that a publication that ended never comes back.            *)
(***************************************************************************)
EXTENDS Publications, TLAPS

Ended == {"closed", "unbound", "gone", "dead"}

\* The gateway's port is its own from its start until its server is closed.
Bound ==
  /\ \A p \in Publications :
       stage[p] \in Serving \cup {"closed"} => port[p] \in Ports /\ owner[port[p]] = p
  /\ \A n \in Ports : owner[n] \in Publications =>
       stage[owner[n]] \in Serving \cup {"closed"} /\ port[owner[n]] = n

\* A descriptor appears when the publication is open, and stays until it ends.
Described ==
  \A p \in Publications :
    /\ stage[p] = "open" /\ p \notin undialed => file[p] = "json"
    /\ file[p] = "json" => stage[p] \in {"open"} \cup Ended

\* What a cleaner read was a descriptor, and what it found gone has ended for good,
\* or it could not dial it.
Doomed ==
  \A c \in Cleaners :
    /\ \A p \in listed[c] : stage[p] \in {"open"} \cup Ended
    /\ \A p \in gone[c] : stage[p] \in Ended \/ p \in undialed

\* A client gets through the gateway whose token it has, while that serves.
Served ==
  \A k \in Clients : conn[k].at # "none" =>
    /\ conn[k].gate \in Publications /\ conn[k].gate = conn[k].for
    /\ stage[conn[k].gate] \in {"open"} \cup Ended
    /\ conn[k].at = "open" => stage[conn[k].gate] = "open"

IInv == TypeOK /\ Bound /\ Described /\ Doomed /\ Served

-----------------------------------------------------------------------------
LEMMA InitIInv == Init => IInv
<1> SUFFICES ASSUME Init PROVE IInv
  OBVIOUS
<1> USE PublicationsAssumption DEF Init
<1>1. TypeOK  BY DEF TypeOK, Stages, NoConn
<1>2. Bound /\ Described  BY DEF Bound, Described, Serving, Ended
<1>3. Doomed /\ Served  BY DEF Doomed, Served, NoConn
<1> QED  BY <1>1, <1>2, <1>3 DEF IInv

\* Type correctness of publish and close, of the clients and of the cleaners.
LEMMA TypeStep == TypeOK /\ [Next]_vars => TypeOK'
<1> SUFFICES ASSUME TypeOK, [Next]_vars PROVE TypeOK'
  OBVIOUS
<1> USE PublicationsAssumption DEF TypeOK, Stages, NoConn, cleanVars
<1>1. CASE UNCHANGED vars
  BY <1>1 DEF vars
<1>2. ASSUME NEW p \in Publications,
             Publish(p) \/ Close(p) \/ CloseConnections(p) \/ TempAges(p) \/ Die(p)
      PROVE  TypeOK'
  <2>1. CASE Listen(p)  BY <2>1 DEF Listen
  <2>2. CASE CreateTemp(p) \/ TempAges(p)  BY <2>2 DEF CreateTemp, TempAges
  <2>3. CASE Rename(p)  BY <2>3 DEF Rename
  <2>4. CASE CloseConnections(p)  BY <2>4 DEF CloseConnections
  <2>5. CASE CloseServer(p)  BY <2>5 DEF CloseServer
  <2>6. CASE RemoveFile(p)  BY <2>6 DEF RemoveFile
  <2>7. CASE Die(p)  BY <2>7 DEF Die
  <2> QED  BY <1>2, <2>1, <2>2, <2>3, <2>4, <2>5, <2>6, <2>7 DEF Publish, Close
<1>3. CASE OtherProgram  BY <1>3 DEF OtherProgram
<1>4. ASSUME NEW k \in Clients,
             Dialed(k) \/ Register(k) \/ Disconnect(k) \/ (\E p \in Publications : Connect(k, p))
      PROVE  TypeOK'
  <2>1. CASE \E p \in Publications : Connect(k, p)  BY <2>1 DEF Connect
  <2>2. CASE Dialed(k)
    <3>1. CASE conn' = [conn EXCEPT ![k].at = "dialed"]
      BY <2>2, <3>1 DEF Dialed
    <3>2. CASE conn' = [conn EXCEPT ![k] = NoConn]
      BY <2>2, <3>2 DEF Dialed
    <3> QED  BY <2>2, <3>1, <3>2 DEF Dialed
  <2>3. CASE Register(k)  BY <2>3 DEF Register
  <2>4. CASE Disconnect(k)  BY <2>4 DEF Disconnect
  <2> QED  BY <1>4, <2>1, <2>2, <2>3, <2>4
<1>5. ASSUME NEW c \in Cleaners, StartClean(c) \/ CancelClean(c) \/ RemoveFails(c) \/ Clean(c)
      PROVE  TypeOK'
  <2>1. CASE StartClean(c) \/ CancelClean(c) \/ RemoveFails(c)
    BY <2>1 DEF StartClean, CancelClean, RemoveFails
  <2>2. CASE \E p \in Publications : RemoveOldTemp(c, p) \/ Probe(c, p)
    BY <2>2 DEF RemoveOldTemp, Probe, FindGone, FailToDial, FindNothing, TakenForGone, Judged
  <2>3. CASE ReadDescriptors(c)  BY <2>3 DEF ReadDescriptors
  <2>4. CASE RemoveGone(c)  BY <2>4 DEF RemoveGone
  <2> QED  BY <1>5, <2>1, <2>2, <2>3, <2>4 DEF Clean
<1> QED  BY <1>1, <1>2, <1>3, <1>4, <1>5 DEF Next

\* An open publication answers a probe that gets through, which never finds it gone.
LEMMA OpenIsFound ==
  ASSUME IInv, NEW c \in Cleaners, NEW p \in Publications, FindGone(c, p)
  PROVE  stage[p] # "open"
<1> SUFFICES ASSUME stage[p] = "open" PROVE FALSE
  OBVIOUS
<1>1. port[p] \in Ports /\ owner[port[p]] = p
  BY DEF IInv, Bound, Serving
<1>2. ~Refused(p)
  BY <1>1, PublicationsAssumption DEF Refused
<1>3. ~Answer403Or410(p)
  BY <1>1, PublicationsAssumption DEF Answer403Or410, Authorized, Serving
<1> QED  BY <1>2, <1>3 DEF FindGone

\* What an owner does to its port, its descriptor and the connections through it.
LEMMA OwnerStep ==
  ASSUME IInv, NEW p \in Publications,
         Publish(p) \/ Close(p) \/ CloseConnections(p) \/ TempAges(p) \/ Die(p)
  PROVE  (Bound /\ Described /\ Doomed /\ Served)'
<1> USE PublicationsAssumption DEF IInv, TypeOK, Bound, Described, Doomed, Served, Stages, Serving,
    Ended, NoConn, cleanVars
<1>1. CASE Listen(p)
  <2>1. Bound'  BY <1>1 DEF Listen
  <2>2. (Described /\ Doomed /\ Served)'  BY <1>1 DEF Listen
  <2> QED  BY <2>1, <2>2
<1>2. CASE CreateTemp(p)
  <2>1. Bound'  BY <1>2 DEF CreateTemp
  <2>2. (Described /\ Doomed /\ Served)'  BY <1>2 DEF CreateTemp
  <2> QED  BY <2>1, <2>2
<1>3. CASE TempAges(p)  BY <1>3 DEF TempAges
<1>4. CASE Rename(p)
  <2>1. Bound'  BY <1>4 DEF Rename
  <2>2. (Described /\ Doomed /\ Served)'  BY <1>4 DEF Rename
  <2> QED  BY <2>1, <2>2
<1>5. CASE CloseConnections(p)
  <2>1. Bound'  BY <1>5 DEF CloseConnections
  <2>2. (Described /\ Doomed)'  BY <1>5 DEF CloseConnections
  <2>3. Served'  BY <1>5 DEF CloseConnections
  <2> QED  BY <2>1, <2>2, <2>3
<1>6. CASE CloseServer(p)
  <2>1. Bound'  BY <1>6 DEF CloseServer
  <2>2. (Described /\ Doomed /\ Served)'  BY <1>6 DEF CloseServer
  <2> QED  BY <2>1, <2>2
<1>7. CASE RemoveFile(p)
  <2>1. Bound'  BY <1>7 DEF RemoveFile
  <2>2. (Described /\ Doomed /\ Served)'  BY <1>7 DEF RemoveFile
  <2> QED  BY <2>1, <2>2
<1>8. CASE Die(p)
  <2>1. Bound'  BY <1>8 DEF Die
  <2>2. (Described /\ Doomed)'  BY <1>8 DEF Die
  <2>3. Served'  BY <1>8 DEF Die
  <2> QED  BY <2>1, <2>2, <2>3
<1> QED  BY <1>1, <1>2, <1>3, <1>4, <1>5, <1>6, <1>7, <1>8 DEF Publish, Close

\* Other programs take and leave only ports that no gateway has.
LEMMA OtherStep ==
  ASSUME IInv, OtherProgram
  PROVE  (Bound /\ Described /\ Doomed /\ Served)'
<1> USE PublicationsAssumption DEF IInv, TypeOK, OtherProgram, cleanVars
<1>1. PICK n \in Ports : \/ owner[n] = Free /\ owner' = [owner EXCEPT ![n] = Other]
                         \/ owner[n] = Other /\ owner' = [owner EXCEPT ![n] = Free]
  OBVIOUS
<1>2. \A m \in Ports : m # n => owner'[m] = owner[m]
  BY <1>1
<1>3. owner[n] \notin Publications /\ owner'[n] \notin Publications
  BY <1>1
<1>4. Bound'  BY <1>2, <1>3 DEF Bound
<1>5. (Described /\ Doomed /\ Served)'  BY DEF Described, Doomed, Served
<1> QED  BY <1>4, <1>5

\* A client is let in by its own token, and again under p.mu before it is recorded.
LEMMA ClientStep ==
  ASSUME IInv, NEW k \in Clients,
         Dialed(k) \/ Register(k) \/ Disconnect(k) \/ (\E p \in Publications : Connect(k, p))
  PROVE  (Bound /\ Described /\ Doomed /\ Served)'
<1> USE PublicationsAssumption DEF IInv, TypeOK, Served, NoConn, cleanVars
<1>1. (Bound /\ Described /\ Doomed)'
  BY DEF Bound, Described, Doomed, Dialed, Register, Disconnect, Connect
<1>2. CASE \E p \in Publications : Connect(k, p)
  BY <1>1, <1>2 DEF Connect, Authorized, Told, Serving, Ended
<1>3. CASE Dialed(k)
  <2>1. \A j \in Clients : j # k => conn'[j] = conn[j]
    BY <1>3 DEF Dialed
  <2>2. \/ conn'[k] = NoConn
        \/ conn'[k] = [conn[k] EXCEPT !.at = "dialed"] /\ conn[k].at = "dialing"
    BY <1>3 DEF Dialed
  <2>3. stage' = stage
    BY <1>3 DEF Dialed
  <2>4. conn[k] \in [gate : Publications \cup {NoPublication},
                     for : Publications \cup {NoPublication},
                     at : {"none", "dialing", "dialed", "open"}]
    OBVIOUS
  <2>5. conn'[k].at # "none" =>
          /\ conn'[k].gate \in Publications /\ conn'[k].gate = conn'[k].for
          /\ stage[conn'[k].gate] \in {"open"} \cup Ended
          /\ conn'[k].at # "open"
    BY <2>2, <2>4
  <2>6. Served'
    BY <2>1, <2>3, <2>5
  <2> QED  BY <1>1, <2>6
<1>4. CASE Register(k)
  <2>1. CASE stage[conn[k].gate] \in Serving
    BY <1>1, <1>4, <2>1 DEF Register, Serving, Ended
  <2>2. CASE stage[conn[k].gate] \notin Serving
    BY <1>1, <1>4, <2>2 DEF Register
  <2> QED  BY <2>1, <2>2
<1>5. CASE Disconnect(k)  BY <1>1, <1>5 DEF Disconnect
<1> QED  BY <1>2, <1>3, <1>4, <1>5

\* A cleaner removes old temporary files, and descriptors of publications that ended.
LEMMA CleanerStep ==
  ASSUME IInv, NEW c \in Cleaners, StartClean(c) \/ CancelClean(c) \/ RemoveFails(c) \/ Clean(c)
  PROVE  (Bound /\ Described /\ Doomed /\ Served)'
<1> USE DEF IInv, TypeOK, Ended, cleanVars
<1>1. UNCHANGED <<stage, port, owner, conn>>
  BY DEF StartClean, CancelClean, RemoveFails, Clean, RemoveOldTemp, Probe, FindGone, FailToDial,
         FindNothing, TakenForGone, Judged, ReadDescriptors, RemoveGone
<1>2. (Bound /\ Served)'
  BY <1>1 DEF Bound, Served
<1> USE DEF Described, Doomed
<1>3. CASE StartClean(c) \/ CancelClean(c) \/ RemoveFails(c)
  BY <1>2, <1>3 DEF StartClean, CancelClean, RemoveFails
<1>4. ASSUME NEW p \in Publications, RemoveOldTemp(c, p) \/ Probe(c, p)
      PROVE  (Described /\ Doomed)'
  <2>1. CASE RemoveOldTemp(c, p)  BY <2>1 DEF RemoveOldTemp
  <2>2. CASE FindGone(c, p)
    <3>1. stage[p] # "open"  BY <2>2, OpenIsFound
    <3> QED  BY <2>2, <3>1 DEF FindGone, TakenForGone, Judged
  <2>3. CASE FailToDial(c, p)
    <3>1. CASE stage[p] = "open"  BY <2>3, <3>1 DEF FailToDial, TakenForGone, Judged
    <3>2. CASE stage[p] # "open"  BY <2>3, <3>2 DEF FailToDial, TakenForGone, Judged
    <3> QED  BY <3>1, <3>2
  <2>4. CASE FindNothing(c, p)  BY <2>4 DEF FindNothing, Judged
  <2> QED  BY <1>4, <2>1, <2>2, <2>3, <2>4 DEF Probe
<1>5. CASE ReadDescriptors(c)  BY <1>2, <1>5 DEF ReadDescriptors
<1>6. CASE RemoveGone(c)  BY <1>2, <1>6 DEF RemoveGone
<1> QED  BY <1>2, <1>3, <1>4, <1>5, <1>6 DEF Clean

-----------------------------------------------------------------------------
\* The inductive invariant holds of every behaviour.
LEMMA Inductive == Spec => []IInv
<1>1. IInv /\ UNCHANGED vars => IInv'
  BY DEF IInv, TypeOK, Bound, Described, Doomed, Served, vars
<1>2. IInv /\ [Next]_vars => IInv'
  <2> SUFFICES ASSUME IInv, [Next]_vars PROVE IInv'
    OBVIOUS
  <2>1. TypeOK'
    BY TypeStep DEF IInv
  <2>2. CASE Next
    BY <2>1, <2>2, OwnerStep, OtherStep, ClientStep, CleanerStep DEF Next, IInv
  <2> QED  BY <1>1, <2>2
<1> QED  BY <1>2, InitIInv, PTL DEF Spec

\* Every variable keeps its type (sessionPublication, its clients and cleaners).
THEOREM TypeCorrect == Spec => []TypeOK
<1>1. IInv => TypeOK
  BY DEF IInv
<1> QED  BY <1>1, Inductive, PTL

\* cleanPublicationDirectory never removes the descriptor of an open publication that
\* its probe could dial, however long it takes and however many clean at once.
THEOREM DescriptorsKept == Spec => []DescriptorKept
<1>1. IInv => DescriptorKept
  BY DEF IInv, Described, DescriptorKept
<1> QED  BY <1>1, Inductive, PTL

\* A client is connected only through the publication whose token it has, and no
\* longer than that is open, whatever becomes of its port.
TunnelsBelong ==
  \A k \in Clients : conn[k].at = "open" =>
    conn[k].gate = conn[k].for /\ stage[conn[k].gate] = "open"

\* close finds every connection that ServeHTTP recorded, and ServeHTTP records none
\* once closed is set; the token keeps clients from the next owner of the port.
THEOREM TunnelsEndWithIt == Spec => []TunnelsBelong
<1>1. IInv => TunnelsBelong
  BY DEF IInv, Served, TunnelsBelong
<1> QED  BY <1>1, Inductive, PTL

-----------------------------------------------------------------------------
(* The refinement: how each publication stands in the promise of ADR 0012, *)
(* what is advertised, and which tunnels there are.                        *)

Standing(p) ==
  CASE ~Told(p) -> "unpublished" [] stage[p] = "open" -> "published" [] OTHER -> "withdrawn"
Stands == [p \in Publications |-> Standing(p)]
Found == {p \in Publications : file[p] = "json"}
Through == [k \in Clients |-> IF conn[k].at = "open" THEN conn[k].for ELSE NoPublication]

\* What the three say, once and for all of their uses.
LEMMA StandingIs ==
  ASSUME NEW p \in Publications
  PROVE  /\ Standing(p) = "unpublished" <=> ~Told(p)
         /\ Standing(p) = "published" <=> stage[p] = "open"
         /\ Standing(p) = "withdrawn" <=> Told(p) /\ stage[p] # "open"
  BY DEF Standing, Told

LEMMA ServiceVars ==
  ASSUME Stands' = Stands, Found' = Found, undialed' = undialed, Through' = Through
  PROVE  UNCHANGED Service!vars
  BY DEF Stands, Standing, Found, Through, Service!vars

\* A step that opens and ends nothing, names or removes no descriptor, and records
\* or drops no connection, is none of the promise's.
LEMMA Rests ==
  ASSUME \A p \in Publications : (Told(p)' <=> Told(p)) /\ (stage'[p] = "open" <=> stage[p] = "open"),
         \A p \in Publications : file'[p] = "json" <=> file[p] = "json", undialed' = undialed,
         \A k \in Clients : /\ conn'[k].at = "open" <=> conn[k].at = "open"
                            /\ conn[k].at = "open" => conn'[k].for = conn[k].for
  PROVE  UNCHANGED Service!vars
<1>1. \A p \in Publications : Standing(p)' = Standing(p)
  BY DEF Standing
<1>2. Stands' = Stands /\ Found' = Found /\ Through' = Through
  BY <1>1 DEF Stands, Found, Through
<1> QED  BY <1>2, ServiceVars

\* A step of one owner moves no other publication.
LEMMA OneMoves ==
  ASSUME NEW p \in Publications,
         \A q \in Publications \ {p} : stage'[q] = stage[q]
  PROVE  Stands' = [Stands EXCEPT ![p] = Standing(p)']
<1>1. \A q \in Publications \ {p} : Standing(q)' = Standing(q)
  BY DEF Standing, Told
<1> QED  BY <1>1 DEF Stands

\* The end of a publication, by its owner or with it: its tunnels end in the same step.
LEMMA Withdraws ==
  ASSUME IInv, NEW p \in Publications, CloseConnections(p) \/ (Die(p) /\ stage[p] \in Serving)
  PROVE  Service!Withdraw(p)
<1> USE DEF IInv, TypeOK, cleanVars
<1>1. stage[p] \in Serving /\ stage'[p] \in {"closed", "dead"} /\ file' = file /\ undialed' = undialed
      /\ \A q \in Publications \ {p} : stage'[q] = stage[q]
  BY DEF CloseConnections, Die
<1>2. Standing(p) # "withdrawn"
  BY <1>1, StandingIs DEF Serving, Told
<1>3. Standing(p)' = "withdrawn"
  BY <1>1 DEF Standing, Told
<1>4. Stands' = [Stands EXCEPT ![p] = "withdrawn"]
  BY <1>1, <1>3, OneMoves
<1>5. Found' = Found
  BY <1>1 DEF Found
<1>6. ASSUME NEW k \in Clients
      PROVE  Through'[k] = IF Through[k] = p THEN NoPublication ELSE Through[k]
  <2>1. CASE conn[k].at = "open" /\ conn[k].gate = p
    BY <2>1 DEF CloseConnections, Die, Through, NoConn, Served
  <2>2. CASE conn[k].at = "open" /\ conn[k].gate # p
    BY <2>2 DEF CloseConnections, Die, Through, Served
  <2>3. CASE conn[k].at # "open"
    BY <2>3, PublicationsAssumption DEF CloseConnections, Die, Through, NoConn
  <2> QED  BY <2>1, <2>2, <2>3
<1>7. Through' = [k \in Clients |-> IF Through[k] = p THEN NoPublication ELSE Through[k]]
  BY <1>6 DEF Through
<1> QED  BY <1>1, <1>2, <1>4, <1>5, <1>7 DEF Service!Withdraw, Stands, Standing, Found, Through

\* A descriptor goes only when its publication has ended, or could not be dialed.
LEMMA Forgets ==
  ASSUME IInv, NEW p \in Publications, stage[p] \in Ended \/ p \in undialed,
         \A q \in Publications : Standing(q)' = Standing(q),
         file' = [file EXCEPT ![p] = "none"], conn' = conn, undialed' = undialed
  PROVE  [Service!Forget(p)]_(Service!vars)
<1> USE DEF IInv, TypeOK, Ended
<1>1. Standing(p) = "withdrawn" \/ p \in undialed
  BY DEF Standing, Told
<1>2. Stands' = Stands /\ Through' = Through
  BY DEF Stands, Through
<1>3. Found' = Found \ {p}
  BY DEF Found
<1>4. CASE p \in Found
  BY <1>1, <1>2, <1>3, <1>4 DEF Service!Forget, Stands, Standing, Found, Through
<1>5. CASE p \notin Found
  BY <1>2, <1>3, <1>5, ServiceVars
<1> QED  BY <1>4, <1>5

-----------------------------------------------------------------------------
\* Publishing is the rename; withdrawing is closed = true, and dying while serving.
LEMMA OwnerServes ==
  ASSUME IInv, NEW p \in Publications,
         Publish(p) \/ Close(p) \/ CloseConnections(p) \/ TempAges(p) \/ Die(p)
  PROVE  [Service!Next]_(Service!vars)
<1> USE DEF IInv, TypeOK, cleanVars
<1>1. CASE Listen(p) \/ CreateTemp(p) \/ TempAges(p)
  <2>1. CASE Listen(p)  BY <2>1, Rests DEF Listen, Told
  <2>2. CASE CreateTemp(p)
    <3>1. file[p] # "json"  BY <2>2 DEF CreateTemp, Described, Ended
    <3> QED  BY <2>2, <3>1, Rests DEF CreateTemp, Told
  <2>3. CASE TempAges(p)  BY <2>3, Rests DEF TempAges, Told
  <2> QED  BY <1>1, <2>1, <2>2, <2>3
<1>2. CASE Rename(p)
  <2>1. Standing(p) = "unpublished" /\ Standing(p)' = "published"
    BY <1>2 DEF Rename, Standing, Told
  <2>2. Stands' = [Stands EXCEPT ![p] = "published"]
    BY <1>2, <2>1, OneMoves DEF Rename
  <2>3. Found' = Found \cup {p} /\ Through' = Through /\ undialed' = undialed
    BY <1>2 DEF Rename, Found, Through
  <2>4. Service!Publish(p)
    BY <2>1, <2>2, <2>3 DEF Service!Publish, Stands, Standing, Found, Through
  <2> QED  BY <2>4 DEF Service!Next
<1>3. CASE CloseConnections(p) \/ (Die(p) /\ stage[p] \in Serving)
  BY <1>3, Withdraws DEF Service!Next
<1>4. CASE CloseServer(p)
  BY <1>4, Rests DEF CloseServer, Told
<1>5. CASE RemoveFile(p)
  <2>1. \A q \in Publications : Standing(q)' = Standing(q)
    BY <1>5 DEF RemoveFile, Standing, Told
  <2>3. [Service!Forget(p)]_(Service!vars)
    BY <1>5, <2>1, Forgets DEF RemoveFile, Ended
  <2> QED  BY <2>3 DEF Service!Next
<1>6. CASE Die(p) /\ stage[p] \notin Serving
  <2>1. stage[p] \in {"closed", "unbound"}
    BY <1>6 DEF Die
  <2>2. \A k \in Clients : conn[k].at = "open" => conn[k].gate # p
    BY <2>1 DEF Served
  <2>3. \A k \in Clients : (conn'[k].at = "open" <=> conn[k].at = "open")
                           /\ (conn[k].at = "open" => conn'[k].for = conn[k].for)
    BY <1>6, <2>2 DEF Die, NoConn
  <2> QED  BY <1>6, <2>1, <2>3, Rests DEF Die, Told
<1> QED  BY <1>1, <1>2, <1>3, <1>4, <1>5, <1>6 DEF Publish, Close

\* A tunnel begins when its pair of connections is recorded, of a publication that is
\* still open.
LEMMA ClientServes ==
  ASSUME IInv, NEW k \in Clients,
         Dialed(k) \/ Register(k) \/ Disconnect(k) \/ (\E p \in Publications : Connect(k, p))
  PROVE  [Service!Next]_(Service!vars)
<1> USE DEF IInv, TypeOK, cleanVars
<1>1. stage' = stage /\ file' = file /\ undialed' = undialed /\ \A j \in Clients \ {k} : conn'[j] = conn[j]
  BY DEF Dialed, Register, Disconnect, Connect
<1>2. Stands' = Stands /\ Found' = Found /\ undialed' = undialed
  BY <1>1 DEF Stands, Standing, Told, Found
<1>3. CASE conn[k].at # "open" /\ conn'[k].at # "open"
  BY <1>1, <1>3, Rests DEF Told
<1>4. CASE \E p \in Publications : Connect(k, p)
  BY <1>3, <1>4 DEF Connect, NoConn
<1>5. CASE Dialed(k)
  <2>1. conn'[k] = NoConn \/ conn'[k] = [conn[k] EXCEPT !.at = "dialed"]
    BY <1>5 DEF Dialed
  <2>2. conn[k].at = "dialing" /\ conn'[k].at # "open"
    BY <1>5, <2>1 DEF Dialed, NoConn
  <2> QED  BY <1>3, <2>2
<1>6. CASE Register(k)
  <2>1. CASE stage[conn[k].gate] \notin Serving
    BY <1>3, <1>6, <2>1 DEF Register, NoConn
  <2>2. CASE stage[conn[k].gate] \in Serving
    <3>1. PICK p \in Publications : p = conn[k].gate /\ p = conn[k].for /\ stage[p] = "open"
      BY <1>6, <2>2 DEF Register, Served, Serving, Ended
    <3>2. conn'[k].at = "open" /\ conn'[k].for = p /\ conn[k].at # "open"
      BY <1>6, <2>2, <3>1 DEF Register
    <3>3. Through[k] = NoPublication /\ Through' = [Through EXCEPT ![k] = p]
      BY <1>1, <3>2 DEF Through
    <3>4. Stands[p] = "published"
      BY <3>1, StandingIs DEF Stands
    <3>5. Service!Connect(k, p)
      BY <1>2, <3>3, <3>4 DEF Service!Connect, Stands, Standing, Found, Through
    <3> QED  BY <3>5 DEF Service!Next
  <2> QED  BY <2>1, <2>2
<1>7. CASE Disconnect(k)
  <2>1. Through[k] # NoPublication
    BY <1>7, PublicationsAssumption DEF Disconnect, Through, Served
  <2>2. Through' = [Through EXCEPT ![k] = NoPublication]
    BY <1>7 DEF Disconnect, Through, NoConn
  <2>3. Service!Disconnect(k)
    BY <1>2, <2>1, <2>2 DEF Service!Disconnect, Stands, Standing, Found, Through
  <2> QED  BY <2>3 DEF Service!Next
<1> QED  BY <1>4, <1>5, <1>6, <1>7

\* A cleaner takes down descriptors of publications that ended, or that it could not
\* dial, and nothing else.
LEMMA CleanerServes ==
  ASSUME IInv, NEW c \in Cleaners, StartClean(c) \/ CancelClean(c) \/ RemoveFails(c) \/ Clean(c)
  PROVE  [Service!Next]_(Service!vars)
<1> USE DEF IInv, TypeOK, cleanVars
<1>1. CASE UNCHANGED <<stage, file, conn, undialed>>
  BY <1>1, Rests DEF Told
<1>2. CASE StartClean(c) \/ CancelClean(c) \/ RemoveFails(c) \/ ReadDescriptors(c)
  BY <1>1, <1>2 DEF StartClean, CancelClean, RemoveFails, ReadDescriptors
<1>3. ASSUME NEW p \in Publications, RemoveOldTemp(c, p) \/ Probe(c, p)
      PROVE  [Service!Next]_(Service!vars)
  <2>1. CASE RemoveOldTemp(c, p)  BY <2>1, Rests DEF RemoveOldTemp, Told
  <2>2. CASE FindGone(c, p) \/ FindNothing(c, p)
    BY <1>1, <2>2 DEF FindGone, FindNothing, TakenForGone, Judged
  <2>3. CASE FailToDial(c, p)
    <3>1. stage' = stage /\ file' = file /\ conn' = conn
      BY <2>3 DEF FailToDial, TakenForGone, Judged
    <3>2. Stands' = Stands /\ Found' = Found /\ Through' = Through
      BY <3>1 DEF Stands, Standing, Told, Found, Through
    <3>3. CASE stage[p] = "open"
      <4>1. Stands[p] = "published" /\ undialed' = undialed \cup {p}
        BY <2>3, <3>3, StandingIs DEF FailToDial, Stands
      <4>2. Service!CannotAsk(p)
        BY <3>2, <4>1 DEF Service!CannotAsk, Stands, Standing, Found, Through
      <4> QED  BY <4>2 DEF Service!Next
    <3>4. CASE stage[p] # "open"
      BY <1>1, <2>3, <3>1, <3>4 DEF FailToDial
    <3> QED  BY <3>3, <3>4
  <2> QED  BY <1>3, <2>1, <2>2, <2>3 DEF Probe
<1>4. CASE RemoveGone(c)
  <2>1. CASE gone[c] = {}  BY <1>1, <1>4, <2>1 DEF RemoveGone
  <2>2. CASE gone[c] # {}
    <3>1. PICK p \in gone[c] : file' = [file EXCEPT ![p] = "none"]
      BY <1>4, <2>2 DEF RemoveGone
    <3>2. p \in Publications /\ (stage[p] \in Ended \/ p \in undialed)
      BY <3>1 DEF Doomed
    <3>3. /\ UNCHANGED <<stage, conn, undialed>>
          /\ \A q \in Publications : Standing(q)' = Standing(q)
      BY <1>4 DEF RemoveGone, Standing, Told
    <3>4. [Service!Forget(p)]_(Service!vars)
      BY <3>1, <3>2, <3>3, Forgets
    <3> QED  BY <3>2, <3>4 DEF Service!Next
  <2> QED  BY <2>1, <2>2
<1> QED  BY <1>2, <1>3, <1>4 DEF Clean

\* Gateways, descriptors and cleaners implement the promise of ADR 0012: published
\* once, found until withdrawn unless a cleaner cannot dial them, no tunnel past the
\* withdrawal and none to another.
THEOREM ServiceImplemented == Spec => ImplementsService
<1>1. Init => Service!Init
  BY DEF Init, Service!Init, Told, NoConn
<1>2. IInv /\ [Next]_vars => [Service!Next]_(Service!vars)
  <2> SUFFICES ASSUME IInv, [Next]_vars PROVE [Service!Next]_(Service!vars)
    OBVIOUS
  <2>1. CASE UNCHANGED <<stage, file, conn, undialed>>
    BY <2>1, Rests DEF Told
  <2>2. CASE UNCHANGED vars \/ OtherProgram
    BY <2>1, <2>2 DEF vars, OtherProgram, cleanVars
  <2> QED  BY <2>2, OwnerServes, ClientServes, CleanerServes DEF Next
<1> QED  BY <1>1, <1>2, Inductive, PTL DEF Spec, ImplementsService, Service!Spec
=============================================================================
