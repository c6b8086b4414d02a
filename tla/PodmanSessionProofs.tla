------------------------- MODULE PodmanSessionProofs -------------------------
(***************************************************************************)
(* Theorems about PodmanSession, for any lease of at least two heartbeats. *)
(* The lease spares the living because a heartbeat is written and read in  *)
(* every interval in which nothing is wrong: Prompt bounds the supervisor's *)
(* wait by one interval, and says what is then on its way.                 *)
(***************************************************************************)
EXTENDS PodmanSession, TLAPS

\* Nothing keeps heartbeats from the supervisor.
Healthy == InputOpen /\ ~late /\ ssh = "up" /\ link = "up"

Prompt ==
  sup = "reading" /\ Healthy => age \in {0, 1} /\ (age = 1 => due = 1 \/ pipe)

\* A supervisor, and ssh, have a host that started them, and a host that sleeps is late.
Started == (host = "off" => sup = "none" /\ ssh = "none") /\ (asleep => late)

IInv == TypeOK /\ Started /\ Prompt

-----------------------------------------------------------------------------
\* A supervisor that has just read a heartbeat is within its lease.
LEMMA ZeroInLease == Lease \in Nat /\ 0 \in 0 .. Lease
  BY LeaseAssumption

\* Before the session there is no supervisor.
LEMMA InitIInv == Init => IInv
<1> SUFFICES ASSUME Init PROVE IInv
  OBVIOUS
<1>1. TypeOK
  BY ZeroInLease, Zenon DEF Init, TypeOK, Hosts, Sups
<1>2. Started /\ Prompt
  BY DEF Init, Started, Prompt
<1> QED  BY <1>1, <1>2 DEF IInv

\* Type correctness: only time moves the age of the last heartbeat, and it stops
\* for a lease that has run out.
LEMMA TypeStep == TypeOK /\ [Next]_vars => TypeOK'
<1> SUFFICES ASSUME TypeOK, [Next]_vars PROVE TypeOK'
  OBVIOUS
<1> USE LeaseAssumption DEF TypeOK, Hosts, Sups, guest, bivrost, Runs, InputOpen
<1>1. CASE UNCHANGED vars
  BY <1>1 DEF vars
<1>2. CASE Host
  <2>1. CASE StartSupervisor  BY <2>1 DEF StartSupervisor
  <2>2. CASE Heartbeat  BY <2>2 DEF Heartbeat
  <2>3. CASE Ready \/ BeginClose \/ NoticeDone
    BY <2>3 DEF Ready, BeginClose, NoticeDone
  <2>4. CASE EndClose  BY <2>4 DEF EndClose
  <2>5. CASE Crash  BY <2>5 DEF Crash
  <2>6. CASE Sleep  BY <2>6 DEF Sleep
  <2>7. CASE Wake  BY <2>7 DEF Wake
  <2> QED  BY <1>2, <2>1, <2>2, <2>3, <2>4, <2>5, <2>6, <2>7 DEF Host
<1>3. CASE CutLink \/ SshExits \/ ServiceDies
  BY <1>3 DEF CutLink, SshExits, ServiceDies
<1>4. CASE Supervisor
  <2>1. CASE StartService \/ GiveUpSocket
    BY <2>1 DEF StartService, GiveUpSocket
  <2>2. CASE SocketReady
    BY <2>2, ZeroInLease DEF SocketReady
  <2>3. CASE ReadHeartbeat
    BY <2>3, ZeroInLease DEF ReadHeartbeat
  <2>4. CASE ReadEnd \/ LeaseExpires
    BY <2>4 DEF ReadEnd, LeaseExpires
  <2>5. CASE KillService \/ RemoveOwned
    BY <2>5 DEF KillService, RemoveOwned
  <2> QED  BY <1>4, <2>1, <2>2, <2>3, <2>4, <2>5 DEF Supervisor
<1>5. CASE Tick
  BY <1>5 DEF Tick, Overdue
<1> QED  BY <1>1, <1>2, <1>3, <1>4, <1>5 DEF Next

\* Time only passes once the heartbeat that was due is written and read.
LEMMA PromptStep == IInv /\ [Next]_vars => (Started /\ Prompt)'
<1> SUFFICES ASSUME IInv, [Next]_vars PROVE (Started /\ Prompt)'
  OBVIOUS
<1> USE LeaseAssumption DEF IInv, TypeOK, Hosts, Sups, guest, bivrost, Runs, InputOpen,
                            Started, Prompt, Healthy
<1>1. CASE UNCHANGED vars
  BY <1>1 DEF vars
<1>2. CASE Host
  <2>1. CASE StartSupervisor  BY <2>1 DEF StartSupervisor
  <2>2. CASE Heartbeat  BY <2>2 DEF Heartbeat
  <2>3. CASE Ready \/ BeginClose \/ NoticeDone \/ EndClose
    BY <2>3 DEF Ready, BeginClose, NoticeDone, EndClose
  <2>4. CASE Crash \/ Sleep \/ Wake
    BY <2>4 DEF Crash, Sleep, Wake
  <2> QED  BY <1>2, <2>1, <2>2, <2>3, <2>4 DEF Host
<1>3. CASE CutLink \/ SshExits \/ ServiceDies
  BY <1>3 DEF CutLink, SshExits, ServiceDies
<1>4. CASE Supervisor
  <2>1. CASE ReadHeartbeat  BY <2>1 DEF ReadHeartbeat
  <2>2. CASE SocketReady  BY <2>2 DEF SocketReady
  <2>3. CASE StartService
    BY <2>3 DEF StartService
  <2>4. CASE GiveUpSocket \/ ReadEnd \/ LeaseExpires \/ KillService \/ RemoveOwned
    BY <2>4 DEF GiveUpSocket, ReadEnd, LeaseExpires, KillService, RemoveOwned
  <2> QED  BY <1>4, <2>1, <2>2, <2>3, <2>4 DEF Supervisor
<1>5. CASE Tick
  BY <1>5 DEF Tick, Overdue
<1> QED  BY <1>1, <1>2, <1>3, <1>4, <1>5 DEF Next

LEMMA Invariant == Spec => []IInv
<1>1. Init => IInv  BY InitIInv
<1>2. IInv /\ [Next]_vars => IInv'
  BY TypeStep, PromptStep DEF IInv
<1> QED  BY <1>1, <1>2, PTL DEF Spec

-----------------------------------------------------------------------------
\* Every variable keeps its type.
THEOREM PodmanTypeCorrect == Spec => []TypeOK
<1>1. IInv => TypeOK  BY DEF IInv
<1> QED  BY <1>1, Invariant, PTL

\* The heartbeat of five seconds and the lease of twenty: while host, ssh and
\* connection are well the lease never runs out, for any lease of two intervals.
THEOREM LivingSpared == Spec => []LeaseSparesTheLiving
<1>1. IInv => LeaseSparesTheLiving
  BY LeaseAssumption DEF IInv, TypeOK, Prompt, Healthy, LeaseSparesTheLiving
<1> QED  BY <1>1, Invariant, PTL

\* cleanup removes the directory last, whichever way the service ended.
THEOREM DirectoryOutlivesService == Spec => []ServiceNeedsDirectory
<1>1. Init => ServiceNeedsDirectory
  BY DEF Init, ServiceNeedsDirectory
<1>2. ServiceNeedsDirectory /\ [Next]_vars => ServiceNeedsDirectory'
  BY DEF ServiceNeedsDirectory, Next, vars, guest, bivrost, Host, Supervisor, CutLink,
         SshExits, ServiceDies, Tick, StartSupervisor, Heartbeat, Ready, BeginClose,
         NoticeDone, EndClose, Crash, Sleep, Wake, StartService, SocketReady, GiveUpSocket,
         ReadHeartbeat, ReadEnd, LeaseExpires, KillService, RemoveOwned
<1> QED  BY <1>1, <1>2, PTL DEF Spec
=============================================================================
