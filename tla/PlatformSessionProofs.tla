------------------------- MODULE PlatformSessionProofs -------------------------
(***************************************************************************)
(* Theorems about PlatformSession, for any number of sessions.  The argument *)
(* follows the code: setup opens in order and defers in reverse, the child   *)
(* lives between two points of it, and what a switch carries is handed from  *)
(* the controller to the loop and back.  SshRoute, which says how setup comes *)
(* to its tunnel and its forward, has its theorems at the end.               *)
(***************************************************************************)
EXTENDS PlatformSession, SshRoute, TLAPS

Resources == {Opens[s] : s \in DOMAIN Opens}

Flags ==
  {ownGroup, running, ctxDone, asked, interrupt, stop, pending, requested, carry,
   intent} \subseteq BOOLEAN

Values ==
  /\ mode \in Modes /\ point \in Points
  /\ deferred \in Seq(Resources) /\ open \subseteq Resources /\ down \subseteq Dependencies
  /\ child \in {"none", "running", "exited"} /\ exit \in {"none", "switch", "other"}
  /\ watcher \in {"waiting", "took", "closing", "judging", "cancelling", "quit"}
  /\ outcome \in {"none", "switch", "done", "failed"}

\* A switch is only accepted for a session that may still have a successor.
Bounded ==
  /\ session \in 1..MaxSessions
  /\ pending => session < MaxSessions
  /\ outcome = "switch" => pending /\ point \in {"unwinding", "ended"}

\* Between MarkRunning and the end of the child Ctrl+C belongs to the child.
ChildPoints == {"checkCtx", "checkStop", "start", "running", "stopping"}
Attended ==
  /\ child = "running" => point \in {"running", "stopping"}
  /\ point \in ChildPoints => running

\* run: whoever cancels the context has asked the command to stop before, and
\* past CheckStop nobody will cancel it any more.
Deaf ==
  mode = "run" =>
    /\ ctxDone \/ watcher \in {"judging", "cancelling"} => asked
    /\ point \in {"start", "running", "stopping"} => ~ctxDone /\ watcher # "cancelling"

\* The points before the one that opens a resource, and those after the deferred calls began.
Outside == {"register", "unwinding", "ended"}
BeforeProxy == {"socks", "api", "proxy"}
BeforeBastion == BeforeProxy \cup {"setPorts", "bastion"}
BeforeSsh == BeforeBastion \cup {"kubeconfig", "free", "ssh"}
BeforeActivation == BeforeSsh \cup {"forward", "heimdal", "activate"}

\* What setup has opened by each point stays open until the deferred calls run.
Built ==
  point \notin Outside =>
    /\ "registration" \in open
    /\ point \notin BeforeProxy => "proxy" \in open
    /\ point \notin BeforeBastion => "bastion" \in open
    /\ point \notin BeforeSsh => "ssh" \in open
    /\ point \notin BeforeActivation => "activation" \in open

\* Everything that is open has a deferred call that closes it.
Deferred ==
  /\ \A x \in open : \E i \in 1..Len(deferred) : deferred[i] = x
  /\ point \in {"register", "ended"} => deferred = <<>>

\* The sharing the user asked for is with the loop before activation, and with the
\* controller after it.
Handed ==
  /\ point \in {"register"} \cup BeforeActivation \/ outcome = "switch" => carry = intent
  /\ point \in {"enable", "listen", "mark"} \cup ChildPoints => requested = intent

IInv == Values /\ Bounded /\ Attended /\ Deaf /\ Built /\ Deferred /\ Handed

-----------------------------------------------------------------------------
\* The tables of the setup, spelled out.
LEMMA SetupTables ==
  /\ DOMAIN Opens = {"register", "socks", "api", "proxy", "bastion", "ssh", "activate"}
  /\ DOMAIN After = {"register", "socks", "api", "proxy", "setPorts", "bastion", "kubeconfig",
                     "free", "ssh", "forward", "heimdal", "activate", "enable", "listen"}
  /\ Resources = {"registration", "socksPort", "apiPort", "proxy", "bastion", "ssh", "activation"}
  BY DEF Opens, After, Resources

LEMMA OpensTable ==
  /\ Opens["register"] = "registration" /\ Opens["socks"] = "socksPort"
  /\ Opens["api"] = "apiPort" /\ Opens["proxy"] = "proxy" /\ Opens["bastion"] = "bastion"
  /\ Opens["ssh"] = "ssh" /\ Opens["activate"] = "activation"
  BY DEF Opens

LEMMA AfterTable ==
  /\ After["register"] = "socks" /\ After["socks"] = "api" /\ After["api"] = "proxy"
  /\ After["proxy"] = "setPorts" /\ After["setPorts"] = "bastion"
  /\ After["bastion"] = "kubeconfig" /\ After["kubeconfig"] = "free"
  /\ After["ssh"] = "forward" /\ After["forward"] = "heimdal"
  /\ After["heimdal"] = "activate" /\ After["activate"] = "enable"
  /\ After["enable"] = "listen" /\ After["listen"] = "mark"
  BY DEF After

\* A deferred close is added before the others, and the one that runs is removed.
LEMMA Push ==
  ASSUME NEW S, NEW q \in Seq(S), NEW x \in S
  PROVE  /\ <<x>> \o q \in Seq(S)
         /\ \E i \in 1..Len(<<x>> \o q) : (<<x>> \o q)[i] = x
         /\ \A y : (\E i \in 1..Len(q) : q[i] = y) => \E i \in 1..Len(<<x>> \o q) : (<<x>> \o q)[i] = y
<1> DEFINE p == <<x>> \o q
<1>1. p \in Seq(S) /\ Len(p) = Len(q) + 1 /\ p[1] = x /\ Len(q) \in Nat
  OBVIOUS
<1>2. \A i \in 1..Len(q) : p[i + 1] = q[i] /\ i + 1 \in 1..Len(p)
  OBVIOUS
<1> HIDE DEF p
<1>3. 1 \in 1..Len(p)
  BY <1>1
<1>4. ASSUME NEW y, NEW i \in 1..Len(q), q[i] = y PROVE \E j \in 1..Len(p) : p[j] = y
  BY <1>2, <1>4
<1> QED  BY <1>1, <1>3, <1>4 DEF p

LEMMA Pop ==
  ASSUME NEW S, NEW q \in Seq(S), q # <<>>
  PROVE  /\ Tail(q) \in Seq(S)
         /\ \A y : y # Head(q) /\ (\E i \in 1..Len(q) : q[i] = y) =>
                     \E i \in 1..Len(Tail(q)) : Tail(q)[i] = y
<1>1. Tail(q) \in Seq(S)
  OBVIOUS
<1>2. \A i \in 1..Len(q) : q[i] = Head(q) \/ (i - 1 \in 1..Len(Tail(q)) /\ q[i] = Tail(q)[i - 1])
  OBVIOUS
<1> QED  BY <1>1, <1>2

-----------------------------------------------------------------------------
LEMMA InitIInv == Init => Flags /\ IInv
<1> SUFFICES ASSUME Init PROVE Flags /\ IInv
  OBVIOUS
<1> USE PlatformAssumption, SetupTables DEF Init
<1>1. Flags  BY Zenon DEF Flags
<1>2. Values  BY DEF Values, Points
<1>3. Bounded /\ Attended /\ Deaf
  BY DEF Bounded, Attended, Deaf, ChildPoints
<1>4. Built /\ Deferred /\ Handed
  BY DEF Built, Deferred, Handed, Outside, ChildPoints, BeforeActivation, BeforeSsh,
         BeforeBastion, BeforeProxy
<1> QED  BY <1>1, <1>2, <1>3, <1>4 DEF IInv

\* A flag is set, cleared, kept, or takes the value of another.
LEMMA FlagStep == Flags /\ [Next]_vars => Flags'
<1> SUFFICES ASSUME Flags, [Next]_vars PROVE Flags'
  OBVIOUS
<1> USE DEF Flags, childVars, signalVars, shareVars, sessionVars, UserKeeps, GiveUp, Goto
<1>1. CASE UNCHANGED vars
  BY <1>1, Zenon DEF vars
<1>2. CASE Setup
  BY <1>2, Zenon DEF Setup, Acquire, Check, FreePorts, SetupFails
<1>3. CASE Run
  <2>1. CASE MarkRunning \/ CheckContext \/ CheckStop
    BY <2>1, Zenon DEF MarkRunning, CheckContext, CheckStop
  <2>2. CASE StartChild  BY <2>2, Zenon DEF StartChild
  <2>3. CASE ChildDone  BY <2>3, Zenon DEF ChildDone
  <2>4. CASE StopChild \/ ChildStopped
    BY <2>4, Zenon DEF StopChild, ChildStopped
  <2> QED  BY <1>3, <2>1, <2>2, <2>3, <2>4 DEF Run
<1>4. CASE ChildExits \/ Unwind \/ Reconnect \/ End \/ Lose
  BY <1>4, Zenon DEF ChildExits, Unwind, Reconnect, End, Lose
<1>5. CASE AskSwitch \/ AskSharing \/ PressCtrlC \/ Terminate
  BY <1>5, Zenon DEF AskSwitch, AskSharing, PressCtrlC, Terminate
<1>6. CASE Watch
  BY <1>6, Zenon DEF Watch, TakeInterrupt, JudgeInterrupt, TakeStop, CloseTerminate,
                     JudgeRunning, CancelSession
<1> QED  BY <1>1, <1>2, <1>3, <1>4, <1>5, <1>6 DEF Next

\* Setup goes through its points in order, opening and deferring as it goes.
LEMMA SetupStep == IInv /\ Setup => IInv'
<1> SUFFICES ASSUME IInv, Setup PROVE IInv'
  OBVIOUS
<1> USE SetupTables DEF IInv, childVars, signalVars, shareVars, sessionVars, Goto
<1>1. CASE Acquire
  <2>1. point \in DOMAIN Opens /\ Opens[point] \in Resources /\ point' = After[point]
    BY <1>1, OpensTable DEF Acquire
  <2>7. <<Opens[point]>> \o deferred \in Seq(Resources)
    BY <2>1, Push DEF Values
  <2> USE OpensTable, AfterTable
  <2>2. Values'
    <3>1. deferred' = deferred \/ deferred' = <<Opens[point]>> \o deferred
      BY <1>1 DEF Acquire
    <3>2. deferred' \in Seq(Resources)
      BY <2>7, <3>1 DEF Values
    <3>3. point' \in Points
      BY <2>1 DEF Points
    <3>4. open' \subseteq Resources
      BY <1>1, <2>1 DEF Acquire, Values
    <3> QED  BY <1>1, <3>2, <3>3, <3>4 DEF Acquire, Values
  <2>3. (Bounded /\ Attended /\ Deaf)'
    BY <1>1, <2>1 DEF Acquire, Bounded, Attended, Deaf, ChildPoints
  <2>4. Built'
    BY <1>1, <2>1 DEF Acquire, Built, Outside, BeforeActivation, BeforeSsh, BeforeBastion, BeforeProxy
  <2>5. Deferred'
    <3>1. point' \notin {"register", "ended"}
      BY <1>1, <2>1 DEF Acquire
    <3>2. CASE open' = open \cup {Opens[point]} /\ deferred' = <<Opens[point]>> \o deferred
      BY <2>1, <3>1, <3>2, Push DEF Deferred, Values
    <3>3. CASE UNCHANGED <<open, deferred>>
      BY <3>1, <3>3 DEF Deferred
    <3> QED  BY <1>1, <3>2, <3>3 DEF Acquire
  <2>6. Handed'
    BY <1>1, <2>1 DEF Acquire, Bounded, Handed, ChildPoints, BeforeActivation, BeforeSsh, BeforeBastion,
                      BeforeProxy
  <2> QED  BY <2>2, <2>3, <2>4, <2>5, <2>6
<1>2. CASE Check
  <2> USE AfterTable DEF Check, Checks
  <2>1. Values'  BY <1>2 DEF Values, Points
  <2>2. (Bounded /\ Attended /\ Deaf)'
    BY <1>2 DEF Bounded, Attended, Deaf, ChildPoints
  <2>3. (Built /\ Deferred)'
    BY <1>2 DEF Built, Deferred, Outside, BeforeActivation, BeforeSsh, BeforeBastion, BeforeProxy
  <2>4. Handed'
    BY <1>2 DEF Handed, ChildPoints, BeforeActivation, BeforeSsh, BeforeBastion, BeforeProxy
  <2> QED  BY <2>1, <2>2, <2>3, <2>4
<1>3. CASE FreePorts
  <2> USE DEF FreePorts, Ports
  <2>1. Values'  BY <1>3 DEF Values, Points
  <2>2. (Bounded /\ Attended /\ Deaf)'
    BY <1>3 DEF Bounded, Attended, Deaf, ChildPoints
  <2>3. (Built /\ Deferred)'
    BY <1>3 DEF Built, Deferred, Outside, BeforeActivation, BeforeSsh, BeforeBastion, BeforeProxy
  <2>4. Handed'
    BY <1>3 DEF Handed, ChildPoints, BeforeActivation, BeforeSsh, BeforeBastion, BeforeProxy
  <2> QED  BY <2>1, <2>2, <2>3, <2>4
<1>4. CASE SetupFails
  BY <1>4 DEF SetupFails, Values, Points, Bounded, Attended, Deaf, ChildPoints, Built, Outside,
              Deferred, Handed, BeforeActivation, BeforeSsh, BeforeBastion, BeforeProxy
<1> QED  BY <1>1, <1>2, <1>3, <1>4 DEF Setup

\* The shell or command starts when everything is open and, in run, nobody has
\* asked it to stop; it is waited for on every way out.
LEMMA RunStep == IInv /\ (Run \/ ChildExits) => IInv'
<1> SUFFICES ASSUME IInv, Run \/ ChildExits PROVE IInv'
  OBVIOUS
<1> USE SetupTables DEF IInv, childVars, signalVars, shareVars, sessionVars, Goto, GiveUp, Values,
    Points, Bounded, Attended, Deaf, ChildPoints, Built, Outside, Deferred, Handed,
    BeforeActivation, BeforeSsh, BeforeBastion, BeforeProxy
<1>1. CASE MarkRunning  BY <1>1 DEF MarkRunning
<1>2. CASE CheckContext
  <2>1. CASE ctxDone  BY <1>2, <2>1 DEF CheckContext
  <2>2. CASE ~ctxDone  BY <1>2, <2>2 DEF CheckContext
  <2> QED  BY <2>1, <2>2
<1>3. CASE CheckStop
  <2>1. CASE asked  BY <1>3, <2>1 DEF CheckStop
  <2>2. CASE ~asked  BY <1>3, <2>2 DEF CheckStop
  <2> QED  BY <2>1, <2>2
<1>4. CASE StartChild
  <2>1. (Values /\ Bounded)'  BY <1>4 DEF StartChild
  <2>2. (Attended /\ Deaf /\ Built)'  BY <1>4 DEF StartChild
  <2>3. Deferred'  BY <1>4 DEF StartChild
  <2>4. Handed'  BY <1>4 DEF StartChild
  <2> QED  BY <2>1, <2>2, <2>3, <2>4
<1>5. CASE ChildDone
  <2>1. (Values /\ Bounded)'  BY <1>5 DEF ChildDone
  <2>2. (Attended /\ Deaf /\ Built)'  BY <1>5 DEF ChildDone
  <2>3. Deferred'  BY <1>5 DEF ChildDone
  <2>4. Handed'  BY <1>5 DEF ChildDone
  <2> QED  BY <2>1, <2>2, <2>3, <2>4
<1>6. CASE StopChild
  <2>1. (Values /\ Bounded)'  BY <1>6 DEF StopChild
  <2>2. (Attended /\ Deaf /\ Built)'  BY <1>6 DEF StopChild
  <2>3. Deferred'  BY <1>6 DEF StopChild
  <2>4. Handed'  BY <1>6 DEF StopChild
  <2> QED  BY <2>1, <2>2, <2>3, <2>4
<1>7. CASE ChildStopped  BY <1>7 DEF ChildStopped
<1>8. CASE ChildExits  BY <1>8 DEF ChildExits
<1> QED  BY <1>1, <1>2, <1>3, <1>4, <1>5, <1>6, <1>7, <1>8 DEF Run

\* The call that runs next closes what it was deferred for, and nothing else.
LEMMA UnwindDeferred == Values /\ Deferred /\ Unwind => Deferred'
<1> SUFFICES ASSUME Values, Deferred, Unwind PROVE Deferred'
  OBVIOUS
<1>1. deferred \in Seq(Resources) /\ deferred # <<>> /\ deferred' = Tail(deferred)
  BY DEF Values, Unwind
<1>2. \A y : y # Head(deferred) /\ (\E i \in 1..Len(deferred) : deferred[i] = y) =>
               \E i \in 1..Len(deferred') : deferred'[i] = y
  BY <1>1, Pop
<1>3. point' \notin {"register", "ended"} /\ \A x \in open' : x \in open /\ x # Head(deferred)
  BY DEF Unwind
<1> QED  BY <1>2, <1>3, Zenon DEF Deferred

\* The deferred calls close what is open; only after the last does a switch go round.
LEMMA UnwindStep == IInv /\ (Unwind \/ Reconnect \/ End) => IInv'
<1> SUFFICES ASSUME IInv, Unwind \/ Reconnect \/ End PROVE IInv'
  OBVIOUS
<1> USE SetupTables DEF IInv, childVars, signalVars, shareVars, sessionVars, Goto, Values,
    Points, Bounded, Attended, Deaf, ChildPoints, Built, Outside, Deferred, Handed,
    BeforeActivation, BeforeSsh, BeforeBastion, BeforeProxy
<1>1. CASE Unwind
  <2>1. Values'  BY <1>1, Pop DEF Unwind
  <2>2. (Bounded /\ Attended /\ Deaf /\ Built /\ Handed)'  BY <1>1 DEF Unwind
  <2>3. Deferred'  BY <1>1, UnwindDeferred DEF IInv
  <2> QED  BY <2>1, <2>2, <2>3
<1>2. CASE Reconnect  BY <1>2, PlatformAssumption DEF Reconnect
<1>3. CASE End  BY <1>3 DEF End
<1> QED  BY <1>1, <1>2, <1>3

\* The user and the network act at any time, the shell only while it runs.
LEMMA OutsideStep ==
  IInv /\ (Lose \/ AskSwitch \/ AskSharing \/ PressCtrlC \/ Terminate) => IInv'
<1> SUFFICES ASSUME IInv, Lose \/ AskSwitch \/ AskSharing \/ PressCtrlC \/ Terminate PROVE IInv'
  OBVIOUS
<1> USE SetupTables DEF IInv, childVars, signalVars, shareVars, sessionVars, UserKeeps, Values,
    Points, Bounded, Attended, Deaf, ChildPoints, Built, Outside, Deferred, Handed,
    BeforeActivation, BeforeSsh, BeforeBastion, BeforeProxy
<1>1. CASE Lose  BY <1>1 DEF Lose
<1>2. CASE AskSwitch  BY <1>2, PlatformAssumption DEF AskSwitch
<1>3. CASE AskSharing  BY <1>3 DEF AskSharing
<1>4. CASE PressCtrlC  BY <1>4 DEF PressCtrlC
<1>5. CASE Terminate  BY <1>5 DEF Terminate
<1> QED  BY <1>1, <1>2, <1>3, <1>4, <1>5

\* The goroutine closes terminate first and looks at running after that.
LEMMA WatchStep == IInv /\ Watch => IInv'
<1> SUFFICES ASSUME IInv, Watch PROVE IInv'
  OBVIOUS
<1> USE DEF IInv, childVars, signalVars, shareVars, sessionVars, UserKeeps, Values,
    Bounded, Attended, Deaf, ChildPoints, Built, Deferred, Handed
<1>1. CASE TakeInterrupt  BY <1>1 DEF TakeInterrupt
<1>2. CASE JudgeInterrupt  BY <1>2 DEF JudgeInterrupt
<1>3. CASE TakeStop  BY <1>3 DEF TakeStop
<1>4. CASE CloseTerminate  BY <1>4 DEF CloseTerminate
<1>5. CASE JudgeRunning  BY <1>5 DEF JudgeRunning
<1>6. CASE CancelSession  BY <1>6 DEF CancelSession
<1> QED  BY <1>1, <1>2, <1>3, <1>4, <1>5, <1>6 DEF Watch

-----------------------------------------------------------------------------
\* The inductive invariant holds of every behaviour.
LEMMA Inductive == Spec => [](Flags /\ IInv)
<1>1. IInv /\ UNCHANGED vars => IInv'
  BY DEF IInv, vars, childVars, signalVars, shareVars, sessionVars, Values, Bounded, Attended,
         Deaf, ChildPoints, Built, Deferred, Handed
<1>2. Flags /\ IInv /\ [Next]_vars => (Flags /\ IInv)'
  BY <1>1, FlagStep, SetupStep, RunStep, UnwindStep, OutsideStep, WatchStep DEF Next
<1> QED  BY <1>2, InitIInv, PTL DEF Spec

\* Every variable keeps its type, and connect never begins more sessions than bounded.
THEOREM TypeCorrect == Spec => []TypeOK
<1>1. Flags /\ IInv => TypeOK
  BY Zenon DEF Flags, IInv, Values, Bounded, TypeOK, Resources
<1> QED  BY <1>1, Inductive, PTL

\* run keeps the context of its session, and with it the tunnels, for as long as
\* the command runs.
THEOREM TunnelsKept == Spec => []CommandKeepsTunnels
<1>1. IInv => CommandKeepsTunnels
  BY DEF IInv, Attended, Deaf, CommandKeepsTunnels
<1> QED  BY <1>1, Inductive, PTL

\* Nothing the shell or command depends on is closed before it is gone.
THEOREM ChildIsServed == Spec => []SessionOutlivesChild
<1>1. IInv => SessionOutlivesChild
  BY DEF IInv, Attended, Built, Outside, BeforeActivation, BeforeSsh, BeforeBastion,
         BeforeProxy, SessionOutlivesChild, Dependencies
<1> QED  BY <1>1, Inductive, PTL

\* Whatever way a session ends, its deferred calls have closed what it opened.
THEOREM SlateIsClean == Spec => []CleanSlate
<1>1. IInv => CleanSlate
  BY DEF IInv, Attended, Deferred, CleanSlate
<1> QED  BY <1>1, Inductive, PTL

\* The user's choice to share reaches every session a switch leads to.
THEOREM SharingIsHanded == Spec => []SharingFollowsUser
<1>1. IInv => SharingFollowsUser
  BY DEF IInv, Attended, ChildPoints, Handed, SharingFollowsUser
<1> QED  BY <1>1, Inductive, PTL

-----------------------------------------------------------------------------
(* The way a session comes to its forward, the steps "bastion", "free",     *)
(* "ssh" and "forward" of setup, is a machine of its own beside this one.   *)

\* prepareSSHCertificate never returns before Azure CLI is gone: nobody is left to
\* ask for a sign-in after the wait has its result.
WithinWait ==
  /\ AzRuns => at = "certificate"
  /\ certificate # "none" => at \notin {"new", "certificate"}

\* The session's child has the port it is said to listen on, until it exits.
ListenerLives ==
  /\ tunnel = "bound" <=> tunnelPort = "own"
  /\ ssh = "bound" <=> socksPort = "own"

\* The listener that keeps the SOCKS port free for OpenSSH is there until it is closed.
Reserved == at = "release" => socksPort = "reservation"

RouteIInv ==
  RouteTypeOK /\ WithinWait /\ ListenerLives /\ Reserved /\ InteractionReported

\* Nothing is asked or bound before the first session.
LEMMA RouteBegins == RouteInit => RouteIInv
  BY DEF RouteInit, RouteIInv, RouteTypeOK, WithinWait, ListenerLives, Reserved,
     InteractionReported, AzRuns, RoutePoints, Child, Listener, Outcomes

\* The wait for the certificate: Azure CLI, the browser helper, the timer and the loop.
LEMMA CertificateStep ==
  ASSUME RouteIInv, Open \/ TimerFires \/ Certificate \/ AzureCLI
  PROVE  RouteIInv'
<1> USE DEF RouteIInv, RouteTypeOK, WithinWait, ListenerLives, Reserved,
     InteractionReported, AzRuns, RoutePoints, Child, Listener, Outcomes, children, Finish, Stopped
<1>1. CASE Open
  <2>1. WithinWait' /\ InteractionReported'  BY <1>1 DEF Open
  <2>2. ListenerLives' /\ Reserved'  BY <1>1 DEF Open
  <2>3. RouteTypeOK'
    <3>1. CASE at' = "certificate" /\ az' = "silent"  BY <1>1, <3>1 DEF Open
    <3>2. CASE at' = "tunnel" /\ az' = "none"  BY <1>1, <3>2 DEF Open
    <3> QED  BY <1>1, <3>1, <3>2 DEF Open
  <2> QED  BY <2>1, <2>2, <2>3
<1>2. CASE TimerFires  BY <1>2 DEF TimerFires
<1>3. CASE Certificate
  <2>1. CASE TakeExit
    <3>1. CASE az = "succeeded"  BY <2>1, <3>1 DEF TakeExit
    <3>2. CASE az = "failed" /\ cancelled  BY <2>1, <3>2 DEF TakeExit
    <3>3. CASE az = "failed" /\ ~cancelled /\ signal  BY <2>1, <3>3 DEF TakeExit
    <3>4. CASE az = "failed" /\ ~cancelled /\ ~signal  BY <2>1, <3>4 DEF TakeExit
    <3> QED  BY <2>1, <3>1, <3>2, <3>3, <3>4 DEF TakeExit
  <2>2. CASE TakeDeadline  BY <2>2 DEF TakeDeadline
  <2>3. CASE SeeNoBrowser \/ SeeRefused
    BY <2>3 DEF SeeNoBrowser, SeeRefused
  <2>4. CASE SeeRequest  BY <2>4 DEF SeeRequest
  <2> QED  BY <1>3, <2>1, <2>2, <2>3, <2>4 DEF Certificate
<1>4. CASE AzureCLI
  <2>1. CASE AskBrowser  BY <2>1 DEF AskBrowser
  <2>2. CASE WarnNoBrowser  BY <2>2 DEF WarnNoBrowser
  <2>3. CASE AzExits  BY <2>3 DEF AzExits
  <2>4. CASE AzCancelled  BY <2>4 DEF AzCancelled
  <2> QED  BY <1>4, <2>1, <2>2, <2>3, <2>4 DEF AzureCLI
<1> QED  BY <1>1, <1>2, <1>3, <1>4

\* The tunnel, the forward and the management shell: past the wait Azure CLI is gone.
LEMMA ChildStep ==
  ASSUME RouteIInv, Route
  PROVE  RouteIInv'
<1> USE DEF RouteIInv, RouteTypeOK, WithinWait, ListenerLives, Reserved,
     InteractionReported, AzRuns, RoutePoints, Child, Listener, Outcomes, children, wait
<1>1. CASE StartTunnel \/ BindTunnel
  BY <1>1 DEF StartTunnel, BindTunnel
<1>2. CASE LoseTunnel \/ TunnelReady
  BY <1>2 DEF LoseTunnel, TunnelReady
<1>3. CASE Release
  <2>1. CASE ssh' = "connecting" /\ at' = "forward"  BY <1>3, <2>1 DEF Release
  <2>2. CASE at' = "ending" /\ UNCHANGED ssh  BY <1>3, <2>2 DEF Release
  <2> QED  BY <1>3, <2>1, <2>2 DEF Release
<1>7. CASE BindForward
  <2>1. CASE socksPort = "nobody"  BY <1>7, <2>1 DEF BindForward
  <2>2. CASE socksPort # "nobody"  BY <1>7, <2>2 DEF BindForward
  <2> QED  BY <2>1, <2>2
<1>4. CASE LoseSSH \/ ForwardReady
  BY <1>4 DEF LoseSSH, ForwardReady
<1>5. CASE NoticeExit \/ StartShell \/ ShellExits
  BY <1>5 DEF NoticeExit, StartShell, ShellExits
<1>6. CASE StopShell \/ ShellDone
  BY <1>6 DEF StopShell, ShellDone
<1> QED  BY <1>1, <1>2, <1>3, <1>4, <1>5, <1>6, <1>7 DEF Route

LEMMA RouteStep == RouteIInv /\ [RouteNext]_routeVars => RouteIInv'
<1> SUFFICES ASSUME RouteIInv, [RouteNext]_routeVars PROVE RouteIInv'
  OBVIOUS
<1> USE DEF RouteIInv, RouteTypeOK, WithinWait, ListenerLives, Reserved,
     InteractionReported, AzRuns, RoutePoints, Child, Listener, Outcomes
<1>1. CASE UNCHANGED routeVars  BY <1>1 DEF routeVars
<1>2. CASE Cancel  BY <1>2 DEF Cancel, wait, children
<1>5. CASE Leave  BY <1>5 DEF Leave, wait, children
<1>3. CASE Close  BY <1>3 DEF Close
<1>4. CASE OtherProgram
  BY <1>4 DEF OtherProgram, Toggled, wait
<1> HIDE DEF RouteIInv
<1> QED  BY <1>1, <1>2, <1>3, <1>4, <1>5, CertificateStep, ChildStep DEF RouteNext

LEMMA RouteInvariant == RouteSpec => []RouteIInv
  BY RouteBegins, RouteStep, PTL DEF RouteSpec

\* When Azure CLI fails, prepareSSHCertificate looks for the browser request once
\* more, and by then nobody can leave one: a failure reported without a sign-in is
\* one for which none was asked, however the exit, the poll and the deadline fall.
THEOREM RequestsReported == RouteSpec => []InteractionReported
<1>1. RouteIInv => InteractionReported
  BY DEF RouteIInv
<1> QED  BY <1>1, RouteInvariant, PTL

\* A port that counts as this session's own, for the tunnel or the forward, has the
\* child that bound it behind it: whatever else answers there is somebody else.
THEOREM ListenersLive == RouteSpec => []ListenerLives
<1>1. RouteIInv => ListenerLives
  BY DEF RouteIInv
<1> QED  BY <1>1, RouteInvariant, PTL
=============================================================================
