------------------------------ MODULE AcrProxy ------------------------------
(***************************************************************************)
(* The standalone registry proxy, bivrost acr proxy, and the commands that *)
(* look for it, acr login and acr doctor (session/proxy.go, podman.go,     *)
(* registry.go).  Every start of the proxy uses one fixed port on the host.*)
(* For a Podman Machine it forwards the same port of the guest's loopback  *)
(* back with ssh.  A login asks whatever listens on the port for its       *)
(* configuration and the machine of its forward before it uses it.         *)
(*                                                                         *)
(* A server is a start of the proxy; .line says that ssh has printed its   *)
(* ready line, .bridge that the health answer may name the machine, and     *)
(* .failed that server.Serve gave up its listener.                         *)
(***************************************************************************)
EXTENDS FiniteSets, Optional, Sequences

CONSTANTS Servers, Machines

ASSUME AcrAssumption == None \notin Servers \union Machines

VARIABLES port,      \* the server that listens on the host's port
          forward,   \* the server whose ssh listens on each machine's port
          selected,  \* the machine of the user's Podman connection, None for local storage
          servers,
          login      \* one acr login: where it is, and the machine whose forward it wants

acrVars == <<port, forward, selected, servers, login>>

AcrInit(configs, choices) ==
  /\ port = None
  /\ forward = [m \in Machines |-> None]
  /\ selected \in choices
  /\ servers \in [Servers -> [stage : {"new"}, config : configs, machine : {None},
                              ssh : {"none"}, line : {FALSE}, bridge : {FALSE}, cancelled : {FALSE}, failed : {FALSE}]]
  /\ login = [stage |-> "new", wants |-> None]

Configs == {"the login's", "another"}
Connections == Machines \union {None}

Goes(p, stage) == servers' = [servers EXCEPT ![p].stage = stage]

-----------------------------------------------------------------------------
(* The server.                                                             *)

\* startProxy.
Listen(p) ==
  /\ servers[p].stage = "new"
  /\ \/ port = None /\ port' = p /\ Goes(p, "inspect")
     \/ Goes(p, "returned") /\ UNCHANGED port
  /\ UNCHANGED <<forward, selected, login>>

\* server.Serve (external): Accept fails for good, and Serve closes the listener.
ServeFails(p) ==
  /\ port = p
  /\ port' = None
  /\ servers' = [servers EXCEPT ![p].failed = TRUE]
  /\ UNCHANGED <<forward, selected, login>>

\* inspectPodman, and the start of ssh for a machine.
InspectPodman(p) ==
  /\ servers[p].stage = "inspect"
  /\ \/ selected = None /\ Goes(p, "serving")
     \/ /\ selected # None
        /\ servers' = [servers EXCEPT ![p].stage = "starting", ![p].machine = selected, ![p].ssh = "starting"]
     \/ Goes(p, "closing")
  /\ UNCHANGED <<port, forward, selected, login>>

\* ssh (external): the guest's port is free, or ExitOnForwardFailure ends it.
AllocateForward(p) ==
  /\ servers[p].ssh = "starting" /\ forward[servers[p].machine] = None
  /\ forward' = [forward EXCEPT ![servers[p].machine] = p]
  /\ servers' = [servers EXCEPT ![p].ssh = "up"]
  /\ UNCHANGED <<port, selected, login>>

PrintReady(p) ==
  /\ servers[p].ssh = "up" /\ ~servers[p].line
  /\ servers' = [servers EXCEPT ![p].line = TRUE]
  /\ UNCHANGED <<port, forward, selected, login>>

\* It is killed, loses the machine, or reads the end of its input.
SshExits(p) ==
  /\ servers[p].ssh \in {"starting", "up"}
  /\ servers' = [servers EXCEPT ![p].ssh = "exited"]
  /\ forward' = [m \in Machines |-> IF forward[m] = p THEN None ELSE forward[m]]
  /\ UNCHANGED <<port, selected, login>>

\* child.done.
ReapSsh(p) ==
  /\ servers[p].ssh = "exited"
  /\ servers' = [servers EXCEPT ![p].ssh = "reaped"]
  /\ UNCHANGED <<port, forward, selected, login>>

\* The ready line ends the start, and setPodmanBridge publishes the forward.
SeeReady(p) ==
  /\ servers[p].stage = "starting" /\ servers[p].line
  /\ servers' = [servers EXCEPT ![p].stage = "serving", ![p].bridge = TRUE]
  /\ UNCHANGED <<port, forward, selected, login>>

\* ssh ended, the context did, or fifteen seconds have passed.
FailBridge(p) ==
  /\ servers[p].stage = "starting"
  /\ Goes(p, "stopping")
  /\ UNCHANGED <<port, forward, selected, login>>

\* The select: the context, bridgeDone, or p.done.
EndServe(p) ==
  /\ servers[p].stage = "serving"
  /\ servers[p].cancelled \/ (servers[p].bridge /\ servers[p].ssh = "reaped") \/ servers[p].failed
  /\ Goes(p, "stopping")
  /\ UNCHANGED <<port, forward, selected, login>>

\* A process ends: it has the port no more, and what it knew is gone.
End(p, stage) ==
  /\ port' = IF port = p THEN None ELSE port
  /\ servers' = [servers EXCEPT ![p].stage = stage, ![p].bridge = FALSE,
                                ![p].cancelled = FALSE, ![p].failed = FALSE]

\* Mistake: ssh is asked to end and not waited for.
StopBridgeHastily(p) ==
  /\ servers[p].stage = "stopping"
  /\ Goes(p, "closing")
  /\ UNCHANGED <<port, forward, selected, login>>

\* child.stop kills ssh (SshExits) and waits for it; the proxy is closed after it.
StopBridge(p) ==
  /\ servers[p].stage = "stopping" /\ servers[p].ssh \in {"none", "reaped"}
  /\ Goes(p, "closing")
  /\ UNCHANGED <<port, forward, selected, login>>

CloseProxy(p) ==
  /\ servers[p].stage = "closing"
  /\ End(p, "returned")
  /\ UNCHANGED <<forward, selected, login>>

Interrupt(p) ==
  /\ servers[p].stage \notin {"new", "returned", "dead"} /\ ~servers[p].cancelled
  /\ servers' = [servers EXCEPT ![p].cancelled = TRUE]
  /\ UNCHANGED <<port, forward, selected, login>>

\* The process dies; its ssh notices when it reads its input.
KillServer(p) ==
  /\ servers[p].stage \notin {"new", "returned", "dead"}
  /\ End(p, "dead")
  /\ UNCHANGED <<forward, selected, login>>

-----------------------------------------------------------------------------
(* acr login; acr doctor is the first four of its steps.                   *)

LoginEnds == login' = [stage |-> "ended", wants |-> None]

RequirePodman ==
  /\ login.stage = "new"
  /\ login' = [login EXCEPT !.stage = "podman"] \/ LoginEnds
  /\ UNCHANGED <<port, forward, selected, servers>>

RequireProxy ==
  /\ login.stage = "podman"
  /\ login' = [login EXCEPT !.stage = "proxy", !.wants = selected] \/ LoginEnds
  /\ UNCHANGED <<port, forward, selected, servers>>

\* Mistake: the answer does not look whether ssh is still there.
AdvertisedForGood(p) ==
  IF servers[p].bridge /\ ~servers[p].cancelled THEN servers[p].machine ELSE None

\* What the health answer names: podmanBridgeID.
Advertised(p) ==
  IF servers[p].bridge /\ servers[p].ssh # "reaped" /\ ~servers[p].cancelled
  THEN servers[p].machine ELSE None

CheckProxy ==
  /\ login.stage = "proxy"
  /\ \/ /\ port # None /\ servers[port].config = "the login's"
        /\ login.wants = None \/ Advertised(port) = login.wants
        /\ login' = [login EXCEPT !.stage = "checked"]
     \/ LoginEnds
  /\ UNCHANGED <<port, forward, selected, servers>>

\* registryCheck goes through whatever listens on the port by then.
RegistryCheck ==
  /\ login.stage = "checked"
  /\ (port # None /\ login' = [login EXCEPT !.stage = "reachable"]) \/ LoginEnds
  /\ UNCHANGED <<port, forward, selected, servers>>

\* registryLoginCommand looks at Podman once more, for the arguments of podman login.
LoginCommand ==
  /\ login.stage = "reachable"
  /\ login' = [login EXCEPT !.stage = "command"] \/ LoginEnds
  /\ UNCHANGED <<port, forward, selected, servers>>

\* loginRegistryWithCommand: Azure CLI's token and podman login with it, or an error.
LogIn ==
  /\ login.stage = "command"
  /\ LoginEnds
  /\ UNCHANGED <<port, forward, selected, servers>>

\* The user changes the connection (external).
SelectMachine ==
  /\ selected' \in Connections \ {selected}
  /\ UNCHANGED <<port, forward, servers, login>>

AcrNext ==
  \/ \E p \in Servers :
       \/ Listen(p) \/ ServeFails(p) \/ InspectPodman(p) \/ AllocateForward(p) \/ PrintReady(p) \/ SshExits(p)
       \/ ReapSsh(p) \/ SeeReady(p) \/ FailBridge(p) \/ EndServe(p) \/ StopBridge(p) \/ CloseProxy(p)
       \/ Interrupt(p) \/ KillServer(p)
  \/ RequirePodman \/ RequireProxy \/ CheckProxy \/ RegistryCheck \/ LoginCommand \/ LogIn
  \/ SelectMachine

-----------------------------------------------------------------------------
(* Properties.                                                             *)

\* A machine's forward never leads to another start of the proxy, with other
\* routes: the port is kept until ssh is gone, unless the forward's own start was
\* killed, or lost its listener and has not yet come to the end of its ssh.
ForwardLeadsHome ==
  \A m \in Machines : LET p == forward[m] IN p # None =>
    \/ port = p
    \/ servers[p].stage = "dead"
    \/ servers[p].failed

Confirmed ==
  /\ port # None /\ servers[port].config = "the login's"
  /\ login.wants # None =>
       /\ servers[port].machine = login.wants /\ servers[port].line
       /\ forward[login.wants] = port \/ servers[port].ssh = "exited"

\* When checkProxy accepts an answer, it is that of the proxy on the port, with the
\* login's configuration; for a machine, ssh has confirmed this very proxy's forward
\* of that machine, and has it still, or has ended a moment ago.
LoginChecked == [][login.stage = "proxy" /\ login'.stage = "checked" => Confirmed]_acrVars
=============================================================================
