------------------------------- MODULE SshRoute -------------------------------
(***************************************************************************)
(* How one session comes to its SSH forward: openBastion waits for Azure   *)
(* CLI to prepare an SSH certificate (prepareSSHCertificate, and a sign-in *)
(* page when Azure asks for one), then for its Bastion tunnel to answer;   *)
(* platformSession then frees the SOCKS port it reserved, starts OpenSSH   *)
(* and waits until something answers on that port.  Other programs, other  *)
(* sessions among them, listen on whatever port is free.  bivrost ssh goes *)
(* the same way to its tunnel, and then runs ssh in the terminal.          *)
(***************************************************************************)
EXTENDS Naturals

VARIABLES at,         \* how far the session is
          interactive,\* the interactive_connect setting
          az,         \* the Azure CLI that prepares the certificate
          signal,     \* the browser-request file exists
          noBrowser,  \* Azure CLI has warned that it found no browser
          signingIn,  \* the loop has seen the request
          fired,      \* the deadline timer has a value to receive
          certificate,\* what prepareSSHCertificate returned
          cancelled,  \* the session's context
          tunnel, ssh,           \* the two long-lived child processes
          tunnelPort, socksPort  \* who listens on their ports

wait == <<interactive, az, signal, noBrowser, signingIn, fired, certificate>>
children == <<tunnel, ssh, tunnelPort, socksPort>>
routeVars == <<at, cancelled, interactive, az, signal, noBrowser, signingIn, fired,
               certificate, tunnel, ssh, tunnelPort, socksPort>>

RoutePoints == {"new", "certificate", "tunnel", "release", "forward", "ready", "shell",
                "stopping", "ending"}
Child == {"none", "connecting", "bound", "interactive", "exited"}
Listener == {"nobody", "own", "other", "reservation"}
Outcomes == {"none", "ok", "cancelled", "refused", "incomplete", "failed",
             "setupTimeout", "signInTimeout", "noBrowser"}

RouteInit ==
  /\ at = "new" /\ cancelled = FALSE
  /\ interactive \in BOOLEAN
  /\ az = "none" /\ certificate = "none"
  /\ signal = FALSE /\ noBrowser = FALSE /\ signingIn = FALSE /\ fired = FALSE
  /\ tunnel = "none" /\ ssh = "none"
  /\ tunnelPort = "nobody" /\ socksPort = "nobody"

-----------------------------------------------------------------------------
(* Before the certificate: the SOCKS port is reserved, but not for bivrost *)
(* ssh, and that of the tunnel only looked up (freePort closes its         *)
(* listener at once).                                                      *)

Open ==
  /\ at = "new" /\ ~cancelled
  /\ tunnelPort = "nobody"
  /\ (socksPort = "nobody" /\ socksPort' = "reservation") \/ UNCHANGED socksPort
  /\ interactive' \in BOOLEAN
  /\ \/ at' = "certificate" /\ az' = "silent"   \* az ssh config
     \/ at' = "tunnel" /\ az' = "none"          \* ssh_user is configured
  /\ UNCHANGED <<cancelled, signal, noBrowser, signingIn, fired, certificate, tunnel, ssh, tunnelPort>>

-----------------------------------------------------------------------------
(* Azure CLI, and the browser helper it calls.                             *)

AzRuns == az \in {"silent", "page"}

\* BROWSER is bivrost itself: authbrowser.Run leaves the signal file first.
AskBrowser ==
  /\ az = "silent"
  /\ az' = "page" /\ signal' = TRUE
  /\ UNCHANGED <<at, cancelled, interactive, noBrowser, signingIn, fired, certificate, children>>

\* MSAL warns when no browser would open, and waits for its redirect all the same.
WarnNoBrowser ==
  /\ az = "page" /\ interactive
  /\ noBrowser' = TRUE
  /\ UNCHANGED <<at, cancelled, interactive, az, signal, signingIn, fired, certificate, children>>

\* A sign-in page that bivrost has not opened is not completed.
AzExits ==
  /\ AzRuns
  /\ \/ az' = "failed"
     \/ az' = "succeeded" /\ (az = "page" => interactive)
  /\ UNCHANGED <<at, cancelled, interactive, signal, noBrowser, signingIn, fired, certificate, children>>

\* The command's context: its process group is killed.
AzCancelled ==
  /\ AzRuns /\ cancelled
  /\ az' = "failed"
  /\ UNCHANGED <<at, cancelled, interactive, signal, noBrowser, signingIn, fired, certificate, children>>

-----------------------------------------------------------------------------
(* The select loop of prepareSSHCertificate.                               *)

TimerFires ==
  /\ at = "certificate" /\ ~fired
  /\ fired' = TRUE
  /\ UNCHANGED <<at, cancelled, interactive, az, signal, noBrowser, signingIn, certificate, children>>

\* Returning removes the wait's timer; an error ends openBastion.
Finish(result) ==
  /\ certificate' = result
  /\ at' = IF result = "ok" THEN "tunnel" ELSE "ending"
  /\ fired' = FALSE
  /\ UNCHANGED <<cancelled, interactive, signal, noBrowser, signingIn, children>>

\* Mistake: a request after the last poll is not looked for.
TakeExitHastily ==
  /\ at = "certificate" /\ az \in {"succeeded", "failed"}
  /\ Finish(CASE az = "succeeded"                        -> "ok"
              [] az = "failed" /\ cancelled              -> "cancelled"
              [] az = "failed" /\ ~cancelled /\ signingIn -> "incomplete"
              [] OTHER                                   -> "failed")
  /\ UNCHANGED az

\* case err := <-done.  The request may have arrived between polls.
TakeExit ==
  /\ at = "certificate" /\ az \in {"succeeded", "failed"}
  /\ Finish(CASE az = "succeeded"                    -> "ok"
              [] az = "failed" /\ cancelled          -> "cancelled"
              [] az = "failed" /\ ~cancelled /\ signal ->
                   IF interactive THEN "incomplete" ELSE "refused"
              [] OTHER                               -> "failed")
  /\ UNCHANGED az

\* stop: cancel, and wait for Azure CLI to be gone.
Stopped == az' = IF AzRuns THEN "failed" ELSE az

\* case <-deadline.C.
TakeDeadline ==
  /\ at = "certificate" /\ fired
  /\ Stopped
  /\ Finish(IF signingIn THEN "signInTimeout" ELSE "setupTimeout")

\* case <-ticker.C, every 100 ms; a tick that finds nothing new changes nothing.
SeeNoBrowser ==
  /\ at = "certificate" /\ signingIn /\ noBrowser
  /\ Stopped
  /\ Finish("noBrowser")

SeeRefused ==
  /\ at = "certificate" /\ ~signingIn /\ signal /\ ~interactive
  /\ Stopped
  /\ Finish("refused")

\* The deadline is reset, whether it has fired meanwhile or not.
SeeRequest ==
  /\ at = "certificate" /\ ~signingIn /\ signal /\ interactive
  /\ signingIn' = TRUE /\ fired' = FALSE
  /\ UNCHANGED <<at, cancelled, interactive, az, signal, noBrowser, certificate, children>>

-----------------------------------------------------------------------------
(* The Bastion tunnel.                                                     *)

StartTunnel ==
  /\ at = "tunnel" /\ tunnel = "none"
  /\ \/ tunnel' = "connecting" /\ UNCHANGED at
     \/ at' = "ending" /\ UNCHANGED tunnel
  /\ UNCHANGED <<cancelled, wait, ssh, tunnelPort, socksPort>>

BindTunnel ==
  /\ tunnel = "connecting"
  /\ IF tunnelPort = "nobody"
     THEN tunnel' = "bound" /\ tunnelPort' = "own"
     ELSE tunnel' = "exited" /\ UNCHANGED tunnelPort
  /\ UNCHANGED <<at, cancelled, wait, ssh, socksPort>>

LoseTunnel ==
  /\ tunnel \in {"connecting", "bound"}
  /\ tunnel' = "exited"
  /\ tunnelPort' = IF tunnelPort = "own" THEN "nobody" ELSE tunnelPort
  /\ UNCHANGED <<at, cancelled, wait, ssh, socksPort>>

\* waitPort: a connection that is accepted, by whoever listens.
TunnelReady ==
  /\ at = "tunnel" /\ tunnel # "none" /\ tunnelPort # "nobody"
  /\ at' = IF socksPort = "reservation" THEN "release" ELSE "shell"
  /\ UNCHANGED <<cancelled, wait, children>>

-----------------------------------------------------------------------------
(* The forward.                                                            *)

\* The reservation is closed and OpenSSH started; neither binds the port yet.
Release ==
  /\ at = "release"
  /\ socksPort' = "nobody"
  /\ \/ ssh' = "connecting" /\ at' = "forward"
     \/ at' = "ending" /\ UNCHANGED ssh
  /\ UNCHANGED <<cancelled, wait, tunnel, tunnelPort>>

\* ExitOnForwardFailure=yes: without its port OpenSSH exits.
BindForward ==
  /\ ssh = "connecting"
  /\ IF socksPort = "nobody"
     THEN ssh' = "bound" /\ socksPort' = "own"
     ELSE ssh' = "exited" /\ UNCHANGED socksPort
  /\ UNCHANGED <<at, cancelled, wait, tunnel, tunnelPort>>

\* It may fail to authenticate, or lose the tunnel or the virtual machine.
LoseSSH ==
  /\ ssh \in {"connecting", "bound"}
  /\ ssh' = "exited"
  /\ socksPort' = IF socksPort = "own" THEN "nobody" ELSE socksPort
  /\ UNCHANGED <<at, cancelled, wait, tunnel, tunnelPort>>

\* waitPlatformForward.
ForwardReady ==
  /\ at = "forward" /\ socksPort # "nobody"
  /\ at' = "ready"
  /\ UNCHANGED <<cancelled, wait, children>>

\* Mistake: the select of a running shell has no case for ssh.done.
NoticeInSetup ==
  /\ \/ at = "tunnel" /\ tunnel = "exited"
     \/ at = "forward" /\ ssh = "exited"
     \/ at = "ready" /\ tunnel = "exited"
  /\ at' = "ending"
  /\ UNCHANGED <<cancelled, wait, children>>

\* The waits and, later, the select of the running shell see a child's done.
NoticeExit ==
  /\ \/ at = "tunnel" /\ tunnel = "exited"
     \/ at = "forward" /\ ssh = "exited"
     \/ at = "ready" /\ (ssh = "exited" \/ tunnel = "exited")
  /\ at' = "ending"
  /\ UNCHANGED <<cancelled, wait, children>>

-----------------------------------------------------------------------------
(* bivrost ssh.                                                            *)

StartShell ==
  /\ at = "shell" /\ ssh = "none"
  /\ \/ ssh' = "interactive" /\ UNCHANGED at
     \/ at' = "ending" /\ UNCHANGED ssh
  /\ UNCHANGED <<cancelled, wait, tunnel, tunnelPort, socksPort>>

\* The user leaves, ssh notices that it has no connection, or it is told to end.
ShellExits ==
  /\ ssh = "interactive"
  /\ ssh' = "exited"
  /\ UNCHANGED <<at, cancelled, wait, tunnel, tunnelPort, socksPort>>

\* cancel: SIGTERM, and SIGKILL when WaitDelay is over.
StopShell ==
  /\ at = "shell" /\ ssh # "none"
  /\ tunnel = "exited" \/ cancelled
  /\ at' = "stopping"
  /\ UNCHANGED <<cancelled, wait, children>>

\* Both receives from done: nothing is closed before ssh is gone.
ShellDone ==
  /\ at \in {"shell", "stopping"} /\ ssh = "exited"
  /\ at' = "ending"
  /\ UNCHANGED <<cancelled, wait, children>>

-----------------------------------------------------------------------------
(* Endings.                                                                *)

Cancel ==
  /\ ~cancelled
  /\ cancelled' = TRUE
  /\ UNCHANGED <<at, wait, children>>

\* Every wait but that for the certificate looks at the context itself; the
\* waits for a port time out, and the user leaves.
Leave ==
  /\ at \in {"tunnel", "release", "forward", "ready"}
  /\ at' = "ending"
  /\ UNCHANGED <<cancelled, wait, children>>

\* The deferred calls, and the next session of the same process.
Close ==
  /\ at = "ending" /\ ~AzRuns
  /\ at' = "new" /\ az' = "none" /\ certificate' = "none"
  /\ signal' = FALSE /\ noBrowser' = FALSE /\ signingIn' = FALSE /\ fired' = FALSE
  /\ tunnel' = "none" /\ ssh' = "none"
  /\ tunnelPort' = IF tunnelPort = "own" THEN "nobody" ELSE tunnelPort
  /\ socksPort' = IF socksPort \in {"own", "reservation"} THEN "nobody" ELSE socksPort
  /\ UNCHANGED <<cancelled, interactive>>

Toggled(port) == \/ port = "nobody" /\ port' = "other"
                 \/ port = "other" /\ port' = "nobody"

OtherProgram ==
  /\ \/ Toggled(tunnelPort) /\ UNCHANGED socksPort
     \/ Toggled(socksPort) /\ UNCHANGED tunnelPort
  /\ UNCHANGED <<at, cancelled, wait, tunnel, ssh>>

Certificate == TakeExit \/ TakeDeadline \/ SeeNoBrowser \/ SeeRefused \/ SeeRequest
AzureCLI == AskBrowser \/ WarnNoBrowser \/ AzExits \/ AzCancelled
Route == \/ StartTunnel \/ BindTunnel \/ LoseTunnel \/ TunnelReady
         \/ Release \/ BindForward \/ LoseSSH \/ ForwardReady \/ NoticeExit
         \/ StartShell \/ ShellExits \/ StopShell \/ ShellDone

RouteNext == \/ Open \/ TimerFires \/ Certificate \/ AzureCLI \/ Route
        \/ Cancel \/ Leave \/ Close \/ OtherProgram

RouteSpec == RouteInit /\ [][RouteNext]_routeVars

\* Time passes, the select loops run, and OpenSSH gets as far as its forward or exits;
\* a shell that is told to end exits, and no other has to.
RouteFairness ==
  /\ WF_routeVars(TimerFires) /\ WF_routeVars(Certificate)
  /\ WF_routeVars(BindForward) /\ WF_routeVars(NoticeExit) /\ WF_routeVars(Close)
  /\ WF_routeVars(StartShell) /\ WF_routeVars(StopShell) /\ WF_routeVars(ShellDone)
  /\ WF_routeVars(at = "stopping" /\ ShellExits)

-----------------------------------------------------------------------------
(* Properties.                                                             *)

RouteTypeOK ==
  /\ at \in RoutePoints /\ certificate \in Outcomes
  /\ az \in {"none", "silent", "page", "succeeded", "failed"}
  /\ {interactive, signal, noBrowser, signingIn, fired, cancelled} \subseteq BOOLEAN
  /\ {tunnel, ssh} \subseteq Child
  /\ {tunnelPort, socksPort} \subseteq Listener

\* When Azure CLI fails after it asked for a sign-in, the error says so, however
\* shortly before its exit the request came.
InteractionReported == certificate = "failed" => ~signal

\* The wait for the certificate comes to an end, whatever Azure CLI and the user do.
CertificateWaitEnds == at = "certificate" ~> at # "certificate"

\* A session that took another listener for its own forward finds out: it either
\* gets the port after all or ends.
Forwarding == socksPort = "own" /\ ssh = "bound"
WrongForwardEnds == at = "ready" /\ ~Forwarding ~> at # "ready" \/ Forwarding

\* A management shell does not stay in the terminal without its tunnel, nor when
\* bivrost was told to stop.
ShellEnds == at \in {"shell", "stopping"} /\ (tunnel = "exited" \/ cancelled) ~> at = "ending"

\* None of the waits that another program can prolong goes on for ever.
WaitsEnd == CertificateWaitEnds /\ WrongForwardEnds /\ ShellEnds

=============================================================================
