---------------------------- MODULE PlatformSession ----------------------------
(***************************************************************************)
(* One bivrost connect or bivrost run: platformSession of                  *)
(* internal/session/platform.go, the loop that reconnects after a switch,  *)
(* runSessionCommand of run.go, and the two goroutines that turn Ctrl+C    *)
(* and termination signals into cancellation.                              *)
(*                                                                         *)
(* Setup acquires resources one after another and defers their close; the  *)
(* shell or command then runs until it exits, something it depends on is   *)
(* lost, or the user asks to stop; the deferred calls run in reverse.      *)
(***************************************************************************)
EXTENDS Naturals, Sequences

CONSTANTS Modes,        \* which of "connect" and "run" to look at
          MaxSessions   \* bound on the sessions one connect goes through

ASSUME PlatformAssumption ==
  Modes \subseteq {"connect", "run"} /\ MaxSessions \in Nat \ {0}

VARIABLES
  mode, ownGroup,   \* the command; whether the run command has its own group
  session,          \* how many sessions this connect has begun
  point,            \* where platformSession is
  deferred,         \* the deferred closes, the one that runs next first
  open,             \* the resources that are really open
  down,             \* what stopped by itself: proxy, bastion, ssh, Podman
  child, exit,      \* the shell or command, and the status it left
  running,          \* shellRunning, or running in run.go
  ctxDone,          \* the session's context is cancelled
  asked,            \* command.terminate is closed
  interrupt, stop,  \* an undelivered Ctrl+C; SIGTERM or SIGHUP arrived
  watcher,          \* the goroutine that waits for them
  pending,          \* the controller accepted a switch
  requested,        \* activation.publicationRequested
  outcome,          \* what platformSession returns
  carry,            \* published, of platformConnectLoop
  intent            \* what the user last asked for: sharing or not

childVars == <<child, exit, running>>
signalVars == <<ctxDone, asked, interrupt, stop, watcher>>
shareVars == <<pending, requested, carry, intent>>
sessionVars == <<session, deferred, open, down, outcome>>
vars == <<mode, ownGroup, point, sessionVars, childVars, signalVars, shareVars>>

-----------------------------------------------------------------------------
(* Setup, in the order of the code.                                        *)

Opens == [register |-> "registration", socks |-> "socksPort", api |-> "apiPort",
          proxy |-> "proxy", bastion |-> "bastion", ssh |-> "ssh",
          activate |-> "activation"]

\* setPorts, prepareKubeconfig, waitForward, the Heimdal routes, activation.enable,
\* activation.listen with a resumed publication, and the prompt.
Checks == {"setPorts", "kubeconfig", "forward", "heimdal", "enable", "listen"}

After == [register |-> "socks", socks |-> "api", api |-> "proxy", proxy |-> "setPorts",
          setPorts |-> "bastion", bastion |-> "kubeconfig", kubeconfig |-> "free",
          free |-> "ssh", ssh |-> "forward", forward |-> "heimdal",
          heimdal |-> "activate", activate |-> "enable", enable |-> "listen",
          listen |-> "mark"]

Ports == {"socksPort", "apiPort"}
Dependencies == {"proxy", "bastion", "ssh", "activation"}
Points == DOMAIN After \cup
  {"mark", "checkCtx", "checkStop", "start", "running", "stopping", "unwinding", "ended"}

Init ==
  /\ mode \in Modes /\ ownGroup \in BOOLEAN
  /\ session = 1 /\ point = "register" /\ outcome = "none"
  /\ deferred = <<>> /\ open = {} /\ down = {}
  /\ child = "none" /\ exit = "none" /\ running = FALSE
  /\ ctxDone = FALSE /\ asked = FALSE /\ interrupt = FALSE /\ stop = FALSE
  /\ watcher = "waiting"
  /\ pending = FALSE /\ requested = FALSE /\ carry = FALSE /\ intent = FALSE

Goto(p) == point' = p /\ UNCHANGED <<mode, ownGroup>>

\* Mistake: a new activation starts with nothing to resume.
AcquireForgets ==
  /\ point \in DOMAIN Opens
  /\ \/ /\ open' = open \cup {Opens[point]}
        /\ deferred' = <<Opens[point]>> \o deferred
     \/ point = "api" /\ UNCHANGED <<open, deferred>>
  /\ requested' = IF point = "activate" THEN FALSE ELSE requested
  /\ Goto(After[point])
  /\ UNCHANGED <<session, down, outcome, childVars, signalVars, pending, carry, intent>>

\* A profile without a cluster needs no port for the Kubernetes API.  A new
\* activation takes over what the loop carried from the session before.
Acquire ==
  /\ point \in DOMAIN Opens
  /\ \/ /\ open' = open \cup {Opens[point]}
        /\ deferred' = <<Opens[point]>> \o deferred
     \/ point = "api" /\ UNCHANGED <<open, deferred>>
  /\ requested' = IF point = "activate" THEN carry ELSE requested
  /\ Goto(After[point])
  /\ UNCHANGED <<session, down, outcome, childVars, signalVars, pending, carry, intent>>

\* run has no controller, so it skips listen.
Check ==
  /\ point \in Checks
  /\ point = "forward" => "ssh" \notin down
  /\ Goto(After[point])
  /\ UNCHANGED <<sessionVars, childVars, signalVars, shareVars>>

\* The ports are freed just before OpenSSH binds them; closing them again when
\* the deferred calls run has no effect.
FreePorts ==
  /\ point = "free"
  /\ open' = open \ Ports
  /\ Goto("ssh")
  /\ UNCHANGED <<session, deferred, down, outcome, childVars, signalVars, shareVars>>

\* Mistake: an early return that skips the deferred calls.
SetupAborts ==
  /\ point \in DOMAIN After \ {"activate"}
  /\ Goto("ended")
  /\ UNCHANGED <<sessionVars, childVars, signalVars, shareVars>>

\* An early return: refused, occupied, failed, timed out or cancelled.
SetupFails ==
  /\ point \in DOMAIN After \ {"activate"}
  /\ mode = "run" => point # "listen"
  /\ Goto("unwinding")
  /\ UNCHANGED <<sessionVars, childVars, signalVars, shareVars>>

Setup == Acquire \/ Check \/ FreePorts \/ SetupFails

-----------------------------------------------------------------------------
(* The shell of connect and the command of run.                            *)

MarkRunning ==
  /\ point = "mark"
  /\ running' = TRUE
  /\ Goto(IF mode = "run" THEN "checkCtx" ELSE "start")
  /\ UNCHANGED <<sessionVars, child, exit, signalVars, shareVars>>

GiveUp == running' = FALSE /\ Goto("unwinding")

\* "A stop request that raced with setup cancelled ctx instead of terminate."
CheckContext ==
  /\ point = "checkCtx"
  /\ IF ctxDone THEN GiveUp ELSE Goto("checkStop") /\ UNCHANGED running
  /\ UNCHANGED <<sessionVars, child, exit, signalVars, shareVars>>

\* Mistake: terminate is not looked at before the command starts.
CheckNothing ==
  /\ point = "checkStop"
  /\ Goto("start")
  /\ UNCHANGED <<sessionVars, childVars, signalVars, shareVars>>

CheckStop ==
  /\ point = "checkStop"
  /\ IF asked THEN GiveUp ELSE Goto("start") /\ UNCHANGED running
  /\ UNCHANGED <<sessionVars, child, exit, signalVars, shareVars>>

\* A command whose context is done is not started.
StartChild ==
  /\ point = "start"
  /\ \/ /\ ~ctxDone
        /\ child' = "running" /\ exit' = "none"
        /\ Goto("running") /\ UNCHANGED running
     \/ GiveUp /\ UNCHANGED <<child, exit>>
  /\ UNCHANGED <<sessionVars, signalVars, shareVars>>

ChildExits ==
  /\ child = "running"
  /\ child' = "exited" /\ exit' \in {"switch", "other"}
  /\ UNCHANGED <<mode, ownGroup, point, sessionVars, running, signalVars, shareVars>>

\* The shell is gone: a switch needs its exit status and an accepted request.
ChildDone ==
  /\ point = "running" /\ child = "exited"
  /\ running' = FALSE
  /\ IF mode = "connect" /\ exit = "switch" /\ pending
     THEN outcome' = "switch" /\ carry' = requested
     ELSE outcome' = "done" /\ UNCHANGED carry
  /\ Goto("unwinding")
  /\ UNCHANGED <<session, deferred, open, down, child, exit, signalVars,
                 pending, requested, intent>>

\* Mistakes: the child is cancelled and not waited for; a lost dependency is not
\* a case of the select.
StopWithoutWaiting ==
  /\ point = "running"
  /\ down # {} \/ ctxDone \/ (mode = "run" /\ asked)
  /\ outcome' = "failed"
  /\ Goto("unwinding")
  /\ UNCHANGED <<session, deferred, open, down, childVars, signalVars, shareVars>>
StopOnRequest ==
  /\ point = "running"
  /\ ctxDone \/ (mode = "run" /\ asked)
  /\ outcome' = "failed"
  /\ Goto("stopping")
  /\ UNCHANGED <<session, deferred, open, down, childVars, signalVars, shareVars>>

\* Any other case of the select: the child is cancelled and waited for.
StopChild ==
  /\ point = "running"
  /\ down # {} \/ ctxDone \/ (mode = "run" /\ asked)
  /\ outcome' = "failed"
  /\ Goto("stopping")
  /\ UNCHANGED <<session, deferred, open, down, childVars, signalVars, shareVars>>

ChildStopped ==
  /\ point = "stopping" /\ child = "exited"
  /\ GiveUp
  /\ UNCHANGED <<sessionVars, child, exit, signalVars, shareVars>>

Run == \/ MarkRunning \/ CheckContext \/ CheckStop \/ StartChild
       \/ ChildDone \/ StopChild \/ ChildStopped

-----------------------------------------------------------------------------
(* The deferred calls, and what comes after.                               *)

Unwind ==
  /\ point = "unwinding" /\ deferred # <<>>
  /\ open' = open \ {Head(deferred)}
  /\ down' = down \ {Head(deferred)}
  /\ deferred' = Tail(deferred)
  /\ UNCHANGED <<mode, ownGroup, point, session, outcome, childVars, signalVars, shareVars>>

\* platformConnectLoop goes round only for a switch, and not once it is cancelled.
Reconnect ==
  /\ point = "unwinding" /\ deferred = <<>>
  /\ outcome = "switch" /\ ~ctxDone
  /\ Goto("register")
  /\ session' = session + 1
  /\ outcome' = "none" /\ child' = "none" /\ exit' = "none"
  /\ pending' = FALSE
  /\ UNCHANGED <<deferred, open, down, running, signalVars, requested, carry, intent>>

End ==
  /\ point = "unwinding" /\ deferred = <<>>
  /\ outcome = "switch" => ctxDone
  /\ Goto("ended")
  /\ UNCHANGED <<sessionVars, childVars, signalVars, shareVars>>

-----------------------------------------------------------------------------
(* What happens around it.                                                 *)

\* A process that ends by itself, or because the context it was started with did.
\* An activation counts as lost when its Podman session disconnects; whether it
\* has one is not told apart here.
Lose ==
  /\ \E x \in (Dependencies \cap open) \ down : down' = down \cup {x}
  /\ UNCHANGED <<mode, ownGroup, point, session, deferred, open, outcome,
                 childVars, signalVars, shareVars>>

UserKeeps == UNCHANGED <<mode, ownGroup, point, sessionVars, childVars>>

\* The shell asks the controller to switch, publish or unpublish; Activation says
\* which requests it grants.  Requests of detached processes, after the shell is
\* gone, are left out: ADR 0010 promises nothing for those.
AskSwitch ==
  /\ mode = "connect" /\ child = "running" /\ ~pending /\ ~ctxDone
  /\ session < MaxSessions
  /\ pending' = TRUE
  /\ UserKeeps /\ UNCHANGED <<signalVars, requested, carry, intent>>

AskSharing ==
  /\ mode = "connect" /\ child = "running" /\ ~ctxDone
  /\ \E share \in BOOLEAN :
       /\ share => ~pending
       /\ requested' = share /\ intent' = share
  /\ UserKeeps /\ UNCHANGED <<signalVars, pending, carry>>

PressCtrlC ==
  /\ ~interrupt /\ point # "ended"
  /\ interrupt' = TRUE
  /\ UserKeeps /\ UNCHANGED <<ctxDone, asked, stop, watcher, shareVars>>

\* connect derives its context from the one SIGTERM cancels, run does not.
Terminate ==
  /\ ~stop /\ point # "ended"
  /\ stop' = TRUE
  /\ ctxDone' = IF mode = "connect" THEN TRUE ELSE ctxDone
  /\ UserKeeps /\ UNCHANGED <<asked, interrupt, watcher, shareVars>>

-----------------------------------------------------------------------------
(* The goroutine: in connect it cancels a setup, in run it also closes      *)
(* terminate, and looks at running only after that.                        *)

TakeInterrupt ==
  /\ watcher = "waiting" /\ interrupt
  /\ interrupt' = FALSE /\ watcher' = "took"
  /\ UserKeeps /\ UNCHANGED <<ctxDone, asked, stop, shareVars>>

IgnoresInterrupt == running /\ (mode = "run" => ~ownGroup)

JudgeInterrupt ==
  /\ watcher = "took"
  /\ watcher' = IF IgnoresInterrupt THEN "waiting"
                ELSE IF mode = "run" THEN "closing" ELSE "cancelling"
  /\ UserKeeps /\ UNCHANGED <<ctxDone, asked, interrupt, stop, shareVars>>

TakeStop ==
  /\ mode = "run" /\ watcher = "waiting" /\ stop
  /\ watcher' = "closing"
  /\ UserKeeps /\ UNCHANGED <<ctxDone, asked, interrupt, stop, shareVars>>

CloseTerminate ==
  /\ watcher = "closing"
  /\ asked' = TRUE /\ watcher' = "judging"
  /\ UserKeeps /\ UNCHANGED <<ctxDone, interrupt, stop, shareVars>>

\* Mistake: only terminate is closed, and a setup that runs never sees that.
JudgeNothing ==
  /\ watcher = "judging"
  /\ watcher' = "quit"
  /\ UserKeeps /\ UNCHANGED <<ctxDone, asked, interrupt, stop, shareVars>>

JudgeRunning ==
  /\ watcher = "judging"
  /\ watcher' = IF running THEN "quit" ELSE "cancelling"
  /\ UserKeeps /\ UNCHANGED <<ctxDone, asked, interrupt, stop, shareVars>>

CancelSession ==
  /\ watcher = "cancelling"
  /\ ctxDone' = TRUE /\ watcher' = "quit"
  /\ UserKeeps /\ UNCHANGED <<asked, interrupt, stop, shareVars>>

Watch == \/ TakeInterrupt \/ JudgeInterrupt \/ TakeStop
         \/ CloseTerminate \/ JudgeRunning \/ CancelSession

Next ==
  \/ Setup \/ Run \/ ChildExits \/ Unwind \/ Reconnect \/ End
  \/ Lose \/ AskSwitch \/ AskSharing \/ PressCtrlC \/ Terminate \/ Watch

Spec == Init /\ [][Next]_vars

\* Goroutines that can go on do.  A setup step is only sure to return once its
\* context is done, and a child once it has been told to stop: WaitDelay kills
\* one that does not.
Fairness ==
  /\ WF_vars(Run) /\ WF_vars(Unwind \/ Reconnect \/ End) /\ WF_vars(ctxDone /\ Setup)
  /\ WF_vars(point = "stopping" /\ ChildExits)
  /\ WF_vars(JudgeInterrupt \/ CloseTerminate \/ JudgeRunning \/ CancelSession)
  /\ SF_vars(TakeStop)
FairSpec == Spec /\ Fairness

-----------------------------------------------------------------------------
(* Properties.                                                             *)

TypeOK ==
  /\ mode \in Modes /\ ownGroup \in BOOLEAN
  /\ session \in 1..MaxSessions /\ point \in Points
  /\ deferred \in Seq({Opens[s] : s \in DOMAIN Opens})
  /\ open \subseteq {Opens[s] : s \in DOMAIN Opens} /\ down \subseteq Dependencies
  /\ child \in {"none", "running", "exited"} /\ exit \in {"none", "switch", "other"}
  /\ watcher \in {"waiting", "took", "closing", "judging", "cancelling", "quit"}
  /\ outcome \in {"none", "switch", "done", "failed"}
  /\ {running, ctxDone, asked, interrupt, stop, pending, requested, carry, intent}
       \subseteq BOOLEAN

\* "Tunnels use a separate context so that a running command keeps its
\* connectivity while it shuts down": whenever the stop request arrives, it never
\* cancels the context of a session whose command runs.
CommandKeepsTunnels == mode = "run" /\ child = "running" => ~ctxDone

\* No session resource is closed under a shell or command that still runs, on
\* whichever way the session ends.
SessionOutlivesChild == child = "running" => Dependencies \cup {"registration"} \subseteq open

\* "The owner completes old-session cleanup before starting new tunnels": a
\* session that failed anywhere in its setup, or ended in any way, leaves nothing
\* open, and a switch registers again only after that.
CleanSlate == point \in {"register", "ended"} => open = {} /\ child # "running"

\* A switch "carries the opt-in": over any number of sessions, each starts with
\* what the user last asked for, and its controller knows while the shell runs.
SharingFollowsUser ==
  /\ point = "register" => carry = intent
  /\ child = "running" => requested = intent

\* A request to stop ends bivrost, wherever in setup, run or a switch it arrives.
StopHeeded == stop \/ ctxDone ~> point = "ended"

\* When something the shell depends on is lost, the session does not linger.
LossEnds == point = "running" /\ down # {} ~> open = {}

=============================================================================
