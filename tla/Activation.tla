------------------------------ MODULE Activation ------------------------------
(***************************************************************************)
(* The controller of one connected session: acrActivation of               *)
(* internal/session/activation.go, with the /switch handler of the same    *)
(* file and the publication handlers of publication.go.  The shell sends   *)
(* requests over loopback HTTP, several at a time; the platform session    *)
(* closes the controller when it ends, whatever is in progress.            *)
(*                                                                         *)
(* A step is what a handler does between two points where another one can  *)
(* run: /enable keeps a.mu through calls that take minutes, while /switch  *)
(* and /publish let go of it and look again.                               *)
(***************************************************************************)
EXTENDS Naturals

CONSTANTS Requests,        \* the requests that may be in progress together
          Targets,         \* what /switch may ask for
          NoTarget,
          Nobody,          \* a.mu is free
          Closer,          \* the platform session, in close
          Sessions, Self,  \* the sessions of one user, and this one
          Limits,          \* what they may bring as max_sessions
          MaxWithdrawals   \* bound on the unpublish requests of a behaviour

ASSUME ActivationAssumption ==
  /\ NoTarget \notin Targets
  /\ Nobody \notin Requests /\ Closer \notin Requests /\ Nobody # Closer
  /\ MaxWithdrawals \in Nat
  /\ Self \in Sessions /\ Limits \subseteq Nat \ {0} /\ Limits # {}

VARIABLES
  ended,         \* a.ctx is done
  mu,            \* who holds a.mu
  at,            \* where each request is
  wants,         \* the target a /switch request carries
  limit, holders,\* the registry of sessions, which the others use too
  podman,        \* the Podman session enable started
  accepted,      \* a.session is set
  script,        \* the activation script exists
  watchers,      \* goroutines that wait to close a.done
  disconnected,  \* a.done is closed
  pending,       \* a.pending
  published,     \* a.publication is set, its gateway and descriptor exist
  requested,     \* a.publicationRequested
  withdrawals,   \* a.withdrawals
  remembered,    \* the withdrawals a publish saw before it let go of a.mu
  overtaken,     \* publish requests during whose cleanup an unpublish returned
  closing        \* how far close() is

requestVars == <<at, wants, remembered, overtaken>>
registry == <<limit, holders>>
ownVars == <<podman, accepted, script, watchers, disconnected>>
accessVars == <<registry, ownVars>>
shareVars == <<published, requested, withdrawals>>
vars == <<ended, mu, requestVars, accessVars, pending, shareVars, closing>>

\* The registry is what ADR 0018 promises of it, which SessionRegistry implements.
Registry == INSTANCE SessionAdmission

\* "lock" waits for a.mu in /enable; "claim" to "accept" hold it; "undo" and
\* "release" are the deferred calls of a failed enable; "load" and "clean" run
\* without a.mu.
Points == {"idle", "lock", "claim", "podman", "check", "accept", "undo", "release",
           "load", "settle", "clean", "publish"}
HoldsMu == {"claim", "podman", "check", "accept", "undo", "release"}

Init ==
  /\ ended = FALSE /\ mu = Nobody /\ closing = "open"
  /\ at = [r \in Requests |-> "idle"]
  /\ wants = [r \in Requests |-> NoTarget]
  /\ remembered = [r \in Requests |-> 0] /\ overtaken = {}
  /\ \E l \in Limits : limit = [s \in Sessions |-> IF s = Self THEN l ELSE 0]
  /\ holders = {} /\ podman = "none" /\ accepted = FALSE /\ script = FALSE
  /\ watchers = 0 /\ disconnected = FALSE
  /\ pending = NoTarget
  /\ published = FALSE /\ withdrawals = 0
  /\ requested \in BOOLEAN          \* publicationRequested = resumePublication

Goto(r, point) == at' = [at EXCEPT ![r] = point]
KeepRequest == UNCHANGED <<wants, remembered, overtaken>>

-----------------------------------------------------------------------------
(* /enable                                                                 *)

RequestEnable(r) ==
  /\ closing = "open" /\ at[r] = "idle"
  /\ Goto(r, "lock")
  /\ KeepRequest /\ UNCHANGED <<ended, mu, accessVars, pending, shareVars, closing>>

\* Mistake: an enable that waited for another one starts over.
LockEnableAgain(r) ==
  /\ at[r] = "lock" /\ mu = Nobody
  /\ IF ended
     THEN Goto(r, "idle") /\ UNCHANGED mu
     ELSE Goto(r, "claim") /\ mu' = r
  /\ KeepRequest /\ UNCHANGED <<ended, accessVars, pending, shareVars, closing>>

\* Refused when the session ended, granted when it has access already, and
\* refused when the profile does not describe a registry.
LockEnable(r) ==
  /\ at[r] = "lock" /\ mu = Nobody
  /\ IF ended \/ accepted
     THEN Goto(r, "idle") /\ UNCHANGED mu
     ELSE Goto(r, "claim") /\ mu' = r
  /\ KeepRequest /\ UNCHANGED <<ended, accessVars, pending, shareVars, closing>>

\* Only what others claim is in the way, not what an earlier release left.
Claim == Registry!Claim(Self) \/ (Self \in holders /\ UNCHANGED registry)

\* Mistake: a refused claim returns without unlocking.
ClaimACRKeepsMu(r) ==
  /\ at[r] = "claim"
  /\ \/ Claim /\ Goto(r, "podman")
     \/ Goto(r, "idle") /\ UNCHANGED registry
  /\ KeepRequest
  /\ UNCHANGED <<ended, mu, ownVars, pending, shareVars, closing>>

\* Another session may have the claim, or the registry may fail.
ClaimACR(r) ==
  /\ at[r] = "claim"
  /\ \/ Claim /\ Goto(r, "podman") /\ UNCHANGED mu
     \/ Goto(r, "idle") /\ mu' = Nobody /\ UNCHANGED registry
  /\ KeepRequest
  /\ UNCHANGED <<ended, ownVars, pending, shareVars, closing>>

StartPodman(r) ==
  /\ at[r] = "podman"
  /\ \/ podman' = "up" /\ Goto(r, "check")
     \/ Goto(r, "release") /\ UNCHANGED podman
  /\ KeepRequest
  /\ UNCHANGED <<ended, mu, registry, accepted, script, watchers, disconnected,
                 pending, shareVars, closing>>

\* checkRegistry, and loginPodman unless the session skips it.
CheckRegistry(r) ==
  /\ at[r] = "check"
  /\ Goto(r, "accept") \/ Goto(r, "undo")
  /\ KeepRequest /\ UNCHANGED <<ended, mu, accessVars, pending, shareVars, closing>>

\* The script is written, the session set, and a goroutine watches it.
Accept(r) ==
  /\ at[r] = "accept"
  /\ \/ /\ script' = TRUE /\ accepted' = TRUE
        /\ watchers' = watchers + 1
        /\ Goto(r, "idle") /\ mu' = Nobody
     \/ Goto(r, "undo") /\ UNCHANGED <<script, accepted, watchers, mu>>
  /\ KeepRequest
  /\ UNCHANGED <<ended, registry, podman, disconnected, pending, shareVars, closing>>

\* The deferred calls run in this order: s.close, then releaseACR.
UndoPodman(r) ==
  /\ at[r] = "undo"
  /\ podman' = "closed"
  /\ Goto(r, "release")
  /\ KeepRequest
  /\ UNCHANGED <<ended, mu, registry, accepted, script, watchers, disconnected,
                 pending, shareVars, closing>>

\* releaseACR ignores a registry that cannot be written.
ReleaseClaim(r) ==
  /\ at[r] = "release"
  /\ Registry!Release(Self) \/ UNCHANGED registry
  /\ Goto(r, "idle") /\ mu' = Nobody
  /\ KeepRequest
  /\ UNCHANGED <<ended, ownVars, pending, shareVars, closing>>

-----------------------------------------------------------------------------
(* /switch                                                                 *)

RequestSwitch(r) ==
  /\ closing = "open" /\ at[r] = "idle" /\ mu = Nobody
  /\ ~ended /\ pending = NoTarget
  /\ \E target \in Targets : wants' = [wants EXCEPT ![r] = target]
  /\ Goto(r, "load")
  /\ UNCHANGED <<ended, mu, remembered, overtaken, accessVars, pending, shareVars, closing>>

\* loadSwitchTarget reads the catalogue and profile without a.mu.
LoadTarget(r) ==
  /\ at[r] = "load"
  /\ \/ Goto(r, "settle") /\ UNCHANGED wants
     \/ Goto(r, "idle") /\ wants' = [wants EXCEPT ![r] = NoTarget]
  /\ UNCHANGED <<ended, mu, remembered, overtaken, accessVars, pending, shareVars, closing>>

\* Mistake: the session is not looked at again after the target was loaded.
SettleAnyway(r) ==
  /\ at[r] = "settle" /\ mu = Nobody
  /\ pending' = wants[r]
  /\ wants' = [wants EXCEPT ![r] = NoTarget]
  /\ Goto(r, "idle")
  /\ UNCHANGED <<ended, mu, remembered, overtaken, accessVars, shareVars, closing>>

SettleSwitch(r) ==
  /\ at[r] = "settle" /\ mu = Nobody
  /\ pending' = IF ~ended /\ pending = NoTarget THEN wants[r] ELSE pending
  /\ wants' = [wants EXCEPT ![r] = NoTarget]
  /\ Goto(r, "idle")
  /\ UNCHANGED <<ended, mu, remembered, overtaken, accessVars, shareVars, closing>>

-----------------------------------------------------------------------------
(* /publish and /unpublish                                                 *)

\* Mistake: a session that has ended may still be published.
MayPublishLate == pending = NoTarget /\ ~published

\* publicationStateLocked, of a session with a Kubernetes target.
MayPublish == ~ended /\ pending = NoTarget /\ ~published

RequestPublish(r) ==
  /\ closing = "open" /\ at[r] = "idle" /\ mu = Nobody
  /\ MayPublish
  /\ remembered' = [remembered EXCEPT ![r] = withdrawals]
  /\ Goto(r, "clean")
  /\ UNCHANGED <<ended, mu, wants, overtaken, accessVars, pending, shareVars, closing>>

ForgetPublish(r) ==
  /\ remembered' = [remembered EXCEPT ![r] = 0]
  /\ overtaken' = overtaken \ {r}

\* cleanPublicationDirectory probes other sessions for seconds, or fails.
Cleaned(r) ==
  /\ at[r] = "clean"
  /\ \/ Goto(r, "publish") /\ UNCHANGED <<remembered, overtaken>>
     \/ Goto(r, "idle") /\ ForgetPublish(r)
  /\ UNCHANGED <<ended, mu, wants, accessVars, pending, shareVars, closing>>

\* Mistake: the withdrawals of the meantime are not counted.
PublishAnyway(r) ==
  /\ at[r] = "publish" /\ mu = Nobody
  /\ \/ MayPublish /\ published' = TRUE /\ requested' = TRUE
     \/ UNCHANGED <<published, requested>>
  /\ Goto(r, "idle") /\ ForgetPublish(r)
  /\ UNCHANGED <<ended, mu, wants, accessVars, pending, withdrawals, closing>>

\* The state is checked again; opening the gateway or writing the descriptor
\* may fail, and then nothing of it stays.
Publish(r) ==
  /\ at[r] = "publish" /\ mu = Nobody
  /\ \/ /\ MayPublish /\ withdrawals = remembered[r]
        /\ published' = TRUE /\ requested' = TRUE
     \/ UNCHANGED <<published, requested>>
  /\ Goto(r, "idle") /\ ForgetPublish(r)
  /\ UNCHANGED <<ended, mu, wants, accessVars, pending, withdrawals, closing>>

Unpublish ==
  /\ closing = "open" /\ mu = Nobody /\ ~ended
  /\ withdrawals < MaxWithdrawals
  /\ published' = FALSE /\ requested' = FALSE
  /\ withdrawals' = withdrawals + 1
  /\ overtaken' = overtaken \cup {r \in Requests : at[r] \in {"clean", "publish"}}
  /\ UNCHANGED <<ended, mu, at, wants, remembered, accessVars, pending, closing>>

-----------------------------------------------------------------------------
(* The session around the controller.                                      *)

\* The bridge into the Podman machine stops.
PodmanLost ==
  /\ podman = "up"
  /\ podman' = "lost"
  /\ UNCHANGED <<ended, mu, requestVars, registry, accepted, script, watchers,
                 disconnected, pending, shareVars, closing>>

\* The goroutine enable left behind: it closes a.done, or ends with the session.
WatchPodman ==
  /\ watchers > 0
  /\ \/ accepted /\ podman \in {"lost", "closed"} /\ disconnected' = TRUE
     \/ ended /\ UNCHANGED disconnected
  /\ watchers' = watchers - 1
  /\ UNCHANGED <<ended, mu, requestVars, registry, podman, accepted, script,
                 pending, shareVars, closing>>

\* The context of the connection ends first, or close cancels it.
EndContext ==
  /\ ~ended
  /\ ended' = TRUE
  /\ UNCHANGED <<mu, requestVars, accessVars, pending, shareVars, closing>>

\* close: cancel, stop taking requests, wait for a.mu, close what there is.
BeginClose ==
  /\ closing = "open"
  /\ ended' = TRUE /\ closing' = "locking"
  /\ UNCHANGED <<mu, requestVars, accessVars, pending, shareVars>>

LockClose ==
  /\ closing = "locking" /\ mu = Nobody
  /\ mu' = Closer /\ closing' = "closing"
  /\ UNCHANGED <<ended, requestVars, accessVars, pending, shareVars>>

FinishClose ==
  /\ closing = "closing"
  /\ published' = FALSE                 \* the gateway closes, a.publication stays set
  /\ podman' = IF accepted THEN "closed" ELSE podman
  /\ script' = FALSE
  /\ mu' = Nobody /\ closing' = "closed"
  /\ UNCHANGED <<ended, requestVars, registry, accepted, watchers, disconnected,
                 pending, requested, withdrawals>>

\* The platform session gives up its registration after it closed the controller.
Unregister ==
  /\ closing = "closed"
  /\ Registry!Leave(Self)
  /\ UNCHANGED <<ended, mu, requestVars, ownVars, pending, shareVars, closing>>

\* The sessions of other processes register, enable and end beside this one.
OtherSessions ==
  /\ \E s \in Sessions \ {Self} :
       \/ \E l \in Limits : Registry!Join(s, l)
       \/ Registry!Claim(s) \/ Registry!Release(s) \/ Registry!Leave(s)
  /\ UNCHANGED <<ended, mu, requestVars, ownVars, pending, shareVars, closing>>

Handle(r) ==
  \/ LockEnable(r) \/ ClaimACR(r) \/ Accept(r) \/ UndoPodman(r) \/ ReleaseClaim(r)
  \/ SettleSwitch(r) \/ Publish(r)

\* Commands and probes that end by themselves or when the context does.
Wait(r) == StartPodman(r) \/ CheckRegistry(r) \/ LoadTarget(r) \/ Cleaned(r)

Ask(r) == RequestEnable(r) \/ RequestSwitch(r) \/ RequestPublish(r)

Close == BeginClose \/ LockClose \/ FinishClose

Next ==
  \/ \E r \in Requests : Ask(r) \/ Handle(r) \/ Wait(r)
  \/ Unpublish \/ PodmanLost \/ WatchPodman \/ EndContext \/ Close
  \/ Unregister \/ OtherSessions

Spec == Init /\ [][Next]_vars

\* Handlers and the close keep running; a command is only sure to return once
\* its context has ended, and a.mu, like any Go mutex, does not starve a waiter.
Fairness ==
  /\ \A r \in Requests : SF_vars(Handle(r)) /\ WF_vars(ended /\ Wait(r))
  /\ SF_vars(LockClose) /\ WF_vars(FinishClose)
FairSpec == Spec /\ Fairness

-----------------------------------------------------------------------------
(* Properties.                                                             *)

TypeOK ==
  /\ ended \in BOOLEAN /\ mu \in Requests \cup {Nobody, Closer}
  /\ at \in [Requests -> Points]
  /\ wants \in [Requests -> Targets \cup {NoTarget}]
  /\ limit \in [Sessions -> Limits \cup {0}] /\ holders \subseteq Sessions /\ accepted \in BOOLEAN /\ script \in BOOLEAN
  /\ podman \in {"none", "up", "lost", "closed"}
  /\ watchers \in Nat /\ disconnected \in BOOLEAN
  /\ pending \in Targets \cup {NoTarget}
  /\ published \in BOOLEAN /\ requested \in BOOLEAN
  /\ withdrawals \in 0..MaxWithdrawals
  /\ remembered \in [Requests -> 0..MaxWithdrawals]
  /\ overtaken \subseteq Requests
  /\ closing \in {"open", "locking", "closing", "closed"}

\* "Only one session at a time can use Podman registry access": while this session's
\* Podman session exists the claim is its own and nobody else's, also while a failed
\* enable takes itself back, and after a release that the registry refused.
AccessIsClaimed == podman \in {"up", "lost"} => holders = {Self}

\* a.done is closed at most once: a second close would panic.
OneWatcher == watchers + (IF disconnected THEN 1 ELSE 0) <= 1

\* However enables overlap and fail, access is claimed while it is up and watched
\* once.
AccessWatched == AccessIsClaimed /\ OneWatcher

\* Nothing outlives close: a request that was in progress, an enable in the
\* middle of its calls or a publish in its cleanup, leaves nothing behind.
NothingOutlivesClose ==
  closing = "closed" => ~published /\ ~script /\ podman \in {"none", "closed"}

\* A switch, once accepted, is the one that happens: a concurrent /switch that
\* also found none pending does not replace it.
SwitchAcceptedOnce == [][pending # NoTarget => pending' = pending]_vars

\* A publish that waited on its cleanup does not undo a withdrawal made in the
\* meantime, nor shares a session that is about to be replaced.
WithdrawalStands ==
  [][\A r \in Requests : Publish(r) /\ published' /\ ~published =>
       r \notin overtaken /\ pending = NoTarget]_vars

\* close is never held up for good: whoever has a.mu lets go of it.
CloseCompletes == closing = "locking" ~> closing = "closed"

=============================================================================
