--------------------------- MODULE ActivationProofs ---------------------------
(***************************************************************************)
(* Theorems about Activation, for any requests and targets.  a.mu excludes  *)
(* the enables from each other and from close; what an enable finds when it *)
(* has the lock is then what every earlier one left: nothing, or a session  *)
(* that was accepted.  Other sessions claim access in the same registry;    *)
(* that they cannot while this one has it is the registry's promise.        *)
(***************************************************************************)
EXTENDS Activation, TLAPS

\* Only the request that has a.mu is where the code holds it.
Exclusive ==
  /\ \A r \in Requests : at[r] \in HoldsMu <=> mu = r
  /\ mu = Closer <=> closing = "closing"

Running == podman \in {"up", "lost"}

\* What an enable that has the lock has done so far.
Attempts ==
  \A r \in Requests :
    /\ at[r] \in HoldsMu => ~accepted
    /\ at[r] \in {"podman", "check", "accept", "undo"} => Self \in holders
    /\ at[r] \in {"claim", "podman", "release"} => ~Running

\* Access belongs to a session that was accepted, or to the enable in progress.
Granted ==
  /\ Running => Self \in holders /\ (accepted \/ mu \in Requests)
  /\ ~accepted => watchers = 0 /\ ~disconnected /\ ~script
  /\ OneWatcher

\* No two sessions have registry access.
OneHolder == \A s, t \in holders : s = t

\* A close ends the context first; once it is over no enable is in progress.
Closed ==
  /\ closing # "open" => ended
  /\ closing = "closed" => (\A r \in Requests : at[r] \notin HoldsMu) /\ NothingOutlivesClose

\* What publish requests remember of the withdrawals.
Remembered ==
  /\ \A r \in Requests : at[r] \in {"clean", "publish"} => remembered[r] <= withdrawals
  /\ \A r \in overtaken : at[r] \in {"clean", "publish"} /\ remembered[r] < withdrawals

IInv == TypeOK /\ Exclusive /\ Attempts /\ Granted /\ Closed /\ OneHolder

-----------------------------------------------------------------------------
\* The type invariant in two parts: the flags of the controller, and the rest.
Flags ==
  /\ ended \in BOOLEAN /\ accepted \in BOOLEAN /\ script \in BOOLEAN
  /\ disconnected \in BOOLEAN /\ published \in BOOLEAN /\ requested \in BOOLEAN

Values ==
  /\ mu \in Requests \cup {Nobody, Closer}
  /\ at \in [Requests -> Points]
  /\ wants \in [Requests -> Targets \cup {NoTarget}]
  /\ limit \in [Sessions -> Limits \cup {0}] /\ holders \subseteq Sessions
  /\ podman \in {"none", "up", "lost", "closed"}
  /\ watchers \in Nat
  /\ pending \in Targets \cup {NoTarget}
  /\ withdrawals \in 0..MaxWithdrawals
  /\ remembered \in [Requests -> 0..MaxWithdrawals]
  /\ overtaken \subseteq Requests
  /\ closing \in {"open", "locking", "closing", "closed"}

LEMMA Types == TypeOK <=> Flags /\ Values
  BY Zenon DEF TypeOK, Flags, Values

\* Before the session there is nothing, and nobody has a.mu.
LEMMA InitIInv == Init => IInv /\ Remembered
<1> SUFFICES ASSUME Init PROVE IInv /\ Remembered
  OBVIOUS
<1> USE ActivationAssumption DEF Init
<1>1. TypeOK
  <2>1. Flags  BY Zenon DEF Flags
  <2>2. Values  BY DEF Values, Points
  <2> QED  BY <2>1, <2>2, Types
<1>2. Exclusive  BY DEF Exclusive, HoldsMu
<1>3. Attempts /\ Granted /\ Closed /\ OneHolder
  BY DEF Attempts, Granted, Closed, Running, OneWatcher, HoldsMu, OneHolder
<1>4. Remembered  BY DEF Remembered
<1> QED  BY <1>1, <1>2, <1>3, <1>4 DEF IInv

\* What sessions do to the registry keeps it: an enable claims only what nobody else
\* has, and a session that leaves gives its access up.
RegistryMoves ==
  \/ UNCHANGED registry \/ Claim \/ Registry!Release(Self)
  \/ \E s \in Sessions : Registry!Leave(s)
  \/ \E s \in Sessions \ {Self} :
       Registry!Claim(s) \/ Registry!Release(s) \/ \E l \in Limits : Registry!Join(s, l)

LEMMA RegistryKept ==
  ASSUME TypeOK, OneHolder, RegistryMoves
  PROVE  /\ limit' \in [Sessions -> Limits \cup {0}] /\ holders' \subseteq Sessions
         /\ OneHolder'
<1> USE ActivationAssumption DEF TypeOK, OneHolder, registry, Claim, Registry!Claim, Registry!Active
<1>1. CASE UNCHANGED registry \/ Claim \/ Registry!Release(Self)
  BY <1>1 DEF Registry!Release
<1>2. CASE \E s \in Sessions : Registry!Leave(s)
  BY <1>2 DEF Registry!Leave
<1>3. ASSUME NEW s \in Sessions \ {Self}, NEW l \in Limits, Registry!Join(s, l)
      PROVE  limit' \in [Sessions -> Limits \cup {0}] /\ holders' = holders
  BY <1>3 DEF Registry!Join
<1>4. CASE \E s \in Sessions \ {Self} : Registry!Claim(s) \/ Registry!Release(s)
  BY <1>4 DEF Registry!Release
<1> QED  BY <1>1, <1>2, <1>3, <1>4 DEF RegistryMoves

\* Only a claim of this session, a release of it and its end touch its own access.
LEMMA OwnAccess ==
  ASSUME TypeOK, OneHolder, OtherSessions
  PROVE  Self \in holders' <=> Self \in holders
BY DEF OtherSessions, OneHolder, Registry!Join, Registry!Claim, Registry!Release, Registry!Leave

LEMMA EveryStepMoves == [Next]_vars => RegistryMoves
<1> SUFFICES ASSUME [Next]_vars PROVE RegistryMoves
  OBVIOUS
<1> USE DEF registry, accessVars, RegistryMoves
<1>1. CASE UNCHANGED vars
  BY <1>1 DEF vars
<1>2. ASSUME NEW r \in Requests, Ask(r) \/ Wait(r) PROVE UNCHANGED registry
  BY <1>2 DEF Ask, RequestEnable, RequestSwitch, RequestPublish,
     Wait, StartPodman, CheckRegistry, LoadTarget, Cleaned
<1>3. ASSUME NEW r \in Requests, Handle(r) PROVE RegistryMoves
  BY <1>3 DEF Handle, LockEnable, ClaimACR, Accept, UndoPodman, ReleaseClaim, SettleSwitch, Publish
<1>4. CASE Unpublish \/ PodmanLost \/ WatchPodman \/ EndContext \/ Close
  BY <1>4 DEF Unpublish, PodmanLost, WatchPodman, EndContext, Close, BeginClose, LockClose, FinishClose
<1>5. CASE Unregister \/ OtherSessions
  BY <1>5, ActivationAssumption DEF Unregister, OtherSessions
<1> QED  BY <1>1, <1>2, <1>3, <1>4, <1>5 DEF Next

\* A flag is only ever set, cleared or kept.
LEMMA FlagStep == Flags /\ [Next]_vars => Flags'
<1> SUFFICES ASSUME Flags, [Next]_vars PROVE Flags'
  OBVIOUS
<1> USE DEF Flags, accessVars, ownVars, shareVars
<1>1. CASE UNCHANGED vars
  BY <1>1, Zenon DEF vars
<1>2. ASSUME NEW r \in Requests, Ask(r) PROVE Flags'
  BY <1>2, Zenon DEF Ask, RequestEnable, RequestSwitch, RequestPublish
<1>3. ASSUME NEW r \in Requests, Handle(r) PROVE Flags'
  <2>1. CASE LockEnable(r) \/ SettleSwitch(r)
    BY <2>1, Zenon DEF LockEnable, SettleSwitch
  <2>2. CASE ClaimACR(r) \/ ReleaseClaim(r)
    BY <2>2, Zenon DEF ClaimACR, ReleaseClaim
  <2>3. CASE Accept(r) \/ UndoPodman(r)
    BY <2>3, Zenon DEF Accept, UndoPodman
  <2>4. CASE Publish(r)  BY <2>4, Zenon DEF Publish
  <2> QED  BY <1>3, <2>1, <2>2, <2>3, <2>4 DEF Handle
<1>4. ASSUME NEW r \in Requests, Wait(r) PROVE Flags'
  BY <1>4, Zenon DEF Wait, StartPodman, CheckRegistry, LoadTarget, Cleaned
<1>5. CASE Unpublish \/ PodmanLost \/ WatchPodman \/ EndContext
  BY <1>5, Zenon DEF Unpublish, PodmanLost, WatchPodman, EndContext
<1>6. CASE Close
  BY <1>6, Zenon DEF Close, BeginClose, LockClose, FinishClose
<1>7. CASE Unregister \/ OtherSessions
  BY <1>7, Zenon DEF Unregister, OtherSessions
<1> QED  BY <1>1, <1>2, <1>3, <1>4, <1>5, <1>6, <1>7 DEF Next

\* Only an unpublish request within the bound counts up, and only a goroutine that
\* waits stops waiting.
LEMMA ValueStep == TypeOK /\ OneHolder /\ [Next]_vars => Values'
<1> SUFFICES ASSUME TypeOK, OneHolder, [Next]_vars PROVE Values'
  OBVIOUS
<1>0. Values /\ (limit' \in [Sessions -> Limits \cup {0}] /\ holders' \subseteq Sessions)
  BY RegistryKept, EveryStepMoves, Types
<1> USE <1>0, ActivationAssumption DEF Values, Points, requestVars, ownVars, accessVars, shareVars, KeepRequest, Goto
<1>1. CASE UNCHANGED vars
  BY <1>1 DEF vars
<1>2. ASSUME NEW r \in Requests, Ask(r) PROVE Values'
  <2>1. CASE RequestEnable(r)  BY <2>1 DEF RequestEnable
  <2>2. CASE RequestSwitch(r)  BY <2>2 DEF RequestSwitch
  <2>3. CASE RequestPublish(r)  BY <2>3 DEF RequestPublish
  <2> QED  BY <1>2, <2>1, <2>2, <2>3 DEF Ask
<1>3. ASSUME NEW r \in Requests, Handle(r) PROVE Values'
  <2>1. CASE LockEnable(r)  BY <2>1 DEF LockEnable
  <2>2. CASE ClaimACR(r)  BY <2>2 DEF ClaimACR
  <2>3. CASE Accept(r)  BY <2>3 DEF Accept
  <2>4. CASE UndoPodman(r)  BY <2>4 DEF UndoPodman
  <2>5. CASE ReleaseClaim(r)  BY <2>5 DEF ReleaseClaim
  <2>6. CASE SettleSwitch(r)  BY <2>6 DEF SettleSwitch
  <2>7. CASE Publish(r)  BY <2>7 DEF Publish, ForgetPublish
  <2> QED  BY <1>3, <2>1, <2>2, <2>3, <2>4, <2>5, <2>6, <2>7 DEF Handle
<1>4. ASSUME NEW r \in Requests, Wait(r) PROVE Values'
  <2>1. CASE StartPodman(r)  BY <2>1 DEF StartPodman
  <2>2. CASE CheckRegistry(r)  BY <2>2 DEF CheckRegistry
  <2>3. CASE LoadTarget(r)  BY <2>3 DEF LoadTarget
  <2>4. CASE Cleaned(r)  BY <2>4 DEF Cleaned, ForgetPublish
  <2> QED  BY <1>4, <2>1, <2>2, <2>3, <2>4 DEF Wait
<1>5. CASE Unpublish  BY <1>5 DEF Unpublish
<1>6. CASE PodmanLost \/ WatchPodman \/ EndContext
  BY <1>6 DEF PodmanLost, WatchPodman, EndContext
<1>7. CASE Close
  BY <1>7 DEF Close, BeginClose, LockClose, FinishClose
<1>8. CASE Unregister \/ OtherSessions
  BY <1>8 DEF Unregister, OtherSessions
<1> QED  BY <1>1, <1>2, <1>3, <1>4, <1>5, <1>6, <1>7, <1>8 DEF Next

LEMMA TypeStep == TypeOK /\ OneHolder /\ [Next]_vars => TypeOK'
<1> SUFFICES ASSUME TypeOK, OneHolder, [Next]_vars PROVE TypeOK'
  OBVIOUS
<1>1. Flags'  BY FlagStep, Types
<1>2. Values'  BY ValueStep
<1> QED  BY <1>1, <1>2, Zenon DEF TypeOK, Flags, Values

\* The controller's own state changes only under a.mu, or by what the Podman
\* session and its watcher do by themselves.
LEMMA AccessStep ==
  IInv /\ [Next]_vars => (Exclusive /\ Attempts /\ Granted /\ Closed)'
<1> DEFINE Good == Exclusive /\ Attempts /\ Granted /\ Closed
<1> SUFFICES ASSUME IInv, [Next]_vars PROVE Good'
  OBVIOUS
<1> USE ActivationAssumption DEF IInv, TypeOK, Points, HoldsMu, Exclusive, Attempts, Granted, Closed,
    Running, OneWatcher, NothingOutlivesClose, requestVars, registry, ownVars, accessVars, shareVars, KeepRequest, Goto
<1>1. CASE UNCHANGED vars
  BY <1>1 DEF vars
<1>2. ASSUME NEW r \in Requests, Ask(r) PROVE Good'
  <2>1. CASE RequestEnable(r)  BY <2>1 DEF RequestEnable
  <2>2. CASE RequestSwitch(r)  BY <2>2 DEF RequestSwitch
  <2>3. CASE RequestPublish(r)  BY <2>3 DEF RequestPublish
  <2> QED  BY <1>2, <2>1, <2>2, <2>3 DEF Ask
<1>3. ASSUME NEW r \in Requests, Handle(r) PROVE Good'
  <2>1. CASE LockEnable(r)  BY <2>1 DEF LockEnable
  <2>2. CASE ClaimACR(r)
    <3>1. CASE Claim /\ Goto(r, "podman") /\ UNCHANGED mu
      <4>1. Self \in holders'  BY <3>1 DEF Claim, Registry!Claim
      <4> QED  BY <2>2, <3>1, <4>1 DEF ClaimACR
    <3>2. CASE Goto(r, "idle") /\ mu' = Nobody /\ UNCHANGED registry
      BY <2>2, <3>2 DEF ClaimACR
    <3> QED  BY <2>2, <3>1, <3>2 DEF ClaimACR
  <2>3. CASE Accept(r)  BY <2>3 DEF Accept
  <2>4. CASE UndoPodman(r)  BY <2>4 DEF UndoPodman
  <2>5. CASE ReleaseClaim(r)  BY <2>5 DEF ReleaseClaim
  <2>6. CASE SettleSwitch(r)  BY <2>6 DEF SettleSwitch
  <2>7. CASE Publish(r)  BY <2>7 DEF Publish, MayPublish
  <2> QED  BY <1>3, <2>1, <2>2, <2>3, <2>4, <2>5, <2>6, <2>7 DEF Handle
<1>4. ASSUME NEW r \in Requests, Wait(r) PROVE Good'
  <2>1. CASE StartPodman(r)  BY <2>1 DEF StartPodman
  <2>2. CASE CheckRegistry(r)  BY <2>2 DEF CheckRegistry
  <2>3. CASE LoadTarget(r)  BY <2>3 DEF LoadTarget
  <2>4. CASE Cleaned(r)  BY <2>4 DEF Cleaned
  <2> QED  BY <1>4, <2>1, <2>2, <2>3, <2>4 DEF Wait
<1>5. CASE Unpublish  BY <1>5 DEF Unpublish
<1>6. CASE PodmanLost  BY <1>6 DEF PodmanLost
<1>7. CASE WatchPodman  BY <1>7 DEF WatchPodman
<1>8. CASE EndContext  BY <1>8 DEF EndContext
<1>9. CASE Close
  <2>1. CASE BeginClose  BY <2>1 DEF BeginClose
  <2>2. CASE LockClose  BY <2>2 DEF LockClose
  <2>3. CASE FinishClose  BY <2>3 DEF FinishClose
  <2> QED  BY <1>9, <2>1, <2>2, <2>3 DEF Close
<1>10. CASE Unregister  BY <1>10 DEF Unregister
<1>11. CASE OtherSessions
  <2>1. Self \in holders' <=> Self \in holders
    BY <1>11, OwnAccess
  <2> QED  BY <1>11, <2>1 DEF OtherSessions
<1> QED  BY <1>1, <1>2, <1>3, <1>4, <1>5, <1>6, <1>7, <1>8, <1>9, <1>10, <1>11 DEF Next

\* What a publish remembers is what there was when it let go of a.mu: every
\* withdrawal of the meantime makes it differ.
LEMMA RememberedStep == TypeOK /\ Remembered /\ [Next]_vars => Remembered'
<1> SUFFICES ASSUME TypeOK, Remembered, [Next]_vars PROVE Remembered'
  OBVIOUS
<1> USE ActivationAssumption DEF TypeOK, Points, Remembered, requestVars, shareVars, KeepRequest, Goto
<1>1. CASE UNCHANGED vars
  BY <1>1 DEF vars
<1>2. ASSUME NEW r \in Requests, Ask(r) PROVE Remembered'
  <2>1. CASE RequestEnable(r)  BY <2>1 DEF RequestEnable
  <2>2. CASE RequestSwitch(r)  BY <2>2 DEF RequestSwitch
  <2>3. CASE RequestPublish(r)  BY <2>3 DEF RequestPublish
  <2> QED  BY <1>2, <2>1, <2>2, <2>3 DEF Ask
<1>3. ASSUME NEW r \in Requests, Handle(r) PROVE Remembered'
  <2>1. CASE LockEnable(r)  BY <2>1 DEF LockEnable
  <2>2. CASE ClaimACR(r)  BY <2>2 DEF ClaimACR
  <2>3. CASE Accept(r)  BY <2>3 DEF Accept
  <2>4. CASE UndoPodman(r) \/ ReleaseClaim(r)
    <3>1. /\ at[r] \in HoldsMu
          /\ UNCHANGED <<withdrawals, remembered, overtaken>>
          /\ \E point \in {"idle", "release"} : at' = [at EXCEPT ![r] = point]
      BY <2>4 DEF UndoPodman, ReleaseClaim, HoldsMu
    <3> QED  BY <3>1 DEF HoldsMu
  <2>5. CASE SettleSwitch(r)  BY <2>5 DEF SettleSwitch
  <2>6. CASE Publish(r)  BY <2>6 DEF Publish, ForgetPublish
  <2> QED  BY <1>3, <2>1, <2>2, <2>3, <2>4, <2>5, <2>6 DEF Handle
<1>4. ASSUME NEW r \in Requests, Wait(r) PROVE Remembered'
  <2>1. CASE StartPodman(r) \/ CheckRegistry(r)
    BY <2>1 DEF StartPodman, CheckRegistry
  <2>2. CASE LoadTarget(r)  BY <2>2 DEF LoadTarget
  <2>3. CASE Cleaned(r)  BY <2>3 DEF Cleaned, ForgetPublish
  <2> QED  BY <1>4, <2>1, <2>2, <2>3 DEF Wait
<1>5. CASE Unpublish  BY <1>5 DEF Unpublish
<1>6. CASE PodmanLost \/ WatchPodman \/ EndContext \/ Close
  BY <1>6 DEF PodmanLost, WatchPodman, EndContext, Close, BeginClose, LockClose, FinishClose
<1>7. CASE Unregister \/ OtherSessions
  BY <1>7 DEF Unregister, OtherSessions
<1> QED  BY <1>1, <1>2, <1>3, <1>4, <1>5, <1>6, <1>7 DEF Next

-----------------------------------------------------------------------------
\* The inductive invariant holds of every behaviour.
LEMMA Inductive == Spec => [](IInv /\ Remembered)
<1>1. Init => IInv /\ Remembered
  BY InitIInv
<1>2. IInv /\ Remembered /\ [Next]_vars => (IInv /\ Remembered)'
  BY TypeStep, AccessStep, RegistryKept, EveryStepMoves, RememberedStep DEF IInv
<1> QED  BY <1>1, <1>2, PTL DEF Spec

\* Every variable keeps its type (acrActivation, and the goroutines it starts).
THEOREM TypeCorrect == Spec => []TypeOK
<1>1. IInv => TypeOK
  BY DEF IInv
<1> QED  BY <1>1, Inductive, PTL

\* The enable handlers, however they overlap and fail, leave access that is
\* claimed and watched once: a.done is never closed twice.
THEOREM AccessIsWatched == Spec => []AccessWatched
<1>1. IInv => AccessWatched
  BY DEF IInv, OneHolder, Granted, Running, AccessWatched, AccessIsClaimed
<1> QED  BY <1>1, Inductive, PTL

\* close leaves nothing behind, whichever requests were in progress.
THEOREM CloseLeavesNothing == Spec => []NothingOutlivesClose
<1>1. IInv => NothingOutlivesClose
  BY DEF IInv, Closed, NothingOutlivesClose
<1> QED  BY <1>1, Inductive, PTL

\* An accepted switch is not replaced: settling one looks at a.pending again.
THEOREM SwitchStands == Spec => SwitchAcceptedOnce
<1>1. [Next]_vars => [pending # NoTarget => pending' = pending]_vars
  BY DEF Next, vars, Ask, Handle, Wait, Close, RequestEnable, RequestSwitch, RequestPublish,
         LockEnable, ClaimACR, Accept, UndoPodman, ReleaseClaim, SettleSwitch, Publish,
         StartPodman, CheckRegistry, LoadTarget, Cleaned, Unpublish, PodmanLost, WatchPodman,
         EndContext, BeginClose, LockClose, FinishClose, Unregister, OtherSessions
<1> QED  BY <1>1, PTL DEF Spec, SwitchAcceptedOnce

\* A publish that an unpublish overtook does not share the session.
THEOREM WithdrawalIsFinal == Spec => WithdrawalStands
<1> DEFINE Stands == \A r \in Requests : Publish(r) /\ published' /\ ~published =>
                       r \notin overtaken /\ pending = NoTarget
<1>1. TypeOK /\ Remembered => Stands
  <2> SUFFICES ASSUME TypeOK, Remembered,
                      NEW r \in Requests, Publish(r), published', ~published
               PROVE  r \notin overtaken /\ pending = NoTarget
    BY Zenon
  <2>1. MayPublish /\ withdrawals = remembered[r]
    BY Zenon DEF Publish
  <2>2. withdrawals \in Nat /\ ~(withdrawals < withdrawals)
    BY ActivationAssumption DEF TypeOK
  <2> QED  BY <2>1, <2>2, Zenon DEF MayPublish, Remembered
<1>2. IInv /\ Remembered /\ [Next]_vars => [Stands]_vars
  BY <1>1 DEF IInv
<1> QED  BY <1>2, Inductive, PTL DEF Spec, WithdrawalStands
=============================================================================
