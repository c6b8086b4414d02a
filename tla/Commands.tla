------------------------------ MODULE Commands ------------------------------
(***************************************************************************)
(* What one start of the program does (cmd/bivrost/main.go,                *)
(* session/commands.go Run): it answers a page that Azure CLI wants        *)
(* opened, it stands in for podman in a session's shell, or it is a        *)
(* bivrost command.  Of the commands, this module has those outside the    *)
(* session's own modules: the environments, the kubeconfig of a session,   *)
(* the standalone registry proxy, and the log of whatever is run with      *)
(* --debug.  The parts share no state, so an instance looks at one of them *)
(* at a time: job says which.                                              *)
(***************************************************************************)
EXTENDS AcrProxy, AuthBrowsers, DiagnosticLog, Environments, Kubeconfig

CONSTANTS SignIns,       \* the asks of AuthBrowsers
          ArgumentLists, \* of PodmanWrapper
          KubeAsks,      \* of Kubeconfig
          IdleKubeAsk    \* the one for the other jobs

Wrapper == INSTANCE PodmanWrapper

ASSUME AsksAssumption ==
  /\ \A ask \in SignIns : IsSignIn(ask)
  /\ \A args \in ArgumentLists : args \in Seq(Wrapper!Arguments)
  /\ \A ask \in KubeAsks \union {IdleKubeAsk} : IsKubeAsk(ask)

VARIABLES job,      \* what the program was started for
          answer    \* what it did, for the jobs that are done in one step

vars == <<job, answer, logVars, kvars, acrVars>>

Jobs ==
  [kind : {"sign-in"}, ask : SignIns] \union [kind : {"podman"}, ask : ArgumentLists]
    \union [kind : {"list"}, ask : Files] \union [kind : {"debug", "kubeconfig", "acr"}, ask : {None}]

Directories == IF job.kind = "debug" THEN [Slots -> {None, Old}] ELSE {[n \in Slots |-> None]}

Init ==
  /\ job \in Jobs /\ answer = None
  /\ LogInit(Directories)
  /\ KubeInit(IF job.kind = "kubeconfig" THEN KubeAsks ELSE {IdleKubeAsk})
  /\ IF job.kind = "acr" THEN AcrInit(Configs, Connections) ELSE AcrInit({"another"}, {None})

\* main and Run: which part the arguments and the environment call for.
Answer ==
  /\ answer = None
  /\ \/ job.kind = "sign-in" /\ Starts(job.ask) /\ answer' = SignIn(job.ask)
     \/ job.kind = "podman" /\ answer' = Wrapper!podmanWrapperArgs(job.ask)
     \/ job.kind = "list" /\ answer' = ListEnvironments(job.ask)
  /\ UNCHANGED <<job, logVars, kvars, acrVars>>

Next ==
  \/ Answer
  \/ job.kind = "debug" /\ LogNext /\ UNCHANGED <<job, answer, kvars, acrVars>>
  \/ job.kind = "kubeconfig" /\ KubeNext /\ UNCHANGED <<job, answer, logVars, acrVars>>
  \/ job.kind = "acr" /\ AcrNext /\ UNCHANGED <<job, answer, logVars, kvars>>

Spec == Init /\ [][Next]_vars

-----------------------------------------------------------------------------
(* Properties; those of the log, the kubeconfig and the proxy are there.   *)

\* Podman's builds go without the session's proxy, unless the user says so, and
\* no other command is changed, whatever the flags the wrapper does not know.
WrapperYields == job.kind = "podman" /\ answer # None => Wrapper!Yields(job.ask, answer)

\* A sign-in page is opened once, by the right program, or not at all.
SignInRouted == job.kind = "sign-in" /\ answer # None => RoutedOnce(job.ask, answer)

\* Only bivrost login and the SSH certificate open a page, and not the certificate
\* when the user has switched that off.
OthersNeverOpen ==
  job.kind = "sign-in" /\ answer # None /\ ~Interactive(job.ask) => answer.opened = None

\* A sign-in to an organization opens in that organization's browser.
OrganizationsApart == job.kind = "sign-in" /\ answer # None => OwnOrganisation(job.ask, answer)

\* What bivrost list shows is what the other commands load and count.
ListIsLoadable == job.kind = "list" /\ answer # None => ListAgrees(job.ask, answer)
=============================================================================
