----------------------------- MODULE Kubeconfig -----------------------------
(***************************************************************************)
(* The kubeconfig of a session (session/kubeconfig.go): Azure CLI writes   *)
(* one into the session's directory, kubelogin changes its login, kubectl  *)
(* prints it, and bivrost rewrites what it printed for its own port.  Each *)
(* tool may be a launcher with a worker process that goes on when the      *)
(* launcher is killed.  The first half is the rewriting, for the session   *)
(* and for a publication, the second the steps around it.                  *)
(*                                                                         *)
(* A document is what kubectl prints: .current the active context's name,  *)
(* .contexts, .clusters and .users sequences of [name, object], Malformed  *)
(* for what cannot be decoded; a cluster has .server, .ca, .insecure,      *)
(* .serverName and the rest that is dropped, a user .extra for any other   *)
(* credential and .exec.  The arguments of .exec behind its verb are       *)
(* [form, text]: "login" is -l or --login, with its mode in the next       *)
(* argument, "login=" is -l=MODE or --login=MODE, "attached" is -lMODE,    *)
(* "other" is another flag with its value in the next argument, "end" is   *)
(* --, and a "word" is whatever stands alone.                              *)
(***************************************************************************)
EXTENDS FiniteSets, Integers, Optional, Sequences

CONSTANT Malformed

VARIABLES kask,      \* the document kubectl will print, and what is in place
          kstage,    \* where prepareKubeconfig is
          cancelled, \* the session's context
          expired,   \* the running tool's own deadline has passed
          launcher,  \* the tool's process
          worker,    \* a process of the tool's is left
          kfile,     \* the file at the kubeconfig's path
          kresult    \* what prepareKubeconfig returned

kvars == <<kask, kstage, cancelled, expired, launcher, worker, kfile, kresult>>

Results == {"ready", "cancelled", "error", "unavailable"}
Processes == {"running", "succeeded", "failed", "killed"}

Texts == {"", "azurecli", "another"}
ExecArguments == [form : {"login", "login=", "attached", "other", "end", "word"}, text : Texts]

ASSUME KubeAssumption ==
  None # TRUE /\ None \notin Results \union Processes \union Texts \union {"kubelogin", "session"}

-----------------------------------------------------------------------------
(* transformKubeconfig.                                                    *)

Loopback == [https |-> TRUE, host |-> "127.0.0.1", port |-> "session"]
Invalid == [ok |-> FALSE]

\* The one entry of that name, with an object that can be decoded.
namedKubeObject(section, name) ==
  LET here == IF section = Malformed THEN {}
              ELSE {i \in DOMAIN section : section[i] # Malformed /\ section[i].name = name}
  IN  IF section = Malformed \/ (\E i \in DOMAIN section : section[i] = Malformed)
         \/ Cardinality(here) # 1 \/ \E i \in here : section[i].object = Malformed
      THEN Invalid
      ELSE [ok |-> TRUE, object |-> section[CHOOSE i \in here : TRUE].object]

\* The active context's own object, with the cluster and the user it names.
Active(document) ==
  LET active == namedKubeObject(document.contexts, document.current)
  IN  IF ~active.ok THEN Invalid ELSE
  LET cluster == namedKubeObject(document.clusters, active.object.cluster)
      user == namedKubeObject(document.users, active.object.user)
  IN  IF ~cluster.ok \/ ~user.ok THEN Invalid
      ELSE [ok |-> TRUE, names |-> active.object, cluster |-> cluster.object, user |-> user.object]

singleNamedSection(name, object) == <<[name |-> name, object |-> object]>>

\* What the option at i gives as the mode; a flag taken for a mode is another one.
ModeAt(args, i) ==
  IF args[i].form # "login" THEN args[i].text
  ELSE IF args[i + 1].form = "word" THEN args[i + 1].text ELSE "another"

\* What a reader makes of an argument, given what it makes of the rest behind it and
\* behind the next, which it goes past when it takes that for the value of a flag.
ReadAt(args, i, reader, next, overnext) ==
  LET takes == args[i].form \in reader.takes
      rest == IF takes THEN overnext ELSE next
  IN  IF args[i].form \in reader.ends THEN None
      ELSE IF takes /\ i = Len(args) THEN reader.error
      ELSE IF args[i].form \in reader.logins THEN reader.join[ModeAt(args, i)][rest] ELSE rest

\* From each argument on, the mode that it comes to, None without one.
ReadMode(args, reader) ==
  LET from[i \in 1 .. Len(args) + 2] ==
        IF i > Len(args) THEN None ELSE ReadAt(args, i, reader, from[i + 1], from[i + 2])
  IN  from

\* Mistake: a second mode is not noticed.
FirstMode == [mode \in Texts |-> [rest \in Texts \union {None} |-> IF mode = "" THEN rest ELSE mode]]

\* An empty mode is none, and two are an error.
OneMode ==
  [mode \in Texts |-> [rest \in Texts \union {None} |->
     IF mode = "" THEN rest ELSE IF rest = None THEN mode ELSE "another"]]

LastMode == [mode \in Texts |-> [rest \in Texts \union {None} |-> IF rest = None THEN mode ELSE rest]]

\* The loop of validateAzureCLIExec.
AsBivrost ==
  [takes |-> {"login"}, logins |-> {"login", "login="}, ends |-> {}, error |-> "another", join |-> OneMode]

\* kubelogin (external): "" stands for its refusal.
AsKubelogin ==
  [takes |-> {"login", "other"}, logins |-> {"login", "login=", "attached"}, ends |-> {"end"},
   error |-> "", join |-> LastMode]

\* The user signs in with kubelogin by the Azure CLI's login and in no other way.
validateAzureCLIExec(user) ==
  /\ ~user.extra
  /\ user.exec # Malformed
  /\ user.exec.command = "kubelogin" /\ user.exec.verb = "get-token" /\ ~user.exec.env
  /\ ReadMode(user.exec.args, AsBivrost)[1] = "azurecli"

\* An HTTPS address of a remote DNS name.
kubeAPITarget(server) ==
  IF server = Malformed \/ ~server.https \/ server.host = "ip" THEN Invalid
  ELSE [ok |-> TRUE, host |-> server.host, port |-> IF server.port = None THEN "443" ELSE server.port]

\* Where TLS verification of the remote name over the session's port comes from.
RewrittenCluster(cluster, host) ==
  [cluster EXCEPT !.server = Loopback, !.insecure = None, !.proxy = FALSE, !.caFile = FALSE,
                  !.serverName = IF @ = None THEN host ELSE @]

transformKubeconfig(document) ==
  IF document = Malformed \/ document.current = None THEN Invalid ELSE
  LET active == Active(document)
  IN  IF ~active.ok \/ None \in {active.names.cluster, active.names.user}
         \/ ~validateAzureCLIExec(active.user) THEN Invalid ELSE
  LET target == kubeAPITarget(active.cluster.server)
      cluster == RewrittenCluster(active.cluster, target.host)
  IN  IF ~target.ok \/ active.cluster.ca = None \/ active.cluster.insecure \notin {None, FALSE}
         \/ active.cluster.serverName \in {"ip", Malformed} THEN Invalid
      ELSE [ok |-> TRUE, host |-> target.host, port |-> target.port,
            document |-> [current |-> document.current,
                          contexts |-> singleNamedSection(document.current, active.names),
                          clusters |-> singleNamedSection(active.names.cluster, cluster),
                          users |-> singleNamedSection(active.names.user, active.user)]]

-----------------------------------------------------------------------------
(* publicationKubeconfig: the session's file, which the session's shell    *)
(* can write too, for programs outside it.  label, gateway and kubelogin   *)
(* are the publication's name, its address and where kubelogin was found.  *)

\* Verified by name over the session's port, with nothing taken from elsewhere.
Publishable(cluster) ==
  /\ cluster.server # Malformed /\ cluster.server.https
  /\ cluster.server.host = "127.0.0.1" /\ cluster.server.port # None
  /\ cluster.serverName \notin {None, "ip", Malformed}
  /\ cluster.ca # None /\ ~cluster.caFile /\ cluster.insecure \in {None, FALSE}

publicationKubeconfig(document, label, gateway, kubelogin) ==
  LET active == Active(document)
  IN  IF document = Malformed \/ kubelogin = None \/ ~active.ok THEN Invalid ELSE
      IF ~validateAzureCLIExec(active.user) \/ ~Publishable(active.cluster) THEN Invalid
      ELSE [ok |-> TRUE, upstream |-> active.cluster.server,
            cluster |-> [active.cluster EXCEPT !.server = gateway, !.proxy = TRUE, !.insecure = None],
            user |-> [active.user EXCEPT !.exec.command = kubelogin, !.exec.env = TRUE],
            name |-> label]

-----------------------------------------------------------------------------
(* What kubectl prints.                                                    *)

Objects(section) ==
  IF section = Malformed THEN {}
  ELSE {section[i].object : i \in {j \in DOMAIN section : section[j] # Malformed}} \ {Malformed}

Indexed(section) == section # Malformed => Len(section) \in Nat /\ DOMAIN section = 1 .. Len(section)

IsCluster(cluster) ==
  /\ {"server", "ca", "insecure", "serverName", "proxy", "caFile"} \subseteq DOMAIN cluster
  /\ cluster.server # Malformed => cluster.server.host \notin {None, Malformed}

IsUser(user) ==
  /\ {"extra", "exec"} \subseteq DOMAIN user
  /\ user.exec # Malformed =>
       {"command", "verb", "env", "args"} \subseteq DOMAIN user.exec /\ user.exec.args \in Seq(ExecArguments)

\* Nothing that the rewriting makes of it counts as what cannot be decoded.
Encodes(document) ==
  LET made == transformKubeconfig(document).document
  IN  transformKubeconfig(document).ok =>
        /\ made # Malformed /\ made.contexts # Malformed /\ made.clusters # Malformed /\ made.users # Malformed
        /\ made.contexts[1] # Malformed /\ made.clusters[1] # Malformed /\ made.users[1] # Malformed
        /\ made.clusters[1].object # Malformed /\ Loopback # Malformed

IsDocument(document) == document # Malformed =>
  /\ Indexed(document.contexts) /\ Indexed(document.clusters) /\ Indexed(document.users)
  /\ \A cluster \in Objects(document.clusters) : IsCluster(cluster)
  /\ \A user \in Objects(document.users) : IsUser(user)
  /\ Encodes(document)

IsKubeAsk(ask) == ask.foreign \in BOOLEAN /\ IsDocument(ask.document)

-----------------------------------------------------------------------------
(* prepareKubeconfig.                                                      *)

Tools == {"credentials", "convert", "view"}

KubeInit(asks) ==
  /\ kask \in asks
  /\ kstage = "check" /\ kresult = None
  /\ cancelled = FALSE /\ expired = FALSE
  /\ launcher = None /\ worker = FALSE
  /\ kfile = IF kask.foreign THEN "foreign" ELSE "absent"

\* The file is removed on every error once its path was found free; that it could
\* not be removed is ignored.
Return(result) ==
  /\ kstage' = "returned" /\ kresult' = result
  /\ kfile' \in CASE result = "ready" -> {"ready"}
                  [] result # "ready" /\ (kstage = "check" \/ kfile = "absent") -> {kfile}
                  [] OTHER -> {"absent", "left"}

\* Before the first tool runs.
Check ==
  /\ kstage = "check"
  /\ \/ /\ ~cancelled /\ kask.tools = "all" /\ ~kask.foreign
        /\ kstage' = "credentials" /\ UNCHANGED <<kresult, kfile>>
     \/ cancelled /\ Return("cancelled")
     \/ ~cancelled /\ kask.tools = "no az" /\ Return("error")
     \/ ~cancelled /\ kask.tools = "no kubelogin" /\ Return("unavailable")
     \/ ~cancelled /\ kask.tools = "all" /\ kask.foreign /\ Return("error")
  /\ UNCHANGED <<kask, cancelled, expired, launcher, worker>>

\* The session's context comes first, then the tool's own deadline; only what
\* Azure CLI could not give lets the session go on without Kubernetes.
Failure == CASE cancelled -> "cancelled"
             [] ~cancelled /\ kstage = "credentials" -> "unavailable"
             [] OTHER -> "error"

StartTool ==
  /\ kstage \in Tools /\ launcher = None
  /\ \/ /\ ~cancelled
        /\ launcher' = "running" /\ worker' = TRUE /\ expired' = FALSE
        /\ UNCHANGED <<kstage, kresult, kfile>>
     \/ cancelled /\ Return(Failure) /\ UNCHANGED <<launcher, worker, expired>>
  /\ UNCHANGED <<kask, cancelled>>

\* Azure CLI and kubelogin (external): they write while they run, killed or not.
WorkerWrites ==
  /\ worker /\ kstage # "view"
  /\ kfile' = IF kstage = "convert" THEN "converted" ELSE "raw"
  /\ UNCHANGED <<kask, kstage, cancelled, expired, launcher, worker, kresult>>

WorkerEnds ==
  /\ worker /\ worker' = FALSE
  /\ IF launcher = "running" THEN launcher' \in {"succeeded", "failed"} ELSE UNCHANGED launcher
  /\ UNCHANGED <<kask, kstage, cancelled, expired, kfile, kresult>>

Expire ==
  /\ launcher = "running" /\ ~expired
  /\ expired' = TRUE
  /\ UNCHANGED <<kask, kstage, cancelled, launcher, worker, kfile, kresult>>

\* The context of the command kills the launcher, and no child of it.
KillTool ==
  /\ launcher = "running" /\ (cancelled \/ expired)
  /\ launcher' = "killed" /\ worker' \in {worker, FALSE}
  /\ UNCHANGED <<kask, kstage, cancelled, expired, kfile, kresult>>

Succeeded ==
  \/ /\ kstage \in {"credentials", "convert"} /\ kfile \in {"raw", "converted"}
     /\ kstage' = IF kstage = "credentials" THEN "convert" ELSE "view"
     /\ UNCHANGED <<kfile, kresult>>
  \/ kstage \in {"credentials", "convert"} /\ kfile = "absent" /\ Return("error")
  \/ kstage = "view" /\ transformKubeconfig(kask.document).ok /\ Return("ready")
  \/ kstage = "view" /\ Return("error")     \* also when the file cannot be written

\* What the tool's end leads to.
JudgeTool ==
  /\ launcher \in {"succeeded", "failed", "killed"}
  /\ IF launcher = "succeeded" THEN Succeeded ELSE Return(Failure)
  /\ launcher' = None
  /\ UNCHANGED <<kask, cancelled, expired, worker>>

\* Mistake: the wait ends with the launcher.
ToolReturnsEarly == kstage \in Tools /\ JudgeTool

\* The tool's output is read from a pipe: Run ends once nobody can write to it.
ToolReturns == kstage \in Tools /\ ~worker /\ JudgeTool

Cancel ==
  /\ ~cancelled /\ kstage # "returned"
  /\ cancelled' = TRUE
  /\ UNCHANGED <<kask, kstage, expired, launcher, worker, kfile, kresult>>

KubeNext == \/ Check \/ StartTool \/ WorkerWrites \/ WorkerEnds \/ Expire \/ KillTool
            \/ ToolReturns \/ Cancel

-----------------------------------------------------------------------------
(* Properties.                                                             *)

\* What prepareKubeconfig left at the path is what it returned, also later: the
\* rewritten file, or nothing that a tool wrote after it, whichever was killed and
\* lives on; a file of its own stays only if it could not be removed.
KubeFileAsReported ==
  kstage = "returned" =>
    kfile \in CASE kresult = "ready" -> {"ready"}
                [] kresult # "ready" /\ kask.foreign -> {"foreign"}
                [] OTHER -> {"absent", "left"}

\* Arguments as Azure CLI and kubelogin convert write them: no -lMODE, no --, and no
\* login option in the place of another flag's value.
Plain(args) ==
  \A i \in DOMAIN args :
    /\ args[i].form \notin {"attached", "end"}
    /\ i < Len(args) /\ args[i].form = "other" => args[i + 1].form \notin {"login", "login="}

\* What stands between the client and another server or another login: the
\* cluster's authority for the name it had, and, of arguments as the tools write
\* them, the Azure CLI's login in kubelogin's own reading, or its refusal.
SameTrust(cluster, user, original, login) ==
  /\ cluster.ca = original.ca /\ cluster.ca # None /\ ~cluster.caFile
  /\ original.insecure # TRUE /\ cluster.insecure = None
  /\ cluster.serverName \in {original.serverName, original.server.host} \ {None, "ip"}
  /\ user.extra = login.extra /\ ~user.extra /\ user.exec.args = login.exec.args
  /\ Plain(user.exec.args) => ReadMode(user.exec.args, AsKubelogin)[1] \in {"azurecli", ""}

\* The session's file as the session's shell may leave it.
Edited(document, skip, name, ca, caFile, extra) ==
  [document EXCEPT !.clusters[1].object = [@ EXCEPT !.insecure = skip, !.serverName = name, !.ca = ca, !.caFile = caFile],
                   !.users[1].object = [@ EXCEPT !.extra = extra]]

Publication(file) == publicationKubeconfig(file, "label", "gateway", "kubelogin")

Verified(out) ==
  /\ out.cluster.ca # None /\ ~out.cluster.caFile /\ out.cluster.insecure = None
  /\ out.cluster.serverName \notin {None, "ip"} /\ ~out.user.extra

Named(section, name) == {i \in DOMAIN section : section[i].name = name}

\* A kubeconfig that is used has the active context's cluster and user and no
\* other; it is verified against the cluster's own authority for the name it had,
\* over the session's port and nothing else, with the Azure CLI's login alone.
\* It can be published, which changes none of that and leads back to that port;
\* of a file changed since, nothing without verification or with another login is.
KeepsTrust(document) ==
  LET prepared == transformKubeconfig(document)
      shared == Publication(prepared.document)
  IN  \E c \in Named(document.contexts, document.current) :
      \E k \in Named(document.clusters, document.contexts[c].object.cluster) :
      \E u \in Named(document.users, document.contexts[c].object.user) :
        LET original == document.clusters[k].object
            login == document.users[u].object
            cluster == prepared.document.clusters[1].object
            user == prepared.document.users[1].object
        IN  /\ Cardinality(Named(document.clusters, document.clusters[k].name)) = 1
            /\ Cardinality(Named(document.users, document.users[u].name)) = 1
            /\ prepared.host = original.server.host /\ prepared.host # "ip" /\ original.server.https
            /\ Len(prepared.document.clusters) = 1 /\ Len(prepared.document.users) = 1
            /\ SameTrust(cluster, user, original, login)
            /\ cluster.server = Loopback /\ ~cluster.proxy /\ user = login
            /\ shared.ok /\ SameTrust(shared.cluster, shared.user, original, login)
            /\ shared.upstream = Loopback /\ shared.cluster.server = "gateway" /\ shared.cluster.proxy
            /\ \A skip \in {None, TRUE, FALSE}, name \in {None, "ip", "name"}, ca \in {None, "other"},
                  caFile \in BOOLEAN, extra \in BOOLEAN :
                 LET out == Publication(Edited(prepared.document, skip, name, ca, caFile, extra))
                 IN  out.ok => Verified(out)

KubeconfigKeepsTrust == kresult = "ready" => KeepsTrust(kask.document)
=============================================================================
