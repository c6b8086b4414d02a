# Bivrost: specifications

Bivrost opens a temporary session to a private platform: an Azure Bastion tunnel, an SSH
SOCKS forward through it, a local HTTPS proxy that sends private names through the forward
and everything else directly, and a shell or one command that uses them. Several sessions of
one user may run at once. There is no daemon: processes of the user meet in files, locks and
loopback ports.

This directory models what of that is hard to get right: processes that share a directory,
goroutines that share a lock or a flag, children and tunnels that end by themselves, requests
that come late, and cleanup that must hold whatever failed. Every definition is written from
the source; `PROJECT.json` names the lines of each one ("map"), the runs, the deliberate
mistakes each property is tried against ("mutants") and the hazards the properties are for.

## Inventory

Paths are relative to `internal/` of the repository.

### Session registry — `session/active_sessions.go`, `session/filelock_*.go`
State: `registry.lock` (the guard), one `<id>.json` record per session with its limit, ports
and registry-access claim, and the lock a session keeps on its record. A record nobody locks
is stale. Operations: register, set ports, claim and release ACR access, close, list, status.
Interacts with every other bivrost process through the files only. Hard: processes die
anywhere, file operations fail, waiting for the guard times out, `close` goes on without it.
Correct when: active records are never removed (`RecordKept`), limits hold
(`WithinEveryLimit`, `AdmittedWithinOwnLimit`), one session has ACR access
(`OneHolder`, part of `ImplementsAdmission`), nobody is stuck (`CallsReturn`), dead sessions
free their place (`StaleReclaimed`).

### Session controller — `session/activation.go`, `session/switch.go`
State: `a.mu` and what it guards (Podman session, claim, pending switch, publication, counter
of withdrawals), the context. Operations: `/enable`, `/switch`, `/publish`, `/unpublish`, `close`, and
the goroutine that watches the Podman session. Called by the shell over loopback HTTP, several
requests at a time, and closed by the platform session. Hard: `/enable` keeps the lock for
minutes, `/switch` and `/publish` let go of it and look again. Correct when: access is covered
by a claim, one watcher, an accepted switch stands, a withdrawal is not undone, nothing
outlives `close`, and `close` returns.

### Publications — `session/publication.go`
State: a gateway with a token on a loopback port, a descriptor file that names both, the
directory shared by all processes. Operations: publish, proxy a CONNECT, close, clean. Hard:
cleaning takes no lock and probes for seconds, ports are handed out again, processes die.
Correct when: a live descriptor is never removed by a cleaner that can dial it, a withdrawn session
carries nothing, a client never reaches another session's gateway, a crash leaves nothing for good.

### Platform session — `session/platform.go`, `session/run.go`, `session/connect.go`
State: what setup has opened, the deferred closes, the child, the flags of the two signal
goroutines, the accepted switch, the sharing opt-in. Hard: some fifteen setup steps may each
fail, signals arrive at any of them, two goroutines decide together who ends a command.
Correct when: every exit closes everything in an order the child survives, a stop request is
heeded and does not cut a running command off, the opt-in survives switches.

### Bastion tunnel, SSH certificate, SSH forward — `session/session.go`, `ssh_certificate.go`, `ssh.go`, `process*.go`, `authbrowser/`
State: the wait for Azure CLI with its two deadlines and the browser-request file, two child
processes, two loopback ports that are looked up or reserved first and bound later; for
`bivrost ssh` an interactive shell over the same tunnel. Hard: the sign-in page races the
deadline and the exit of Azure CLI; other programs take ports; the tunnel goes while a shell runs.

### Session proxy — `session/proxy.go`, `proxy/proxy.go`
State: the current router, each router's `closed` flag and connections, a goroutine and two
copies per CONNECT. Operations: CONNECT, `replaceRoutes`, `close`. Hard: a request reads its
router, dials for up to 15 s and joins it when it may long be closed. Correct when: no tunnel
lives through a closed router or against the routes in force, and nothing leaks or hangs.

### Podman session — `session/podman_session.go`
State: a supervisor and a `podman system service` in the guest, a heartbeat over ssh. Hard: a
lease across two machines, hosts that sleep or crash, silent connections. Correct when: the
lease ends only what is lost, and everything lost is removed, the service before its directory.

### Heimdal metadata — `azure/heimdal*.go`, `heimdal/metadata.go`, `session/heimdal*.go`
State: immutable revisions and one pointer in a blob container. Operations: `heimdal init`
(create-only uploads of a revision, then the pointer), reading at session start. Hard: uploads
that are repeated or land after their sender gave up. Correct when: a pointer always resolves,
a published revision stays the published one, sessions agree.

### Program start and commands — `cmd/bivrost/main.go`, `session/commands.go`
State: none of its own. A start of the program answers a sign-in page, stands in for podman in
a session's shell, or runs a command; the following parts are commands outside a session's own
modules, or serve them.

### Authentication browser — `authbrowser/authbrowser.go`, `config/authentication_browsers.go`, `azure/command.go`
State: the environment of an Azure CLI call (`BROWSER`'s entries and bivrost's mode), the user's
rules. Hard: the environment is set in one place and may be set again in another, is inherited by
the opened browser, and a page may come back. Correct when: a page opens once, in the browser the
rules or the user name, an organization's pages stay in its browser, and commands that must not
sign in open none.

### Diagnostic log — `diagnostics/diagnostics.go`
State: ten file names shared by processes, a size, a sticky failure, a mutex. Hard: goroutines
write until and beyond the close, files are removed by the user while open. Correct when: a file
is a gapless prefix of what its own command wrote, and success means that it is complete.

### Kubernetes access — `session/kubeconfig.go`, `publicationKubeconfig` of `session/publication.go`
State: the session's kubeconfig file. Hard: three tools with deadlines, whose worker processes
survive a kill and go on writing; a document with many ways to be unusable, rewritten once for the
session and once more for a publication, with the user's shell able to edit it in between. Correct
when: the file is there exactly when the session says so, and both documents trust what Azure's did.

### Standalone registry proxy, acr login and doctor — `session/proxy.go`, `podman.go`, `podman_login.go`, `registry.go`
State: one fixed port on the host and in each guest, an ssh that forwards one to the other, the
answer of `/health`. Hard: several starts, an ssh that dies, a login that asks several times.
Correct when: a guest's forward never leads to another start's routes, and a login takes only a
proxy whose forward ssh has confirmed.

### Podman wrapper, environments — `podman/wrapper.go`, `config/catalogue.go`
Pure: which arguments get the session's proxy; which profiles a directory holds.

### Not modelled
- Doctor, status and probes: they read and report.
- Configuration values (`config/settings.go`, `profile.go`, `heimdal.go`), Azure command wrappers
  (`azure/`), the command line (`cli/`) and the prompt: decoding, validation and wording,
  sequential and without lasting state; what other modules need of a profile is a constant there.
- Placing and removing the wrapper's files; the environment a Podman session hands out.
- Windows variants and packaging: the modelled program is the Unix build.

How the parts meet: the platform session registers, starts the proxy, the tunnel and SSH,
fetches Heimdal routes through the proxy and replaces its routes, starts the controller, then
the child; the controller claims access in the registry, starts Podman sessions and publishes;
closing runs in reverse. Each module takes the parts it calls as atomic calls that may fail,
and those are modelled in detail by the module of their own.

## Modules

| module | models | state and actions |
|---|---|---|
| `SessionRegistry` | the registry | `guard`, `files`, `locked`, `disk` are the file system, `mem` is `activeSession.record`, `pc`/`op` the call in progress. One action per point between two system calls another process can see: `AcquireGuard`, `ScanEntry` per directory entry, `CreateRecord` and `LockRecord`, `Truncate` and `Write`, `UnlockRecord` and `UnlinkRecord`, `Crash` anywhere. |
| `SessionAdmission` | ADR 0018's promise: sessions come, claim, release and leave, one step each | the abstract specification of `SessionRegistry`, and the registry that `Activation` claims access in |
| `Activation` | the controller | `at[r]` is where a request is between points where it lets go of `a.mu`; the watcher and `close` are actions of their own. The claim is a step of `SessionAdmission`, which other sessions use at the same time (`OtherSessions`) |
| `Publications` | gateways, descriptors, cleaners, clients | `stage` follows `publish` and `close` of a publication, `owner` who listens on a port, `listed`/`gone` what a cleaner has read and found; the probe is `publicationOwnerGone` with its two ways to a wrong or no answer, a dial that fails in the cleaner itself (`FailToDial`, for the cleaners in `Short`; `undialed` remembers whom it met) and a timeout |
| `PublicationService` | ADR 0012's promise: a session is published, found, connected to and withdrawn, one step each, and that whoever tidies up may be unable to ask (`CannotAsk`) | the abstract specification of `Publications`: published is `stage = "open"`, advertised is a `.json` descriptor, a tunnel is a pair of connections that `ServeHTTP` recorded |
| `PlatformSession` | `platformSession`, the switch loop, the signal goroutines | `After` is the order of setup, `deferred` the stack of deferred closes, `open` what is really open; each read and write of the shared flags is a step |
| `SshRoute` | `openBastion`, `prepareSSHCertificate`, the freed port and OpenSSH's bind, the shell of `bivrost ssh` | the cases of the waiting `select` are separate actions; ports have one listener |
| `SessionProxy` | CONNECT requests, routers, `replaceRoutes`, `close` | `at[c]` follows `ServeHTTP`; `via[c]` is the router it read, `route[c]` how it went out |
| `PodmanSession` | host, ssh, supervisor and service | time is counted in heartbeats |
| `HeimdalMetadata` | publishers, the blob service, readers | requests are `sent` and then handled, lost or sent again by the environment |
| `Commands` | `main` and `Run`: which part a start of the program is | `job` is what it was started for, `answer` what a one-step job did; extends the five modules below |
| `AcrProxy` | starts of the standalone proxy, the ssh into a machine, one login | `port` and `forward` say who listens where, `servers[p].stage` follows `serveProxy` with the three cases of its `select`, `ServeFails` is a listener that is given up, `login.stage` `acrLogin` |
| `DiagnosticLog` | logs of several commands | `TakeName` is `Start`, one name at a time; `LogWrite` is what the mutex covers; `bytes` is `log.bytes`, which the size of the file has to match |
| `Kubeconfig` | `prepareKubeconfig`, the rewriting of the document and what a publication makes of it | the rewritings are operators, the tools and their workers are actions; `IsDocument` says what kubectl may print. The arguments of kubelogin are read twice by `ReadMode`, as `validateAzureCLIExec` does (`AsBivrost`) and as kubelogin does (`AsKubelogin`, external) |
| `AuthBrowsers` | rules, environment and handling of a sign-in page | operators over an ask: `Route` and `AzureEnv` make the environment, `Handle` is `authbrowser.Run`, `SignIn` the way of one page; the promise (`RoutedOnce`, `OwnOrganisation`) is stated apart from the code's way there |
| `PodmanWrapper`, `Environments` | rewriting of arguments, the catalogue | operators, with their promise (`Yields`, `ListAgrees`); what the wrapper and Podman each make of a list of arguments are recursive functions (`FirstWord`, `ProxyOption`) |
| `Optional` | the absent value | |
| `*Proofs` | theorems of `SessionRegistry`, `Activation`, `PlatformSession` with `SshRoute`, `Publications`, `SessionProxy`, `PodmanSession`, `HeimdalMetadata`, `Commands` with its parts | |

The parts that `Commands` joins share no state; joined, they make one run whose behaviours are
those of the part that was started. `MCConnect` joins `SshRoute` and `HeimdalMetadata` in the same
way: a session reads its metadata through the forward, and a forward that goes away is one of the
failures of a reader.

`MC*` modules give constants values for TLC and define symmetry. In modules with several
mistakes a mutant uses, these stand before the definition they distort and are marked as such;
`Next` never uses them.

The abstraction is the same throughout: control is kept (order of effects, guards, early
returns, error paths, deferred calls), data is cut to what properties tell apart. Identifiers,
tokens and digests are the things they identify; a port is a member of a small set; contents of
files are the fields other processes act on. A call to Azure CLI, ssh, Podman or the file
system is an action that may fail.

## Runs

| run | question | bounds, and why they are enough | outcome |
|---|---|---|---|
| `registry_safety` | Do limits and single access hold, and does the registry implement the admission it promises, with processes dying anywhere and removals failing? | 3 sessions, limits 1..3: the third session acts on what the first did between two steps of the second | holds |
| `registry_faults` | With reads, writes and removals failing: are active records kept, is nobody admitted over their own limit, do calls return, are stale records removed? | 2 sessions (the two safety properties are proved for any number; waiting and reclaiming involve one owner and one scanner) | holds |
| `registry_limit_hidden` | Do limits hold when a write fails? | as `registry_safety`, faults {write} | **violated**, see findings |
| `activation` | The controller's locks, watchers, switches, publications and close; is access its own alone while other sessions claim it? | 2 requests in progress, 2 targets, 1 withdrawal: each hazard is one request overtaken by one other and by close; 1 other session, since one claim is all that can be in the way | holds |
| `publications` | Do gateways, descriptors and cleaners implement the publication service they promise, with ports reused and processes dying, and dials that fail in the cleaner; is every dead descriptor removed? | 2 publications, each of which may get the port the other had; 2 ports, so that both may be open, and one of them met by a failing dial; 1 cleaner that reads, probes and removes while both come and go (the safety part is proved for any number of each); 1 client | holds |
| `publications_dial` | Does a cleaner ever remove the descriptor of a session that is published? | as `publications` | **violated**, see findings |
| `platform` | Setup, run, switch and cleanup of `connect` and `run` | 2 sessions: a switch, and its successor in full | holds |
| `proxy` | Requests for every kind of target, in every phase, against `replaceRoutes` and `close`: does anything live through a closed router, go the wrong way, leak or hang? | 2 requests; 2 routers, since `replaceRoutes` is called at most once per session | holds |
| `route` | The certificate's wait ends and reports what happened; a forward that is not one's own is noticed; a management shell ends with its tunnel. Of the metadata read through the forward: does the pointer resolve, stay and agree under late and repeated uploads? | one session, platform or shell, any other program on each port; 2 publishers, 2 readers, 2 environments, the first publisher's being fixed since they are interchangeable | holds |
| `podman` | Does the lease spare the living and reclaim the dead? | the code's ratio, 20 s to 5 s: `Lease = 4` | holds |
| `commands` | Is every log as its command reported, every wrapped podman command and every sign-in page handled as documented, every listed environment one that loads, every kubeconfig as reported and, published or not, as trusted as Azure's, and does the registry proxy keep its port for its own forward? | 2 logs on 2 names, a size limit of one step; podman commands of up to 4 arguments of every class the wrapper tells apart; 2 rules with every overlap of tenants and domains; 2 environments; kubeconfigs in which one section differs from a good one, each published as prepared and after every edit of its cluster and user that the checks tell apart, and every list of up to 3 arguments of kubelogin, also in front of a login mode; 2 starts of the proxy, 2 machines, 1 login | holds |
| `browser_refused` | Does a command that must not sign in ever open a page? | as `commands`, for commands that set their environment anew | **violated**, see findings |

Deadlock is checked in `registry_*`, `publications*` and `route`, whose systems may always go on. `activation`, `platform`, `proxy`, `podman` and `commands` end for good when the
session or the command does, so their configurations turn it off. Bounds that are constants of a
module and not of the code: `MaxWithdrawals`, `MaxSessions`, `MaxRouters`, `MaxEvents`, and the
finite sets of actors; `MaxFiles` and `MaxBytes` are the code's own with smaller values.

Several properties are conjunctions of named parts (`AccessWatched`,
`PublishedOnce`, `WaitsEnd`): each part is written out with its own comment. The type invariants
`TypeOK` are proved for every module, that of `SshRoute` (`RouteTypeOK`; its names differ from those
of `PlatformSession` because one module of proofs extends both) as part of its inductive invariant.

Some properties hold but for an exception, which is part of their statement:

- `DescriptorKept` and `ImplementsService` except what a cleaner could not dial (finding 2).
- `ForwardLeadsHome` excepts a start that was killed, and one whose `Serve` gave up its listener
  (`proxy.go:184`): its ssh is stopped only after that, so another start may have the port first.
- `LoginChecked` is about the step in which `checkProxy` accepts an answer. Later steps of the login
  use whatever listens on the port by then, as the code does.
- `KubeconfigKeepsTrust` compares bivrost's and kubelogin's reading of `Plain` arguments, those that
  Azure CLI and `kubelogin convert-kubeconfig` write. For others the two differ: bivrost does not see
  `-lMODE`, does not stop at `--`, and takes a `-l` that is another flag's value for the login.
- `KubeFileAsReported` lets a file stay that could not be removed, since that error is ignored
  (`kubeconfig.go:128`); so does the registry with a record it could not lock
  (`active_sessions.go:123`), which the next scan takes for stale.

## Fairness

- Registry: weak fairness of each process's own steps (`Step`): a process that runs goes on.
  Fairness of the lock itself is not assumed: `CallsReturn` holds because waiting gives up
  after its timeout. Dying and calling are never fair. `StaleReclaimed` further assumes what it
  says: that scans keep completing and record files can be opened.
- Activation: handlers go on; a call that takes minutes ends once its context is cancelled
  (`CommandContext` kills it) and otherwise only if it happens to.
- Publications: a close that has begun goes on, cleans are started and go on, and a probe of a
  live gateway does not time out every time (strong fairness of `FindGone`: "a live gateway
  answers /health immediately"). `CrashReclaimed` states its premises: cleaning is not
  cancelled for ever, files can be removed, the port is not kept by another program.
- Platform session: its own steps and the signal goroutines go on; a child that is told to
  stop exits, since `stop` kills it after a grace period. A child that nobody stops may run
  for ever.
- Proxy: a request goes on; a copy is certain to end only when what it reads from is closed,
  which is what makes `TunnelEnds` say something.
- SSH route: timers fire, the waiting loop serves its cases, OpenSSH comes to bind or fail
  (`ConnectTimeout`, `ExitOnForwardFailure`), and a shell that is told to end exits: it gets
  SIGTERM and, after `WaitDelay`, SIGKILL. Azure CLI and the user are never fair.
- Podman: time passes (strong fairness of `Tick`, which a sleeping host suspends), the
  heartbeat's goroutine and the supervisor go on.

## What is proved

`SessionRegistryProofs`, for any finite set of sessions, any limits and any set of faults:

- `TypeCorrect`: `Spec => []TypeOK`.
- `GuardExcludes`: `Spec => []Control`. One process is inside the guard, and the control state
  of each call is consistent: which operation, where it returns to, what it holds. Neither
  mutual exclusion nor `RecordKept` is inductive alone; `Control` is what joins a `pc` to the
  guard.
- `RecordsKept`: `Spec => []RecordKept`. The inductive invariant adds `OwnRecord`: where each
  process has created, locked or given up its own record. Every step of another process that
  removes a file first finds its lock free, under the guard, and a record is created and
  locked under the guard; a `close` without the guard touches only its own record.
- `AdmissionLimited`: `Spec => AdmittedWithinOwnLimit`, from the same invariant and
  `ScanCounts`: what a scan has found together with what it has still to look at includes every
  active session but the scanner, and no session becomes active while another one scans. It
  needs cardinalities of finite sets, hence `SessionsAssumption`.

- `LimitsObeyed` and `RegistryAdmits`: `Spec => []WithinEveryLimit` and
  `Spec => ImplementsAdmission`, when reads and writes do not fail (removals may, and processes
  may die anywhere). `LimitsOnDisk` and `ClaimsOnDisk` say that a complete record repeats what
  its session brought and claimed, so that the lowest limit of a scan covers every active
  session; every step then is a step of `SessionAdmission` or changes nothing of it. A failing
  write breaks both, which is finding 1.

`ActivationProofs`, for any requests, targets and sessions: `TypeCorrect`, `AccessIsWatched`,
`CloseLeavesNothing`, `SwitchStands`, `WithdrawalIsFinal`. `Exclusive` says who has `a.mu`;
`Attempts` and `Granted` what an enable that has it may find, which makes the watcher unique;
`Closed` that no request is in the middle of its calls once `close` is over; `Remembered` that an
overtaken publish still remembers a smaller count of withdrawals than there were. The claim is
made in the abstract registry, beside any other sessions: `RegistryKept` says what every step of
theirs and of this session leaves true (`OneHolder`), and `OwnAccess` that none of theirs touches
this one's access. A Podman session therefore has a claim that is nobody else's, and with
`RegistryAdmits` that holds of the registry of files.

`PlatformSessionProofs`, for any number of switches: `TypeCorrect`, `TunnelsKept`,
`ChildIsServed`, `SlateIsClean`, `SharingIsHanded`. `Built` lists what setup has opened at each
point, `Deferred` that all of it has a deferred close, `Deaf` that past `CheckStop` nobody
cancels a command any more, and `Handed` who holds the user's choice at each point.
The same module has the theorems about `SshRoute`, the machine behind the steps `bastion`, `free`,
`ssh` and `forward` of setup: `RequestsReported` (`InteractionReported`) and `ListenersLive`. The
first is not inductive: it needs `WithinWait`, that Azure CLI runs only while the wait for the
certificate does, so that nobody can leave a browser request once the wait has a result; the second
needs `Reserved`, that the listener that keeps the SOCKS port is there until it is closed.

`PublicationsProofs`, for any publications, ports, cleaners and clients: `TypeCorrect`,
`DescriptorsKept`, `TunnelsEndWithIt`, `ServiceImplemented`. A gateway has its port for as long as it is open
(`Bound`), so no probe that gets through can find an open publication gone, and what was found gone
has ended for good, or a cleaner could not dial it (`Doomed`): neither a lock nor a bound on the time a clean takes is needed.
`ServiceImplemented` is the refinement, `Spec => ImplementsService`. The rename is the abstract
`Publish`; setting `closed`, and dying while serving, is `Withdraw`, which ends the tunnels in the
same step because a recorded connection is on the gateway's list and of its own publication
(`Served`); the second look at `closed` is what makes recording a connection a `Connect`; and
removing a descriptor, by its owner or by a cleaner, is `Forget`, since it is doomed; the failing dial of an open
publication is `CannotAsk`. Every other
step changes nothing a client could tell (`Rests`).

`CommandsProofs`, for any sign-ins, arguments, catalogues, documents, commands, log sizes, starts
of the proxy and machines. Its inductive invariant (`CommandsInv`) joins those of the parts, of
which a step disturbs one; the jobs of one step add to it that the answer is what their operator
gives (`Answered`), so that the theorem about them is a lemma about the operator.

- `LogsAreAsGiven`, `SuccessesAreComplete`. `Recorded` is stronger than both: the size of the whole
  events in a file is what the log has counted, and a log that has not failed has everything. Only
  with `OwnFile`, that a command never writes to another's file, does that survive other commands,
  and `Told` carries it past `Close` for a command that reports success.
- `KubeFilesAreAsReported`. A tool's workers outlive a killed launcher, and what they write is what
  would break it: `Attended` and `Settled` say that one is left only of a tool that is waited for.
- `KubeconfigsKeepTrust`, over every document that kubectl may print (`IsDocument`), by following
  an entry from the document through both rewritings; `SectionsAreFinite` is where a list of
  entries, in place of TLC's few, comes in. `ReadMode` is a recursive function of an index
  (`ReadModeIs`); `ModesAgree` and `OneLogin` compare the two readings of the arguments from the end
  to the beginning: where bivrost finds the one mode `azurecli`, kubelogin finds it or refuses.
- `WrapperAlwaysYields`, for arguments of any number. `FirstWord` and `ProxyOption` are recursive
  functions of an index: `Upward` shows that the recursion has a solution, which makes the
  definitions usable (`FirstWordIs`, `ProxyOptionIs`), and `Backwards` is induction from the end of
  the arguments to their beginning. `FirstWordAgrees` then compares the wrapper's scan with
  Podman's: the two find the same word where one knows every flag the other goes past.
- `ListsAreLoadable`, over every catalogue and every set of local profiles.
- `SignInsAreRouted`, `OrganizationsStayApart`, for commands whose environment nobody sets anew. The
  others are excluded by the theorems' hypothesis, which is finding 3: for them neither holds.
- `ForwardsLeadHome`, `LoginsAreChecked`. A start has the host's port until it has closed it, or
  `Serve` gave it up (`Holds`), and an ssh only strictly within it (`Bridged`). What it advertises is
  therefore true when a login is told (`AnswerIsTrue`), which is all that `LoginsAreChecked` says.
- `CommandsTypeCorrect`: the types of all of it.

`SessionProxyProofs`, for any requests and any positive number of routers:
`ProxyTypeCorrect`, `ClosedCarriesNothing`, `CurrentRoutesRule`, `RequestsLeakNothing`.
`NoTunnelThroughClosed` says nothing of a request that dials through a router about to close.
The invariant adds that a tunnel is tracked or on the list of a Close (`Held`), that a closed
router tracks nothing and only a Close in progress has a list (`Lists`), that routers are
closed one after another (`Control`), and that what was dialed went the way of the request's
own router (`OnItsWay`); the routes in force then follow because every earlier router is closed.

`PodmanSessionProofs`, for any lease of at least two heartbeats: `PodmanTypeCorrect`,
`LivingSpared`, `DirectoryOutlivesService`. `Prompt` is the invariant behind the lease: while
nothing is wrong the supervisor waits for at most one interval, and what it then waits for is
due or on its way. Twenty seconds are more than the code needs on an ideal connection; the
margin is for real ones.

`HeimdalMetadataProofs`, for any publishers, readers and environments: `HeimdalTypeCorrect`,
`PointersResolve`, `PublicationIsFinal`. The order of the uploads (`Ordered`) and create-only
requests (`Settled`) carry all of them; `Followed` ties a reader to the pointer.

Assumptions: those of the constants (`SessionsAssumption`, `LimitsAssumption`,
`FaultsAssumption`, `ActivationAssumption`, `PlatformAssumption`, `PublicationsAssumption`,
`ProxyAssumption`, `LeaseAssumption`, `NoRevisionAssumption`, `AcrAssumption`, `LogAssumption`,
`NamesAssumption`, `ModeAssumption`, `KubeAssumption`, `AsksAssumption`: that absent values and
states differ, that numbers are numbers and sets finite, and that sign-ins, arguments and documents
have the shape the code gives them), for `LimitsObeyed` and `RegistryAdmits` that neither "read" nor
"write" is among the faults, and for the two theorems about sign-ins that none is "rebuilt".

Only model-checked: all liveness (`CallsReturn`, `StaleReclaimed`,
`CloseCompletes`, `CrashReclaimed`, `StopHeeded`, `LossEnds`, `TunnelEnds`, `WaitsEnd`,
`ServiceReclaimed`), which needs fairness and `ENABLED` and is out of the prover's reach. So are the
library's induction theorems, whose parameter is an operator; where a proof needs induction over a
sequence it is over a set of numbers (`SetInduction`), from the well-foundedness of `<`.

## Findings

1. `registry_limit_hidden` — `writeLocked` truncates before it writes. If the write fails the
   session runs on (an enable fails, nothing more), its record is empty, and scans count it
   with no limit: a second session starts beside one with `max_sessions: 1`. ADR 0018 says
   nothing starts beside it.
2. `publications_dial` — `publicationOwnerGone` tells a refusal from other failures only by
   `!op.Timeout()`. A dial that fails for a reason of the cleaner's own, such as a lack of file
   descriptors, ports or memory, is no timeout, so the descriptor of a session that goes on serving
   is removed and not written again; the session says it is published, and nobody can find it. The
   comments at `publication.go:408` and `:517` and ADR 0012 say that ambiguous failures leave files
   alone.
3. `browser_refused` — `azure.Command` makes Azure CLI's sign-in pages come back to bivrost, to
   be refused. `acr login`, Heimdal and the Terraform checks set the environment of their calls
   anew and lose that, so their pages open in the user's own browser. ADR 0015,
   `docs/security-boundaries.md` and `docs/authentication.md` say that they never open one.

## Left out of the modelled parts

- The port that is freed for OpenSSH may be another program's by the time OpenSSH binds it, and
  `waitPlatformForward` takes any listener for the forward. The model has this; `WaitsEnd` says
  that the session then ends or gets its port, not that the window does not exist.
- The deadline case of the certificate's wait does not look for a browser request that came since
  the last poll, as the exit case does. The model has this too (`TakeDeadline`), and nothing in
  the documentation forbids it.
- A detached process that keeps using an unpublished kubeconfig; it fails, as any client does.
- A Ctrl+C that is judged only after the shell has exited (`platform.go:86-101`) may cancel the
  switch that follows; the code leaves open which of the two it meant.
- A live record that cannot be read hides its claim as well as its limit; `claimACR` may then
  grant access twice. `registry_safety` excludes failing reads for that reason.
- The loss of the Podman session is an event that may happen at any time; idle timeouts of the
  proxy are copies that may end at any time.
- SIGKILL of the guest's supervisor itself: nothing in the code would clean up after it.
- A revision whose pointer was never created stays in the container: `HeimdalRevisionOrphaned`
  tells the user.

## Plan

Done: the modules above with their runs, the refinements of the registry and of the publication
service, the composition of the controller with the registry's promise, and theorems about every
safety property a run checks. What would come next, in this order:

1. `Activation` composed with `PublicationService` in place of its own `published`, as it is with
   `SessionAdmission`.
2. The placing and removal of the wrapper's files, beside `PodmanWrapper`.
