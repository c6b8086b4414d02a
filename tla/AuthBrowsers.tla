---------------------------- MODULE AuthBrowsers ----------------------------
(***************************************************************************)
(* Sign-in pages of Azure CLI (authbrowser/authbrowser.go,                 *)
(* config/authentication_browsers.go, azure/command.go).  Azure CLI opens  *)
(* them through Python's webbrowser module, which tries the entries of     *)
(* BROWSER in order and then the system's default; bivrost puts itself     *)
(* first and opens the browser that the user's rules name for the tenant   *)
(* or the account's domain.  webbrowser is external.                       *)
(*                                                                         *)
(* An ask is one command that may open one page:                           *)
(*   kind      bivrost login, the SSH certificate, any other command, or    *)
(*             one of those whose environment is set after azure.Command   *)
(*             (acr login, Heimdal, the Terraform checks): "rebuilt"        *)
(*   interactive  the user's interactive_connect                           *)
(*   rules     the rule files in name order                                *)
(*   setting   authentication_browser of settings.json, None without one   *)
(*   readable  the rules and settings can be read when the command starts  *)
(*   edited    and no longer when the page is to be opened                 *)
(*   browsers  the entries of the user's own BROWSER, none of them bivrost *)
(*             (it takes itself out of what it starts), usable those that  *)
(*             start                                                       *)
(*   tenant, domain  what the sign-in address names, None for neither      *)
(*   starts    the configured browser can be started                       *)
(*   terminal  there is one to show an address on                          *)
(***************************************************************************)
EXTENDS FiniteSets, FiniteSetsExt, Integers, Optional, Sequences

System == "system"            \* the system's default browser
Edge == "microsoft-edge"      \* MSAL opens it itself when BROWSER mentions it

ASSUME ModeAssumption == None \notin {"interactive", "refuse"}

IsSignIn(ask) ==
  /\ ask.kind \in {"login", "certificate", "other", "rebuilt"}
  /\ DOMAIN ask.rules = 1 .. Len(ask.rules)
  /\ \A i \in DOMAIN ask.rules : ask.rules[i].browser # None

-----------------------------------------------------------------------------
(* The rules.                                                              *)

ValidRule(rule) ==
  /\ rule.tenants # {} \/ rule.domains # {}
  /\ rule.default => Cardinality(rule.tenants) = 1

\* LoadAuthenticationBrowserRules and LoadUserSettings give no error.
Loads(ask) ==
  /\ ask.readable
  /\ \A i \in DOMAIN ask.rules : ValidRule(ask.rules[i])
  /\ Cardinality({i \in DOMAIN ask.rules : ask.rules[i].default}) <= 1

\* The first of some indices, 0 for none.
First(indices) == IF indices = {} THEN 0 ELSE Min(indices)

\* The tenant of bivrost login without -t.
DefaultLoginTenant(ask) ==
  LET i == First({j \in DOMAIN ask.rules : ask.rules[j].default})
  IN  IF i # 0 THEN ask.rules[i].tenants
      ELSE IF Len(ask.rules) = 1 /\ Cardinality(ask.rules[1].tenants) = 1 THEN ask.rules[1].tenants
      ELSE {}

\* The tenant in the address: Azure CLI puts there the one it was given.
SignInTenant(ask) ==
  IF ask.kind = "login" /\ ask.tenant = None /\ DefaultLoginTenant(ask) # {}
  THEN CHOOSE t \in DefaultLoginTenant(ask) : TRUE
  ELSE ask.tenant

NamesTenant(ask) == {i \in DOMAIN ask.rules : SignInTenant(ask) \in ask.rules[i].tenants}
NamesDomain(ask) == {i \in DOMAIN ask.rules : ask.domain \in ask.rules[i].domains}

\* Mistake: the first rule that matches in any way is taken.
SelectInOrder(ask) ==
  LET i == First(NamesTenant(ask) \union NamesDomain(ask))
  IN  IF i # 0 THEN ask.rules[i].browser ELSE ask.setting

\* A match of the tenant in any rule comes before one of the domain.
SelectAuthenticationBrowser(ask) ==
  IF NamesTenant(ask) # {} THEN ask.rules[First(NamesTenant(ask))].browser
  ELSE IF NamesDomain(ask) # {} THEN ask.rules[First(NamesDomain(ask))].browser
  ELSE ask.setting

\* As the page is to be opened.
StillLoads(ask) == Loads(ask) /\ ~ask.edited

HasAuthenticationBrowsers(ask) == ask.rules # <<>> \/ ask.setting # None

-----------------------------------------------------------------------------
(* The environment of Azure CLI: whether bivrost is BROWSER's first entry, *)
(* which of the user's own entries come after it, and bivrost's mode.      *)

Env(first, kept, mode) == [first |-> first, kept |-> kept, mode |-> mode]

UserEnv(ask) == Env(FALSE, DOMAIN ask.browsers, None)

\* The entries that bivrost leaves: MSAL goes past it to Edge.
Kept(ask, indices) == {i \in indices : ask.browsers[i] # Edge}

\* Mistake: what the first route of a command replaced is not looked for.
RouteAgain(env, ask, mode) ==
  Env(TRUE, IF mode = "interactive" THEN Kept(ask, env.kept) ELSE {}, mode)

\* An environment that has a mode has lost the user's entries: those of this
\* process are taken instead.
Route(env, ask, mode) ==
  LET previous == IF env.mode # None THEN DOMAIN ask.browsers ELSE env.kept
  IN  Env(TRUE, IF mode = "interactive" THEN Kept(ask, previous) ELSE {}, mode)

\* azure.Command refuses; the SSH certificate's command then chooses anew.
AzureEnv(ask) ==
  LET refused == Route(UserEnv(ask), ask, "refuse")
  IN  IF ask.kind = "login" /\ HasAuthenticationBrowsers(ask) THEN Route(UserEnv(ask), ask, "interactive")
      ELSE IF ask.kind \in {"login", "rebuilt"} THEN UserEnv(ask)
      ELSE IF ask.kind = "certificate" THEN Route(refused, ask, IF ask.interactive THEN "interactive" ELSE "refuse")
      ELSE refused

\* login and the certificate load the rules before they start Azure CLI.
Starts(ask) == ask.kind \in {"other", "rebuilt"} \/ Loads(ask)

-----------------------------------------------------------------------------
(* One page.  A handling says which browser opened it, whether the address *)
(* was shown instead, whether bivrost was asked, and the environment that  *)
(* the opened browser inherits.                                            *)

userEnvironment(env) == Env(FALSE, env.kept, None)

Nothing == [opened |-> None, shown |-> FALSE, asked |-> FALSE, inherits |-> Env(FALSE, {}, None)]

\* authbrowser.Run ends with status 1: webbrowser goes on to the next entry.
Declines(ask, env) ==
  env.mode = "interactive" /\ StillLoads(ask) /\ SelectAuthenticationBrowser(ask) = None

\* authbrowser.Run otherwise.
Handle(ask, env) ==
  LET asked == [Nothing EXCEPT !.asked = TRUE]
  IN  IF env.mode # "interactive" THEN asked
      ELSE IF StillLoads(ask) /\ ask.starts
      THEN [asked EXCEPT !.opened = SelectAuthenticationBrowser(ask), !.inherits = userEnvironment(env)]
      ELSE [asked EXCEPT !.shown = ask.terminal]

\* The first of the user's entries that starts, or the system's browser.
UsersOwn(ask, indices) ==
  LET i == First({j \in indices : ask.browsers[j] \in ask.usable})
  IN  IF i = 0 THEN System ELSE ask.browsers[i]

\* webbrowser and MSAL (external): the first entry that reports success.
SignIn(ask) ==
  LET env == AzureEnv(ask)
  IN  IF \E i \in env.kept : ask.browsers[i] = Edge THEN [Nothing EXCEPT !.opened = Edge]
      ELSE IF env.first /\ ~Declines(ask, env) THEN Handle(ask, env)
      ELSE [Nothing EXCEPT !.opened = UsersOwn(ask, env.kept), !.asked = env.first]

-----------------------------------------------------------------------------
(* What a handling has to be.                                              *)

Interactive(ask) == ask.kind = "login" \/ (ask.kind = "certificate" /\ ask.interactive)

\* A page that may not be opened is not; one that may be is opened once, or its
\* address shown in its place, by the configured browser if there is one and the
\* user's own otherwise; bivrost notices each page of a certificate, and the
\* browser it starts cannot send a page back to it.
RoutedOnce(ask, handling) ==
  LET browser == SelectAuthenticationBrowser(ask)
      entries == DOMAIN ask.browsers
      own == IF HasAuthenticationBrowsers(ask) \/ ask.kind = "certificate" THEN Kept(ask, entries) ELSE entries
      shown == handling.opened = None /\ handling.shown = ask.terminal
      Opened(program) == handling.opened = program /\ ~handling.shown
  IN  /\ ~handling.inherits.first
      /\ ask.kind # "login" => handling.asked
      /\ ~Interactive(ask) => handling.opened = None /\ ~handling.shown
      /\ Interactive(ask) =>
           /\ HasAuthenticationBrowsers(ask) /\ ~StillLoads(ask) => shown
           /\ StillLoads(ask) /\ browser # None => IF ask.starts THEN Opened(browser) ELSE shown
           /\ StillLoads(ask) /\ browser = None /\ (\A i \in own : ask.browsers[i] # Edge) =>
                Opened(UsersOwn(ask, own))

\* A sign-in to a tenant that some rule names opens in no browser but that of a
\* rule naming it.
OwnOrganisation(ask, handling) ==
  NamesTenant(ask) # {} =>
    handling.opened \in {None} \union {ask.rules[i].browser : i \in NamesTenant(ask)}
=============================================================================
