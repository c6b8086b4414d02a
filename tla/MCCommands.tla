----------------------------- MODULE MCCommands -----------------------------
(* Commands with small sets of rules, arguments and kubeconfigs.            *)
EXTENDS Commands, TLC

CONSTANTS c1, c2, h, p1, p2, m1, m2, e1, e2, t1, t2, example, work

MCCommandSet == {c1, c2}
MCServers == {p1, p2}
MCMachines == {m1, m2}
Symmetry == Permutations(MCServers) \union Permutations(MCMachines)
MCNames == {e1, e2}
MCMaxEvents == c1 :> 3 @@ c2 :> 1

-----------------------------------------------------------------------------
(* Sign-ins: up to two rules, each with a browser of its own.               *)

MCRule(tenants, domains, default, i) ==
  [tenants |-> tenants, domains |-> domains, default |-> default, browser |-> <<"rule", i>>]
MCRules(i) ==
  {MCRule({t1}, {}, FALSE, i), MCRule({t1}, {example}, FALSE, i), MCRule({t1, t2}, {}, TRUE, i),
   MCRule({t2}, {}, TRUE, i), MCRule({}, {example}, FALSE, i), MCRule({}, {}, FALSE, i)}
MCRuleLists ==
  {<<>>} \union {<<r>> : r \in MCRules(1)} \union {<<r, s>> : r \in MCRules(1), s \in MCRules(2)}

MCSignIns ==
  [kind : {"login", "certificate", "other"}, interactive : BOOLEAN, rules : MCRuleLists,
   setting : {None, "own"}, readable : {TRUE}, edited : {FALSE},
   browsers : {<<>>, <<"first">>, <<Edge, "first">>, <<"first", "second">>}, usable : {{}, {"second"}, {"first", "second"}},
   tenant : {None, t1, t2}, domain : {None, example}, starts : BOOLEAN, terminal : {TRUE}]
  \union
  [kind : {"login", "certificate"}, interactive : BOOLEAN, rules : {<<>>, <<MCRule({t1}, {}, FALSE, 1)>>},
   setting : {None, "own"}, readable : BOOLEAN, edited : BOOLEAN, browsers : {<<"first">>}, usable : {{"first"}},
   tenant : {t1, t2}, domain : {None}, starts : BOOLEAN, terminal : BOOLEAN]

MCRebuiltSignIns == {[ask EXCEPT !.kind = "rebuilt"] : ask \in {a \in MCSignIns : a.kind = "other"}}

MCArgumentLists == UNION {[1 .. n -> Wrapper!Arguments] : n \in 0 .. 4}

-----------------------------------------------------------------------------
(* Kubeconfigs: one section at a time differs from what Azure CLI writes.   *)

MCServer == [https |-> TRUE, host |-> "api", port |-> None]
MCCluster == [server |-> MCServer, ca |-> "authority", insecure |-> None, serverName |-> None, proxy |-> FALSE, caFile |-> FALSE]
Word(text) == [form |-> "word", text |-> text]
Login == [form |-> "login", text |-> "another"]
Other == [form |-> "other", text |-> "another"]
MCExec == [command |-> "kubelogin", verb |-> "get-token", env |-> FALSE,
           args |-> <<Word("another"), Login, Word("azurecli")>>]
MCUser == [extra |-> FALSE, exec |-> MCExec]
MCContext == [cluster |-> work, user |-> work]
MCDocument ==
  [current |-> work, contexts |-> <<[name |-> work, object |-> MCContext]>>,
   clusters |-> <<[name |-> work, object |-> MCCluster]>>, users |-> <<[name |-> work, object |-> MCUser]>>]

\* The entries of a section: the wanted one, missing, twice, or among others.
MCSections(object, other) ==
  {<<>>, <<Malformed>>, Malformed, <<[name |-> work, object |-> Malformed]>>,
   <<[name |-> work, object |-> object], [name |-> work, object |-> other]>>,
   <<[name |-> example, object |-> other], [name |-> work, object |-> object]>>,
   <<[name |-> work, object |-> object], Malformed>>}
MCClusters ==
  [server : {Malformed} \union [https : BOOLEAN, host : {"api", "ip"}, port : {None, "6443"}],
   ca : {None, "authority"}, insecure : {None, TRUE, FALSE, Malformed}, serverName : {None, "name", "ip"},
   proxy : BOOLEAN, caFile : BOOLEAN]

\* The arguments of kubelogin: all short ones, and some that end in the right login.
MCTokens ==
  {Word("azurecli"), Word("another"), Word(""), Login, Other,
   [form |-> "login=", text |-> "azurecli"], [form |-> "login=", text |-> ""],
   [form |-> "attached", text |-> "another"], [form |-> "end", text |-> "another"]}
MCExecArguments ==
  UNION {[1 .. n -> MCTokens] : n \in 0 .. 3} \union {args \o <<Login, Word("azurecli")>> : args \in [1 .. 2 -> MCTokens]}
MCUsers ==
  [extra : BOOLEAN, exec : {Malformed} \union
     [command : {"kubelogin", "other"}, verb : {"get-token", None}, env : BOOLEAN, args : {<<>>, MCExec.args}]]
  \union [extra : {FALSE}, exec : [command : {"kubelogin"}, verb : {"get-token"}, env : {FALSE}, args : MCExecArguments]]
MCDocuments ==
  {Malformed, MCDocument, [MCDocument EXCEPT !.current = None], [MCDocument EXCEPT !.current = example]}
  \union {[MCDocument EXCEPT !.contexts = s] : s \in MCSections(MCContext, [cluster |-> None, user |-> work])}
  \union {[MCDocument EXCEPT !.clusters = s] : s \in MCSections(MCCluster, [MCCluster EXCEPT !.ca = "other"])}
  \union {[MCDocument EXCEPT !.users = s] : s \in MCSections(MCUser, [MCUser EXCEPT !.extra = TRUE])}
  \union {[MCDocument EXCEPT !.clusters[1].object = k] : k \in MCClusters}
  \union {[MCDocument EXCEPT !.users[1].object = u] : u \in MCUsers}
MCKubeAsks ==
  [document : MCDocuments, tools : {"all"}, foreign : {FALSE}]
  \union [document : {MCDocument}, tools : {"all", "no az", "no kubelogin"}, foreign : BOOLEAN]
MCIdleKubeAsk == [document |-> MCDocument, tools |-> "all", foreign |-> FALSE]
=============================================================================
