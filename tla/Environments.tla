---------------------------- MODULE Environments ----------------------------
(***************************************************************************)
(* The environments a user can connect to (config/catalogue.go,            *)
(* config/paths.go): profiles of a catalogue file and local profiles of    *)
(* the same name that take their place.  "bivrost list" and the commands   *)
(* that connect find them separately.  files is what is on disk:           *)
(*   files.named      BIVROST_CATALOGUE_FILE names the catalogue           *)
(*   files.catalogue  its state: absent, a link to nothing, or readable    *)
(*   files.profiles   the state of each profile in it                      *)
(*   files.local      the state of each environments/NAME.json             *)
(***************************************************************************)
EXTENDS FiniteSets

CONSTANT Names

ASSUME NamesAssumption == IsFiniteSet(Names)

Entries == {"absent", "dangling", "invalid", "valid"}
Files == [named : BOOLEAN, catalogue : {"absent", "dangling", "broken", "object"},
          profiles : [Names -> {"absent", "invalid", "valid"}], local : [Names -> Entries]]

Failed == [ok |-> FALSE]
Found(result) == [ok |-> TRUE, result |-> result]

-----------------------------------------------------------------------------

\* A missing default catalogue is an empty one; a link to nothing is a failure,
\* and so is one profile in it that is not valid.
LoadCatalogue(files) ==
  IF files.catalogue = "absent" /\ ~files.named THEN Found({})
  ELSE IF files.catalogue # "object" \/ \E n \in Names : files.profiles[n] = "invalid" THEN Failed
  ELSE Found({n \in Names : files.profiles[n] = "valid"})

InCatalogue(files, name) ==
  LET catalogue == LoadCatalogue(files) IN catalogue.ok /\ name \in catalogue.result

\* Mistake: whether there is a local profile is asked of what a link leads to.
LoadFollowing(files, name) ==
  IF files.local[name] = "valid" THEN Found("local")
  ELSE IF files.local[name] \in {"absent", "dangling"} /\ InCatalogue(files, name) THEN Found("catalogue")
  ELSE Failed

\* Whatever stands at the local profile's path takes the place of the
\* catalogue's profile, also when it cannot be used.
LoadEnvironment(files, name) ==
  IF files.local[name] = "valid" THEN Found("local")
  ELSE IF files.local[name] = "absent" /\ InCatalogue(files, name) THEN Found("catalogue")
  ELSE Failed

\* The directory lists a link to nothing too.
localEnvironmentNames(files) == {n \in Names : files.local[n] # "absent"}

ListEnvironments(files) ==
  LET catalogue == LoadCatalogue(files)
      locals == localEnvironmentNames(files)
  IN  IF ~catalogue.ok \/ \E n \in locals : files.local[n] # "valid" THEN Failed
      ELSE Found({<<n, IF n \in locals THEN "local" ELSE "catalogue">> :
                   n \in catalogue.result \union locals})

CountEnvironments(files) ==
  LET catalogue == LoadCatalogue(files)
  IN  IF ~catalogue.ok THEN Failed
      ELSE Found(Cardinality(catalogue.result \union localEnvironmentNames(files)))

-----------------------------------------------------------------------------

\* A list that is shown has exactly the environments that can be loaded, from
\* where they would be loaded, and as many as are counted; and a local profile
\* that cannot be used is never passed over for the catalogue's.
ListAgrees(files, list) ==
  /\ list.ok =>
       /\ \A n \in Names, source \in {"local", "catalogue"} :
            <<n, source>> \in list.result <=> LoadEnvironment(files, n) = Found(source)
       /\ CountEnvironments(files) = Found(Cardinality(list.result))
  /\ \A n \in Names : files.local[n] # "absent" => LoadEnvironment(files, n) # Found("catalogue")
=============================================================================
