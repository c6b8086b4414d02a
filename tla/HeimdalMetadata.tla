---------------------------- MODULE HeimdalMetadata ----------------------------
(***************************************************************************)
(* Heimdal's initial metadata: heimdal init uploads an immutable revision, *)
(* then the current pointer that names it, each with a create-only request *)
(* (azure/heimdal.go); sessions read the pointer, then the revision        *)
(* (session/heimdal_read.go).  A request may be lost, be answered too      *)
(* late, reach the service after its sender has given up, or be sent again *)
(* by Azure CLI when its answer got lost.                                  *)
(*                                                                         *)
(* A revision is named by the digest of a document with the time of its    *)
(* making, so each publisher has one of its own: publishers stand for      *)
(* their revisions, and pointer and document name the same environment.    *)
(***************************************************************************)
EXTENDS Naturals

CONSTANTS Publishers, Readers,
          Environments,
          NoRevision

ASSUME NoRevisionAssumption == NoRevision \notin Publishers

VARIABLES environment,  \* of each publisher's document and pointer
          revisions,    \* the revisions in the container
          current,      \* the revision current.json names, if there is one
          request,      \* each publisher's upload requests
          stage,        \* how far each publisher is
          expired,      \* the revisions past their expires_at
          reading,      \* how far each reader is
          wanted,       \* the environment of each reader's profile
          got           \* the revision each reader works with

vars == <<environment, revisions, current, request, stage, expired, reading, wanted, got>>

Blobs == {"revision", "pointer"}
Requests == {"none", "sent", "created", "exists"}
Stages == {"new", "revision", "pointer", "published", "revisionFailed", "pointerFailed"}
Readings == {"idle", "pointer", "revision", "routes", "failed"}

service == <<revisions, current>>
readers == <<reading, wanted, got>>

Init ==
  /\ environment \in [Publishers -> Environments]
  /\ revisions = {} /\ current = NoRevision
  /\ request = [p \in Publishers |-> [b \in Blobs |-> "none"]]
  /\ stage = [p \in Publishers |-> "new"]
  /\ expired = {}
  /\ reading = [r \in Readers |-> "idle"]
  /\ wanted \in [Readers -> Environments]
  /\ got = [r \in Readers |-> NoRevision]

-----------------------------------------------------------------------------
(* Publishing.                                                             *)

\* The publisher's stage is also the blob it uploads.
Goto(p, to) == stage' = [stage EXCEPT ![p] = to]
Answer(p, b, to) == request' = [request EXCEPT ![p][b] = to]

StartPublish(p) ==
  /\ stage[p] = "new"
  /\ Goto(p, "revision") /\ Answer(p, "revision", "sent")
  /\ UNCHANGED <<environment, service, expired, readers>>

\* Mistake: the pointer is uploaded without --if-none-match.
Overwritable(p, b) == b = "revision" => p \notin revisions

\* The service handles a request, whether anybody still waits for the answer or
\* not.  --if-none-match "*": only a blob that does not exist is created.
Absent(p, b) == IF b = "revision" THEN p \notin revisions ELSE current = NoRevision
Handle(p, b) ==
  /\ request[p][b] = "sent"
  /\ IF Absent(p, b)
     THEN /\ Answer(p, b, "created")
          /\ revisions' = IF b = "revision" THEN revisions \cup {p} ELSE revisions
          /\ current' = IF b = "pointer" THEN p ELSE current
     ELSE Answer(p, b, "exists") /\ UNCHANGED service
  /\ UNCHANGED <<environment, stage, expired, readers>>

\* The answer is lost on the way and Azure CLI repeats the request.
Resend(p, b) ==
  /\ request[p][b] = "created" /\ stage[p] = b
  /\ Answer(p, b, "sent")
  /\ UNCHANGED <<environment, service, stage, expired, readers>>

\* Mistake: the revision's upload is not waited for.
UploadTogether(p) ==
  /\ stage[p] = "revision"
  /\ Goto(p, "pointer") /\ Answer(p, "pointer", "sent")
  /\ UNCHANGED <<environment, service, expired, readers>>

UploadRevision(p) ==
  /\ stage[p] = "revision" /\ request[p]["revision"] = "created"
  /\ Goto(p, "pointer") /\ Answer(p, "pointer", "sent")
  /\ UNCHANGED <<environment, service, expired, readers>>

UploadPointer(p) ==
  /\ stage[p] = "pointer" /\ request[p]["pointer"] = "created"
  /\ Goto(p, "published")
  /\ UNCHANGED <<environment, service, request, expired, readers>>

\* The request is refused or does not get through; or the upload times out, is
\* cancelled or dies, with its request still on the way.
Failure == [revision |-> "revisionFailed", pointer |-> "pointerFailed"]
UploadFails(p) ==
  /\ stage[p] \in Blobs
  /\ Goto(p, Failure[stage[p]])
  /\ UNCHANGED <<environment, service, request, expired, readers>>

\* A request that never arrives.
Lose(p, b) ==
  /\ request[p][b] = "sent"
  /\ Answer(p, b, "none")
  /\ UNCHANGED <<environment, service, stage, expired, readers>>

-----------------------------------------------------------------------------
(* Reading, when a session starts: fetchHeimdalRoutes.                     *)

Read(r, to, revision) ==
  /\ reading' = [reading EXCEPT ![r] = to]
  /\ got' = [got EXCEPT ![r] = revision]
  /\ UNCHANGED <<environment, service, request, stage, expired, wanted>>

StartReading(r) == reading[r] \in {"idle", "failed", "routes"} /\ Read(r, "pointer", NoRevision)

\* DecodePointer refuses the pointer of another environment.
ReadPointer(r) ==
  /\ reading[r] = "pointer" /\ current # NoRevision
  /\ environment[current] = wanted[r]
  /\ Read(r, "revision", current)

\* Decode checks the digest, the environment and the validity.
ReadRevision(r) ==
  /\ reading[r] = "revision" /\ got[r] \in revisions
  /\ environment[got[r]] = wanted[r] /\ got[r] \notin expired
  /\ Read(r, "routes", got[r])

\* A blob is missing or invalid, or its request fails; a route that the profile
\* does not allow refuses the whole revision.
ReadFails(r) == reading[r] \in {"pointer", "revision"} /\ Read(r, "failed", NoRevision)

Expire(p) ==
  /\ p \in revisions \ expired
  /\ expired' = expired \cup {p}
  /\ UNCHANGED <<environment, service, request, stage, readers>>

-----------------------------------------------------------------------------
Publisher(p) ==
  \/ StartPublish(p) \/ UploadRevision(p) \/ UploadPointer(p) \/ UploadFails(p)
  \/ \E b \in Blobs : Handle(p, b) \/ Resend(p, b) \/ Lose(p, b)
Reader(r) == StartReading(r) \/ ReadPointer(r) \/ ReadRevision(r) \/ ReadFails(r)

Next == \/ \E p \in Publishers : Publisher(p) \/ Expire(p)
        \/ \E r \in Readers : Reader(r)

Spec == Init /\ [][Next]_vars

-----------------------------------------------------------------------------
(* Properties.                                                             *)

TypeOK ==
  /\ environment \in [Publishers -> Environments]
  /\ revisions \subseteq Publishers /\ expired \subseteq revisions
  /\ current \in Publishers \cup {NoRevision}
  /\ request \in [Publishers -> [Blobs -> Requests]]
  /\ stage \in [Publishers -> Stages]
  /\ reading \in [Readers -> Readings] /\ wanted \in [Readers -> Environments]
  /\ got \in [Readers -> Publishers \cup {NoRevision}]

\* A reader that has found the pointer finds the revision it names, whatever
\* upload failed, was late or came twice.
PointerResolves ==
  /\ current # NoRevision => current \in revisions
  /\ \A r \in Readers : reading[r] = "revision" => got[r] \in revisions

\* "Heimdal initial metadata published" stays true: another publisher of the same
\* prefix does not take the pointer over, before or after.
PublishedStands == \A p \in Publishers : stage[p] = "published" => current = p

\* Sessions of one environment that got remote routes got the same ones.
RoutesAgree ==
  \A r, s \in Readers :
    reading[r] = "routes" /\ reading[s] = "routes" => got[r] = got[s]

\* The metadata of an environment is published once, for publishers and sessions
\* alike.
PublishedOnce == PublishedStands /\ RoutesAgree
=============================================================================
