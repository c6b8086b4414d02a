------------------------ MODULE HeimdalMetadataProofs ------------------------
(***************************************************************************)
(* Theorems about HeimdalMetadata, for any publishers, readers and         *)
(* environments.  What makes the properties hold is the order of the two   *)
(* uploads together with create-only requests: a pointer request is never  *)
(* sent before its revision is in the container (Ordered), and the pointer *)
(* that was created first stays (Settled).  Readers hold what the pointer  *)
(* names (Followed).                                                       *)
(***************************************************************************)
EXTENDS HeimdalMetadata, TLAPS

\* The revision is there before anything is done about its pointer.
Ordered ==
  \A p \in Publishers :
    /\ request[p]["revision"] = "created" => p \in revisions
    /\ request[p]["pointer"] # "none" => p \in revisions
    /\ stage[p] \in {"pointer", "published", "pointerFailed"} => p \in revisions

\* A pointer that was created is the current one.
Settled ==
  /\ current # NoRevision => current \in revisions
  /\ \A p \in Publishers :
       request[p]["pointer"] = "created" \/ stage[p] = "published" => current = p

\* What a reader took from the pointer is what the pointer still says.
Followed ==
  \A r \in Readers :
    reading[r] \in {"revision", "routes"} => got[r] = current /\ current # NoRevision

IInv == TypeOK /\ Ordered /\ Settled /\ Followed

-----------------------------------------------------------------------------
\* Initially nothing is uploaded, asked for or read.
LEMMA InitIInv == Init => IInv
  BY DEF Init, IInv, TypeOK, Ordered, Settled, Followed, Blobs, Requests, Stages, Readings

\* Type correctness is inductive by itself.
LEMMA TypeStep == TypeOK /\ [Next]_vars => TypeOK'
<1> SUFFICES ASSUME TypeOK, [Next]_vars PROVE TypeOK'
  OBVIOUS
<1> USE DEF TypeOK, Blobs, Requests, Stages, Readings, Goto, Answer, service, readers
<1>1. CASE UNCHANGED vars
  BY <1>1 DEF vars
<1>2. ASSUME NEW p \in Publishers, Publisher(p) PROVE TypeOK'
  <2>1. CASE StartPublish(p)  BY <2>1 DEF StartPublish
  <2>2. CASE UploadRevision(p)  BY <2>2 DEF UploadRevision
  <2>3. CASE UploadPointer(p)  BY <2>3 DEF UploadPointer
  <2>4. CASE UploadFails(p)  BY <2>4 DEF UploadFails, Failure
  <2>5. ASSUME NEW b \in Blobs, Handle(p, b) PROVE TypeOK'
    BY <2>5 DEF Handle
  <2>6. ASSUME NEW b \in Blobs, Resend(p, b) PROVE TypeOK'
    BY <2>6 DEF Resend
  <2>7. ASSUME NEW b \in Blobs, Lose(p, b) PROVE TypeOK'
    BY <2>7 DEF Lose
  <2> QED  BY <1>2, <2>1, <2>2, <2>3, <2>4, <2>5, <2>6, <2>7 DEF Publisher
<1>3. ASSUME NEW p \in Publishers, Expire(p) PROVE TypeOK'
  BY <1>3 DEF Expire
<1>4. ASSUME NEW r \in Readers, Reader(r) PROVE TypeOK'
  BY <1>4 DEF Reader, StartReading, ReadPointer, ReadRevision, ReadFails, Read
<1> QED  BY <1>1, <1>2, <1>3, <1>4 DEF Next

-----------------------------------------------------------------------------
\* A publisher's steps and those of the service keep the order of its uploads, the
\* pointer that is in place, and so what readers have.
LEMMA PublisherStep ==
  ASSUME IInv, NEW p \in Publishers, Publisher(p)
  PROVE  (Ordered /\ Settled /\ Followed)'
<1> USE DEF IInv, TypeOK, Blobs, Goto, Answer, service, readers
<1> USE NoRevisionAssumption
<1>1. CASE StartPublish(p)
  BY <1>1 DEF StartPublish, Ordered, Settled, Followed
<1>2. CASE UploadRevision(p)
  BY <1>2 DEF UploadRevision, Ordered, Settled, Followed
<1>3. CASE UploadPointer(p)
  BY <1>3 DEF UploadPointer, Ordered, Settled, Followed
<1>4. CASE UploadFails(p)
  BY <1>4 DEF UploadFails, Failure, Ordered, Settled, Followed
<1>5. CASE Handle(p, "revision")
  BY <1>5 DEF Handle, Absent, Ordered, Settled, Followed
<1>6. CASE Handle(p, "pointer")
  BY <1>6 DEF Handle, Absent, Ordered, Settled, Followed
<1>7. ASSUME NEW b \in Blobs, Resend(p, b) PROVE (Ordered /\ Settled /\ Followed)'
  BY <1>7 DEF Resend, Ordered, Settled, Followed
<1>8. ASSUME NEW b \in Blobs, Lose(p, b) PROVE (Ordered /\ Settled /\ Followed)'
  BY <1>8 DEF Lose, Ordered, Settled, Followed
<1> QED  BY <1>1, <1>2, <1>3, <1>4, <1>5, <1>6, <1>7, <1>8 DEF Publisher

\* Everything else leaves the uploads and the pointer alone.
LEMMA InvariantStep == IInv /\ [Next]_vars => IInv'
<1> SUFFICES ASSUME IInv, [Next]_vars PROVE IInv'
  OBVIOUS
<1>1. TypeOK'
  BY TypeStep DEF IInv
<1>2. CASE UNCHANGED vars
  BY <1>1, <1>2 DEF vars, IInv, Ordered, Settled, Followed
<1>3. ASSUME NEW p \in Publishers, Publisher(p) PROVE IInv'
  BY <1>1, <1>3, PublisherStep DEF IInv
<1>4. ASSUME NEW p \in Publishers, Expire(p) PROVE IInv'
  BY <1>1, <1>4 DEF Expire, IInv, Ordered, Settled, Followed, service, readers
<1>5. ASSUME NEW r \in Readers, Reader(r) PROVE IInv'
  <2>1. (Ordered /\ Settled)'
    BY <1>5 DEF Reader, StartReading, ReadPointer, ReadRevision, ReadFails, Read,
                IInv, Ordered, Settled, service
  <2>2. Followed'
    BY <1>5 DEF Reader, StartReading, ReadPointer, ReadRevision, ReadFails, Read,
                IInv, TypeOK, Followed, service
  <2> QED  BY <1>1, <2>1, <2>2 DEF IInv
<1> QED  BY <1>2, <1>3, <1>4, <1>5 DEF Next

LEMMA Invariant == Spec => []IInv
<1>1. Init => IInv  BY InitIInv
<1>2. IInv /\ [Next]_vars => IInv'  BY InvariantStep
<1> QED  BY <1>1, <1>2, PTL DEF Spec

-----------------------------------------------------------------------------
\* Every variable keeps its type.
THEOREM HeimdalTypeCorrect == Spec => []TypeOK
<1>1. IInv => TypeOK  BY DEF IInv
<1> QED  BY <1>1, Invariant, PTL

\* PublishInitialHeimdal uploads the revision first and waits for it: a reader never
\* follows a pointer to a revision that is not there.
THEOREM PointersResolve == Spec => []PointerResolves
<1>1. IInv => PointerResolves  BY DEF IInv, Settled, Followed, PointerResolves
<1> QED  BY <1>1, Invariant, PTL

\* --if-none-match: what init reported as published stays the published revision,
\* whichever requests of other publishers are late or repeated; and two sessions
\* that got remote routes got those of the same revision.
THEOREM PublicationIsFinal == Spec => []PublishedOnce
<1>1. IInv => PublishedStands  BY DEF IInv, Settled, PublishedStands
<1>2. IInv => RoutesAgree  BY DEF IInv, Followed, RoutesAgree
<1> QED  BY <1>1, <1>2, Invariant, PTL DEF PublishedOnce
=============================================================================
