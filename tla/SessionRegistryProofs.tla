------------------------ MODULE SessionRegistryProofs ------------------------
(***************************************************************************)
(* Theorems about SessionRegistry for every set of processes, every set of *)
(* limits and every choice of failing file operations, unless a theorem    *)
(* names the failures it excludes.                                         *)
(***************************************************************************)
EXTENDS SessionRegistry, FiniteSetTheorems, TLAPS

\* Unknown and new records are records.
LEMMA RecordTypes ==
  /\ Unknown \in Record
  /\ \A limit \in Limits : NewRecord(limit) \in Record
  /\ [t \in Sessions |-> Unknown] \in [Sessions -> Record]
BY DEF Unknown, Record, NewRecord

\* The names of control points, and where a call may leave its session.
LEMMA ControlTypes ==
  /\ Resting \subseteq PCs /\ Guarded \subseteq PCs
  /\ {"wait", "unlock", "unlink"} \subseteq PCs
  /\ {"scan", "lock", "truncate", "write", "unguard"} \subseteq PCs
  /\ {"off", "fresh", "up", "ending"} \subseteq Resting
  /\ {"none", "register", "list", "close"} \subseteq Ops /\ Updates \subseteq Ops
  /\ \A o \in Ops : OnFailure(o) \in Resting /\ OnSuccess(o) \in Resting
BY DEF PCs, Resting, Guarded, Ops, Updates, OnFailure, OnSuccess

\* The state of the registry keeps its type.
THEOREM TypeCorrect == Spec => []TypeOK
<1>1. Init => TypeOK
  BY RecordTypes, ControlTypes DEF Init, TypeOK
<1>2. TypeOK /\ [Next]_vars => TypeOK'
  <2> SUFFICES ASSUME TypeOK, [Next]_vars PROVE TypeOK'
    OBVIOUS
  <2> USE RecordTypes, ControlTypes DEF TypeOK
  <2>1. CASE UNCHANGED vars
    BY <2>1 DEF vars
  <2>2. ASSUME NEW s \in Sessions, Start(s) PROVE TypeOK'
    <3>1. ASSUME NEW o \in Ops, Call(s, o), mem' \in [Sessions -> Record],
                 access' \subseteq Sessions
          PROVE TypeOK'
      BY <3>1 DEF Call
    <3>2. CASE StartRegister(s)
      <4>1. mem' \in [Sessions -> Record]
        BY <3>2 DEF StartRegister
      <4>2. QED
        BY <3>1, <3>2, <4>1 DEF StartRegister
    <3>3. CASE StartList(s)
      BY <3>1, <3>3 DEF StartList
    <3>4. CASE StartSetPorts(s) \/ StartClaim(s)
      BY <3>1, <3>4 DEF StartSetPorts, StartClaim, Updates
    <3>5. CASE StartRelease(s) \/ StartClose(s)
      BY <3>1, <3>5 DEF StartRelease, StartClose, Updates
    <3>6. QED
      BY <2>2, <3>2, <3>3, <3>4, <3>5 DEF Start
  <2>3. ASSUME NEW s \in Sessions, Step(s) PROVE TypeOK'
    <3>1. CASE AcquireGuard(s)
      BY <3>1 DEF AcquireGuard
    <3>2. CASE GiveUpGuard(s)
      <4>1. OnFailure(op[s]) \in PCs /\ "unlock" \in PCs /\ "none" \in Ops
        OBVIOUS
      <4>2. pc' \in [Sessions -> PCs]
        BY <3>2, <4>1 DEF GiveUpGuard
      <4>3. op' \in [Sessions -> Ops]
        BY <3>2, <4>1 DEF GiveUpGuard
      <4>4. mem' \in [Sessions -> Record]
        BY <3>2 DEF GiveUpGuard
      <4>5. QED
        BY <3>2, <4>2, <4>3, <4>4 DEF GiveUpGuard
    <3>3. CASE ReleaseGuard(s)
      BY <3>3 DEF ReleaseGuard
    <3>4. ASSUME NEW t \in Sessions, ScanEntry(s, t) PROVE TypeOK'
      <4>1. CASE SkipEntry(s, t)
        BY <4>1 DEF SkipEntry, ScanUnchanged
      <4>2. CASE RemoveStale(s, t)
        BY <4>2 DEF RemoveStale, ScanUnchanged
      <4>3. CASE RemoveStaleFails(s, t)
        BY <4>3 DEF RemoveStaleFails, ScanUnchanged, Fail, Return
      <4>4. ASSUME NEW record \in Record, ListEntry(s, t, record) PROVE TypeOK'
        BY <4>4, <3>4 DEF ListEntry, ScanUnchanged
      <4>5. CASE ReadRecord(s, t) \/ ReadRecordFails(s, t)
        BY <4>4, <4>5 DEF ReadRecord, ReadRecordFails
      <4>6. QED
        BY <3>4, <4>1, <4>2, <4>3, <4>5 DEF ScanEntry
    <3>5. CASE ReadDirFails(s) \/ FinishList(s) \/ RefuseRegister(s) \/ RefuseClaim(s)
      BY <3>5 DEF ReadDirFails, FinishList, RefuseRegister, RefuseClaim,
         ScanUnchanged, Fail, Return
    <3>6. CASE CreateRecord(s)
      <4>1. files' \subseteq Sessions
        BY <3>6 DEF CreateRecord
      <4>2. pc' \in [Sessions -> PCs] /\ ret' \in [Sessions -> Resting]
        <5>1. CASE Fail(s)
          BY <5>1 DEF Fail, Return
        <5>2. CASE pc' = [pc EXCEPT ![s] = "lock"] /\ UNCHANGED ret
          BY <5>2
        <5>3. QED
          BY <3>6, <5>1, <5>2 DEF CreateRecord
      <4>3. QED
        BY <3>6, <4>1, <4>2 DEF CreateRecord
    <3>7. CASE LockRecord(s)
      <4>1. files' \subseteq Sessions /\ locked' \subseteq Sessions
        BY <3>7 DEF LockRecord
      <4>2. pc' \in [Sessions -> PCs] /\ ret' \in [Sessions -> Resting]
        <5>1. CASE Fail(s)
          BY <5>1 DEF Fail, Return
        <5>2. CASE pc' = [pc EXCEPT ![s] = "truncate"] /\ UNCHANGED ret
          BY <5>2
        <5>3. QED
          BY <3>7, <5>1, <5>2 DEF LockRecord
      <4>3. QED
        BY <3>7, <4>1, <4>2 DEF LockRecord
    <3>8. CASE ChangeRecord(s)
      <4> DEFINE acr == CASE op[s] = "claimACR"   -> TRUE
                          [] op[s] = "releaseACR" -> FALSE
                          [] OTHER                -> mem[s].acr
      <4>1. acr \in BOOLEAN /\ [mem[s] EXCEPT !.acr = acr] \in Record
        BY DEF Record
      <4>2. mem' = [mem EXCEPT ![s] = [mem[s] EXCEPT !.acr = acr]]
        BY <3>8 DEF ChangeRecord
      <4> HIDE DEF acr
      <4>4. mem' \in [Sessions -> Record]
        BY <4>1, <4>2
      <4>3. QED
        BY <3>8, <4>4 DEF ChangeRecord
    <3>9. CASE Truncate(s)
      <4>1. disk' \in [Sessions -> Record] /\ access' = access
        BY <3>9 DEF Truncate, WriteFails
      <4>2. pc' \in [Sessions -> PCs] /\ ret' \in [Sessions -> Resting]
        BY <3>9 DEF Truncate, WriteFails, Fail, Return
      <4>3. QED
        BY <3>9, <4>1, <4>2 DEF Truncate
    <3>10. CASE Write(s)
      <4>1. disk' \in [Sessions -> Record] /\ access' \subseteq Sessions
        BY <3>10 DEF Write, WriteFails
      <4>2. pc' \in [Sessions -> PCs] /\ ret' \in [Sessions -> Resting]
        BY <3>10 DEF Write, WriteFails, Fail, Return
      <4>3. QED
        BY <3>10, <4>1, <4>2 DEF Write
    <3>11. CASE UnlockRecord(s)
      BY <3>11 DEF UnlockRecord
    <3>12. CASE UnlinkRecord(s)
      <4>1. files' \subseteq Sessions /\ disk' \in [Sessions -> Record]
        BY <3>12 DEF UnlinkRecord
      <4>2. CASE guard = s
        <5>1. Return(s, "off") /\ UNCHANGED <<guard, locked, mem, op, todo, found, seen, access>>
          BY <3>12, <4>2 DEF UnlinkRecord
        <5>2. QED
          BY <4>1, <5>1 DEF Return
      <4>3. CASE guard # s
        <5>1. /\ pc' = [pc EXCEPT ![s] = "off"]
              /\ op' = [op EXCEPT ![s] = "none"]
              /\ mem' = [mem EXCEPT ![s] = Unknown]
              /\ UNCHANGED <<guard, locked, ret, todo, found, seen, access>>
          BY <3>12, <4>3 DEF UnlinkRecord
        <5>2. QED
          BY <4>1, <5>1
      <4>4. QED
        BY <4>2, <4>3
    <3>13. QED
      BY <2>3, <3>1, <3>2, <3>3, <3>4, <3>5, <3>6, <3>7, <3>8, <3>9, <3>10, <3>11, <3>12
         DEF Step
  <2>4. ASSUME NEW s \in Sessions, Crash(s) PROVE TypeOK'
    BY <2>4 DEF Crash
  <2>5. QED
    BY <2>1, <2>2, <2>3, <2>4 DEF Next
<1>3. QED
  BY <1>1, <1>2, PTL DEF Spec

-----------------------------------------------------------------------------
(* The inductive invariant behind the theorems.                            *)

\* A call inside the guarded steps holds the guard, and each step belongs to
\* the calls that reach it.
ControlOf(s) ==
  /\ pc[s] \in Guarded => guard = s
  /\ guard = s => pc[s] \in Guarded \cup {"unlock", "unlink"}
  /\ op[s] = "none" <=> pc[s] \in Resting
  /\ pc[s] = "scan" => op[s] # "close"
  /\ pc[s] = "lock" => op[s] = "register"
  /\ pc[s] \in {"truncate", "write"} => op[s] \in Updates \cup {"register"}
  /\ pc[s] \in {"unlock", "unlink"} => op[s] \in {"close", "register"}
  /\ pc[s] = "unguard" => ret[s] \in {OnFailure(op[s]), OnSuccess(op[s])}
Control == \A s \in Sessions : ControlOf(s)

\* The record is there and locked from before its first write until the close.
OwnRecordOf(s) ==
  /\ Live(s) \/ pc[s] \in {"truncate", "write"} => s \in files /\ s \in locked
  /\ pc[s] = "lock" => s \in files
OwnRecord == \A s \in Sessions : OwnRecordOf(s)

\* A scan accounts for every active session, listed or still to come.
Deciding == {"lock", "truncate", "write"}
ScanCountsOf(s) ==
  /\ pc[s] \in Deciding \cup {"scan"} => LiveSessions \subseteq todo[s] \cup found[s]
  /\ pc[s] \in Deciding => todo[s] = {}
  /\ guard # s => found[s] = {}
ScanCounts == \A s \in Sessions : ScanCountsOf(s)

\* A registration that was let in found fewer sessions than its own limit.
Admitted ==
  \A s \in Sessions :
    op[s] = "register" /\ pc[s] \in Deciding => Cardinality(found[s]) < mem[s].limit

\* What a scan read is what each other active session wrote, while every read works.
ReadsAreTrue ==
  \A s \in Sessions : pc[s] \in Deciding \cup {"scan"} =>
    \A t \in (LiveSessions \cap found[s]) \ {s} : seen[s][t] = disk[t]

\* Access rests on a claim that is in the record, for every scan to see, and a
\* claim being written found nobody else's.
ClaimsOnDisk ==
  /\ \A s \in access :
       /\ \/ pc[s] = "up"
          \/ pc[s] = "unguard" /\ op[s] = "claimACR" /\ ret[s] = "up"
       /\ disk[s].acr
  /\ \A s \in Sessions : op[s] = "claimACR" /\ pc[s] \in Deciding =>
       mem[s].acr /\ access = {}

\* A session's limit is in its record, except while its owner rewrites it, and
\* a session being let in found fewer sessions than any of them allows.
LimitsOnDisk ==
  /\ \A s \in Sessions : Live(s) \/ op[s] = "register" => mem[s].limit \in Limits
  /\ \A s \in LiveSessions : pc[s] # "write" => disk[s].limit = mem[s].limit
  /\ \A s \in Sessions : op[s] = "register" /\ pc[s] \in Deciding =>
       \A t \in LiveSessions : Cardinality(found[s]) < mem[t].limit

-----------------------------------------------------------------------------
\* A step of one process touches nothing another one keeps to itself.
LEMMA OthersKeep ==
  ASSUME TypeOK, NEW s \in Sessions, Start(s) \/ Step(s) \/ Crash(s),
         NEW u \in Sessions, u # s
  PROVE  /\ pc'[u] = pc[u] /\ op'[u] = op[u] /\ ret'[u] = ret[u] /\ mem'[u] = mem[u]
         /\ todo'[u] = todo[u] /\ found'[u] = found[u] /\ seen'[u] = seen[u]
         /\ u \in locked' <=> u \in locked
         /\ u \in access' <=> u \in access
<1> USE DEF TypeOK
<1>1. CASE Start(s)
  BY <1>1 DEF Start, StartRegister, StartList, StartSetPorts, StartClaim, StartRelease,
     StartClose, Call
<1>2. CASE Crash(s)
  BY <1>2 DEF Crash
<1>3. CASE AcquireGuard(s) \/ GiveUpGuard(s) \/ ReleaseGuard(s)
  BY <1>3 DEF AcquireGuard, GiveUpGuard, ReleaseGuard
<1>4. CASE \E t \in Sessions : ScanEntry(s, t)
  BY <1>4 DEF ScanEntry, SkipEntry, RemoveStale, RemoveStaleFails, ReadRecord,
     ReadRecordFails, ListEntry, ScanUnchanged, Fail, Return
<1>5. CASE ReadDirFails(s) \/ FinishList(s) \/ RefuseRegister(s) \/ RefuseClaim(s)
  BY <1>5 DEF ReadDirFails, FinishList, RefuseRegister, RefuseClaim, ScanUnchanged,
     Fail, Return
<1>6. CASE CreateRecord(s) \/ LockRecord(s)
  BY <1>6 DEF CreateRecord, LockRecord, Fail, Return
<1>7. CASE ChangeRecord(s) \/ UnlockRecord(s)
  BY <1>7 DEF ChangeRecord, UnlockRecord
<1>8. CASE Truncate(s) \/ Write(s)
  BY <1>8 DEF Truncate, Write, WriteFails, Fail, Return
<1>9. CASE UnlinkRecord(s)
  BY <1>9 DEF UnlinkRecord, Return
<1>10. QED
  BY <1>1, <1>2, <1>3, <1>4, <1>5, <1>6, <1>7, <1>8, <1>9 DEF Step

\* The guard passes only from nobody to the process that steps, or back.
LEMMA GuardMoves ==
  ASSUME TypeOK, Control, NEW s \in Sessions, Start(s) \/ Step(s) \/ Crash(s)
  PROVE  \/ guard' = guard
         \/ guard = NoSession /\ guard' = s
         \/ guard = s /\ guard' = NoSession
<1>1. CASE Start(s)
  BY <1>1 DEF Start, StartRegister, StartList, StartSetPorts, StartClaim, StartRelease,
     StartClose, Call
<1>2. CASE Crash(s) \/ AcquireGuard(s) \/ GiveUpGuard(s)
  BY <1>2 DEF Crash, AcquireGuard, GiveUpGuard
<1>3. CASE ReleaseGuard(s)
  BY <1>3 DEF ReleaseGuard, Control, ControlOf, Guarded
<1>4. CASE \E t \in Sessions : ScanEntry(s, t)
  BY <1>4 DEF ScanEntry, SkipEntry, RemoveStale, RemoveStaleFails, ReadRecord,
     ReadRecordFails, ListEntry, ScanUnchanged
<1>5. CASE ReadDirFails(s) \/ FinishList(s) \/ RefuseRegister(s) \/ RefuseClaim(s)
           \/ CreateRecord(s) \/ LockRecord(s) \/ ChangeRecord(s) \/ Truncate(s)
           \/ Write(s) \/ UnlockRecord(s) \/ UnlinkRecord(s)
  BY <1>5 DEF ReadDirFails, FinishList, RefuseRegister, RefuseClaim, ScanUnchanged,
     CreateRecord, LockRecord, ChangeRecord, Truncate, Write, UnlockRecord, UnlinkRecord
<1>6. QED
  BY <1>1, <1>2, <1>3, <1>4, <1>5 DEF Step

\* A process that steps stays within the control flow of its call.
LEMMA OwnControl ==
  ASSUME TypeOK, Control, NEW s \in Sessions, Start(s) \/ Step(s) \/ Crash(s)
  PROVE  ControlOf(s)'
<1> USE SessionsAssumption DEF TypeOK, Control, ControlOf, Resting, Guarded, Updates
<1>1. CASE Start(s)
  BY <1>1 DEF Start, StartRegister, StartList, StartSetPorts, StartClaim, StartRelease,
     StartClose, Call
<1>2. CASE Crash(s)
  BY <1>2 DEF Crash
<1>3. CASE AcquireGuard(s)
  BY <1>3 DEF AcquireGuard
<1>4. CASE GiveUpGuard(s)
  BY <1>4 DEF GiveUpGuard, OnFailure
<1>5. CASE ReleaseGuard(s)
  BY <1>5 DEF ReleaseGuard, OnFailure, OnSuccess
<1>6. CASE \E t \in Sessions : ScanEntry(s, t)
  BY <1>6 DEF ScanEntry, SkipEntry, RemoveStale, RemoveStaleFails, ReadRecord,
     ReadRecordFails, ListEntry, ScanUnchanged, Fail, Return
<1>7. CASE ReadDirFails(s) \/ RefuseRegister(s) \/ RefuseClaim(s)
  BY <1>7 DEF ReadDirFails, RefuseRegister, RefuseClaim, Scanned, ScanUnchanged, Fail, Return
<1>8. CASE FinishList(s)
  BY <1>8 DEF FinishList, Scanned, Return, OnSuccess
<1>9. CASE CreateRecord(s) \/ LockRecord(s)
  BY <1>9 DEF CreateRecord, LockRecord, Scanned, Fail, Return
<1>10. CASE ChangeRecord(s)
  BY <1>10 DEF ChangeRecord, Scanned
<1>11. CASE Truncate(s)
  BY <1>11 DEF Truncate, WriteFails, Fail, Return
<1>12. CASE Write(s)
  BY <1>12 DEF Write, WriteFails, Fail, Return
<1>13. CASE UnlockRecord(s)
  BY <1>13 DEF UnlockRecord
<1>14. CASE UnlinkRecord(s)
  BY <1>14 DEF UnlinkRecord, Return, OnFailure
<1>15. QED
  BY <1>1, <1>2, <1>3, <1>4, <1>5, <1>6, <1>7, <1>8, <1>9, <1>10, <1>11, <1>12, <1>13,
     <1>14 DEF Step

\* At most one process at a time is inside the guarded steps of a call.
THEOREM GuardExcludes == Spec => []Control
<1>1. Init => Control
  BY SessionsAssumption DEF Init, Control, ControlOf, Resting, Guarded
<1>2. TypeOK /\ Control /\ [Next]_vars => Control'
  <2> SUFFICES ASSUME TypeOK, Control, [Next]_vars PROVE Control'
    OBVIOUS
  <2>1. CASE UNCHANGED vars
    BY <2>1 DEF Control, ControlOf, vars
  <2>2. ASSUME NEW s \in Sessions, Start(s) \/ Step(s) \/ Crash(s) PROVE Control'
    <3>1. ASSUME NEW u \in Sessions, u # s PROVE ControlOf(u)'
      BY <2>2, <3>1, OthersKeep, GuardMoves, SessionsAssumption DEF Control, ControlOf
    <3>2. QED
      BY <2>2, <3>1, OwnControl DEF Control
  <2>3. QED
    BY <2>1, <2>2 DEF Next
<1>3. QED
  BY <1>1, <1>2, TypeCorrect, PTL DEF Spec

-----------------------------------------------------------------------------
\* Only the first write of a registration makes a session active.
LEMMA LiveGrows ==
  ASSUME TypeOK, Control, NEW s \in Sessions, Start(s) \/ Step(s) \/ Crash(s),
         NEW u \in LiveSessions', u \notin LiveSessions
  PROVE  /\ u = s /\ Write(s) /\ op[s] = "register"
         /\ pc'[s] = "unguard" /\ disk'[s] = mem[s]
<1> USE DEF TypeOK, Control, ControlOf, Resting, Guarded, Updates, LiveSessions, Live
<1>1. u = s
  BY OthersKeep
<1>2. CASE Start(s)
  BY <1>1, <1>2 DEF Start, StartRegister, StartList, StartSetPorts, StartClaim, StartRelease,
     StartClose, Call
<1>3. CASE Crash(s)
  BY <1>1, <1>3 DEF Crash
<1>4. CASE AcquireGuard(s)
  BY <1>1, <1>4 DEF AcquireGuard
<1>5. CASE GiveUpGuard(s)
  BY <1>1, <1>5 DEF GiveUpGuard, OnFailure
<1>6. CASE ReleaseGuard(s)
  BY <1>1, <1>6 DEF ReleaseGuard, OnFailure, OnSuccess
<1>7. CASE \E t \in Sessions : ScanEntry(s, t)
  BY <1>1, <1>7 DEF ScanEntry, SkipEntry, RemoveStale, RemoveStaleFails, ReadRecord,
     ReadRecordFails, ListEntry, ScanUnchanged, Fail, Return, OnFailure
<1>8. CASE ReadDirFails(s) \/ RefuseRegister(s) \/ RefuseClaim(s)
  BY <1>1, <1>8 DEF ReadDirFails, RefuseRegister, RefuseClaim, ScanUnchanged, Fail, Return,
     OnFailure
<1>9. CASE FinishList(s)
  BY <1>1, <1>9 DEF FinishList, Return
<1>10. CASE CreateRecord(s) \/ LockRecord(s)
  BY <1>1, <1>10 DEF CreateRecord, LockRecord, Scanned, Fail, Return, OnFailure
<1>11. CASE ChangeRecord(s)
  BY <1>1, <1>11 DEF ChangeRecord, Scanned
<1>12. CASE Truncate(s)
  BY <1>1, <1>12 DEF Truncate, WriteFails, Fail, Return, OnFailure
<1>13. CASE Write(s)
  BY <1>1, <1>13 DEF Write, WriteFails, Fail, Return, OnFailure, OnSuccess
<1>14. CASE UnlockRecord(s)
  BY <1>1, <1>14 DEF UnlockRecord
<1>15. CASE UnlinkRecord(s)
  BY <1>1, <1>15 DEF UnlinkRecord, Return
<1>16. QED
  BY <1>2, <1>3, <1>4, <1>5, <1>6, <1>7, <1>8, <1>9, <1>10, <1>11, <1>12, <1>13, <1>14,
     <1>15 DEF Step

\* No step removes the record of another process that has it locked, or that is
\* about to lock it under the guard.
LEMMA RecordsSurvive ==
  ASSUME TypeOK, Control, NEW s \in Sessions, Start(s) \/ Step(s) \/ Crash(s),
         NEW u \in Sessions, u # s, u \in files, u \in locked \/ pc[u] = "lock"
  PROVE  u \in files'
<1> USE DEF TypeOK
<1>1. CASE Start(s)
  BY <1>1 DEF Start, StartRegister, StartList, StartSetPorts, StartClaim, StartRelease,
     StartClose, Call
<1>2. CASE \E t \in Sessions : ScanEntry(s, t)
  <2>1. pc[u] # "lock"
    BY <1>2 DEF Control, ControlOf, Guarded, ScanEntry, SkipEntry, RemoveStale,
       RemoveStaleFails, ReadRecord, ReadRecordFails
  <2>2. QED
    BY <1>2, <2>1 DEF ScanEntry, SkipEntry, RemoveStale, RemoveStaleFails, ReadRecord,
       ReadRecordFails, ListEntry
<1>3. CASE Crash(s) \/ AcquireGuard(s) \/ GiveUpGuard(s) \/ ReleaseGuard(s)
           \/ ReadDirFails(s) \/ FinishList(s) \/ RefuseRegister(s) \/ RefuseClaim(s)
           \/ ChangeRecord(s) \/ Truncate(s) \/ Write(s) \/ UnlockRecord(s)
  BY <1>3 DEF Crash, AcquireGuard, GiveUpGuard, ReleaseGuard, ReadDirFails, FinishList,
     RefuseRegister, RefuseClaim, ChangeRecord, Truncate, Write, UnlockRecord
<1>4. CASE CreateRecord(s) \/ LockRecord(s) \/ UnlinkRecord(s)
  BY <1>4 DEF CreateRecord, LockRecord, UnlinkRecord
<1>5. QED
  BY <1>1, <1>2, <1>3, <1>4 DEF Step

\* A process that steps keeps its own record while it needs it.
LEMMA OwnRecordKept ==
  ASSUME TypeOK, Control, OwnRecord, NEW s \in Sessions, Start(s) \/ Step(s) \/ Crash(s)
  PROVE  OwnRecordOf(s)'
<1> USE DEF TypeOK, Control, ControlOf, OwnRecord, OwnRecordOf, Resting, Guarded, Updates, Live
<1>2. CASE Start(s)
  BY <1>2 DEF Start, StartRegister, StartList, StartSetPorts, StartClaim, StartRelease,
     StartClose, Call
<1>3. CASE Crash(s)
  BY <1>3 DEF Crash
<1>4. CASE AcquireGuard(s)
  BY <1>4 DEF AcquireGuard
<1>5. CASE GiveUpGuard(s)
  BY <1>5 DEF GiveUpGuard, OnFailure
<1>6. CASE ReleaseGuard(s)
  BY <1>6 DEF ReleaseGuard, OnFailure, OnSuccess
<1>7. CASE \E t \in Sessions : ScanEntry(s, t)
  BY <1>7 DEF ScanEntry, SkipEntry, RemoveStale, RemoveStaleFails, ReadRecord,
     ReadRecordFails, ListEntry, ScanUnchanged, Fail, Return, OnFailure
<1>8. CASE ReadDirFails(s) \/ RefuseRegister(s) \/ RefuseClaim(s)
  BY <1>8 DEF ReadDirFails, RefuseRegister, RefuseClaim, ScanUnchanged, Fail, Return,
     OnFailure
<1>9. CASE FinishList(s)
  BY <1>9 DEF FinishList, Return
<1>10. CASE CreateRecord(s) \/ LockRecord(s)
  BY <1>10 DEF CreateRecord, LockRecord, Scanned, Fail, Return, OnFailure
<1>11. CASE ChangeRecord(s)
  BY <1>11 DEF ChangeRecord, Scanned
<1>12. CASE Truncate(s)
  BY <1>12 DEF Truncate, WriteFails, Fail, Return, OnFailure
<1>13. CASE Write(s)
  BY <1>13 DEF Write, WriteFails, Fail, Return, OnFailure, OnSuccess
<1>14. CASE UnlockRecord(s)
  BY <1>14 DEF UnlockRecord
<1>15. CASE UnlinkRecord(s)
  BY <1>15 DEF UnlinkRecord, Return
<1>16. QED
  BY <1>2, <1>3, <1>4, <1>5, <1>6, <1>7, <1>8, <1>9, <1>10, <1>11, <1>12, <1>13, <1>14,
     <1>15 DEF Step

\* The strengthening of RecordKept is an invariant.
LEMMA RecordsOwned == Spec => []OwnRecord
<1>1. Init => OwnRecord
  BY DEF Init, OwnRecord, OwnRecordOf, Live, Updates
<1>2. TypeOK /\ Control /\ OwnRecord /\ [Next]_vars => OwnRecord'
  <2> SUFFICES ASSUME TypeOK, Control, OwnRecord, [Next]_vars PROVE OwnRecord'
    OBVIOUS
  <2>1. CASE UNCHANGED vars
    BY <2>1 DEF OwnRecord, OwnRecordOf, Live, vars
  <2>2. ASSUME NEW s \in Sessions, Start(s) \/ Step(s) \/ Crash(s) PROVE OwnRecord'
    <3>1. ASSUME NEW u \in Sessions, u # s PROVE OwnRecordOf(u)'
      BY <2>2, <3>1, OthersKeep, RecordsSurvive DEF OwnRecord, OwnRecordOf, Live
    <3>2. QED
      BY <2>2, <3>1, OwnRecordKept DEF OwnRecord
  <2>3. QED
    BY <2>1, <2>2 DEF Next
<1>3. QED
  BY <1>1, <1>2, TypeCorrect, GuardExcludes, PTL DEF Spec

\* No scan removes the record of an active session, and the session holds its
\* lock: scanSessions against a crash, a close without the guard, and a record
\* that registerSession has created but not locked yet.
THEOREM RecordsKept == Spec => []RecordKept
<1>1. OwnRecord => RecordKept
  BY DEF OwnRecord, OwnRecordOf, RecordKept, LiveSessions
<1>2. QED
  BY <1>1, RecordsOwned, PTL

-----------------------------------------------------------------------------
\* While one process is inside the guard, another one admits nobody.
LEMMA NobodyJoins ==
  ASSUME TypeOK, Control, NEW s \in Sessions, Start(s) \/ Step(s) \/ Crash(s),
         NEW u \in Sessions, u # s, pc[u] \in Guarded
  PROVE  LiveSessions' \subseteq LiveSessions
BY LiveGrows DEF Control, ControlOf, Guarded, Write

\* The scan of the process that steps still accounts for every active session.
LEMMA OwnScanCounts ==
  ASSUME TypeOK, Control, OwnRecord, ScanCounts,
         NEW s \in Sessions, Start(s) \/ Step(s) \/ Crash(s)
  PROVE  ScanCountsOf(s)'
<1> USE SessionsAssumption DEF TypeOK, Control, ControlOf, ScanCounts, ScanCountsOf, Deciding
<1>1. \A u \in LiveSessions : u \in files /\ u \in locked
  BY DEF OwnRecord, OwnRecordOf, LiveSessions
<1>2. pc'[s] \in Deciding \cup {"scan"} => LiveSessions' \subseteq LiveSessions
  BY LiveGrows
<1>3. CASE Start(s)
  BY <1>3 DEF Start, StartRegister, StartList, StartSetPorts, StartClaim, StartRelease,
     StartClose, Call, Guarded
<1>4. CASE Crash(s)
  BY <1>4 DEF Crash
<1>5. CASE AcquireGuard(s)
  BY <1>1, <1>2, <1>5 DEF AcquireGuard
<1>6. CASE GiveUpGuard(s)
  BY <1>6 DEF GiveUpGuard, OnFailure
<1>7. CASE ReleaseGuard(s)
  BY <1>7 DEF ReleaseGuard, OnFailure, OnSuccess
<1>8. CASE \E t \in Sessions : ScanEntry(s, t)
  <2>1. PICK t \in Sessions : ScanEntry(s, t)
    BY <1>8
  <2>2. CASE SkipEntry(s, t) \/ RemoveStale(s, t)
    BY <1>1, <1>2, <2>2 DEF SkipEntry, RemoveStale, ScanUnchanged, Guarded
  <2>3. CASE RemoveStaleFails(s, t)
    BY <2>3 DEF RemoveStaleFails, ScanUnchanged, Fail, Return, Guarded
  <2>4. CASE ReadRecord(s, t) \/ ReadRecordFails(s, t)
    BY <1>2, <2>4 DEF ReadRecord, ReadRecordFails, ListEntry, ScanUnchanged, Guarded
  <2>5. QED
    BY <2>1, <2>2, <2>3, <2>4 DEF ScanEntry
<1>9. CASE ReadDirFails(s) \/ RefuseRegister(s) \/ RefuseClaim(s) \/ FinishList(s)
  BY <1>9 DEF ReadDirFails, RefuseRegister, RefuseClaim, FinishList, Scanned, ScanUnchanged,
     Fail, Return, Guarded
<1>10. CASE CreateRecord(s) \/ LockRecord(s)
  BY <1>2, <1>10 DEF CreateRecord, LockRecord, Scanned, Fail, Return, Guarded
<1>11. CASE ChangeRecord(s)
  BY <1>2, <1>11 DEF ChangeRecord, Scanned, Guarded
<1>12. CASE Truncate(s)
  BY <1>2, <1>12 DEF Truncate, WriteFails, Fail, Return, Guarded
<1>13. CASE Write(s)
  BY <1>13 DEF Write, WriteFails, Fail, Return, Guarded
<1>14. CASE UnlockRecord(s)
  BY <1>14 DEF UnlockRecord
<1>15. CASE UnlinkRecord(s)
  BY <1>15 DEF UnlinkRecord, Return
<1>16. QED
  BY <1>3, <1>4, <1>5, <1>6, <1>7, <1>8, <1>9, <1>10, <1>11, <1>12, <1>13, <1>14, <1>15
     DEF Step

\* Every scan accounts for every active session.
LEMMA ScansCount == Spec => []ScanCounts
<1>1. Init => ScanCounts
  BY DEF Init, ScanCounts, ScanCountsOf, Deciding
<1>2. TypeOK /\ Control /\ OwnRecord /\ ScanCounts /\ [Next]_vars => ScanCounts'
  <2> SUFFICES ASSUME TypeOK, Control, OwnRecord, ScanCounts, [Next]_vars PROVE ScanCounts'
    OBVIOUS
  <2>1. CASE UNCHANGED vars
    BY <2>1 DEF ScanCounts, ScanCountsOf, LiveSessions, Live, vars
  <2>2. ASSUME NEW s \in Sessions, Start(s) \/ Step(s) \/ Crash(s) PROVE ScanCounts'
    <3>1. ASSUME NEW u \in Sessions, u # s PROVE ScanCountsOf(u)'
      <4>1. guard' # u => guard # u
        BY <2>2, <3>1, GuardMoves, SessionsAssumption
      <4>2. pc'[u] = pc[u] /\ todo'[u] = todo[u] /\ found'[u] = found[u]
        BY <2>2, <3>1, OthersKeep
      <4>3. pc[u] \in Deciding \cup {"scan"} => LiveSessions' \subseteq LiveSessions
        BY <2>2, <3>1, NobodyJoins DEF Deciding, Guarded
      <4>4. QED
        BY <4>1, <4>2, <4>3 DEF ScanCounts, ScanCountsOf
    <3>2. QED
      BY <2>2, <3>1, OwnScanCounts DEF ScanCounts
  <2>3. QED
    BY <2>1, <2>2 DEF Next
<1>3. QED
  BY <1>1, <1>2, TypeCorrect, GuardExcludes, RecordsOwned, PTL DEF Spec

\* What a scan found is a finite set, and limits are numbers.
LEMMA Counts ==
  ASSUME TypeOK, NEW s \in Sessions
  PROVE  /\ Cardinality(found[s]) \in Nat /\ IsFiniteSet(found[s])
         /\ mem[s].limit \in Nat
<1>1. IsFiniteSet(found[s])
  BY SessionsAssumption, FS_Subset DEF TypeOK
<1>2. mem[s].limit \in Nat
  <2>1. mem[s] \in [limit : Limits \cup {0}, acr : BOOLEAN]
    BY DEF TypeOK, Record
  <2>2. mem[s].limit \in Limits \cup {0}
    BY <2>1
  <2>3. \A n \in Limits \cup {0} : n \in Nat
    BY LimitsAssumption
  <2>4. QED
    BY <2>2, <2>3, Zenon
<1>3. QED
  BY <1>1, <1>2, FS_CardinalityType

\* Only creating its record lets a registration in.
LEMMA OnlyCreateAdmits ==
  ASSUME TypeOK, Control, NEW s \in Sessions, Start(s) \/ Step(s) \/ Crash(s),
         op'[s] = "register", pc'[s] \in Deciding
  PROVE  /\ op[s] = "register" /\ found'[s] = found[s] /\ mem'[s] = mem[s]
         /\ pc[s] \in Deciding \/ (Scanned(s) /\ ~Full(s))
<1> USE DEF TypeOK, Control, ControlOf, Deciding, Guarded, Resting
<1>1. CASE Start(s)
  BY <1>1 DEF Start, StartRegister, StartList, StartSetPorts, StartClaim, StartRelease,
     StartClose, Call
<1>2. CASE Crash(s) \/ AcquireGuard(s) \/ UnlockRecord(s)
  BY <1>2 DEF Crash, AcquireGuard, UnlockRecord
<1>3. CASE GiveUpGuard(s) \/ ReleaseGuard(s)
  BY <1>3 DEF GiveUpGuard, ReleaseGuard
<1>4. CASE \E t \in Sessions : ScanEntry(s, t)
  BY <1>4 DEF ScanEntry, SkipEntry, RemoveStale, RemoveStaleFails, ReadRecord,
     ReadRecordFails, ListEntry, ScanUnchanged, Fail, Return
<1>5. CASE ReadDirFails(s) \/ FinishList(s) \/ RefuseRegister(s) \/ RefuseClaim(s)
  BY <1>5 DEF ReadDirFails, FinishList, RefuseRegister, RefuseClaim, Fail, Return
<1>6. CASE CreateRecord(s)
  BY <1>6 DEF CreateRecord, Fail, Return
<1>7. CASE LockRecord(s)
  BY <1>7 DEF LockRecord, Fail, Return
<1>8. CASE ChangeRecord(s)
  BY <1>8 DEF ChangeRecord, Updates
<1>9. CASE Truncate(s)
  BY <1>9 DEF Truncate, WriteFails, Fail, Return
<1>10. CASE Write(s)
  BY <1>10 DEF Write, WriteFails, Fail, Return
<1>11. CASE UnlinkRecord(s)
  BY <1>11 DEF UnlinkRecord, Return
<1>12. QED
  BY <1>1, <1>2, <1>3, <1>4, <1>5, <1>6, <1>7, <1>8, <1>9, <1>10, <1>11 DEF Step

\* A registration that was let in found fewer sessions than its own limit.
LEMMA AdmissionsCounted == Spec => []Admitted
<1>1. Init => Admitted
  BY DEF Init, Admitted
<1>2. TypeOK /\ Control /\ Admitted /\ [Next]_vars => Admitted'
  <2> SUFFICES ASSUME TypeOK, Control, Admitted, [Next]_vars PROVE Admitted'
    OBVIOUS
  <2>1. CASE UNCHANGED vars
    BY <2>1 DEF Admitted, vars
  <2>2. ASSUME NEW s \in Sessions, Start(s) \/ Step(s) \/ Crash(s) PROVE Admitted'
    <3>1. ASSUME NEW u \in Sessions, op'[u] = "register", pc'[u] \in Deciding
          PROVE Cardinality(found'[u]) < mem'[u].limit
      <4>1. CASE u # s
        BY <2>2, <3>1, <4>1, OthersKeep DEF Admitted
      <4>2. CASE u = s
        <5>1. ~Full(s) => ~(Cardinality(found[s]) >= mem[s].limit)
          BY DEF Full, LimitsInForce
        <5>2. QED
          BY <2>2, <3>1, <4>2, <5>1, Counts, OnlyCreateAdmits DEF Admitted
      <4>3. QED
        BY <4>1, <4>2
    <3>2. QED
      BY <3>1 DEF Admitted, Deciding
  <2>3. QED
    BY <2>1, <2>2 DEF Next
<1>3. QED
  BY <1>1, <1>2, TypeCorrect, GuardExcludes, PTL DEF Spec

\* When a registration becomes active, the active sessions are at most one more
\* than its scan found.
LEMMA JoinCounts ==
  ASSUME TypeOK, Control, ScanCounts, NEW s \in Sessions, Start(s) \/ Step(s) \/ Crash(s),
         NEW u \in LiveSessions', u \notin LiveSessions
  PROVE  Cardinality(LiveSessions') <= Cardinality(found[s]) + 1
<1>1. u = s /\ Write(s) /\ op[s] = "register"
  BY LiveGrows
<1>2. LiveSessions \subseteq found[s]
  BY <1>1 DEF ScanCounts, ScanCountsOf, Deciding, Write
<1>3. LiveSessions' \subseteq found[s] \cup {s}
  BY <1>2, LiveGrows
<1>4. IsFiniteSet(found[s] \cup {s}) /\ Cardinality(found[s] \cup {s}) <= Cardinality(found[s]) + 1
  <2>1. IsFiniteSet(found[s]) /\ Cardinality(found[s]) \in Nat
    BY Counts
  <2>2. /\ IsFiniteSet(found[s] \cup {s})
        /\ Cardinality(found[s] \cup {s}) =
             IF s \in found[s] THEN Cardinality(found[s]) ELSE Cardinality(found[s]) + 1
    BY <2>1, FS_AddElement
  <2>3. QED
    BY <2>1, <2>2
<1>5. Cardinality(LiveSessions') <= Cardinality(found[s] \cup {s})
  BY <1>3, <1>4, FS_Subset
<1>6. Cardinality(LiveSessions') \in Nat /\ Cardinality(found[s] \cup {s}) \in Nat
  BY <1>3, <1>4, FS_Subset, FS_CardinalityType
<1>7. QED
  BY <1>4, <1>5, <1>6, Counts

\* Whatever file operations fail, registerSession only admits a session while
\* the active sessions are fewer than the limit it brings.
THEOREM AdmissionLimited == Spec => AdmittedWithinOwnLimit
<1>1. TypeOK /\ Control /\ ScanCounts /\ Admitted /\ [Next]_vars =>
        [\A s \in LiveSessions' \ LiveSessions :
           Cardinality(LiveSessions') <= mem'[s].limit]_vars
  <2> SUFFICES ASSUME TypeOK, Control, ScanCounts, Admitted, [Next]_vars,
                      NEW u \in LiveSessions', u \notin LiveSessions
               PROVE Cardinality(LiveSessions') <= mem'[u].limit \/ UNCHANGED vars
    OBVIOUS
  <2>1. CASE UNCHANGED vars
    BY <2>1
  <2>2. ASSUME NEW s \in Sessions, Start(s) \/ Step(s) \/ Crash(s)
        PROVE Cardinality(LiveSessions') <= mem'[u].limit
    <3>1. u = s /\ Write(s) /\ op[s] = "register"
      BY <2>2, LiveGrows
    <3>2. mem' = mem /\ Cardinality(found[s]) < mem[s].limit
      BY <3>1 DEF Write, Admitted, Deciding
    <3>3. Cardinality(LiveSessions') <= Cardinality(found[s]) + 1
      BY <2>2, JoinCounts
    <3>4. Cardinality(LiveSessions') \in Nat
      <4>1. IsFiniteSet(LiveSessions')
        BY SessionsAssumption, FS_Subset DEF LiveSessions
      <4>2. QED
        BY <4>1, FS_CardinalityType
    <3>5. QED
      BY <3>1, <3>2, <3>3, <3>4, Counts
  <2>3. QED
    BY <2>1, <2>2 DEF Next
<1>2. QED
  BY <1>1, TypeCorrect, GuardExcludes, ScansCount, AdmissionsCounted, PTL
     DEF Spec, AdmittedWithinOwnLimit

-----------------------------------------------------------------------------
(* The lowest limit rule, while records can be read and written.           *)

\* A record changes only in the hands of its owner, or once nobody locks it.
LEMMA DiskKept ==
  ASSUME TypeOK, NEW s \in Sessions, Start(s) \/ Step(s) \/ Crash(s),
         NEW u \in locked, u # s
  PROVE  disk'[u] = disk[u]
<1> USE DEF TypeOK
<1>1. CASE Start(s)
  BY <1>1 DEF Start, StartRegister, StartList, StartSetPorts, StartClaim, StartRelease,
     StartClose, Call
<1>2. CASE \E t \in Sessions : ScanEntry(s, t)
  BY <1>2 DEF ScanEntry, SkipEntry, RemoveStale, RemoveStaleFails, ReadRecord,
     ReadRecordFails, ListEntry
<1>3. CASE Crash(s) \/ AcquireGuard(s) \/ GiveUpGuard(s) \/ ReleaseGuard(s)
           \/ ReadDirFails(s) \/ FinishList(s) \/ RefuseRegister(s) \/ RefuseClaim(s)
           \/ ChangeRecord(s) \/ CreateRecord(s) \/ LockRecord(s) \/ UnlockRecord(s)
  BY <1>3 DEF Crash, AcquireGuard, GiveUpGuard, ReleaseGuard, ReadDirFails, FinishList,
     RefuseRegister, RefuseClaim, ChangeRecord, CreateRecord, LockRecord, UnlockRecord
<1>4. CASE Truncate(s) \/ Write(s) \/ UnlinkRecord(s)
  BY <1>4 DEF Truncate, Write, WriteFails, UnlinkRecord
<1> QED  BY <1>1, <1>2, <1>3, <1>4 DEF Step

\* Outside the guard an active session does not touch its own record.
LEMMA OwnDiskKept ==
  ASSUME TypeOK, Control, NEW s \in Sessions, Start(s) \/ Step(s) \/ Crash(s),
         Live(s), pc[s] \notin Guarded
  PROVE  disk' = disk
<1> USE DEF TypeOK, Guarded
<1>1. CASE Start(s)
  BY <1>1 DEF Start, StartRegister, StartList, StartSetPorts, StartClaim, StartRelease,
     StartClose, Call
<1>2. CASE Crash(s) \/ AcquireGuard(s) \/ GiveUpGuard(s) \/ ReleaseGuard(s)
  BY <1>2 DEF Crash, AcquireGuard, GiveUpGuard, ReleaseGuard
<1>3. CASE \E t \in Sessions : ScanEntry(s, t)
  BY <1>3 DEF ScanEntry, SkipEntry, RemoveStale, RemoveStaleFails, ReadRecord,
     ReadRecordFails
<1>4. CASE ReadDirFails(s) \/ FinishList(s) \/ RefuseRegister(s) \/ RefuseClaim(s)
           \/ ChangeRecord(s) \/ CreateRecord(s) \/ LockRecord(s) \/ UnlockRecord(s)
  BY <1>4 DEF ReadDirFails, FinishList, RefuseRegister, RefuseClaim, ChangeRecord,
     CreateRecord, LockRecord, UnlockRecord
<1>5. CASE Truncate(s) \/ Write(s)
  BY <1>5 DEF Truncate, Write
<1>6. CASE UnlinkRecord(s)
  BY <1>6 DEF UnlinkRecord, Live, Control, ControlOf, Updates
<1> QED  BY <1>1, <1>2, <1>3, <1>4, <1>5, <1>6 DEF Step

\* The limit a session brought stays with it for as long as it is active.
LEMMA LimitKept ==
  ASSUME TypeOK, Control, NEW s \in Sessions, Start(s) \/ Step(s) \/ Crash(s),
         Live(s) \/ (op[s] = "register" /\ op'[s] = "register"), Live(s)' \/ op'[s] = "register"
  PROVE  mem'[s].limit = mem[s].limit
<1> USE DEF TypeOK, Control, ControlOf, Live, Updates, Resting, Guarded
<1>1. CASE Start(s)
  BY <1>1 DEF Start, StartRegister, StartList, StartSetPorts, StartClaim, StartRelease,
     StartClose, Call
<1>2. CASE Crash(s)
  BY <1>2 DEF Crash
<1>3. CASE AcquireGuard(s)
  BY <1>3 DEF AcquireGuard
<1>4. CASE GiveUpGuard(s)
  BY <1>4 DEF GiveUpGuard, OnFailure
<1>5. CASE ReleaseGuard(s)
  BY <1>5 DEF ReleaseGuard, OnFailure, OnSuccess
<1>6. CASE \E t \in Sessions : ScanEntry(s, t)
  BY <1>6 DEF ScanEntry, SkipEntry, RemoveStale, RemoveStaleFails, ReadRecord,
     ReadRecordFails, ListEntry, ScanUnchanged
<1>7. CASE ReadDirFails(s) \/ FinishList(s) \/ RefuseRegister(s) \/ RefuseClaim(s)
           \/ CreateRecord(s) \/ LockRecord(s) \/ UnlockRecord(s) \/ Truncate(s) \/ Write(s)
  BY <1>7 DEF ReadDirFails, FinishList, RefuseRegister, RefuseClaim, CreateRecord, LockRecord,
     UnlockRecord, Truncate, Write, ScanUnchanged
<1>8. CASE ChangeRecord(s)
  <2>1. PICK b : mem' = [mem EXCEPT ![s] = [mem[s] EXCEPT !.acr = b]]
    BY <1>8, Zenon DEF ChangeRecord
  <2>2. mem[s] \in [limit : Limits \cup {0}, acr : BOOLEAN]
    BY DEF Record
  <2> QED  BY <2>1, <2>2
<1>9. CASE UnlinkRecord(s)
  BY <1>9 DEF UnlinkRecord, Return
<1> QED  BY <1>1, <1>2, <1>3, <1>4, <1>5, <1>6, <1>7, <1>8, <1>9 DEF Step

\* Every call that registers brings a limit of its own.
LEMMA LimitBrought ==
  ASSUME TypeOK, Control, NEW s \in Sessions, Start(s) \/ Step(s) \/ Crash(s),
         op'[s] = "register", op[s] # "register"
  PROVE  mem'[s].limit \in Limits
<1> USE DEF TypeOK, Updates
<1>1. CASE Start(s)
  BY <1>1 DEF Start, StartRegister, StartList, StartSetPorts, StartClaim, StartRelease,
     StartClose, Call, NewRecord
<1>2. CASE Crash(s) \/ AcquireGuard(s) \/ GiveUpGuard(s) \/ ReleaseGuard(s)
  BY <1>2 DEF Crash, AcquireGuard, GiveUpGuard, ReleaseGuard
<1>3. CASE \E t \in Sessions : ScanEntry(s, t)
  BY <1>3 DEF ScanEntry, SkipEntry, RemoveStale, RemoveStaleFails, ReadRecord,
     ReadRecordFails, ListEntry, ScanUnchanged
<1>4. CASE ReadDirFails(s) \/ FinishList(s) \/ RefuseRegister(s) \/ RefuseClaim(s)
           \/ ChangeRecord(s) \/ CreateRecord(s) \/ LockRecord(s) \/ UnlockRecord(s)
           \/ Truncate(s) \/ Write(s) \/ UnlinkRecord(s)
  BY <1>4 DEF ReadDirFails, FinishList, RefuseRegister, RefuseClaim, ChangeRecord,
     CreateRecord, LockRecord, UnlockRecord, Truncate, Write, UnlinkRecord, ScanUnchanged
<1> QED  BY <1>1, <1>2, <1>3, <1>4 DEF Step

\* An owner that changes its record writes it before anybody reads it.
LEMMA OwnDisk ==
  ASSUME TypeOK, Control, OwnRecord, LimitsOnDisk, "write" \notin Faults,
         NEW s \in Sessions, Start(s) \/ Step(s) \/ Crash(s), Live(s)', pc'[s] # "write"
  PROVE  disk'[s].limit = mem'[s].limit
<1>1. CASE ~Live(s)
  <2>1. Write(s) /\ disk'[s] = mem[s]
    BY <1>1, LiveGrows DEF LiveSessions
  <2> QED  BY <2>1 DEF Write
<1>2. CASE Live(s)
  <2>1. mem'[s].limit = mem[s].limit
    BY <1>2, LimitKept
  <2>2. pc[s] # "write" => disk[s].limit = mem[s].limit
    BY <1>2 DEF LimitsOnDisk, LiveSessions
  <2>3. s \in locked /\ s \in files
    BY <1>2 DEF OwnRecord, OwnRecordOf
  <2>4. CASE pc[s] \notin Guarded
    BY <1>2, <2>1, <2>2, <2>4, OwnDiskKept DEF Guarded
  <2>5. CASE pc[s] = "write"
    <3>1. Crash(s) \/ Write(s)
      BY <2>5 DEF Start, StartRegister, StartList, StartSetPorts, StartClaim, StartRelease,
         StartClose, Step, AcquireGuard, GiveUpGuard, ReleaseGuard, ScanEntry, SkipEntry,
         RemoveStale, RemoveStaleFails, ReadRecord, ReadRecordFails, ReadDirFails, FinishList,
         RefuseRegister, RefuseClaim, CreateRecord, LockRecord, ChangeRecord, Scanned,
         Truncate, UnlockRecord, UnlinkRecord
    <3>2. CASE Crash(s)
      BY <3>2 DEF Crash, Live, Updates, TypeOK
    <3>3. CASE Write(s)
      BY <3>3 DEF Write, WriteFails, TypeOK
    <3> QED  BY <3>1, <3>2, <3>3
  <2>6. CASE pc[s] \in Guarded \ {"write"}
    <3>1. disk'[s] = disk[s]
      <4> USE <2>6 DEF TypeOK, Guarded
      <4>1. CASE Start(s)
        BY <4>1 DEF Start, StartRegister, StartList, StartSetPorts, StartClaim, StartRelease,
           StartClose, Call
      <4>2. CASE Crash(s) \/ AcquireGuard(s) \/ GiveUpGuard(s) \/ ReleaseGuard(s)
        BY <4>2 DEF Crash, AcquireGuard, GiveUpGuard, ReleaseGuard
      <4>3. CASE \E t \in Sessions : ScanEntry(s, t)
        BY <2>3, <4>3 DEF ScanEntry, SkipEntry, RemoveStale, RemoveStaleFails, ReadRecord,
           ReadRecordFails, ListEntry
      <4>4. CASE ReadDirFails(s) \/ FinishList(s) \/ RefuseRegister(s) \/ RefuseClaim(s)
                 \/ ChangeRecord(s) \/ CreateRecord(s) \/ LockRecord(s) \/ UnlockRecord(s)
        BY <4>4 DEF ReadDirFails, FinishList, RefuseRegister, RefuseClaim, ChangeRecord,
           CreateRecord, LockRecord, UnlockRecord
      <4>5. CASE Truncate(s)
        BY <4>5 DEF Truncate, WriteFails
      <4>6. CASE Write(s) \/ UnlinkRecord(s)
        BY <4>6 DEF Write, UnlinkRecord
      <4> QED  BY <4>1, <4>2, <4>3, <4>4, <4>5, <4>6 DEF Step
    <3> QED  BY <2>1, <2>2, <2>6, <3>1
  <2> QED  BY <2>4, <2>5, <2>6
<1> QED  BY <1>1, <1>2

\* While reads work, a scan knows what every active session wrote.
LEMMA OwnReads ==
  ASSUME TypeOK, Control, OwnRecord, ScanCounts, ReadsAreTrue, "read" \notin Faults,
         NEW s \in Sessions, Start(s) \/ Step(s) \/ Crash(s), pc'[s] \in Deciding \cup {"scan"},
         NEW t \in LiveSessions, t \in found'[s], t # s
  PROVE  seen'[s][t] = disk'[t]
<1> USE DEF TypeOK, Deciding
<1>1. t \in locked /\ disk'[t] = disk[t]
  BY DiskKept DEF OwnRecord, OwnRecordOf, LiveSessions
<1>2. pc[s] \in Deciding \cup {"scan"} /\ t \in found[s] => seen[s][t] = disk[t]
  BY DEF ReadsAreTrue
<1>3. CASE Start(s)
  BY <1>3 DEF Start, StartRegister, StartList, StartSetPorts, StartClaim, StartRelease,
     StartClose, Call
<1>4. CASE Crash(s) \/ GiveUpGuard(s) \/ ReleaseGuard(s) \/ UnlockRecord(s) \/ UnlinkRecord(s)
  BY <1>4 DEF Crash, GiveUpGuard, ReleaseGuard, UnlockRecord, UnlinkRecord, Return, OnFailure,
     Control, ControlOf, Updates, Resting, Guarded, OnSuccess
<1>5. CASE AcquireGuard(s)
  <2>1. found'[s] = found[s] /\ guard # s
    BY <1>5, SessionsAssumption DEF AcquireGuard
  <2> QED  BY <2>1 DEF ScanCounts, ScanCountsOf
<1>6. ASSUME NEW e \in Sessions, ScanEntry(s, e) PROVE seen'[s][t] = disk'[t]
  <2>1. CASE SkipEntry(s, e) \/ RemoveStale(s, e)
    BY <1>1, <1>2, <2>1 DEF SkipEntry, RemoveStale
  <2>2. CASE RemoveStaleFails(s, e)
    BY <2>2 DEF RemoveStaleFails, Fail, Return
  <2>3. CASE ReadRecord(s, e)
    BY <1>1, <1>2, <2>3 DEF ReadRecord, ListEntry
  <2>4. CASE ReadRecordFails(s, e)
    BY <2>4 DEF ReadRecordFails
  <2> QED  BY <1>6, <2>1, <2>2, <2>3, <2>4 DEF ScanEntry
<1>7. CASE ReadDirFails(s) \/ FinishList(s) \/ RefuseRegister(s) \/ RefuseClaim(s)
  BY <1>7 DEF ReadDirFails, FinishList, RefuseRegister, RefuseClaim, Fail, Return
<1>8. CASE CreateRecord(s) \/ LockRecord(s) \/ ChangeRecord(s)
  BY <1>1, <1>2, <1>8 DEF CreateRecord, LockRecord, ChangeRecord, Scanned, Fail, Return
<1>9. CASE Truncate(s) \/ Write(s)
  BY <1>1, <1>2, <1>9 DEF Truncate, Write, WriteFails, Fail, Return
<1> QED  BY <1>3, <1>4, <1>5, <1>6, <1>7, <1>8, <1>9 DEF Step

LEMMA ReadsStep ==
  TypeOK /\ Control /\ OwnRecord /\ ScanCounts /\ ReadsAreTrue /\ "read" \notin Faults
    /\ [Next]_vars => ReadsAreTrue'
<1> SUFFICES ASSUME TypeOK, Control, OwnRecord, ScanCounts, ReadsAreTrue, "read" \notin Faults,
                    [Next]_vars
             PROVE  ReadsAreTrue'
  OBVIOUS
<1>1. CASE UNCHANGED vars
  BY <1>1 DEF ReadsAreTrue, LiveSessions, Live, vars
<1>2. ASSUME NEW s \in Sessions, Start(s) \/ Step(s) \/ Crash(s) PROVE ReadsAreTrue'
  <2> SUFFICES ASSUME NEW u \in Sessions, pc'[u] \in Deciding \cup {"scan"},
                      NEW t \in LiveSessions', t \in found'[u], t # u
               PROVE  seen'[u][t] = disk'[t]
    BY DEF ReadsAreTrue
  <2>1. CASE u = s
    <3>1. t \in LiveSessions
      BY <1>2, <2>1, LiveGrows
    <3> QED  BY <1>2, <2>1, <3>1, OwnReads
  <2>2. CASE u # s
    <3>1. pc[u] \in Deciding \cup {"scan"} /\ found'[u] = found[u] /\ seen'[u] = seen[u]
      BY <1>2, <2>2, OthersKeep
    <3>2. t \in LiveSessions /\ seen[u][t] = disk[t]
      BY <1>2, <2>2, <3>1, NobodyJoins DEF Deciding, Guarded, ReadsAreTrue
    <3>3. CASE t # s
      <4>1. t \in locked
        BY <3>2 DEF OwnRecord, OwnRecordOf, LiveSessions
      <4> QED  BY <1>2, <3>1, <3>2, <3>3, <4>1, DiskKept
    <3>4. CASE t = s
      <4>1. pc[s] \notin Guarded
        BY <2>2, <3>1 DEF Control, ControlOf, Deciding, Guarded
      <4> QED  BY <1>2, <3>1, <3>2, <3>4, <4>1, OwnDiskKept DEF LiveSessions
    <3> QED  BY <3>3, <3>4
  <2> QED  BY <2>1, <2>2
<1> QED  BY <1>1, <1>2 DEF Next

\* Who is let in has read the limits of all who are there.
LEMMA CreateObeysAll ==
  ASSUME TypeOK, Control, ScanCounts, ReadsAreTrue, LimitsOnDisk,
         NEW s \in Sessions, op[s] = "register", Scanned(s), ~Full(s), NEW t \in LiveSessions
  PROVE  Cardinality(found[s]) < mem[t].limit
<1>1. pc[s] = "scan" /\ t \in found[s]
  BY DEF Scanned, ScanCounts, ScanCountsOf
<1>2. t # s /\ t \in Sessions
  BY <1>1 DEF LiveSessions, Live, Updates
<1>3. seen[s][t] = disk[t]
  BY <1>1, <1>2 DEF ReadsAreTrue
<1>4. guard = s /\ pc[t] # "write"
  BY <1>1, <1>2 DEF Control, ControlOf, Guarded
<1>5. mem[t].limit \in Limits /\ disk[t].limit = mem[t].limit
  BY <1>2, <1>4 DEF LimitsOnDisk, LiveSessions
<1>6. mem[t].limit \in LimitsInForce(s)
  BY <1>1, <1>3, <1>5, LimitsAssumption DEF LimitsInForce
<1>7. ~(Cardinality(found[s]) >= mem[t].limit)
  BY <1>6 DEF Full
<1> QED  BY <1>2, <1>7, Counts

LEMMA LimitsStep ==
  TypeOK /\ Control /\ OwnRecord /\ ScanCounts /\ ReadsAreTrue /\ LimitsOnDisk
    /\ "write" \notin Faults /\ [Next]_vars => LimitsOnDisk'
<1> SUFFICES ASSUME TypeOK, Control, OwnRecord, ScanCounts, ReadsAreTrue, LimitsOnDisk,
                    "write" \notin Faults, [Next]_vars
             PROVE  LimitsOnDisk'
  OBVIOUS
<1>1. CASE UNCHANGED vars
  BY <1>1 DEF LimitsOnDisk, LiveSessions, Live, vars
<1>2. ASSUME NEW s \in Sessions, Start(s) \/ Step(s) \/ Crash(s) PROVE LimitsOnDisk'
  <2>1. ASSUME NEW u \in Sessions, Live(u)' \/ op'[u] = "register" PROVE mem'[u].limit \in Limits
    <3>1. CASE u # s
      BY <1>2, <2>1, <3>1, OthersKeep DEF LimitsOnDisk, Live
    <3>2. CASE u = s /\ op'[s] = "register" /\ op[s] # "register"
      BY <1>2, <3>2, LimitBrought
    <3>3. CASE u = s /\ op[s] = "register" /\ op'[s] = "register"
      BY <1>2, <3>3, LimitKept DEF LimitsOnDisk
    <3>4. CASE u = s /\ op'[s] # "register" /\ Live(s)
      BY <1>2, <2>1, <3>4, LimitKept DEF LimitsOnDisk
    <3>5. CASE u = s /\ ~Live(s) /\ Live(s)'
      <4>1. Write(s) /\ op[s] = "register"
        BY <1>2, <3>5, LiveGrows DEF LiveSessions
      <4> QED  BY <3>5, <4>1 DEF Write, LimitsOnDisk
    <3> QED  BY <2>1, <3>1, <3>2, <3>3, <3>4, <3>5
  <2>2. ASSUME NEW u \in LiveSessions', pc'[u] # "write" PROVE disk'[u].limit = mem'[u].limit
    <3>1. CASE u = s
      BY <1>2, <2>2, <3>1, OwnDisk DEF LiveSessions
    <3>2. CASE u # s
      <4>1. u \in LiveSessions /\ pc'[u] = pc[u] /\ mem'[u] = mem[u]
        BY <1>2, <2>2, <3>2, LiveGrows, OthersKeep DEF LiveSessions
      <4>2. u \in locked
        BY <4>1 DEF OwnRecord, OwnRecordOf, LiveSessions
      <4> QED  BY <1>2, <2>2, <3>2, <4>1, <4>2, DiskKept DEF LimitsOnDisk
    <3> QED  BY <3>1, <3>2
  <2>3. ASSUME NEW u \in Sessions, op'[u] = "register", pc'[u] \in Deciding, NEW t \in LiveSessions'
        PROVE  Cardinality(found'[u]) < mem'[t].limit
    <3>1. t \in LiveSessions
      BY <1>2, <2>3, LiveGrows, NobodyJoins, OthersKeep DEF Deciding, Guarded
    <3>2. mem'[t].limit = mem[t].limit
      <4>1. CASE t = s
        BY <1>2, <2>3, <3>1, <4>1, LimitKept DEF LiveSessions
      <4>2. CASE t # s
        BY <1>2, <3>1, <4>2, OthersKeep DEF LiveSessions
      <4> QED  BY <4>1, <4>2
    <3>3. Cardinality(found'[u]) < mem[t].limit
      <4>1. CASE u # s
        BY <1>2, <2>3, <3>1, <4>1, OthersKeep DEF LimitsOnDisk
      <4>2. CASE u = s
        <5>1. /\ op[s] = "register" /\ found'[s] = found[s]
              /\ pc[s] \in Deciding \/ (Scanned(s) /\ ~Full(s))
          BY <1>2, <2>3, <4>2, OnlyCreateAdmits
        <5>2. CASE pc[s] \in Deciding
          BY <3>1, <4>2, <5>1, <5>2 DEF LimitsOnDisk
        <5>3. CASE Scanned(s) /\ ~Full(s)
          BY <3>1, <4>2, <5>1, <5>3, CreateObeysAll
        <5> QED  BY <5>1, <5>2, <5>3
      <4> QED  BY <4>1, <4>2
    <3> QED  BY <3>2, <3>3
  <2> QED  BY <2>1, <2>2, <2>3 DEF LimitsOnDisk
<1> QED  BY <1>1, <1>2 DEF Next

\* The lowest limit rule, step by step: who joins was counted against every limit.
LEMMA WithinStep ==
  TypeOK /\ Control /\ ScanCounts /\ Admitted /\ LimitsOnDisk /\ WithinEveryLimit
    /\ [Next]_vars => WithinEveryLimit'
<1> SUFFICES ASSUME TypeOK, Control, ScanCounts, Admitted, LimitsOnDisk, WithinEveryLimit,
                    [Next]_vars
             PROVE  WithinEveryLimit'
  OBVIOUS
<1>1. CASE UNCHANGED vars
  BY <1>1 DEF WithinEveryLimit, LiveSessions, Live, vars
<1>2. ASSUME NEW s \in Sessions, Start(s) \/ Step(s) \/ Crash(s) PROVE WithinEveryLimit'
  <2> SUFFICES ASSUME NEW u \in LiveSessions' PROVE Cardinality(LiveSessions') <= mem'[u].limit
    BY DEF WithinEveryLimit
  <2>1. IsFiniteSet(LiveSessions) /\ IsFiniteSet(LiveSessions')
    BY SessionsAssumption, FS_Subset DEF LiveSessions
  <2>2. Cardinality(LiveSessions) \in Nat /\ Cardinality(LiveSessions') \in Nat
    BY <2>1, FS_CardinalityType
  <2>3. u \in LiveSessions => mem'[u].limit = mem[u].limit
    <3>1. CASE u = s
      BY <1>2, <3>1, LimitKept DEF LiveSessions
    <3>2. CASE u # s
      BY <1>2, <3>2, OthersKeep DEF LiveSessions
    <3> QED  BY <3>1, <3>2
  <2>4. CASE LiveSessions' \subseteq LiveSessions
    <3>1. Cardinality(LiveSessions') <= Cardinality(LiveSessions)
      BY <2>1, <2>4, FS_Subset
    <3>2. u \in LiveSessions /\ u \in Sessions
      BY <2>4 DEF LiveSessions
    <3>3. Cardinality(LiveSessions) <= mem[u].limit
      BY <3>2 DEF WithinEveryLimit
    <3> QED  BY <2>2, <2>3, <3>1, <3>2, <3>3, Counts
  <2>5. ASSUME NEW v \in LiveSessions', v \notin LiveSessions
        PROVE  Cardinality(LiveSessions') <= mem'[u].limit
    <3>1. v = s /\ Write(s) /\ op[s] = "register"
      BY <1>2, <2>5, LiveGrows
    <3>2. Cardinality(LiveSessions') <= Cardinality(found[s]) + 1
      BY <1>2, <2>5, JoinCounts
    <3>3. mem' = mem /\ pc[s] \in Deciding
      BY <3>1 DEF Write, Deciding
    <3>4. u \in Sessions
      BY DEF LiveSessions
    <3>5. Cardinality(found[s]) < mem[u].limit
      <4>1. CASE u \in LiveSessions
        BY <3>1, <3>3, <4>1 DEF LimitsOnDisk
      <4>2. CASE u \notin LiveSessions
        BY <1>2, <3>1, <3>3, <4>2, LiveGrows DEF Admitted
      <4> QED  BY <4>1, <4>2
    <3> QED  BY <2>2, <3>2, <3>3, <3>4, <3>5, Counts
  <2> QED  BY <2>4, <2>5
<1> QED  BY <1>1, <1>2 DEF Next

\* While records can be read and written, at no time do the active sessions
\* outnumber the limit of any of them (registerSession's lowest limit rule).
THEOREM LimitsObeyed ==
  ASSUME "read" \notin Faults, "write" \notin Faults
  PROVE  Spec => []WithinEveryLimit
<1> DEFINE Counted == ReadsAreTrue /\ LimitsOnDisk /\ WithinEveryLimit
<1>1. Init => Counted
  BY DEF Init, ReadsAreTrue, LimitsOnDisk, WithinEveryLimit, LiveSessions, Live, Deciding, Updates
<1>2. TypeOK /\ Control /\ OwnRecord /\ ScanCounts /\ Admitted /\ Counted /\ [Next]_vars => Counted'
  BY ReadsStep, LimitsStep, WithinStep
<1> QED  BY <1>1, <1>2, TypeCorrect, GuardExcludes, RecordsOwned, ScansCount, AdmissionsCounted,
            PTL DEF Spec

-----------------------------------------------------------------------------
(* Registry access, and the promise the registry implements.               *)

\* Access comes with the record of a claim, and goes before a release or a close.
LEMMA AccessMoves ==
  ASSUME TypeOK, NEW s \in Sessions, Start(s) \/ Step(s) \/ Crash(s)
  PROVE  \/ access' = access
         \/ /\ access' = access \ {s}
            /\ Crash(s) \/ (op'[s] \in {"releaseACR", "close"} /\ pc'[s] = "wait")
         \/ /\ access' = access \cup {s} /\ Write(s) /\ op[s] = "claimACR"
            /\ disk'[s] = mem[s] /\ pc'[s] = "unguard" /\ ret'[s] = "up" /\ op'[s] = op[s]
<1> USE DEF TypeOK
<1>1. CASE Start(s)
  <2>1. CASE StartRegister(s) \/ StartList(s) \/ StartSetPorts(s) \/ StartClaim(s)
    BY <2>1 DEF StartRegister, StartList, StartSetPorts, StartClaim
  <2>2. CASE StartRelease(s) \/ StartClose(s)
    <3>1. /\ access' = access \ {s} /\ pc' = [pc EXCEPT ![s] = "wait"]
          /\ \E o \in {"releaseACR", "close"} : op' = [op EXCEPT ![s] = o]
      BY <2>2 DEF StartRelease, StartClose, Call
    <3>2. pc'[s] = "wait" /\ op'[s] \in {"releaseACR", "close"}
      BY <3>1
    <3> QED  BY <3>1, <3>2
  <2> QED  BY <1>1, <2>1, <2>2 DEF Start
<1>2. CASE Crash(s)
  <2>1. access' = access \ {s}
    BY <1>2 DEF Crash
  <2> QED  BY <1>2, <2>1
<1>3. CASE \E t \in Sessions : ScanEntry(s, t)
  BY <1>3 DEF ScanEntry, SkipEntry, RemoveStale, RemoveStaleFails, ReadRecord,
     ReadRecordFails, ListEntry, ScanUnchanged
<1>4. CASE AcquireGuard(s) \/ GiveUpGuard(s) \/ ReleaseGuard(s)
           \/ ReadDirFails(s) \/ FinishList(s) \/ RefuseRegister(s) \/ RefuseClaim(s)
           \/ ChangeRecord(s) \/ CreateRecord(s) \/ LockRecord(s) \/ UnlockRecord(s)
  BY <1>4 DEF AcquireGuard, GiveUpGuard, ReleaseGuard, ReadDirFails, FinishList,
     RefuseRegister, RefuseClaim, ChangeRecord, CreateRecord, LockRecord, UnlockRecord, ScanUnchanged
<1>5. CASE Truncate(s) \/ UnlinkRecord(s)
  BY <1>5 DEF Truncate, WriteFails, UnlinkRecord
<1>6. CASE Write(s)
  BY <1>6 DEF Write, WriteFails, Return, OnSuccess, Updates
<1> QED  BY <1>1, <1>2, <1>3, <1>4, <1>5, <1>6 DEF Step

\* Where a session that has registry access may be.
Placed(s) == pc[s] = "up" \/ (pc[s] = "unguard" /\ op[s] = "claimACR" /\ ret[s] = "up")

\* A session with access does nothing to its record until it gives the access up.
LEMMA HolderRests ==
  ASSUME TypeOK, NEW s \in Sessions, Start(s) \/ Step(s) \/ Crash(s),
         s \in access, s \in access', Placed(s)
  PROVE  Placed(s)' /\ disk' = disk
<1> USE DEF TypeOK, Placed, Updates
<1>1. CASE Start(s)
  BY <1>1 DEF Start, StartRegister, StartList, StartSetPorts, StartClaim, StartRelease,
     StartClose, Call
<1>2. CASE Crash(s) \/ AcquireGuard(s) \/ GiveUpGuard(s) \/ ReleaseGuard(s)
  BY <1>2 DEF Crash, AcquireGuard, GiveUpGuard, ReleaseGuard
<1>3. CASE \E t \in Sessions : ScanEntry(s, t)
  BY <1>3 DEF ScanEntry, SkipEntry, RemoveStale, RemoveStaleFails, ReadRecord,
     ReadRecordFails, ListEntry, ScanUnchanged
<1>4. CASE ReadDirFails(s) \/ FinishList(s) \/ RefuseRegister(s) \/ RefuseClaim(s)
           \/ ChangeRecord(s) \/ CreateRecord(s) \/ LockRecord(s) \/ UnlockRecord(s)
           \/ Truncate(s) \/ Write(s) \/ UnlinkRecord(s)
  BY <1>4 DEF ReadDirFails, FinishList, RefuseRegister, RefuseClaim, ChangeRecord,
     CreateRecord, LockRecord, UnlockRecord, Truncate, Write, UnlinkRecord, Scanned
<1> QED  BY <1>1, <1>2, <1>3, <1>4 DEF Step

\* A claim that is written found that nobody else has access.
LEMMA ClaimFound ==
  ASSUME TypeOK, Control, OwnRecord, ScanCounts, ReadsAreTrue, ClaimsOnDisk,
         NEW s \in Sessions, ChangeRecord(s), op[s] = "claimACR"
  PROVE  access = {} /\ mem'[s].acr
<1>1. pc[s] = "scan" /\ LiveSessions \subseteq found[s] /\ ~ClaimedByOther(s)
  BY DEF ChangeRecord, Scanned, ScanCounts, ScanCountsOf
<1>2. ASSUME NEW t \in access PROVE FALSE
  <2>1. t \in Sessions /\ Placed(t)
    BY DEF ClaimsOnDisk, Placed, TypeOK
  <2>2. disk[t].acr
    BY Zenon DEF ClaimsOnDisk
  <2>3. t # s /\ t \in LiveSessions
    BY <1>1, <2>1 DEF Placed, LiveSessions, Live, Updates
  <2>4. seen[s][t] = disk[t] /\ t \in found[s] \ {s}
    BY <1>1, <2>3 DEF ReadsAreTrue
  <2> QED  BY <1>1, <2>2, <2>4, Zenon DEF ClaimedByOther
<1>3. mem'[s].acr
  <2> DEFINE acr == CASE op[s] = "claimACR"   -> TRUE
                      [] op[s] = "releaseACR" -> FALSE
                      [] OTHER                -> mem[s].acr
  <2>1. acr = TRUE
    OBVIOUS
  <2>2. mem' = [mem EXCEPT ![s] = [mem[s] EXCEPT !.acr = acr]]
    BY DEF ChangeRecord
  <2> HIDE DEF acr
  <2>3. mem[s] \in [limit : Limits \cup {0}, acr : BOOLEAN] /\ mem \in [Sessions -> Record]
    BY DEF TypeOK, Record
  <2>4. mem'[s] = [mem[s] EXCEPT !.acr = acr]
    BY <2>2, <2>3
  <2>5. mem'[s].acr = acr
    BY <2>3, <2>4
  <2> QED  BY <2>1, <2>5
<1> QED  BY <1>2, <1>3

\* Only changing its record brings a claim to the point where it is written.
LEMMA OnlyChangeClaims ==
  ASSUME TypeOK, Control, NEW s \in Sessions, Start(s) \/ Step(s) \/ Crash(s),
         op'[s] = "claimACR", pc'[s] \in Deciding
  PROVE  /\ op[s] = "claimACR" /\ access' = access
         /\ ChangeRecord(s) \/ (pc[s] \in Deciding /\ mem' = mem)
<1> USE DEF TypeOK, Control, ControlOf, Deciding, Guarded, Resting
<1>1. CASE Start(s)
  BY <1>1 DEF Start, StartRegister, StartList, StartSetPorts, StartClaim, StartRelease,
     StartClose, Call
<1>2. CASE Crash(s) \/ AcquireGuard(s) \/ UnlockRecord(s)
  BY <1>2 DEF Crash, AcquireGuard, UnlockRecord
<1>3. CASE GiveUpGuard(s) \/ ReleaseGuard(s)
  BY <1>3 DEF GiveUpGuard, ReleaseGuard
<1>4. CASE \E t \in Sessions : ScanEntry(s, t)
  BY <1>4 DEF ScanEntry, SkipEntry, RemoveStale, RemoveStaleFails, ReadRecord,
     ReadRecordFails, ListEntry, ScanUnchanged, Fail, Return
<1>5. CASE ReadDirFails(s) \/ FinishList(s) \/ RefuseRegister(s) \/ RefuseClaim(s)
  BY <1>5 DEF ReadDirFails, FinishList, RefuseRegister, RefuseClaim, Fail, Return
<1>6. CASE CreateRecord(s) \/ LockRecord(s)
  BY <1>6 DEF CreateRecord, LockRecord, Fail, Return
<1>7. CASE ChangeRecord(s)
  BY <1>7 DEF ChangeRecord
<1>8. CASE Truncate(s)
  BY <1>8 DEF Truncate, WriteFails, Fail, Return
<1>9. CASE Write(s) \/ UnlinkRecord(s)
  BY <1>9 DEF Write, WriteFails, UnlinkRecord, Fail, Return
<1> QED  BY <1>1, <1>2, <1>3, <1>4, <1>5, <1>6, <1>7, <1>8, <1>9 DEF Step

LEMMA ClaimsStep ==
  TypeOK /\ Control /\ OwnRecord /\ ScanCounts /\ ReadsAreTrue /\ ClaimsOnDisk
    /\ [Next]_vars => ClaimsOnDisk'
<1> SUFFICES ASSUME TypeOK, Control, OwnRecord, ScanCounts, ReadsAreTrue, ClaimsOnDisk,
                    [Next]_vars
             PROVE  ClaimsOnDisk'
  OBVIOUS
<1>1. CASE UNCHANGED vars
  BY <1>1, Zenon DEF ClaimsOnDisk, vars, Deciding
<1>2. ASSUME NEW s \in Sessions, Start(s) \/ Step(s) \/ Crash(s) PROVE ClaimsOnDisk'
  <2>1. ASSUME NEW u \in access' PROVE Placed(u)' /\ disk'[u].acr
    <3>1. CASE u \notin access
      <4>1. u = s /\ op[s] = "claimACR" /\ pc[s] = "write" /\ disk'[s] = mem[s] /\ Placed(s)'
        BY <1>2, <2>1, <3>1, AccessMoves DEF Write, Placed
      <4> QED  BY <4>1, Zenon DEF ClaimsOnDisk, Deciding
    <3>2. CASE u \in access
      <4>1. u \in Sessions /\ Placed(u)
        BY <3>2 DEF TypeOK, ClaimsOnDisk, Placed
      <4>2. disk[u].acr
        BY <3>2, Zenon DEF ClaimsOnDisk
      <4>3. Placed(u)' /\ disk'[u] = disk[u]
        <5>1. CASE u = s
          BY <1>2, <2>1, <3>2, <4>1, <5>1, HolderRests
        <5>2. CASE u # s
          <6>1. u \in locked
            BY <4>1 DEF OwnRecord, OwnRecordOf, Placed, Live, Updates
          <6> QED  BY <1>2, <4>1, <5>2, <6>1, DiskKept, OthersKeep DEF Placed
        <5> QED  BY <5>1, <5>2
      <4> QED  BY <4>2, <4>3
    <3> QED  BY <3>1, <3>2
  <2>2. ASSUME NEW u \in Sessions, op'[u] = "claimACR", pc'[u] \in Deciding
        PROVE  mem'[u].acr /\ access' = {}
    <3>1. CASE u = s
      <4>1. /\ op[s] = "claimACR" /\ access' = access
            /\ ChangeRecord(s) \/ (pc[s] \in Deciding /\ mem' = mem)
        BY <1>2, <2>2, <3>1, OnlyChangeClaims
      <4>2. CASE ChangeRecord(s)
        BY <3>1, <4>1, <4>2, ClaimFound DEF ChangeRecord, Deciding
      <4>3. CASE pc[s] \in Deciding /\ mem' = mem
        <5>1. mem[s].acr /\ access = {}
          BY <4>1, <4>3, Zenon DEF ClaimsOnDisk
        <5> QED  BY <3>1, <4>1, <4>3, <5>1
      <4> QED  BY <4>1, <4>2, <4>3
    <3>2. CASE u # s
      <4>1. pc'[u] = pc[u] /\ op'[u] = op[u] /\ mem'[u] = mem[u]
        BY <1>2, <3>2, OthersKeep
      <4>2. mem[u].acr /\ access = {}
        BY <2>2, <4>1, Zenon DEF ClaimsOnDisk
      <4>3. ~Write(s)
        BY <2>2, <3>2, <4>1 DEF Write, Control, ControlOf, Guarded, Deciding
      <4>4. access' = {}
        BY <1>2, <4>2, <4>3, AccessMoves
      <4> QED  BY <4>1, <4>2, <4>4
    <3> QED  BY <3>1, <3>2
  <2> QED  BY <2>1, <2>2, Zenon DEF ClaimsOnDisk, Placed
<1> QED  BY <1>1, <1>2 DEF Next

\* At most one session has access, and only an active one.
LEMMA HolderStep ==
  TypeOK /\ ClaimsOnDisk /\ OneHolder /\ [Next]_vars => OneHolder'
<1> SUFFICES ASSUME TypeOK, ClaimsOnDisk, OneHolder, [Next]_vars PROVE OneHolder'
  OBVIOUS
<1>1. CASE UNCHANGED vars
  BY <1>1 DEF OneHolder, vars
<1>2. ASSUME NEW s \in Sessions, Start(s) \/ Step(s) \/ Crash(s) PROVE OneHolder'
  <2>1. Write(s) /\ op[s] = "claimACR" => access = {}
    BY DEF Write, ClaimsOnDisk, Deciding
  <2> QED  BY <1>2, <2>1, AccessMoves DEF OneHolder
<1> QED  BY <1>1, <1>2 DEF Next

LEMMA HoldersLive ==
  ASSUME TypeOK, ClaimsOnDisk
  PROVE  access \subseteq LiveSessions
BY DEF TypeOK, ClaimsOnDisk, LiveSessions, Live, Updates

\* A session that stops being active has no access any more.
LEMMA LeaveHasNone ==
  ASSUME TypeOK, Control, ClaimsOnDisk, NEW s \in Sessions, Start(s) \/ Step(s) \/ Crash(s),
         Live(s), ~Live(s)'
  PROVE  access' = access \ {s}
<1>1. CASE access' = access
  <2>1. CASE s \notin access
    BY <1>1, <2>1
  <2>2. CASE s \in access
    <3>1. Placed(s)
      BY <2>2 DEF ClaimsOnDisk, Placed
    <3>2. Placed(s)'
      BY <1>1, <2>2, <3>1, HolderRests
    <3> QED  BY <3>2 DEF Placed, Live, Updates
  <2> QED  BY <2>1, <2>2
<1>2. CASE Write(s) /\ op[s] = "claimACR" /\ op'[s] = op[s]
  BY <1>2 DEF Live, Updates
<1> QED  BY <1>1, <1>2, AccessMoves

\* What the promise calls its limits, and its active sessions.
Brought == [s \in Sessions |-> IF Live(s) THEN mem[s].limit ELSE 0]

LEMMA ActiveIsLive ==
  ASSUME LimitsOnDisk
  PROVE  Admission!Active = LiveSessions
<1>1. \A s \in LiveSessions : mem[s].limit # 0
  BY LimitsAssumption DEF LimitsOnDisk, LiveSessions
<1> QED  BY <1>1 DEF Admission!Active, LiveSessions

\* A step in which nobody joins or leaves keeps every limit.
LEMMA BroughtElsewhere ==
  ASSUME TypeOK, Control, NEW s \in Sessions, Start(s) \/ Step(s) \/ Crash(s)
  PROVE  /\ Brought' = [Brought EXCEPT ![s] = Brought'[s]]
         /\ (Live(s) /\ Live(s)') \/ (~Live(s) /\ ~Live(s)') => Brought' = Brought
<1>1. \A u \in Sessions \ {s} : (Live(u)' <=> Live(u)) /\ mem'[u] = mem[u]
  BY OthersKeep DEF Live
<1>2. \A u \in Sessions \ {s} : Brought'[u] = Brought[u]
  BY <1>1 DEF Brought
<1>3. Live(s) /\ Live(s)' => mem'[s].limit = mem[s].limit
  BY LimitKept
<1> QED  BY <1>2, <1>3 DEF Brought

\* Every step of the registry is a step of the promise, or none.
LEMMA StepAdmits ==
  ASSUME TypeOK, Control, OwnRecord, ScanCounts, Admitted, LimitsOnDisk, ClaimsOnDisk, OneHolder,
         NEW s \in Sessions, Start(s) \/ Step(s) \/ Crash(s)
  PROVE  [Admission!Next]_(Admission!vars)
<1> USE ActiveIsLive, BroughtElsewhere
<1>1. access \subseteq LiveSessions
  BY HoldersLive
<1>2. Brought' = [Brought EXCEPT ![s] = Brought'[s]] /\ Brought \in [Sessions -> Limits \cup {0}]
  BY DEF Brought, LimitsOnDisk
<1>3. CASE Live(s)' /\ ~Live(s)
  <2>1. Write(s) /\ op[s] = "register"
    BY <1>3, LiveGrows DEF LiveSessions
  <2>2. mem' = mem /\ access' = access /\ pc[s] \in Deciding
    BY <2>1 DEF Write, WriteFails, Deciding
  <2>3. LiveSessions \subseteq found[s]
    BY <2>2 DEF ScanCounts, ScanCountsOf
  <2>4. IsFiniteSet(found[s]) /\ Cardinality(found[s]) \in Nat /\ mem[s].limit \in Nat
    BY Counts
  <2>5. Cardinality(LiveSessions) <= Cardinality(found[s]) /\ Cardinality(LiveSessions) \in Nat
    BY <2>3, <2>4, FS_Subset, FS_CardinalityType
  <2>6. Cardinality(LiveSessions) < mem[s].limit
    BY <2>1, <2>2, <2>4, <2>5 DEF Admitted
  <2>7. ASSUME NEW t \in LiveSessions PROVE Cardinality(LiveSessions) < Brought[t]
    <3>1. t \in Sessions /\ Brought[t] = mem[t].limit
      BY DEF LiveSessions, Brought
    <3>2. Cardinality(found[s]) < mem[t].limit /\ mem[t].limit \in Nat
      BY <2>1, <2>2, <3>1, Counts DEF LimitsOnDisk
    <3> QED  BY <2>4, <2>5, <3>1, <3>2
  <2>8. PICK l \in Limits : l = mem[s].limit
    BY <2>1 DEF LimitsOnDisk
  <2>9. s \notin LiveSessions /\ Brought' = [Brought EXCEPT ![s] = l]
    BY <1>2, <1>3, <2>2, <2>8 DEF LiveSessions, Brought
  <2>10. Admission!Join(s, l)
    <3>1. Admission!Cardinality(LiveSessions) = Cardinality(LiveSessions)
      BY DEF Admission!Cardinality, Cardinality
    <3> QED  BY <2>2, <2>6, <2>7, <2>8, <2>9, <3>1 DEF Admission!Join, Brought
  <2> QED  BY <2>10 DEF Admission!Next
<1>4. CASE Live(s) /\ ~Live(s)'
  <2>1. Brought'[s] = 0 /\ s \in LiveSessions
    BY <1>4 DEF Brought, LiveSessions
  <2>2. access' = access \ {s}
    BY <1>4, LeaveHasNone
  <2>3. Admission!Leave(s)
    BY <1>2, <2>1, <2>2 DEF Admission!Leave, Brought
  <2> QED  BY <2>3 DEF Admission!Next
<1>5. CASE Live(s) /\ Live(s)'
  <2>1. Brought' = Brought
    BY <1>5
  <2>2. CASE access' = access
    BY <2>1, <2>2 DEF Admission!vars, Brought
  <2>3. CASE access' # access /\ access' = access \ {s}
    <3>1. access = {s} /\ access' = {}
      BY <2>3 DEF OneHolder
    <3>2. Admission!Release(s)
      BY <2>1, <3>1 DEF Admission!Release, Brought
    <3> QED  BY <3>2 DEF Admission!Next
  <2>4. CASE access' # access /\ access' = access \cup {s} /\ Write(s) /\ op[s] = "claimACR"
    <3>1. access = {} /\ access' = {s}
      BY <2>4 DEF Write, ClaimsOnDisk, Deciding
    <3>2. s \in LiveSessions
      BY <1>5 DEF LiveSessions
    <3>3. Admission!Claim(s)
      BY <2>1, <3>1, <3>2 DEF Admission!Claim, Brought
    <3> QED  BY <3>3 DEF Admission!Next
  <2> QED  BY <2>2, <2>3, <2>4, AccessMoves
<1>6. CASE ~Live(s) /\ ~Live(s)'
  <2>1. Brought' = Brought
    BY <1>6
  <2>2. s \notin access
    BY <1>1, <1>6 DEF LiveSessions
  <2>3. access' = access
    BY <1>6, <2>2, AccessMoves DEF Live, Updates
  <2> QED  BY <2>1, <2>3 DEF Admission!vars, Brought
<1> QED  BY <1>3, <1>4, <1>5, <1>6

\* The record files implement the promise of ADR 0018, while records can be read
\* and written: who joins fits every limit, and one session at most has access.
THEOREM RegistryAdmits ==
  ASSUME "read" \notin Faults, "write" \notin Faults
  PROVE  Spec => ImplementsAdmission
<1> DEFINE Told == ReadsAreTrue /\ LimitsOnDisk /\ ClaimsOnDisk /\ OneHolder
           Sound == TypeOK /\ Control /\ OwnRecord /\ ScanCounts /\ Admitted
<1>1. Init => Told
  BY DEF Init, ReadsAreTrue, LimitsOnDisk, ClaimsOnDisk, OneHolder, LiveSessions, Live, Deciding, Updates
<1>2. Sound /\ Told /\ [Next]_vars => Told'
  BY ReadsStep, LimitsStep, ClaimsStep, HolderStep
<1>3. Init => Admission!Init
  BY DEF Init, Admission!Init, Live, Updates
<1>4. Sound /\ Told /\ [Next]_vars => [Admission!Next]_(Admission!vars)
  <2> SUFFICES ASSUME Sound, Told, [Next]_vars PROVE [Admission!Next]_(Admission!vars)
    OBVIOUS
  <2>1. CASE UNCHANGED vars
    BY <2>1 DEF vars, Admission!vars, Live
  <2>2. ASSUME NEW s \in Sessions, Start(s) \/ Step(s) \/ Crash(s)
        PROVE  [Admission!Next]_(Admission!vars)
    BY <2>2, StepAdmits
  <2> QED  BY <2>1, <2>2 DEF Next
<1> QED  BY <1>1, <1>2, <1>3, <1>4, TypeCorrect, GuardExcludes, RecordsOwned, ScansCount,
            AdmissionsCounted, PTL DEF Spec, ImplementsAdmission, Admission!Spec

=============================================================================
