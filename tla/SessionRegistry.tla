--------------------------- MODULE SessionRegistry ---------------------------
(***************************************************************************)
(* The registry of active sessions of internal/session/active_sessions.go: *)
(* one record file per session in a directory shared by every bivrost      *)
(* process of the user.  A session holds an exclusive lock on its record   *)
(* for its whole life; the operating system drops that lock when the       *)
(* process dies, so a record whose lock can be taken is stale.  Every      *)
(* scan, creation and change happens under registry.lock, the guard.       *)
(*                                                                         *)
(* A process is named by the identifier of the session it runs.  The code  *)
(* draws the identifier at random, so a new session never meets an old     *)
(* record of the same name: StartRegister asks that there be none.         *)
(***************************************************************************)
EXTENDS Naturals, FiniteSets

CONSTANTS Sessions,   \* the processes that may run a session
          Limits,     \* the session limits profiles may ask for
          Faults,     \* the file operations that may fail
          NoSession   \* nobody holds the guard

ASSUME SessionsAssumption == IsFiniteSet(Sessions) /\ NoSession \notin Sessions
ASSUME LimitsAssumption == Limits \subseteq Nat \ {0}
ASSUME FaultsAssumption == Faults \subseteq {"read", "write", "remove"}

VARIABLES guard,    \* who holds registry.lock
          files,    \* the sessions whose record file exists
          locked,   \* the sessions that hold the lock on their record
          disk,     \* what a reader gets from a record; Unknown when it cannot be read
          mem,      \* activeSession.record, the owner's copy
          pc,       \* where the session is in its current call
          op,       \* the call in progress
          ret,      \* where the call returns to once the guard is released
          todo,     \* directory entries the scan has still to look at
          found,    \* scanSessions' result: the sessions that count as active
          seen,     \* and the record it read for each
          access    \* the sessions whose claimACR succeeded and still use it

vars == <<guard, files, locked, disk, mem, pc, op, ret, todo, found, seen, access>>

-----------------------------------------------------------------------------
(* State: the parts of sessionRecord that other sessions act on.           *)

Record == [limit : Limits \cup {0}, acr : BOOLEAN]
Unknown == [limit |-> 0, acr |-> FALSE]
NewRecord(limit) == [limit |-> limit, acr |-> FALSE]

Ops == {"none", "register", "list", "setPorts", "claimACR", "releaseACR", "close"}
Updates == {"setPorts", "claimACR", "releaseACR"}

\* "off": no session; "fresh": registered, ports not recorded yet; "up": the
\* session runs; "ending": setPorts failed, the session can only close.
Resting == {"off", "fresh", "up", "ending"}
Guarded == {"scan", "lock", "truncate", "write", "unguard"}
PCs == Resting \cup Guarded \cup {"wait", "unlock", "unlink"}

\* Where a call leaves the session when it fails, and when it succeeds.
OnFailure(o) == CASE o = "setPorts"                  -> "ending"
                  [] o \in {"claimACR", "releaseACR"} -> "up"
                  [] OTHER                            -> "off"
OnSuccess(o) == CASE o = "register" -> "fresh"
                  [] o \in Updates  -> "up"
                  [] OTHER          -> "off"

Init ==
  /\ guard = NoSession
  /\ files = {} /\ locked = {} /\ access = {}
  /\ disk = [s \in Sessions |-> Unknown]
  /\ mem = [s \in Sessions |-> Unknown]
  /\ pc = [s \in Sessions |-> "off"]
  /\ op = [s \in Sessions |-> "none"]
  /\ ret = [s \in Sessions |-> "off"]
  /\ todo = [s \in Sessions |-> {}]
  /\ found = [s \in Sessions |-> {}]
  /\ seen = [s \in Sessions |-> [t \in Sessions |-> Unknown]]

-----------------------------------------------------------------------------
(* Calls begin by waiting for the guard.                                   *)

Call(s, o) ==
  /\ op' = [op EXCEPT ![s] = o]
  /\ pc' = [pc EXCEPT ![s] = "wait"]
  /\ UNCHANGED <<guard, files, locked, disk, ret, todo, found, seen>>

StartRegister(s) ==
  /\ pc[s] = "off" /\ s \notin files
  /\ \E limit \in Limits : mem' = [mem EXCEPT ![s] = NewRecord(limit)]
  /\ Call(s, "register")
  /\ UNCHANGED access

\* session list, and session clean, of a process that has no session.
StartList(s) == pc[s] = "off" /\ Call(s, "list") /\ UNCHANGED <<mem, access>>

StartSetPorts(s) == pc[s] = "fresh" /\ Call(s, "setPorts") /\ UNCHANGED <<mem, access>>

\* /enable claims first, and only a session that has no access yet.
StartClaim(s) ==
  /\ pc[s] = "up" /\ s \notin access
  /\ Call(s, "claimACR") /\ UNCHANGED <<mem, access>>

\* /enable failed after its claim: it closed what it had started, then releases.
StartRelease(s) ==
  /\ pc[s] = "up" /\ s \in access
  /\ access' = access \ {s}
  /\ Call(s, "releaseACR") /\ UNCHANGED mem

\* The deferred close of a session runs after the activation is closed.
StartClose(s) ==
  /\ pc[s] \in {"fresh", "up", "ending"}
  /\ access' = access \ {s}
  /\ Call(s, "close") /\ UNCHANGED mem

-----------------------------------------------------------------------------
(* lockSessionRegistry and releaseSessionRegistry.                         *)

\* Mistake: the guard is not waited for.
AcquireHeld(s) ==
  /\ pc[s] = "wait"
  /\ guard' = s
  /\ IF op[s] = "close"
     THEN pc' = [pc EXCEPT ![s] = "unlock"] /\ UNCHANGED todo
     ELSE pc' = [pc EXCEPT ![s] = "scan"] /\ todo' = [todo EXCEPT ![s] = files]
  /\ UNCHANGED <<files, locked, disk, mem, op, ret, found, seen, access>>

\* A call that got the guard scans the directory, except close.
AcquireGuard(s) ==
  /\ pc[s] = "wait" /\ guard = NoSession
  /\ guard' = s
  /\ IF op[s] = "close"
     THEN pc' = [pc EXCEPT ![s] = "unlock"] /\ UNCHANGED todo
     ELSE pc' = [pc EXCEPT ![s] = "scan"] /\ todo' = [todo EXCEPT ![s] = files]
  /\ UNCHANGED <<files, locked, disk, mem, op, ret, found, seen, access>>

NeverGiveUp(s) == FALSE     \* mistake: the wait has no deadline

\* The wait ends at its deadline, with its context, or on a lock error.  A
\* close goes on without the guard; every other call fails.
GiveUpGuard(s) ==
  /\ pc[s] = "wait"
  /\ IF op[s] = "close"
     THEN pc' = [pc EXCEPT ![s] = "unlock"] /\ UNCHANGED <<op, mem>>
     ELSE /\ pc' = [pc EXCEPT ![s] = OnFailure(op[s])]
          /\ op' = [op EXCEPT ![s] = "none"]
          /\ mem' = IF OnFailure(op[s]) = "off" THEN [mem EXCEPT ![s] = Unknown] ELSE mem
  /\ UNCHANGED <<guard, files, locked, disk, ret, todo, found, seen, access>>

\* The call is over; its deferred release lets the next process in.
ReleaseGuard(s) ==
  /\ pc[s] = "unguard"
  /\ guard' = NoSession
  /\ pc' = [pc EXCEPT ![s] = ret[s]]
  /\ op' = [op EXCEPT ![s] = "none"]
  /\ ret' = [ret EXCEPT ![s] = "off"]
  /\ mem' = IF ret[s] = "off" THEN [mem EXCEPT ![s] = Unknown] ELSE mem
  /\ todo' = [todo EXCEPT ![s] = {}]
  /\ found' = [found EXCEPT ![s] = {}]
  /\ seen' = [seen EXCEPT ![s] = [t \in Sessions |-> Unknown]]
  /\ UNCHANGED <<files, locked, disk, access>>

Return(s, where) ==
  /\ pc' = [pc EXCEPT ![s] = "unguard"]
  /\ ret' = [ret EXCEPT ![s] = where]

Fail(s) == Return(s, OnFailure(op[s]))

-----------------------------------------------------------------------------
(* scanSessions, one directory entry at a time: the guard keeps other      *)
(* calls out, but a process may die, and a close may run without it.       *)

ScanUnchanged == UNCHANGED <<guard, locked, mem, op, access>>

SkipEntry(s, t) ==
  /\ pc[s] = "scan" /\ t \in todo[s] /\ t \notin files
  /\ todo' = [todo EXCEPT ![s] = @ \ {t}]
  /\ UNCHANGED <<files, disk, pc, ret, found, seen>> /\ ScanUnchanged

\* Mistake: the stale record is passed over.
PassOverStale(s, t) ==
  /\ pc[s] = "scan" /\ t \in todo[s] /\ t \in files /\ t \notin locked
  /\ todo' = [todo EXCEPT ![s] = @ \ {t}]
  /\ UNCHANGED <<files, disk, pc, ret, found, seen>> /\ ScanUnchanged

RemoveStale(s, t) ==
  /\ pc[s] = "scan" /\ t \in todo[s] /\ t \in files /\ t \notin locked
  /\ files' = files \ {t}
  /\ disk' = [disk EXCEPT ![t] = Unknown]
  /\ todo' = [todo EXCEPT ![s] = @ \ {t}]
  /\ UNCHANGED <<pc, ret, found, seen>> /\ ScanUnchanged

RemoveStaleFails(s, t) ==
  /\ pc[s] = "scan" /\ t \in todo[s] /\ t \in files /\ t \notin locked
  /\ "remove" \in Faults
  /\ Fail(s)
  /\ UNCHANGED <<files, disk, todo, found, seen>> /\ ScanUnchanged

\* Mistake: a record that cannot be read is left out of the count.
ListReadable(s, t, record) ==
  /\ found' = [found EXCEPT ![s] = IF record = Unknown THEN @ ELSE @ \cup {t}]
  /\ seen' = [seen EXCEPT ![s][t] = record]
  /\ todo' = [todo EXCEPT ![s] = @ \ {t}]
  /\ UNCHANGED <<files, disk, pc, ret>> /\ ScanUnchanged

ListEntry(s, t, record) ==
  /\ found' = [found EXCEPT ![s] = @ \cup {t}]
  /\ seen' = [seen EXCEPT ![s][t] = record]
  /\ todo' = [todo EXCEPT ![s] = @ \ {t}]
  /\ UNCHANGED <<files, disk, pc, ret>> /\ ScanUnchanged

ReadRecord(s, t) ==
  /\ pc[s] = "scan" /\ t \in todo[s] /\ t \in files /\ t \in locked
  /\ ListEntry(s, t, disk[t])

\* The entry cannot be opened, tried or read: it counts, with nothing known of it.
ReadRecordFails(s, t) ==
  /\ pc[s] = "scan" /\ t \in todo[s] /\ t \in files
  /\ "read" \in Faults
  /\ ListEntry(s, t, Unknown)

ReadDirFails(s) ==
  /\ pc[s] = "scan" /\ todo[s] = files /\ found[s] = {}
  /\ "read" \in Faults
  /\ Fail(s)
  /\ UNCHANGED <<files, disk, todo, found, seen>> /\ ScanUnchanged

ScanEntry(s, t) ==
  \/ SkipEntry(s, t) \/ RemoveStale(s, t) \/ RemoveStaleFails(s, t)
  \/ ReadRecord(s, t) \/ ReadRecordFails(s, t)

Scanned(s) == pc[s] = "scan" /\ todo[s] = {}

-----------------------------------------------------------------------------
(* What each call does with the scan.                                      *)

FinishList(s) ==
  /\ Scanned(s) /\ op[s] = "list"
  /\ Return(s, "off")
  /\ UNCHANGED <<guard, files, locked, disk, mem, op, todo, found, seen, access>>

LimitsInForce(s) == {mem[s].limit} \cup ({seen[s][t].limit : t \in found[s]} \ {0})
OneOver(s) == \E limit \in LimitsInForce(s) : Cardinality(found[s]) > limit  \* mistake
Full(s) == \E limit \in LimitsInForce(s) : Cardinality(found[s]) >= limit

RefuseRegister(s) ==
  /\ Scanned(s) /\ op[s] = "register" /\ Full(s)
  /\ Fail(s)
  /\ UNCHANGED <<guard, files, locked, disk, mem, op, todo, found, seen, access>>

CreateRecord(s) ==
  /\ Scanned(s) /\ op[s] = "register" /\ ~Full(s)
  /\ \/ /\ files' = files \cup {s}
        /\ pc' = [pc EXCEPT ![s] = "lock"]
        /\ UNCHANGED ret
     \/ "write" \in Faults /\ Fail(s) /\ UNCHANGED files
  /\ UNCHANGED <<guard, locked, disk, mem, op, todo, found, seen, access>>

LockRecord(s) ==
  /\ pc[s] = "lock"
  /\ \/ /\ locked' = locked \cup {s}
        /\ pc' = [pc EXCEPT ![s] = "truncate"]
        /\ UNCHANGED <<files, ret>>
     \/ /\ "write" \in Faults /\ Fail(s) /\ UNCHANGED locked
        /\ files' = files \ {s} \/ ("remove" \in Faults /\ UNCHANGED files)
  /\ UNCHANGED <<guard, disk, mem, op, todo, found, seen, access>>

NeverClaimed(s) == FALSE    \* mistake: the other records are not looked at
ClaimedByOther(s) == \E t \in found[s] \ {s} : seen[s][t].acr

RefuseClaim(s) ==
  /\ Scanned(s) /\ op[s] = "claimACR" /\ ClaimedByOther(s)
  /\ Fail(s)
  /\ UNCHANGED <<guard, files, locked, disk, mem, op, todo, found, seen, access>>

\* update keeps the changed record in memory before it writes it.
ChangeRecord(s) ==
  /\ Scanned(s) /\ op[s] \in Updates
  /\ op[s] = "claimACR" => ~ClaimedByOther(s)
  /\ mem' = [mem EXCEPT ![s].acr = CASE op[s] = "claimACR"   -> TRUE
                                     [] op[s] = "releaseACR" -> FALSE
                                     [] OTHER                -> @]
  /\ pc' = [pc EXCEPT ![s] = "truncate"]
  /\ UNCHANGED <<guard, files, locked, disk, op, ret, todo, found, seen, access>>

\* A write that fails ends registration through removeLocked; any other call
\* returns the error and leaves the record as it is.
WriteFails(s) ==
  /\ "write" \in Faults
  /\ IF op[s] = "register"
     THEN pc' = [pc EXCEPT ![s] = "unlock"] /\ UNCHANGED ret
     ELSE Fail(s)
  /\ UNCHANGED <<disk, access>>

Truncate(s) ==
  /\ pc[s] = "truncate"
  /\ \/ /\ disk' = [disk EXCEPT ![s] = Unknown]
        /\ pc' = [pc EXCEPT ![s] = "write"]
        /\ UNCHANGED <<ret, access>>
     \/ WriteFails(s)
  /\ UNCHANGED <<guard, files, locked, mem, op, todo, found, seen>>

Write(s) ==
  /\ pc[s] = "write"
  /\ \/ /\ disk' = [disk EXCEPT ![s] = mem[s]]
        /\ access' = IF op[s] = "claimACR" THEN access \cup {s} ELSE access
        /\ Return(s, OnSuccess(op[s]))
     \/ WriteFails(s)
  /\ UNCHANGED <<guard, files, locked, mem, op, todo, found, seen>>

-----------------------------------------------------------------------------
(* removeLocked, of close and of a registration that could not be written. *)

UnlockRecord(s) ==
  /\ pc[s] = "unlock"
  /\ locked' = locked \ {s}
  /\ pc' = [pc EXCEPT ![s] = "unlink"]
  /\ UNCHANGED <<guard, files, disk, mem, op, ret, todo, found, seen, access>>

\* A scan may have removed the record already, and a failure to remove it is
\* ignored: what is left is a stale record.
UnlinkRecord(s) ==
  /\ pc[s] = "unlink"
  /\ \/ files' = files \ {s} /\ disk' = [disk EXCEPT ![s] = Unknown]
     \/ "remove" \in Faults /\ UNCHANGED <<files, disk>>
  /\ IF guard = s
     THEN Return(s, "off") /\ UNCHANGED <<op, mem>>
     ELSE /\ pc' = [pc EXCEPT ![s] = "off"]
          /\ op' = [op EXCEPT ![s] = "none"]
          /\ mem' = [mem EXCEPT ![s] = Unknown]
          /\ UNCHANGED ret
  /\ UNCHANGED <<guard, locked, todo, found, seen, access>>

-----------------------------------------------------------------------------
\* The process dies: the system drops its locks, its record stays behind.
Crash(s) ==
  /\ pc[s] # "off"
  /\ guard' = IF guard = s THEN NoSession ELSE guard
  /\ locked' = locked \ {s}
  /\ access' = access \ {s}
  /\ mem' = [mem EXCEPT ![s] = Unknown]
  /\ pc' = [pc EXCEPT ![s] = "off"]
  /\ op' = [op EXCEPT ![s] = "none"]
  /\ ret' = [ret EXCEPT ![s] = "off"]
  /\ todo' = [todo EXCEPT ![s] = {}]
  /\ found' = [found EXCEPT ![s] = {}]
  /\ seen' = [seen EXCEPT ![s] = [t \in Sessions |-> Unknown]]
  /\ UNCHANGED <<files, disk>>

\* What a user or the platform session asks for, in any order.
Start(s) ==
  \/ StartRegister(s) \/ StartList(s) \/ StartSetPorts(s)
  \/ StartClaim(s) \/ StartRelease(s) \/ StartClose(s)

\* The steps of a call that is in progress.
Step(s) ==
  \/ AcquireGuard(s) \/ GiveUpGuard(s) \/ ReleaseGuard(s)
  \/ \E t \in Sessions : ScanEntry(s, t)
  \/ ReadDirFails(s) \/ FinishList(s)
  \/ RefuseRegister(s) \/ CreateRecord(s) \/ LockRecord(s)
  \/ RefuseClaim(s) \/ ChangeRecord(s) \/ Truncate(s) \/ Write(s)
  \/ UnlockRecord(s) \/ UnlinkRecord(s)

Next == \E s \in Sessions : Start(s) \/ Step(s) \/ Crash(s)

Spec == Init /\ [][Next]_vars

\* A call in progress is never abandoned by its goroutine: every wait in it has
\* a deadline and every other step is a file operation that returns.
FairSpec == Spec /\ \A s \in Sessions : WF_vars(Step(s))

-----------------------------------------------------------------------------
(* Properties.                                                             *)

TypeOK ==
  /\ guard \in Sessions \cup {NoSession}
  /\ files \subseteq Sessions /\ locked \subseteq Sessions /\ access \subseteq Sessions
  /\ disk \in [Sessions -> Record]
  /\ mem \in [Sessions -> Record]
  /\ pc \in [Sessions -> PCs]
  /\ op \in [Sessions -> Ops]
  /\ ret \in [Sessions -> Resting]
  /\ todo \in [Sessions -> SUBSET Sessions]
  /\ found \in [Sessions -> SUBSET Sessions]
  /\ seen \in [Sessions -> [Sessions -> Record]]

\* s is an active session: from the write of its first record until it closes
\* or dies.
Live(s) ==
  \/ pc[s] \in {"fresh", "up", "ending"}
  \/ op[s] \in Updates
  \/ op[s] = "close" /\ pc[s] = "wait"
  \/ op[s] = "register" /\ pc[s] = "unguard" /\ ret[s] = "fresh"
LiveSessions == {s \in Sessions : Live(s)}

\* No scan of another process ever removes the record of an active session, and
\* the session always holds its lock: "a record is never seen before its owner
\* has locked it", whatever crashes, and whoever closes without the guard.
RecordKept == \A s \in LiveSessions : s \in files /\ s \in locked

\* The lowest limit rule of registerSession: at no time do the active sessions
\* outnumber the limit of any of them, so max_sessions = 1 runs alone.
WithinEveryLimit == \A s \in LiveSessions : Cardinality(LiveSessions) <= mem[s].limit

\* A record that cannot be read still counts: whatever fails, a session is only
\* admitted while the active sessions are fewer than its own limit.
AdmittedWithinOwnLimit ==
  [][\A s \in LiveSessions' \ LiveSessions : Cardinality(LiveSessions') <= mem'[s].limit]_vars

\* claimACR and releaseACR: Podman registry access stays with one session.
OneHolder == \A s, t \in access : s = t

\* Nobody waits for ever: every call on the registry returns, whoever crashed
\* while it held the guard, and although nobody hands the guard over.
CallsReturn == \A s \in Sessions : pc[s] \notin Resting ~> pc[s] \in Resting

\* A crash costs no place for good: if scans keep completing, and record files can
\* be opened again from some time on, that of a process that died is removed.
Stale(s) == s \in files /\ s \notin locked /\ pc[s] = "off"
ScanCompleted(s) ==
  \/ FinishList(s) \/ RefuseRegister(s) \/ CreateRecord(s)
  \/ RefuseClaim(s) \/ ChangeRecord(s)
StaleReclaimed ==
      /\ []<><<\E s \in Sessions : ScanCompleted(s)>>_vars
      /\ <>[][\A s, t \in Sessions : ~ReadRecordFails(s, t)]_vars
    => \A s \in Sessions : Stale(s) ~> ~Stale(s)

\* The abstract admission this registry implements: a session is a member from
\* its first record to its close or death, and holds what access says.
Admission == INSTANCE SessionAdmission WITH
  limit <- [s \in Sessions |-> IF Live(s) THEN mem[s].limit ELSE 0],
  holders <- access

\* Without failing file operations every step of the registry is a step of the
\* promise of ADR 0018, or none.
ImplementsAdmission == Admission!Spec

=============================================================================
