----------------------------- MODULE PodmanSession -----------------------------
(***************************************************************************)
(* The Podman API service of a session in a Podman Machine                 *)
(* (session/podman_session.go): bivrost starts a supervisor in the guest   *)
(* over ssh and writes a heartbeat to it every five seconds; the           *)
(* supervisor runs the service in a directory of its own and ends it when  *)
(* its input ends, when a heartbeat finds the service gone, or when no     *)
(* heartbeat comes for twenty seconds.  The host may crash or sleep, and   *)
(* the connection may go silent.                                           *)
(***************************************************************************)
EXTENDS Naturals

CONSTANT Lease   \* the read timeout, in heartbeat intervals: 20 s / 5 s

ASSUME LeaseAssumption == Lease \in Nat \ {0, 1}

VARIABLES host,      \* startPodmanSession and close
          asleep,    \* the host is suspended: nothing of it runs
          late,      \* a heartbeat was held up by such a sleep
          due,       \* intervals since the last heartbeat was written
          ssh,       \* the ssh process: podmanSession.process
          link,      \* the connection between ssh and the guest
          pipe,      \* a heartbeat is on its way
          sup,       \* the supervisor
          age,       \* intervals since the supervisor last read a heartbeat
          service,   \* podman system service
          owned      \* the supervisor's directory

vars == <<host, asleep, late, due, ssh, link, pipe, sup, age, service, owned>>
guest == <<sup, age, service, owned>>
bivrost == <<host, asleep, late, due>>

Hosts == {"off", "starting", "serving", "closing", "closed", "crashed"}
Sups == {"none", "starting", "reading", "cleaning", "gone"}

Init ==
  /\ host = "off" /\ asleep = FALSE /\ late = FALSE /\ due = 0
  /\ ssh = "none" /\ link = "up" /\ pipe = FALSE
  /\ sup = "none" /\ age = 0 /\ service = "none" /\ owned = FALSE

\* The other end of the supervisor's input is open.
InputOpen == host \in {"starting", "serving"}
Runs == InputOpen /\ ~asleep

-----------------------------------------------------------------------------
(* The host.                                                               *)

StartSupervisor ==
  /\ host = "off"
  /\ host' = "starting" /\ ssh' = "up" /\ pipe' = TRUE
  /\ UNCHANGED <<asleep, late, due, link, guest>>

\* Mistake: only the first heartbeat is ever written.
HeartbeatOnce ==
  /\ Runs /\ ssh = "up" /\ due = 1
  /\ due' = 0
  /\ UNCHANGED <<host, asleep, late, ssh, link, pipe, guest>>

\* The goroutine: one heartbeat per interval, until ssh is gone.
Heartbeat ==
  /\ Runs /\ ssh = "up" /\ due = 1
  /\ due' = 0 /\ pipe' = TRUE
  /\ UNCHANGED <<host, asleep, late, ssh, link, guest>>

\* The supervisor named its socket and podman info answers through it.
Ready ==
  /\ host = "starting" /\ ~asleep
  /\ sup = "reading" /\ service = "up" /\ link = "up" /\ ssh = "up"
  /\ host' = "serving"
  /\ UNCHANGED <<asleep, late, due, ssh, link, pipe, guest>>

\* Starting fails or takes too long; the session ends; or ssh is gone.
BeginClose ==
  /\ Runs
  /\ host' = "closing"
  /\ UNCHANGED <<asleep, late, due, ssh, link, pipe, guest>>

NoticeDone ==
  /\ Runs /\ ssh = "exited"
  /\ host' = "closing"
  /\ UNCHANGED <<asleep, late, due, ssh, link, pipe, guest>>

\* close waits three seconds for ssh to end by itself, then kills it.
EndClose ==
  /\ host = "closing" /\ ~asleep
  /\ host' = "closed" /\ ssh' = "exited"
  /\ UNCHANGED <<asleep, late, due, link, pipe, guest>>

Crash ==
  /\ host \in {"starting", "serving", "closing"}
  /\ host' = "crashed" /\ asleep' = FALSE
  /\ UNCHANGED <<late, due, ssh, link, pipe, guest>>

Sleep ==
  /\ Runs
  /\ asleep' = TRUE /\ late' = TRUE
  /\ UNCHANGED <<host, due, ssh, link, pipe, guest>>

Wake ==
  /\ asleep
  /\ asleep' = FALSE
  /\ UNCHANGED <<host, late, due, ssh, link, pipe, guest>>

-----------------------------------------------------------------------------
(* The connection.                                                         *)

CutLink ==
  /\ link = "up" /\ ssh = "up"
  /\ link' = "cut"
  /\ UNCHANGED <<bivrost, ssh, pipe, guest>>

\* The remote command has ended; or ServerAlive gave the connection up; or ssh
\* dies of itself.
SshExits ==
  /\ ssh = "up" /\ ~asleep
  /\ ssh' = "exited"
  /\ UNCHANGED <<bivrost, link, pipe, guest>>

-----------------------------------------------------------------------------
(* The supervisor.                                                         *)

StartService ==
  /\ sup = "none" /\ ssh = "up" /\ link = "up"
  /\ owned' = TRUE /\ service' = "up" /\ sup' = "starting"
  /\ UNCHANGED <<bivrost, ssh, link, pipe, age>>

\* It polls for the socket and prints its name, or gives up after ten seconds.
SocketReady ==
  /\ sup = "starting" /\ service = "up"
  /\ sup' = "reading" /\ age' = 0
  /\ UNCHANGED <<bivrost, ssh, link, pipe, service, owned>>

GiveUpSocket ==
  /\ sup = "starting"
  /\ sup' = "cleaning"
  /\ UNCHANGED <<bivrost, ssh, link, pipe, age, service, owned>>

\* What was on its way when the connection went silent does not arrive.
ReadHeartbeat ==
  /\ sup = "reading" /\ pipe /\ link = "up"
  /\ pipe' = FALSE
  /\ late' = asleep
  /\ IF service = "up" THEN age' = 0 /\ UNCHANGED sup
                       ELSE sup' = "cleaning" /\ UNCHANGED age
  /\ UNCHANGED <<host, asleep, due, ssh, link, service, owned>>

ReadEnd ==
  /\ sup = "reading" /\ ~pipe /\ link = "up"
  /\ ~InputOpen \/ ssh = "exited"
  /\ sup' = "cleaning"
  /\ UNCHANGED <<bivrost, ssh, link, pipe, age, service, owned>>

LeaseLasts == FALSE     \* mistake: read has no timeout

LeaseExpires ==
  /\ sup = "reading" /\ age = Lease
  /\ sup' = "cleaning"
  /\ UNCHANGED <<bivrost, ssh, link, pipe, age, service, owned>>

\* cleanup: kill, or kill -KILL two seconds later; the directory comes last.
KillService ==
  /\ sup = "cleaning" /\ service = "up"
  /\ service' = "dead"
  /\ UNCHANGED <<bivrost, ssh, link, pipe, sup, age, owned>>

RemoveOwned ==
  /\ sup = "cleaning" /\ service # "up"
  /\ owned' = FALSE /\ sup' = "gone"
  /\ UNCHANGED <<bivrost, ssh, link, pipe, age, service>>

ServiceDies ==
  /\ service = "up"
  /\ service' = "dead"
  /\ UNCHANGED <<bivrost, ssh, link, pipe, sup, age, owned>>

-----------------------------------------------------------------------------
(* Time, in heartbeat intervals.  Who is awake has done what was due, and a *)
(* connection that is up delivers within the interval.                     *)

Overdue ==
  \/ Runs /\ ssh = "up" /\ due = 1
  \/ sup = "reading" /\ link = "up" /\ pipe
  \/ sup = "reading" /\ age = Lease

Tick ==
  /\ ~Overdue
  /\ due' = IF InputOpen /\ ssh = "up" THEN 1 ELSE due
  /\ age' = IF sup = "reading" THEN age + 1 ELSE age
  /\ <<due, age>>' # <<due, age>>
  /\ UNCHANGED <<host, asleep, late, ssh, link, pipe, sup, service, owned>>

Host == \/ StartSupervisor \/ Heartbeat \/ Ready \/ BeginClose \/ NoticeDone
        \/ EndClose \/ Crash \/ Sleep \/ Wake
Supervisor == \/ StartService \/ SocketReady \/ GiveUpSocket \/ ReadHeartbeat
              \/ ReadEnd \/ LeaseExpires \/ KillService \/ RemoveOwned
Next == Host \/ CutLink \/ SshExits \/ Supervisor \/ ServiceDies \/ Tick

Spec == Init /\ [][Next]_vars

\* Time passes (however often the host sleeps and wakes), an awake host's
\* goroutine writes what is due, and the supervisor goes on.
FairSpec == Spec /\ SF_vars(Tick) /\ WF_vars(Heartbeat) /\ WF_vars(Supervisor)

-----------------------------------------------------------------------------
(* Properties.                                                             *)

TypeOK ==
  /\ host \in Hosts /\ sup \in Sups
  /\ {asleep, late, pipe, owned} \subseteq BOOLEAN
  /\ due \in {0, 1} /\ age \in 0 .. Lease
  /\ ssh \in {"none", "up", "exited"} /\ link \in {"up", "cut"}
  /\ service \in {"none", "up", "dead"}

\* The lease ends only sessions whose heartbeats could not come: it never runs out
\* while the host is awake, its ssh runs and the connection delivers.
LeaseSparesTheLiving ==
  sup = "reading" /\ age = Lease => ~InputOpen \/ late \/ ssh # "up" \/ link = "cut"

\* What the supervisor of a session that is closed, has crashed or has lost its
\* connection runs in the guest is removed, whatever became of the host.
Reclaimed == service # "up" /\ ~owned
ServiceReclaimed ==
  sup # "none" /\ (host \in {"closed", "crashed"} \/ ssh = "exited" \/ link = "cut")
    ~> Reclaimed

\* The service does not outlive the directory of its socket.
ServiceNeedsDirectory == service = "up" => owned
=============================================================================
