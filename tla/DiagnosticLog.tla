--------------------------- MODULE DiagnosticLog ---------------------------
(***************************************************************************)
(* The diagnostic log of commands run with --debug                         *)
(* (diagnostics/diagnostics.go, session/commands.go Run).  A command takes *)
(* the first free of a fixed number of file names, its goroutines write    *)
(* events to the file under a mutex up to a size, and the command closes   *)
(* it last.  Commands of several processes share the names, and the user   *)
(* removes old files at any time.                                          *)
(*                                                                         *)
(* An event is its size; a step is a start event and a larger end event.   *)
(***************************************************************************)
EXTENDS FiniteSets, Integers, Optional, SequencesExt

CONSTANTS Commands,      \* processes run with --debug
          Helpers,       \* their goroutines besides the command's own
          MaxFiles,      \* diagnosticMaxFiles
          MaxBytes,      \* diagnosticMaxBytes
          MaxEvents      \* bound: events a command writes before it begins no more

Statuses == {"success", "switch", "failure"}

ASSUME LogAssumption == MaxFiles \in Nat \ {0} /\ MaxBytes \in Nat /\ None \notin Statuses

VARIABLES names,    \* the directory: whose file a name refers to
          stage,    \* how far Run is
          slot,     \* the name Start tries next
          open,     \* log.file # nil
          file,     \* log.file: whose file it is
          content,  \* what is in the file that each command created
          bytes,    \* log.bytes
          failed,   \* log.err # nil
          given,    \* history: what was given to write before Close
          steps,    \* the steps each goroutine has begun and not ended
          status    \* how the command ended

logVars == <<names, stage, slot, open, file, content, bytes, failed, given, steps, status>>

Own == "command"                 \* the goroutine of Run itself
Slots == 0 .. MaxFiles - 1
Old == "old"                     \* a file of an earlier command
StartEvent == 1
EndEvent == 2
Torn == 0                        \* what a failing write left

LogInit(directories) ==
  /\ names \in directories
  /\ stage = [c \in Commands |-> "new"]
  /\ slot = [c \in Commands |-> 0]
  /\ open = [c \in Commands |-> FALSE]
  /\ file = [c \in Commands |-> None]
  /\ content = [c \in Commands \union {Old} |-> <<>>]
  /\ bytes = [c \in Commands |-> 0]
  /\ failed = [c \in Commands |-> FALSE]
  /\ given = [c \in Commands |-> <<>>]
  /\ steps = [c \in Commands |-> {}]
  /\ status = [c \in Commands |-> None]

-----------------------------------------------------------------------------
(* log.write.                                                              *)

Added(c, event) == [content EXCEPT ![file[c]] = Append(@, <<c, event>>)]
Written(c, event) ==
  content' = Added(c, event) /\ bytes' = [bytes EXCEPT ![c] = @ + event]

\* Mistake: a write that failed is not remembered, and the next one is tried.
WriteOn(c, event) ==
  /\ given' = [given EXCEPT ![c] = IF open[c] THEN Append(@, event) ELSE @]
  /\ IF open[c] /\ bytes[c] + event <= MaxBytes
     THEN Written(c, event) \/ Written(c, Torn) ELSE UNCHANGED <<content, bytes>>
  /\ UNCHANGED failed

\* Under the mutex: nothing once the log is closed or has failed; a write that
\* would pass the limit fails it for good, and so does the file system.
LogWrite(c, event) ==
  /\ given' = [given EXCEPT ![c] = IF open[c] THEN Append(@, event) ELSE @]
  /\ \/ /\ ~open[c] \/ failed[c]
        /\ UNCHANGED <<content, bytes, failed>>
     \/ /\ open[c] /\ ~failed[c] /\ bytes[c] + event > MaxBytes
        /\ failed' = [failed EXCEPT ![c] = TRUE] /\ UNCHANGED <<content, bytes>>
     \/ /\ open[c] /\ ~failed[c] /\ bytes[c] + event <= MaxBytes
        /\ \/ Written(c, event) /\ UNCHANGED failed
           \/ /\ Written(c, Torn) \/ UNCHANGED <<content, bytes>>
              /\ failed' = [failed EXCEPT ![c] = TRUE]

-----------------------------------------------------------------------------
(* Run.                                                                    *)

\* diagnostics.Start, one name at a time: O_EXCL creates it or finds it taken.
TakeName(c) ==
  /\ stage[c] = "new"
  /\ \/ /\ names[slot[c]] = None
        /\ names' = [names EXCEPT ![slot[c]] = c]
        /\ file' = [file EXCEPT ![c] = c]
        /\ stage' = [stage EXCEPT ![c] = "opened"]
        /\ open' = [open EXCEPT ![c] = TRUE]
        /\ UNCHANGED <<slot, status>>
     \/ /\ names[slot[c]] # None /\ slot[c] < MaxFiles - 1
        /\ slot' = [slot EXCEPT ![c] = @ + 1]
        /\ UNCHANGED <<names, stage, open, file, status>>
     \/ /\ names[slot[c]] # None /\ slot[c] = MaxFiles - 1
        /\ stage' = [stage EXCEPT ![c] = "ended"]
        /\ status' = [status EXCEPT ![c] = "failure"]
        /\ UNCHANGED <<names, slot, open, file>>
  /\ UNCHANGED <<content, bytes, failed, given, steps>>

\* The command's own step.
BeginCommand(c) ==
  /\ stage[c] = "opened"
  /\ stage' = [stage EXCEPT ![c] = "running"]
  /\ LogWrite(c, StartEvent)
  /\ UNCHANGED <<names, slot, open, file, steps, status>>

\* The goroutines that may still write: Run's own until it ends the command's
\* step, the handlers and watchers also after it.
MayWrite(c, g) == \/ stage[c] = "running"
                  \/ g # Own /\ stage[c] \in {"finished", "closed"}

\* Step, or Event, which has no end.
BeginStep(c, g) ==
  /\ MayWrite(c, g) /\ g \notin steps[c] /\ Len(given[c]) < MaxEvents[c]
  /\ LogWrite(c, StartEvent)
  /\ steps' \in {steps, [steps EXCEPT ![c] = @ \union {g}]}
  /\ UNCHANGED <<names, stage, slot, open, file, status>>

\* The function that Step returned; a second call of it does nothing.
EndStep(c, g) ==
  /\ MayWrite(c, g) /\ g \in steps[c]
  /\ LogWrite(c, EndEvent)
  /\ steps' = [steps EXCEPT ![c] = @ \ {g}]
  /\ UNCHANGED <<names, stage, slot, open, file, status>>

\* The deferred end of the command's step.
FinishCommand(c) ==
  /\ stage[c] = "running" /\ Own \notin steps[c]
  /\ \E s \in Statuses : status' = [status EXCEPT ![c] = s]
  /\ stage' = [stage EXCEPT ![c] = "finished"]
  /\ LogWrite(c, EndEvent)
  /\ UNCHANGED <<names, slot, open, file, steps>>

\* Mistake: what Close returns is only printed.
CloseQuietly(c) ==
  /\ stage[c] = "finished"
  /\ stage' = [stage EXCEPT ![c] = "closed"]
  /\ open' = [open EXCEPT ![c] = FALSE]
  /\ failed' \in {failed, [failed EXCEPT ![c] = TRUE]}
  /\ UNCHANGED <<names, slot, file, content, bytes, given, steps, status>>

\* Close reports what had failed before, and its own failure; a command that was
\* successful then fails.
CloseLog(c) ==
  /\ stage[c] = "finished"
  /\ stage' = [stage EXCEPT ![c] = "closed"]
  /\ open' = [open EXCEPT ![c] = FALSE]
  /\ failed' \in {failed, [failed EXCEPT ![c] = TRUE]}
  /\ status' = [status EXCEPT ![c] = IF failed'[c] /\ @ = "success" THEN "failure" ELSE @]
  /\ UNCHANGED <<names, slot, file, content, bytes, given, steps>>

Exit(c) ==
  /\ stage[c] = "closed"
  /\ stage' = [stage EXCEPT ![c] = "ended"]
  /\ UNCHANGED <<names, slot, open, file, content, bytes, failed, given, steps, status>>

\* The process is killed.
Kill(c) ==
  /\ stage[c] \in {"opened", "running", "finished"}
  /\ stage' = [stage EXCEPT ![c] = "ended"]
  /\ open' = [open EXCEPT ![c] = FALSE]
  /\ status' = [status EXCEPT ![c] = None]
  /\ UNCHANGED <<names, slot, file, content, bytes, failed, given, steps>>

\* The user removes a file; whoever has it open writes on to what has no name.
RemoveFile(n) ==
  /\ names[n] # None
  /\ names' = [names EXCEPT ![n] = None]
  /\ UNCHANGED <<stage, slot, open, file, content, bytes, failed, given, steps, status>>

LogNext ==
  \/ \E c \in Commands :
       \/ TakeName(c) \/ BeginCommand(c) \/ FinishCommand(c) \/ CloseLog(c) \/ Exit(c) \/ Kill(c)
       \/ \E g \in Helpers \union {Own} : BeginStep(c, g) \/ EndStep(c, g)
  \/ \E n \in Slots : RemoveFile(n)

-----------------------------------------------------------------------------
(* Properties.                                                             *)

\* The events of c as they would stand in a file.
Given(c) == [i \in DOMAIN given[c] |-> <<c, given[c][i]>>]

\* Without what a failing write left at the end.
Whole(log) == IF log # <<>> /\ Last(log)[2] = Torn THEN Front(log) ELSE log

Size(log) == Len(log) + Cardinality({i \in DOMAIN log : log[i][2] = EndEvent})

\* A command's file has what its goroutines wrote, in that order and without a
\* gap, up to where the log failed, and nothing of another command; it never
\* passes the size limit.
LogAsGiven ==
  \A c \in Commands : file[c] # None =>
    LET log == content[file[c]]
    IN  /\ IsPrefix(Whole(log), Given(c))
        /\ Size(Whole(log)) <= MaxBytes
        /\ Whole(log) # log => failed[c]

\* A command that reports success has a complete log: all that was written to it
\* before it was closed.
SuccessIsComplete ==
  \A c \in Commands : stage[c] \in {"closed", "ended"} /\ status[c] = "success" =>
    content[file[c]] = Given(c)
=============================================================================
