--------------------------- MODULE CommandsProofs ---------------------------
(***************************************************************************)
(* Theorems about Commands, for any sign-ins, arguments, catalogues,       *)
(* documents, starts of the proxy, machines, commands and sizes of a log.  *)
(* The jobs that are one step (sign-in, podman, list) are what an operator *)
(* of their module computes: lemmas state that of every input, and the     *)
(* invariant of Spec that the answer is what the operator gives.  FirstWord*)
(* and ProxyOption are recursive functions, so the lemmas about them are   *)
(* proved by induction on the arguments, from their end to the beginning.  *)
(* The others (debug, kubeconfig, acr) have an invariant each, which only  *)
(* the steps of that job can disturb.                                      *)
(***************************************************************************)
EXTENDS Commands, FiniteSetTheorems, SequenceTheorems, WellFoundedInduction, TLAPS

-----------------------------------------------------------------------------
(* The diagnostic log.  A command writes to its own file only, and what    *)
(* the file lacks of what was given to write is known to the command.      *)

\* What a file has of an event: whose it is, and its size.
LogEntries == Commands \X {Torn, StartEvent, EndEvent}
LogEvents == Seq(LogEntries)

LogTypeOK ==
  /\ names \in [Slots -> Commands \union {Old, None}]
  /\ stage \in [Commands -> {"new", "opened", "running", "finished", "closed", "ended"}]
  /\ slot \in [Commands -> Slots]
  /\ open \in [Commands -> BOOLEAN]
  /\ file \in [Commands -> Commands \union {None}]
  /\ content \in [Commands \union {Old} -> LogEvents]
  /\ bytes \in [Commands -> Nat]
  /\ failed \in [Commands -> BOOLEAN]
  /\ given \in [Commands -> Seq({StartEvent, EndEvent})]
  /\ steps \in [Commands -> SUBSET (Helpers \union {Own})]
  /\ status \in [Commands -> Statuses \union {None}]

\* The log that is open is the command's own file, and it stays its file.
OwnFile(c) ==
  /\ open[c] <=> stage[c] \in {"opened", "running", "finished"}
  /\ stage[c] \in {"opened", "running", "finished", "closed"} => file[c] = c
  /\ file[c] \in {None, c}

\* What the log has of what it was given.
Recorded(c) ==
  /\ IsPrefix(Whole(content[c]), Given(c))
  /\ Size(Whole(content[c])) = bytes[c]
  /\ bytes[c] <= MaxBytes
  /\ Whole(content[c]) # content[c] => failed[c]
  /\ ~failed[c] => content[c] = Given(c)

\* Close has told a command that goes on to report success of every failure.
Told(c) == status[c] = "success" /\ stage[c] \in {"closed", "ended"} => ~failed[c] /\ file[c] = c

LogInv == LogTypeOK /\ \A c \in Commands : OwnFile(c) /\ Recorded(c) /\ Told(c)

-----------------------------------------------------------------------------
(* Sequences of events.                                                    *)

\* A prefix is one still when the longer sequence grows.
LEMMA PrefixGrows ==
  ASSUME NEW A, NEW s \in Seq(A), NEW t \in Seq(A), NEW x \in A, IsPrefix(s, t)
  PROVE  IsPrefix(s, Append(t, x)) /\ IsPrefix(t, t)
<1>1. Len(s) <= Len(t) /\ SubSeq(s, 1, Len(s)) = SubSeq(t, 1, Len(s))
  BY DEF IsPrefix
<1>2. SubSeq(Append(t, x), 1, Len(s)) = SubSeq(t, 1, Len(s))
  BY <1>1
<1> QED  BY <1>1, <1>2 DEF IsPrefix

\* What appending does to a sequence, as the steps below use it.
LEMMA Appended ==
  ASSUME NEW A, NEW s \in Seq(A), NEW x \in A
  PROVE  /\ Append(s, x) \in Seq(A) /\ Append(s, x) # <<>> /\ Append(s, x) # s
         /\ Len(s) \in Nat /\ Len(Append(s, x)) = Len(s) + 1
         /\ DOMAIN s = 1 .. Len(s) /\ DOMAIN Append(s, x) = 1 .. Len(s) + 1
         /\ Append(s, x)[Len(s) + 1] = x /\ \A i \in 1 .. Len(s) : Append(s, x)[i] = s[i]
         /\ SubSeq(Append(s, x), 1, Len(s)) = s
  OBVIOUS

\* What a failing write left is all that Whole takes away.
LEMMA WholeOfAppend ==
  ASSUME NEW s \in LogEvents, NEW e \in LogEntries
  PROVE  /\ Append(s, e) \in LogEvents
         /\ Whole(Append(s, e)) = IF e[2] = Torn THEN s ELSE Append(s, e)
         /\ e[2] = Torn => Whole(Append(s, e)) # Append(s, e)
<1> DEFINE t == Append(s, e)
<1>1. /\ t \in LogEvents /\ t # <<>> /\ t # s /\ t[Len(s) + 1] = e
      /\ Len(s) \in Nat /\ Len(t) = Len(s) + 1 /\ SubSeq(t, 1, Len(s)) = s
  BY Appended DEF LogEvents
<1> HIDE DEF t
<1>2. Last(t) = e /\ Len(t) - 1 = Len(s) /\ Front(t) = s
  BY <1>1 DEF Last, Front
<1>3. Whole(t) = IF e[2] = Torn THEN s ELSE t
  BY <1>1, <1>2 DEF Whole
<1> QED  BY <1>1, <1>3 DEF t

\* A log without its torn end is a log.
LEMMA WholeTyped ==
  ASSUME NEW s \in LogEvents
  PROVE  Whole(s) \in LogEvents
<1>1. CASE s = <<>>
  BY <1>1 DEF Whole
<1>2. CASE s # <<>>
  <2>1. Front(s) \in LogEvents
    BY <1>2 DEF Front, LogEvents
  <2> QED  BY <2>1 DEF Whole
<1> QED  BY <1>1, <1>2

\* An event adds its own size to the log.
LEMMA SizeOfAppend ==
  ASSUME NEW s \in LogEvents, NEW c \in Commands, NEW event \in {StartEvent, EndEvent}
  PROVE  Size(s) \in Nat /\ Size(Append(s, <<c, event>>)) = Size(s) + event
<1> DEFINE t == Append(s, <<c, event>>)
           Ends(q) == {i \in DOMAIN q : q[i][2] = EndEvent}
<1> USE DEF LogEvents
<1>1. Len(t) = Len(s) + 1 /\ DOMAIN s = 1 .. Len(s) /\ DOMAIN t = 1 .. Len(s) + 1 /\ Len(s) \in Nat
      /\ t[Len(s) + 1] = <<c, event>> /\ \A i \in 1 .. Len(s) : t[i] = s[i]
  <2>1. <<c, event>> \in LogEntries
    BY DEF LogEntries
  <2> QED  BY <2>1, Appended
<1>2. IsFiniteSet(Ends(s)) /\ Cardinality(Ends(s)) \in Nat
  <2>1. IsFiniteSet(1 .. Len(s)) /\ Ends(s) \subseteq 1 .. Len(s)
    BY <1>1, FS_Interval
  <2> QED  BY <2>1, FS_Subset, FS_CardinalityType
<1>3. Ends(t) = IF event = EndEvent THEN Ends(s) \union {Len(s) + 1} ELSE Ends(s)
  BY <1>1
<1>4. Len(s) + 1 \notin Ends(s)
  BY <1>1
<1>5. Cardinality(Ends(t)) = Cardinality(Ends(s)) + (event - 1)
  <2> HIDE DEF Ends
  <2>1. CASE event = EndEvent
    BY <1>2, <1>3, <1>4, <2>1, FS_AddElement DEF EndEvent
  <2>2. CASE event = StartEvent
    BY <1>2, <1>3, <2>2 DEF EndEvent, StartEvent
  <2> QED  BY <2>1, <2>2
<1>6. Size(s) = Len(s) + Cardinality(Ends(s)) /\ Size(t) = Len(t) + Cardinality(Ends(t))
  BY DEF Size
<1> HIDE DEF Ends, t
<1>7. event \in Int
  BY DEF StartEvent, EndEvent
<1>8. Size(s) \in Nat /\ Size(t) = Size(s) + event
  BY <1>1, <1>2, <1>5, <1>6, <1>7
<1> QED  BY <1>8 DEF t

\* What is given to write becomes the last of the given events.
LEMMA GivenGrows ==
  ASSUME LogTypeOK, NEW c \in Commands, NEW event \in {StartEvent, EndEvent},
         given' = [given EXCEPT ![c] = Append(@, event)]
  PROVE  /\ Given(c) \in LogEvents
         /\ Given(c)' = Append(Given(c), <<c, event>>)
<1>1. given[c] \in Seq({StartEvent, EndEvent}) /\ given'[c] = Append(given[c], event)
  BY DEF LogTypeOK
<1>2. Given(c) \in LogEvents /\ DOMAIN Given(c) = 1 .. Len(given[c]) /\ Len(Given(c)) = Len(given[c])
      /\ \A i \in 1 .. Len(given[c]) : Given(c)[i] = <<c, given[c][i]>>
  BY <1>1 DEF Given, LogEvents, LogEntries
<1>3. Given(c)' = [i \in 1 .. Len(given[c]) + 1 |-> <<c, given'[c][i]>>]
  BY <1>1 DEF Given
<1>4. Append(Given(c), <<c, event>>) = [i \in 1 .. Len(given[c]) + 1 |-> <<c, given'[c][i]>>]
  <2>1. <<c, event>> \in LogEntries
    BY DEF LogEntries
  <2> DEFINE t == Append(Given(c), <<c, event>>)
  <2>2. /\ t \in LogEvents /\ DOMAIN t = 1 .. Len(given[c]) + 1
        /\ t[Len(given[c]) + 1] = <<c, event>> /\ \A i \in 1 .. Len(given[c]) : t[i] = <<c, given[c][i]>>
    BY <1>2, <2>1, Appended DEF LogEvents
  <2>3. /\ given'[c][Len(given[c]) + 1] = event
        /\ \A i \in 1 .. Len(given[c]) : given'[c][i] = given[c][i]
    BY <1>1, Appended
  <2>4. t = [i \in DOMAIN t |-> t[i]]
    BY <2>2 DEF LogEvents
  <2> HIDE DEF t
  <2>5. Len(given[c]) \in Nat
    BY <1>1
  <2>6. \A i \in 1 .. Len(given[c]) + 1 : t[i] = <<c, given'[c][i]>>
    BY <2>2, <2>3, <2>5
  <2>7. t = [i \in 1 .. Len(given[c]) + 1 |-> <<c, given'[c][i]>>]
    BY <2>2, <2>4, <2>6
  <2> QED  BY <2>7 DEF t
<1> QED  BY <1>2, <1>3, <1>4

-----------------------------------------------------------------------------
(* Steps.                                                                  *)

\* A write appends to the given events, and to the file what it can.
LEMMA LogWriteKeeps ==
  ASSUME LogInv, NEW c \in Commands, NEW event \in {StartEvent, EndEvent}, LogWrite(c, event)
  PROVE  /\ content' \in [Commands \union {Old} -> LogEvents]
         /\ bytes' \in [Commands -> Nat]
         /\ failed' \in [Commands -> BOOLEAN]
         /\ given' \in [Commands -> Seq({StartEvent, EndEvent})]
         /\ ~open[c] => UNCHANGED <<content, bytes, failed, given>>
         /\ Recorded(c)'
         /\ \A d \in Commands \ {c} : /\ content'[d] = content[d] /\ bytes'[d] = bytes[d]
                                     /\ failed'[d] = failed[d] /\ given'[d] = given[d]
<1>1. Recorded(c) /\ OwnFile(c) /\ LogTypeOK
  BY DEF LogInv
<1> USE DEF LogTypeOK
<1>2. given' \in [Commands -> Seq({StartEvent, EndEvent})]
  <2>1. Append(given[c], event) \in Seq({StartEvent, EndEvent})
    BY <1>1
  <2> QED  BY <1>1, <2>1 DEF LogWrite
<1>3. \A d \in Commands \ {c} : given'[d] = given[d]
  BY <1>1 DEF LogWrite
<1>4. CASE ~open[c]
  <2>1. UNCHANGED <<content, bytes, failed, given>>
    BY <1>1, <1>4 DEF LogWrite
  <2> QED  BY <1>1, <2>1 DEF Recorded, Given
<1>5. CASE open[c]
  <2>1. given' = [given EXCEPT ![c] = Append(@, event)] /\ file[c] = c
    <3>1. file[c] = c
      BY <1>1, <1>5 DEF OwnFile
    <3> QED  BY <1>1, <1>5, <3>1 DEF LogWrite
  <2>2. Given(c) \in LogEvents /\ Given(c)' = Append(Given(c), <<c, event>>)
    BY <1>1, <2>1, GivenGrows
  <2>3. <<c, event>> \in LogEntries /\ <<c, Torn>> \in LogEntries
    BY DEF LogEntries
  <2>4. content[c] \in LogEvents /\ Whole(content[c]) \in LogEvents /\ bytes[c] \in Nat
    BY <1>1, WholeTyped
  <2>5. CASE failed[c]
    <3>1. UNCHANGED <<content, bytes, failed>>
      BY <1>5, <2>5 DEF LogWrite
    <3>2. IsPrefix(Whole(content[c]), Given(c)')
      BY <1>1, <2>2, <2>3, <2>4, PrefixGrows DEF Recorded, LogEvents
    <3> QED  BY <1>1, <1>2, <1>3, <1>5, <2>5, <3>1, <3>2 DEF Recorded
  <2>6. CASE ~failed[c]
    <3>1. content[c] = Given(c) /\ Whole(content[c]) = content[c] /\ Size(content[c]) = bytes[c]
      BY <1>1, <2>6 DEF Recorded
    <3>2. IsPrefix(content[c], Given(c)')
      BY <2>2, <2>3, <2>4, <3>1, <1>1, PrefixGrows DEF LogEvents, Recorded
    <3>3. CASE UNCHANGED <<content, bytes>> /\ failed' = [failed EXCEPT ![c] = TRUE]
      BY <1>1, <1>2, <1>3, <1>5, <3>1, <3>2, <3>3 DEF Recorded
    <3>4. ASSUME NEW e \in {event, Torn}, Written(c, e) PROVE
               /\ content' \in [Commands \union {Old} -> LogEvents]
               /\ bytes' \in [Commands -> Nat]
               /\ content'[c] = Append(content[c], <<c, e>>) /\ bytes'[c] = bytes[c] + e
               /\ \A d \in Commands \ {c} : content'[d] = content[d] /\ bytes'[d] = bytes[d]
      <4>1. Append(content[c], <<c, e>>) \in LogEvents
        BY <2>3, <2>4, WholeOfAppend
      <4>2. bytes[c] + e \in Nat /\ bytes' = [bytes EXCEPT ![c] = bytes[c] + e]
        BY <2>4, <3>4 DEF Written, StartEvent, EndEvent, Torn
      <4>3. content' = [content EXCEPT ![c] = Append(content[c], <<c, e>>)]
        BY <2>1, <3>4 DEF Written, Added
      <4> QED  BY <1>1, <4>1, <4>2, <4>3
    <3>5. CASE Written(c, event) /\ bytes[c] + event <= MaxBytes /\ UNCHANGED failed
      <4>1. content'[c] = Append(content[c], <<c, event>>) /\ bytes'[c] = bytes[c] + event
        BY <3>4, <3>5
      <4>2. content'[c] = Given(c)' /\ Whole(content'[c]) = content'[c]
        <5>1. <<c, event>>[2] # Torn
          BY DEF Torn, StartEvent, EndEvent
        <5> QED  BY <2>2, <2>3, <2>4, <3>1, <4>1, <5>1, WholeOfAppend
      <4>3. Size(content'[c]) = bytes'[c]
        BY <2>4, <3>1, <4>1, SizeOfAppend
      <4>4. IsPrefix(content'[c], content'[c])
        BY DEF IsPrefix
      <4>5. Recorded(c)'
        BY <3>5, <4>1, <4>2, <4>3, <4>4 DEF Recorded
      <4> QED  BY <1>1, <1>2, <1>3, <1>5, <3>4, <3>5, <4>5
    <3>6. CASE Written(c, Torn) /\ failed' = [failed EXCEPT ![c] = TRUE]
      <4>1. content'[c] = Append(content[c], <<c, Torn>>) /\ bytes'[c] = bytes[c] + Torn
        BY <3>4, <3>6
      <4>2. Whole(content'[c]) = content[c] /\ bytes'[c] = bytes[c]
        BY <2>3, <2>4, <4>1, WholeOfAppend DEF Torn
      <4>3. failed'[c]
        BY <1>1, <3>6
      <4>4. Recorded(c)'
        BY <1>1, <3>1, <3>2, <4>2, <4>3 DEF Recorded
      <4> QED  BY <1>1, <1>2, <1>3, <1>5, <3>4, <3>6, <4>4
    <3> QED  BY <1>5, <2>6, <3>3, <3>5, <3>6 DEF LogWrite
  <2> QED  BY <2>5, <2>6
<1> QED  BY <1>1, <1>4, <1>5

LogStep(c) ==
  \/ TakeName(c) \/ BeginCommand(c) \/ FinishCommand(c) \/ CloseLog(c) \/ Exit(c) \/ Kill(c)
  \/ \E g \in Helpers \union {Own} : BeginStep(c, g) \/ EndStep(c, g)

\* No step of a command, its goroutines' writes among them, breaks the invariant of the log.
LEMMA LogStepInv ==
  ASSUME LogInv, NEW c \in Commands, LogStep(c)
  PROVE  LogInv'
<1> USE LogAssumption DEF Statuses
<1>1. LogTypeOK /\ \A d \in Commands : OwnFile(d) /\ Recorded(d) /\ Told(d)
  BY DEF LogInv
<1> USE DEF LogTypeOK
\* The steps that write, and what they leave alone.
<1>2. ASSUME NEW event \in {StartEvent, EndEvent}, LogWrite(c, event), UNCHANGED <<names, slot, open, file>>,
             stage' \in [Commands -> {"new", "opened", "running", "finished", "closed", "ended"}],
             status' \in [Commands -> Statuses \union {None}],
             steps' \in [Commands -> SUBSET (Helpers \union {Own})],
             OwnFile(c)', Told(c)',
             \A d \in Commands \ {c} : stage'[d] = stage[d] /\ status'[d] = status[d]
      PROVE  LogInv'
  <2>1. /\ content' \in [Commands \union {Old} -> LogEvents]
        /\ bytes' \in [Commands -> Nat]
        /\ failed' \in [Commands -> BOOLEAN]
        /\ given' \in [Commands -> Seq({StartEvent, EndEvent})]
        /\ Recorded(c)'
        /\ \A d \in Commands \ {c} : /\ content'[d] = content[d] /\ bytes'[d] = bytes[d]
                                    /\ failed'[d] = failed[d] /\ given'[d] = given[d]
    BY <1>2, LogWriteKeeps
  <2>2. LogTypeOK'
    BY <1>1, <1>2, <2>1
  <2>3. ASSUME NEW d \in Commands \ {c} PROVE (OwnFile(d) /\ Recorded(d) /\ Told(d))'
    <3>1. /\ content'[d] = content[d] /\ bytes'[d] = bytes[d] /\ failed'[d] = failed[d] /\ given'[d] = given[d]
          /\ stage'[d] = stage[d] /\ status'[d] = status[d] /\ open' = open /\ file' = file
      BY <1>2, <2>1
    <3>2. Given(d)' = Given(d)
      BY <3>1 DEF Given
    <3> QED  BY <1>1, <3>1, <3>2 DEF OwnFile, Recorded, Told
  <2> QED  BY <1>2, <2>1, <2>2, <2>3 DEF LogInv
\* The steps that do not.
<1>3. ASSUME UNCHANGED <<content, bytes, given>>, LogTypeOK',
             OwnFile(c)', Told(c)', failed[c] => failed'[c],
             \A d \in Commands \ {c} : /\ stage'[d] = stage[d] /\ status'[d] = status[d]
                                     /\ open'[d] = open[d] /\ file'[d] = file[d] /\ failed'[d] = failed[d]
      PROVE  LogInv'
  <2>1. \A d \in Commands : Given(d)' = Given(d)
    BY <1>3 DEF Given
  <2>2. ASSUME NEW d \in Commands PROVE Recorded(d)'
    <3>1. failed[d] => failed'[d]
      BY <1>3
    <3> QED  BY <1>1, <1>3, <2>1, <3>1 DEF Recorded
  <2>3. ASSUME NEW d \in Commands \ {c} PROVE (OwnFile(d) /\ Told(d))'
    BY <1>1, <1>3 DEF OwnFile, Told
  <2> QED  BY <1>3, <2>2, <2>3 DEF LogInv
<1>4. CASE TakeName(c)
  <2>1. LogTypeOK'
    <3>1. names' \in [Slots -> Commands \union {Old, None}]
      BY <1>1, <1>4 DEF TakeName
    <3>2. slot' \in [Commands -> Slots]
      <4>1. slot[c] < MaxFiles - 1 => slot[c] + 1 \in Slots
        BY <1>1 DEF Slots
      <4> QED  BY <1>1, <1>4, <4>1 DEF TakeName
    <3>5. file' \in [Commands -> Commands \union {None}]
      <4>1. file' = file \/ file' = [file EXCEPT ![c] = c]
        BY <1>4 DEF TakeName
      <4> QED  BY <1>1, <4>1
    <3>6. open' \in [Commands -> BOOLEAN]
      <4>1. open' = open \/ open' = [open EXCEPT ![c] = TRUE]
        BY <1>4 DEF TakeName
      <4> QED  BY <1>1, <4>1
    <3>3. stage' \in [Commands -> {"new", "opened", "running", "finished", "closed", "ended"}]
      BY <1>1, <1>4 DEF TakeName
    <3>4. status' \in [Commands -> Statuses \union {None}]
      BY <1>1, <1>4 DEF TakeName
    <3> QED  BY <1>1, <1>4, <3>1, <3>2, <3>3, <3>4, <3>5, <3>6 DEF TakeName
  <2>2. (OwnFile(c) /\ Told(c))'
    <3>1. CASE stage'[c] = "opened" /\ file'[c] = c /\ open'[c] /\ status'[c] = status[c]
      BY <1>1, <3>1 DEF OwnFile, Told
    <3>2. CASE UNCHANGED <<stage, open, file, failed, status>>
      BY <1>1, <3>2 DEF OwnFile, Told
    <3>3. CASE stage'[c] = "ended" /\ status'[c] = "failure" /\ ~open[c] /\ UNCHANGED <<open, file>>
      BY <1>1, <3>3 DEF OwnFile, Told
    <3> QED  BY <1>1, <1>4, <3>1, <3>2, <3>3 DEF TakeName, OwnFile
  <2>3. \A d \in Commands \ {c} : /\ stage'[d] = stage[d] /\ status'[d] = status[d]
                                 /\ open'[d] = open[d] /\ file'[d] = file[d] /\ failed'[d] = failed[d]
    BY <1>1, <1>4 DEF TakeName
  <2> QED  BY <1>1, <1>3, <1>4, <2>1, <2>2, <2>3 DEF TakeName
<1>5. CASE BeginCommand(c)
  <2>1. (OwnFile(c) /\ Told(c))'
    BY <1>1, <1>5 DEF BeginCommand, OwnFile, Told
  <2> QED  BY <1>1, <1>2, <1>5, <2>1 DEF BeginCommand
<1>6. CASE FinishCommand(c)
  <2>1. (OwnFile(c) /\ Told(c))'
    BY <1>1, <1>6 DEF FinishCommand, OwnFile, Told
  <2>2. status' \in [Commands -> Statuses \union {None}]
        /\ \A d \in Commands \ {c} : status'[d] = status[d]
    BY <1>1, <1>6 DEF FinishCommand
  <2> QED  BY <1>1, <1>2, <1>6, <2>1, <2>2 DEF FinishCommand
<1>7. CASE CloseLog(c)
  <2>1. LogTypeOK' /\ failed[c] => failed'[c]
    BY <1>1, <1>7 DEF CloseLog
  <2>2. (OwnFile(c) /\ Told(c))'
    BY <1>1, <1>7 DEF CloseLog, OwnFile, Told
  <2> QED  BY <1>1, <1>3, <1>7, <2>1, <2>2 DEF CloseLog
<1>8. CASE Exit(c)
  <2>1. LogTypeOK' /\ (OwnFile(c) /\ Told(c))'
    BY <1>1, <1>8 DEF Exit, OwnFile, Told
  <2> QED  BY <1>1, <1>3, <1>8, <2>1 DEF Exit
<1>9. CASE Kill(c)
  <2>1. LogTypeOK'
    BY <1>1, <1>9 DEF Kill
  <2>2. (OwnFile(c) /\ Told(c))'
    BY <1>1, <1>9 DEF Kill, OwnFile, Told
  <2> QED  BY <1>1, <1>3, <1>9, <2>1, <2>2 DEF Kill
<1>10. ASSUME NEW g \in Helpers \union {Own}, BeginStep(c, g) \/ EndStep(c, g) PROVE LogInv'
  <2>1. (OwnFile(c) /\ Told(c))'
    <3>1. ~open[c] => UNCHANGED failed
      BY <1>10, LogWriteKeeps DEF BeginStep, EndStep, LogWrite
    <3>2. UNCHANGED <<stage, status, open, file>>
      BY <1>10 DEF BeginStep, EndStep
    <3>3. stage[c] \in {"closed", "ended"} => failed' = failed
      BY <1>1, <3>1 DEF OwnFile
    <3> QED  BY <1>1, <3>2, <3>3 DEF OwnFile, Told
  <2>2. steps' \in [Commands -> SUBSET (Helpers \union {Own})]
    <3>1. steps[c] \union {g} \in SUBSET (Helpers \union {Own}) /\ steps[c] \ {g} \in SUBSET (Helpers \union {Own})
      BY <1>1
    <3> QED  BY <1>1, <1>10, <3>1 DEF BeginStep, EndStep
  <2> QED  BY <1>1, <1>2, <1>10, <2>1, <2>2 DEF BeginStep, EndStep
<1> QED  BY <1>4, <1>5, <1>6, <1>7, <1>8, <1>9, <1>10 DEF LogStep

\* Start finds a directory with any old files.
LEMMA InitLogInv ==
  ASSUME NEW directories \in SUBSET [Slots -> Commands \union {Old, None}], LogInit(directories)
  PROVE  LogInv
<1> USE LogAssumption DEF LogInit, LogInv
<1>1. LogTypeOK
  BY DEF LogTypeOK, LogEvents, Slots
<1>2. ASSUME NEW c \in Commands PROVE OwnFile(c) /\ Told(c)
  BY DEF OwnFile, Told
<1>3. ASSUME NEW c \in Commands PROVE Recorded(c)
  <2>1. content[c] = <<>> /\ Given(c) = <<>> /\ bytes[c] = 0 /\ Whole(<<>>) = <<>>
    BY DEF Given, Whole
  <2>2. IsPrefix(<<>>, <<>>)
    BY DEF IsPrefix
  <2>3. Size(<<>>) = 0
    BY FS_EmptySet DEF Size
  <2> QED  BY <2>1, <2>2, <2>3 DEF Recorded
<1> QED  BY <1>1, <1>2, <1>3

\* Commands and the user, who may remove any file, keep it.
LEMMA LogNextInv == LogInv /\ LogNext => LogInv'
<1> SUFFICES ASSUME LogInv, LogNext PROVE LogInv'
  OBVIOUS
<1>1. CASE \E c \in Commands : LogStep(c)
  BY <1>1, LogStepInv
<1>2. CASE \E n \in Slots : RemoveFile(n)
  <2>1. UNCHANGED <<stage, slot, open, file, content, bytes, failed, given, steps, status>>
        /\ names' \in [Slots -> Commands \union {Old, None}]
    BY <1>2 DEF RemoveFile, LogInv, LogTypeOK
  <2>2. LogTypeOK'
    BY <2>1 DEF LogInv, LogTypeOK
  <2>3. ASSUME NEW c \in Commands PROVE (OwnFile(c) /\ Recorded(c) /\ Told(c))'
    BY <2>1 DEF LogInv, OwnFile, Recorded, Told, Given
  <2> QED  BY <2>2, <2>3 DEF LogInv
<1> QED  BY <1>1, <1>2 DEF LogNext, LogStep

\* The log of a command is what was written to it, and of a successful one all of it.
LEMMA LogInvSafe == LogInv => LogAsGiven /\ SuccessIsComplete
<1> SUFFICES ASSUME LogInv PROVE LogAsGiven /\ SuccessIsComplete
  OBVIOUS
<1>1. \A c \in Commands : OwnFile(c) /\ Recorded(c) /\ Told(c)
  BY DEF LogInv
<1>2. LogAsGiven
  BY <1>1 DEF LogAsGiven, OwnFile, Recorded
<1>3. SuccessIsComplete
  BY <1>1 DEF SuccessIsComplete, Recorded, Told
<1> QED  BY <1>2, <1>3

-----------------------------------------------------------------------------
(* Induction over sequences.                                               *)

\* A set of naturals has a least member.
LEMMA HasLeast ==
  ASSUME NEW I \in SUBSET Nat, I # {}
  PROVE  \E x \in I : \A y \in I : x <= y
<1>1. \E x \in I : \A y \in I : ~(<<y, x>> \in OpToRel(<, Nat))
  BY WFMin, NatLessThanWellFounded
<1>2. PICK x \in I : \A y \in I : ~(<<y, x>> \in OpToRel(<, Nat))
  BY <1>1
<1>3. \A y \in I : ~(y < x)
  BY <1>2 DEF OpToRel
<1> QED  BY <1>3

\* A set with 0 and with the successors of its members has all naturals.
LEMMA SetInduction ==
  ASSUME NEW S, 0 \in S, \A n \in Nat : n \in S => n + 1 \in S
  PROVE  Nat \subseteq S
<1> DEFINE I == Nat \ S
<1> SUFFICES ASSUME I # {} PROVE FALSE
  OBVIOUS
<1>1. I \in SUBSET Nat
  OBVIOUS
<1>2. PICK x \in I : \A y \in I : x <= y
  <2> HIDE DEF I
  <2> QED  BY <1>1, HasLeast
<1>3. x # 0 /\ x - 1 \in Nat /\ x - 1 \notin I /\ (x - 1) + 1 = x
  BY <1>2
<1> QED  BY <1>2, <1>3

\* Induction from the end of a sequence to its beginning.
LEMMA Backwards ==
  ASSUME NEW n \in Nat, NEW S, n + 1 \in S, n + 2 \in S,
         \A i \in 1 .. n : i + 1 \in S /\ i + 2 \in S => i \in S
  PROVE  1 .. n + 2 \subseteq S
<1> DEFINE K == {k \in Nat : k <= n => n - k + 1 \in S /\ n - k + 2 \in S}
<1>1. 0 \in K
  OBVIOUS
<1>2. ASSUME NEW k \in Nat, k \in K PROVE k + 1 \in K
  <2> SUFFICES ASSUME k + 1 <= n PROVE n - (k + 1) + 1 \in S /\ n - (k + 1) + 2 \in S
    OBVIOUS
  <2>1. n - k \in 1 .. n /\ n - k + 1 \in S /\ n - k + 2 \in S
    BY <1>2
  <2> QED  BY <2>1
<1>3. Nat \subseteq K
  <2> HIDE DEF K
  <2> QED  BY <1>1, <1>2, SetInduction
<1> SUFFICES ASSUME NEW i \in 1 .. n PROVE i \in S
  OBVIOUS
<1>4. n + 1 - i \in Nat /\ n + 1 - i <= n /\ n - (n + 1 - i) + 1 = i
  OBVIOUS
<1> QED  BY <1>3, <1>4

\* f has base behind n, and before that what F makes of its next two values.
UpFrom(f, n, base, F) ==
  \A i \in 1 .. n + 2 : f[i] = IF i > n THEN base ELSE F[i][f[i + 1]][f[i + 2]]

\* A function whose value at i follows from those at i + 1 and i + 2 exists.
LEMMA Upward ==
  ASSUME NEW V, NEW n \in Nat, NEW base \in V, NEW F \in [1 .. n -> [V -> [V -> V]]]
  PROVE  \E f \in [1 .. n + 2 -> V] : UpFrom(f, n, base, F)
<1> DEFINE Solves(f, m) == \A i \in m .. n + 2 : f[i] = IF i > n THEN base ELSE F[i][f[i + 1]][f[i + 2]]
           Has(m) == \E f \in [m .. n + 2 -> V] : Solves(f, m)
           S == {k \in Nat : k <= n => Has(n - k + 1)}
<1>1. Has(n + 1)
  <2>1. [i \in n + 1 .. n + 2 |-> base] \in [n + 1 .. n + 2 -> V]
    OBVIOUS
  <2>2. Solves([i \in n + 1 .. n + 2 |-> base], n + 1)
    OBVIOUS
  <2> QED BY <2>1, <2>2
<1>2. ASSUME NEW m \in 1 .. n, Has(m + 1) PROVE Has(m)
  <2>1. PICK f \in [m + 1 .. n + 2 -> V] : Solves(f, m + 1)
    BY <1>2
  <2> DEFINE v == F[m][f[m + 1]][f[m + 2]]
             g == [i \in m .. n + 2 |-> IF i = m THEN v ELSE f[i]]
  <2>2. v \in V
    OBVIOUS
  <2>3. g \in [m .. n + 2 -> V] /\ g[m] = v /\ \A i \in m + 1 .. n + 2 : g[i] = f[i]
    BY <2>2
  <2> HIDE DEF g
  <2>4. ASSUME NEW i \in m .. n + 2
        PROVE  g[i] = IF i > n THEN base ELSE F[i][g[i + 1]][g[i + 2]]
    <3>1. CASE i = m
      <4>1. m + 1 \in m + 1 .. n + 2 /\ m + 2 \in m + 1 .. n + 2 /\ ~(m > n)
        OBVIOUS
      <4>2. g[m + 1] = f[m + 1] /\ g[m + 2] = f[m + 2] /\ g[m] = v
        BY <2>3, <4>1
      <4> QED BY <3>1, <4>1, <4>2
    <3>2. CASE i # m
      <4>1. i \in m + 1 .. n + 2 /\ i \in Int
        BY <3>2
      <4>2. g[i] = f[i] /\ f[i] = IF i > n THEN base ELSE F[i][f[i + 1]][f[i + 2]]
        BY <2>1, <2>3, <4>1
      <4>3. CASE i > n
        BY <4>2, <4>3
      <4>4. CASE ~(i > n)
        <5>1. i + 1 \in m + 1 .. n + 2 /\ i + 2 \in m + 1 .. n + 2
          BY <4>1, <4>4
        <5>2. g[i + 1] = f[i + 1] /\ g[i + 2] = f[i + 2]
          BY <2>3, <5>1
        <5> QED BY <4>2, <4>4, <5>2
      <4> QED BY <4>3, <4>4
    <3> QED BY <3>1, <3>2
  <2> QED BY <2>3, <2>4
<1> HIDE DEF Has
<1>3. 0 \in S
  BY <1>1
<1>4. ASSUME NEW k \in Nat, k \in S PROVE k + 1 \in S
  <2> SUFFICES ASSUME k + 1 <= n PROVE Has(n - (k + 1) + 1)
    OBVIOUS
  <2>1. Has(n - k + 1) /\ n - k \in 1 .. n /\ n - k + 1 = (n - k) + 1 /\ n - (k + 1) + 1 = n - k
    BY <1>4
  <2> QED BY <1>2, <2>1
<1>5. Has(1)
  <2>1. n \in S
    <3> HIDE DEF S
    <3> QED BY <1>3, <1>4, SetInduction
  <2> QED BY <2>1
<1>6. PICK f \in [1 .. n + 2 -> V] : Solves(f, 1)
  BY <1>5 DEF Has
<1> QED BY <1>6 DEF UpFrom

-----------------------------------------------------------------------------
(* The podman wrapper.                                                     *)

\* What FirstWord finds from each index on, and what it goes past.
Scan(args, flags, takes) == Wrapper!FirstWord(args, flags, takes)
Skips(arg, groups, flags) == arg \in flags \/ (arg = "image" /\ groups = 1)
GroupsLeft(arg, groups) == IF arg = "image" THEN 0 ELSE groups

\* The recursion that FirstWord states has a solution, which FirstWord then is.
LEMMA FirstWordIs ==
  ASSUME NEW A, NEW args \in Seq(A), NEW flags, NEW takes \in BOOLEAN
  PROVE  \A i \in 1 .. Len(args) + 2, groups \in 0 .. 1 :
           Scan(args, flags, takes)[i][groups] =
             IF i > Len(args) THEN 0
             ELSE IF Skips(args[i], groups, flags)
             THEN Scan(args, flags, takes)[i + Wrapper!Width(args[i], takes)][GroupsLeft(args[i], groups)]
             ELSE i
<1> DEFINE V == [0 .. 1 -> Nat]
           n == Len(args)
           base == [groups \in 0 .. 1 |-> 0]
           To(i, u, w) == [groups \in 0 .. 1 |->
                             IF Skips(args[i], groups, flags)
                             THEN (IF Wrapper!Width(args[i], takes) = 2 THEN w ELSE u)[GroupsLeft(args[i], groups)]
                             ELSE i]
           F == [i \in 1 .. n |-> [u \in V |-> [w \in V |-> To(i, u, w)]]]
           Solution(f) == f = [i \in 1 .. n + 2 |->
             IF i > n THEN base
             ELSE [groups \in 0 .. 1 |->
                    IF Skips(args[i], groups, flags)
                    THEN f[i + Wrapper!Width(args[i], takes)][GroupsLeft(args[i], groups)] ELSE i]]
<1>1. n \in Nat /\ base \in V
  OBVIOUS
<1>2. F \in [1 .. n -> [V -> [V -> V]]]
  <2>1. ASSUME NEW i \in 1 .. n, NEW u \in V, NEW w \in V PROVE To(i, u, w) \in V
    <3>1. ASSUME NEW groups \in 0 .. 1 PROVE GroupsLeft(args[i], groups) \in 0 .. 1
      BY DEF GroupsLeft
    <3>2. i \in Nat
      OBVIOUS
    <3> QED  BY <3>1, <3>2
  <2> HIDE DEF To, V
  <2>2. ASSUME NEW i \in 1 .. n, NEW u \in V PROVE [w \in V |-> To(i, u, w)] \in [V -> V]
    BY <2>1
  <2>3. ASSUME NEW i \in 1 .. n PROVE [u \in V |-> [w \in V |-> To(i, u, w)]] \in [V -> [V -> V]]
    BY <2>2
  <2> QED  BY <2>3, Zenon
<1>3. PICK f \in [1 .. n + 2 -> V] : UpFrom(f, n, base, F)
  <2> HIDE DEF n, V, base, F, To, Solution
  <2> QED  BY <1>1, <1>2, Upward
<1>4. Solution(f)
  <2>1. ASSUME NEW i \in 1 .. n + 2, ~(i > n)
        PROVE  f[i] = [groups \in 0 .. 1 |->
                         IF Skips(args[i], groups, flags)
                         THEN f[i + Wrapper!Width(args[i], takes)][GroupsLeft(args[i], groups)] ELSE i]
    <3>1. i \in 1 .. n /\ f[i + 1] \in V /\ f[i + 2] \in V
      BY <1>1, <2>1
    <3>2. f[i] = F[i][f[i + 1]][f[i + 2]]
      BY <1>3, <2>1 DEF UpFrom
    <3>3. f[i] = To(i, f[i + 1], f[i + 2])
      <4> HIDE DEF To, V
      <4> QED  BY <3>1, <3>2
    <3>4. Wrapper!Width(args[i], takes) \in {1, 2}
      BY DEF Wrapper!Width
    <3>5. (IF Wrapper!Width(args[i], takes) = 2 THEN f[i + 2] ELSE f[i + 1]) = f[i + Wrapper!Width(args[i], takes)]
      BY <3>4
    <3> QED  BY <3>3, <3>5
  <2> HIDE DEF F, V
  <2>2. ASSUME NEW i \in 1 .. n + 2
        PROVE  f[i] = IF i > n THEN base
                      ELSE [groups \in 0 .. 1 |->
                             IF Skips(args[i], groups, flags)
                             THEN f[i + Wrapper!Width(args[i], takes)][GroupsLeft(args[i], groups)] ELSE i]
    BY <1>3, <2>1 DEF UpFrom
  <2> HIDE DEF base
  <2> QED  BY <2>2
<1>5. Solution(CHOOSE h : Solution(h))
  BY <1>4
<1>6. Solution(Wrapper!FirstWord(args, flags, takes))
  BY <1>5 DEF Wrapper!FirstWord, Wrapper!Group, Skips, GroupsLeft
<1> HIDE DEF V, To, F
<1> QED
  <2> DEFINE w == Wrapper!FirstWord(args, flags, takes)
  <2> HIDE DEF w
  <2>1. Solution(w)
    <3> HIDE DEF Solution
    <3> QED  BY <1>6 DEF w
  <2>2. ASSUME NEW i \in 1 .. n + 2, NEW groups \in 0 .. 1
        PROVE  w[i][groups] = IF i > n THEN 0 ELSE IF Skips(args[i], groups, flags)
                 THEN w[i + Wrapper!Width(args[i], takes)][GroupsLeft(args[i], groups)] ELSE i
    <3> DEFINE row(j) == [g \in 0 .. 1 |-> IF Skips(args[j], g, flags)
                           THEN w[j + Wrapper!Width(args[j], takes)][GroupsLeft(args[j], g)] ELSE j]
               body == [j \in 1 .. n + 2 |-> IF j > n THEN base ELSE row(j)]
    <3>1. w = body
      BY <2>1
    <3>2. body[i] = IF i > n THEN base ELSE row(i)
      <4> HIDE DEF row, base
      <4> QED  OBVIOUS
    <3>3. w[i] = IF i > n THEN base ELSE row(i)
      <4> HIDE DEF body, row, base
      <4> QED  BY <3>1, <3>2
    <3> HIDE DEF body
    <3> QED  BY <3>3
  <2> QED  BY <2>2 DEF w, Scan

\* What FirstWord finds is an index of the arguments, or 0.
LEMMA FirstWordTyped ==
  ASSUME NEW A, NEW args \in Seq(A), NEW flags, NEW takes \in BOOLEAN
  PROVE  \A i \in 1 .. Len(args) + 2, groups \in 0 .. 1 : Scan(args, flags, takes)[i][groups] \in 0 .. Len(args)
<1> DEFINE n == Len(args)
           S == {i \in 1 .. n + 2 : \A groups \in 0 .. 1 : Scan(args, flags, takes)[i][groups] \in 0 .. n}
<1>1. n \in Nat
  OBVIOUS
<1>2. n + 1 \in S /\ n + 2 \in S
  BY <1>1, FirstWordIs
<1>3. ASSUME NEW i \in 1 .. n, i + 1 \in S, i + 2 \in S PROVE i \in S
  <2> SUFFICES ASSUME NEW groups \in 0 .. 1 PROVE Scan(args, flags, takes)[i][groups] \in 0 .. n
    OBVIOUS
  <2>1. i + Wrapper!Width(args[i], takes) \in S /\ GroupsLeft(args[i], groups) \in 0 .. 1
    BY <1>3 DEF Wrapper!Width, GroupsLeft
  <2>2. Scan(args, flags, takes)[i][groups] \in
          {i, Scan(args, flags, takes)[i + Wrapper!Width(args[i], takes)][GroupsLeft(args[i], groups)]}
    BY <1>1, FirstWordIs
  <2> QED  BY <2>1, <2>2
<1>4. 1 .. n + 2 \subseteq S
  <2> HIDE DEF n, S
  <2> QED  BY <1>1, <1>2, <1>3, Backwards
<1> QED  BY <1>4

\* A scan that skips flags has to skip more of what another one skips.
Covers(args, flags, takes, more, wider) ==
  \A j \in 1 .. Len(args) : args[j] \in flags \union {"image"} =>
    /\ args[j] \in flags => args[j] \in more
    /\ Wrapper!Width(args[j], takes) = Wrapper!Width(args[j], wider)

\* What another scan finds that skips the same arguments up to the first word.
LEMMA FirstWordAgrees ==
  ASSUME NEW A, NEW args \in Seq(A), NEW flags, NEW takes \in BOOLEAN,
         NEW B, NEW other \in Seq(B), NEW more, NEW wider \in BOOLEAN,
         Covers(args, flags, takes, more, wider)
  PROVE  \A i \in 1 .. Len(args) + 2, groups \in 0 .. 1 :
           LET k == Scan(args, flags, takes)[i][groups]
           IN  k # 0 /\ k <= Len(other) /\ args[k] \notin more \union {"image"}
                 /\ (\A j \in 1 .. k : other[j] = args[j])
               => i <= k /\ Scan(other, more, wider)[i][groups] = k
<1> DEFINE n == Len(args)
           k(i, groups) == Scan(args, flags, takes)[i][groups]
           Stops(i, groups) == /\ k(i, groups) # 0 /\ k(i, groups) <= Len(other)
                               /\ args[k(i, groups)] \notin more \union {"image"}
                               /\ \A j \in 1 .. k(i, groups) : other[j] = args[j]
           S == {i \in 1 .. n + 2 : \A groups \in 0 .. 1 : Stops(i, groups) =>
                   i <= k(i, groups) /\ Scan(other, more, wider)[i][groups] = k(i, groups)}
<1>1. n \in Nat /\ Len(other) \in Nat
  OBVIOUS
<1>2. n + 1 \in S /\ n + 2 \in S
  BY <1>1, FirstWordIs
<1>3. ASSUME NEW i \in 1 .. n, i + 1 \in S, i + 2 \in S PROVE i \in S
  <2> SUFFICES ASSUME NEW groups \in 0 .. 1, Stops(i, groups)
               PROVE  i <= k(i, groups) /\ Scan(other, more, wider)[i][groups] = k(i, groups)
    OBVIOUS
  <2>1. k(i, groups) \in 1 .. n
    BY FirstWordTyped
  <2>2. CASE ~Skips(args[i], groups, flags)
    <3>0. k(i, groups) = i
      <4>1. i \in 1 .. n + 2 /\ ~(i > n)
        BY <1>1
      <4> QED  BY <2>2, <4>1, FirstWordIs
    <3>1. k(i, groups) = i /\ other[i] = args[i] /\ i \in 1 .. Len(other)
      BY <1>1, <2>1, <3>0
    <3>2. ~Skips(other[i], groups, more)
      <4>1. args[i] \notin more \union {"image"}
        BY <3>1
      <4> QED  BY <3>1, <4>1 DEF Skips
    <3> QED  BY <1>1, <3>1, <3>2, FirstWordIs
  <2>3. CASE Skips(args[i], groups, flags)
    <3> DEFINE m == i + Wrapper!Width(args[i], takes)
               g == GroupsLeft(args[i], groups)
    <3>1. m \in S /\ g \in 0 .. 1 /\ m \in {i + 1, i + 2}
      BY <1>3 DEF Wrapper!Width, GroupsLeft
    <3>2. k(i, groups) = k(m, g)
      BY <1>1, <2>3, FirstWordIs
    <3>3. m <= k(i, groups) /\ Scan(other, more, wider)[m][g] = k(i, groups)
      BY <3>1, <3>2
    <3>4. i \in 1 .. Len(other) /\ other[i] = args[i]
      BY <1>1, <2>1, <3>1, <3>3
    <3>5. Skips(other[i], groups, more) /\ Wrapper!Width(other[i], wider) = Wrapper!Width(args[i], takes)
      <4>1. args[i] \in flags \union {"image"} /\ (args[i] = "image" /\ groups # 1 => args[i] \in flags)
        BY <2>3 DEF Skips
      <4>2. /\ args[i] \in flags => args[i] \in more
            /\ Wrapper!Width(args[i], takes) = Wrapper!Width(args[i], wider)
        BY <4>1 DEF Covers
      <4> QED  BY <3>4, <4>1, <4>2 DEF Skips
    <3>6. Scan(other, more, wider)[i][groups] = Scan(other, more, wider)[m][g]
      BY <1>1, <3>4, <3>5, FirstWordIs
    <3> QED  BY <2>1, <3>1, <3>3, <3>6
  <2> QED  BY <2>2, <2>3
<1>4. 1 .. n + 2 \subseteq S
  <2> HIDE DEF n, S
  <2> QED  BY <1>1, <1>2, <1>3, Backwards
<1> QED  BY <1>4

\* What ProxyOption finds from each index on.
Option(args, takes) == Wrapper!ProxyOption(args, takes)

\* The recursion that ProxyOption states has a solution, which ProxyOption then is.
LEMMA ProxyOptionIs ==
  ASSUME NEW A, NEW args \in Seq(A), NEW takes \in BOOLEAN
  PROVE  \A i \in 1 .. Len(args) + 2 :
           Option(args, takes)[i] =
             IF i > Len(args) \/ args[i] = "--" THEN "default"
             ELSE IF Option(args, takes)[i + Wrapper!Width(args[i], takes)] = "default"
                       /\ args[i] \in {"--http-proxy", "--http-proxy=false"}
             THEN args[i] ELSE Option(args, takes)[i + Wrapper!Width(args[i], takes)]
<1> DEFINE n == Len(args)
           V == {"default"} \union {args[i] : i \in 1 .. n}
           With(i, later) == IF args[i] = "--" THEN "default"
                             ELSE IF later = "default" /\ args[i] \in {"--http-proxy", "--http-proxy=false"}
                             THEN args[i] ELSE later
           To(i, u, w) == With(i, IF Wrapper!Width(args[i], takes) = 2 THEN w ELSE u)
           F == [i \in 1 .. n |-> [u \in V |-> [w \in V |-> To(i, u, w)]]]
           Solution(f) == f = [i \in 1 .. n + 2 |->
             IF i > n \/ args[i] = "--" THEN "default"
             ELSE IF f[i + Wrapper!Width(args[i], takes)] = "default"
                       /\ args[i] \in {"--http-proxy", "--http-proxy=false"}
             THEN args[i] ELSE f[i + Wrapper!Width(args[i], takes)]]
<1>1. n \in Nat /\ "default" \in V
  OBVIOUS
<1>2. F \in [1 .. n -> [V -> [V -> V]]]
  <2>1. ASSUME NEW i \in 1 .. n, NEW u \in V, NEW w \in V PROVE To(i, u, w) \in V
    OBVIOUS
  <2> HIDE DEF To, V
  <2>2. ASSUME NEW i \in 1 .. n, NEW u \in V PROVE [w \in V |-> To(i, u, w)] \in [V -> V]
    BY <2>1
  <2>3. ASSUME NEW i \in 1 .. n PROVE [u \in V |-> [w \in V |-> To(i, u, w)]] \in [V -> [V -> V]]
    BY <2>2
  <2> QED  BY <2>3, Zenon
<1>3. PICK f \in [1 .. n + 2 -> V] : UpFrom(f, n, "default", F)
  <2> HIDE DEF n, V, F, To, Solution
  <2> QED  BY <1>1, <1>2, Upward
<1>4. Solution(f)
  <2>1. ASSUME NEW i \in 1 .. n + 2, ~(i > n)
        PROVE  f[i] = With(i, f[i + Wrapper!Width(args[i], takes)])
    <3>1. i \in 1 .. n /\ f[i + 1] \in V /\ f[i + 2] \in V
      BY <1>1, <2>1
    <3>2. f[i] = F[i][f[i + 1]][f[i + 2]]
      BY <1>3, <2>1 DEF UpFrom
    <3>3. f[i] = To(i, f[i + 1], f[i + 2])
      <4> HIDE DEF To, V
      <4> QED  BY <3>1, <3>2
    <3>4. Wrapper!Width(args[i], takes) \in {1, 2}
      BY DEF Wrapper!Width
    <3>5. (IF Wrapper!Width(args[i], takes) = 2 THEN f[i + 2] ELSE f[i + 1]) = f[i + Wrapper!Width(args[i], takes)]
      BY <3>4
    <3> HIDE DEF With
    <3> QED  BY <3>3, <3>5
  <2> HIDE DEF F, V
  <2>2. ASSUME NEW i \in 1 .. n + 2
        PROVE  f[i] = IF i > n \/ args[i] = "--" THEN "default"
                      ELSE IF f[i + Wrapper!Width(args[i], takes)] = "default"
                                /\ args[i] \in {"--http-proxy", "--http-proxy=false"}
                      THEN args[i] ELSE f[i + Wrapper!Width(args[i], takes)]
    BY <1>3, <2>1 DEF UpFrom
  <2> QED  BY <2>2
<1>5. Solution(CHOOSE h : Solution(h))
  BY <1>4
<1>6. Solution(Wrapper!ProxyOption(args, takes))
  BY <1>5 DEF Wrapper!ProxyOption, Wrapper!Choice, Wrapper!NoProxy
<1> HIDE DEF V, To, F
<1> QED
  <2> DEFINE w == Wrapper!ProxyOption(args, takes)
  <2> HIDE DEF w
  <2>1. Solution(w)
    <3> HIDE DEF Solution
    <3> QED  BY <1>6 DEF w
  <2> DEFINE row(j) == IF j > n \/ args[j] = "--" THEN "default"
                       ELSE IF w[j + Wrapper!Width(args[j], takes)] = "default"
                                 /\ args[j] \in {"--http-proxy", "--http-proxy=false"}
                       THEN args[j] ELSE w[j + Wrapper!Width(args[j], takes)]
             body == [j \in 1 .. n + 2 |-> row(j)]
  <2>2. w = body
    BY <2>1
  <2>3. ASSUME NEW i \in 1 .. n + 2 PROVE w[i] = row(i)
    <3>1. body[i] = row(i)
      <4> HIDE DEF row
      <4> QED  OBVIOUS
    <3> HIDE DEF body, row
    <3> QED  BY <2>2, <3>1
  <2> HIDE DEF body
  <2> QED  BY <2>3 DEF w, Option

\* The options after the word build do not move when the default is put there.
LEMMA OptionsShift ==
  ASSUME NEW A, NEW args \in Seq(A), NEW B, NEW longer \in Seq(B), NEW takes \in BOOLEAN,
         NEW k \in 1 .. Len(args), Len(longer) = Len(args) + 1,
         \A j \in k + 1 .. Len(args) : longer[j + 1] = args[j]
  PROVE  Option(longer, takes)[k + 2] = Option(args, takes)[k + 1]
<1> DEFINE n == Len(args)
           S == {i \in 1 .. n + 2 : i > k => Option(longer, takes)[i + 1] = Option(args, takes)[i]}
<1>1. n \in Nat
  OBVIOUS
<1>2. n + 1 \in S /\ n + 2 \in S
  BY <1>1, ProxyOptionIs
<1>3. ASSUME NEW i \in 1 .. n, i + 1 \in S, i + 2 \in S PROVE i \in S
  <2> SUFFICES ASSUME i > k PROVE Option(longer, takes)[i + 1] = Option(args, takes)[i]
    OBVIOUS
  <2> DEFINE m == i + Wrapper!Width(args[i], takes)
  <2>0. Wrapper!Width(args[i], takes) \in {1, 2}
    BY DEF Wrapper!Width
  <2>1. m \in {i + 1, i + 2} /\ m \in S /\ m > k /\ m + 1 = (i + 1) + Wrapper!Width(args[i], takes)
    BY <1>3, <2>0
  <2>2. Option(longer, takes)[m + 1] = Option(args, takes)[m] /\ m + 1 = (i + 1) + Wrapper!Width(args[i], takes)
    BY <2>1
  <2>3. longer[i + 1] = args[i] /\ i + 1 \in 1 .. Len(longer) + 2 /\ ~(i + 1 > Len(longer)) /\ ~(i > n)
    BY <1>1
  <2> HIDE DEF n, m, S
  <2>4. Option(args, takes)[i] = IF args[i] = "--" THEN "default"
             ELSE IF Option(args, takes)[m] = "default" /\ args[i] \in {"--http-proxy", "--http-proxy=false"}
             THEN args[i] ELSE Option(args, takes)[m]
    BY <2>3, ProxyOptionIs DEF m, n
  <2>5. Option(longer, takes)[i + 1] = IF args[i] = "--" THEN "default"
             ELSE IF Option(longer, takes)[m + 1] = "default" /\ args[i] \in {"--http-proxy", "--http-proxy=false"}
             THEN args[i] ELSE Option(longer, takes)[m + 1]
    <3>1. Option(longer, takes)[i + 1] =
             IF i + 1 > Len(longer) \/ longer[i + 1] = "--" THEN "default"
             ELSE IF Option(longer, takes)[(i + 1) + Wrapper!Width(longer[i + 1], takes)] = "default"
                       /\ longer[i + 1] \in {"--http-proxy", "--http-proxy=false"}
             THEN longer[i + 1] ELSE Option(longer, takes)[(i + 1) + Wrapper!Width(longer[i + 1], takes)]
      BY <2>3, ProxyOptionIs
    <3> QED  BY <2>2, <2>3, <3>1
  <2> QED  BY <2>2, <2>4, <2>5
<1>4. 1 .. n + 2 \subseteq S
  <2> HIDE DEF n, S
  <2> QED  BY <1>1, <1>2, <1>3, Backwards
<1> QED  BY <1>1, <1>4

\* podmanWrapperArgs finds the word build where Podman does, however Podman reads
\* the flags the wrapper does not know.
LEMMA WrapperArgsYield ==
  ASSUME NEW args \in Seq(Wrapper!Arguments)
  PROVE  Wrapper!Yields(args, Wrapper!podmanWrapperArgs(args))
<1> DEFINE k == Wrapper!podmanBuildCommand(args)
           n == Len(args)
           known == {"-r", "--log-level"}
           never == FALSE
<1>0. never \in BOOLEAN
  OBVIOUS
<1>1. k = IF Scan(args, known, never)[1][1] # 0 /\ args[Scan(args, known, never)[1][1]] = "build"
          THEN Scan(args, known, never)[1][1] ELSE 0
  BY DEF Wrapper!podmanBuildCommand, Wrapper!Alone, Wrapper!Valued, Scan
<1> HIDE DEF k, known, never
<1>2. k \in 0 .. n /\ n \in Nat
  <2>1. Scan(args, known, never)[1][1] \in 0 .. n
    BY <1>0, FirstWordTyped
  <2> QED  BY <1>1, <2>1
<1>3. ASSUME NEW i \in 1 .. n
      PROVE  args[i] \in {"build", "image", "-r", "--log-level", "-?", "--http-proxy", "--", "word"}
  BY DEF Wrapper!Arguments, Wrapper!Group, Wrapper!Alone, Wrapper!Valued, Wrapper!Unknown, Wrapper!Choice
<1> SUFFICES ASSUME NEW takes \in BOOLEAN
             PROVE  LET rewritten == Wrapper!podmanWrapperArgs(args) IN
                    /\ ~Wrapper!Builds(args, takes) => rewritten = args
                    /\ rewritten # args =>
                         /\ Wrapper!Builds(rewritten, takes)
                         /\ Wrapper!Chosen(rewritten, takes) =
                              IF Wrapper!Chosen(args, takes) = "default" THEN "--http-proxy=false"
                              ELSE Wrapper!Chosen(args, takes)
                    /\ Wrapper!Builds(args, takes) /\ rewritten = args =>
                         \E i \in DOMAIN args : args[i] \in {"-?", "--http-proxy"}
  BY DEF Wrapper!Yields, Wrapper!NoProxy, Wrapper!Unknown, Wrapper!Choice
<1> DEFINE flags == Wrapper!Flags
<1>4. flags = {"-r", "--log-level", "-?", "--http-proxy", "--http-proxy=false"}
  BY DEF Wrapper!Flags, Wrapper!Alone, Wrapper!Valued, Wrapper!Unknown, Wrapper!Choice, Wrapper!NoProxy
<1> HIDE DEF flags
\* Podman's command, of any list of arguments.
<1>5. ASSUME NEW A, NEW list \in Seq(A)
      PROVE  LET c == Scan(list, flags, takes)[1][1]
             IN  /\ c \in 0 .. Len(list)
                 /\ Wrapper!CommandOf(list, takes) = IF c # 0 /\ list[c] = "--" THEN 0 ELSE c
                 /\ Wrapper!Builds(list, takes) <=> c # 0 /\ list[c] = "build"
  <2> DEFINE c == Scan(list, flags, takes)[1][1]
  <2>1. c \in 0 .. Len(list)
    BY FirstWordTyped
  <2>2. Wrapper!CommandOf(list, takes) = IF c # 0 /\ list[c] = "--" THEN 0 ELSE c
    BY DEF Wrapper!CommandOf, Scan, flags
  <2> HIDE DEF c
  <2>3. Wrapper!Builds(list, takes) <=> c # 0 /\ list[c] = "build"
    BY <2>2 DEF Wrapper!Builds
  <2> QED  BY <2>1, <2>2, <2>3 DEF c
<1>6. CASE k = 0
  <2>1. Wrapper!podmanWrapperArgs(args) = args
    BY <1>6 DEF Wrapper!podmanWrapperArgs, k
  <2>2. ASSUME Wrapper!Builds(args, takes), \A i \in 1 .. n : args[i] \notin {"-?", "--http-proxy"} PROVE FALSE
    <3> DEFINE c == Scan(args, flags, takes)[1][1]
    <3>1. c \in 1 .. n /\ args[c] = "build"
      BY <1>2, <1>5, <2>2
    <3>2. Covers(args, flags, takes, known, never)
      <4> SUFFICES ASSUME NEW j \in 1 .. n
                   PROVE  /\ args[j] \in flags => args[j] \in known
                          /\ Wrapper!Width(args[j], takes) = Wrapper!Width(args[j], never)
        BY DEF Covers
      <4>1. args[j] \in {"build", "image", "-r", "--log-level", "--", "word"}
        BY <1>3, <2>2
      <4>2. args[j] \in flags => args[j] \in known
        BY <1>4, <4>1 DEF known
      <4>3. Wrapper!Width(args[j], takes) = Wrapper!Width(args[j], never)
        BY <4>1 DEF Wrapper!Width, Wrapper!Unknown
      <4> QED  BY <4>2, <4>3
    <3>3. args[c] \notin known \union {"image"}
      BY <3>1 DEF known
    <3> HIDE DEF c
    <3>4. 1 \in 1 .. Len(args) + 2 /\ 1 \in 0 .. 1 /\ c <= Len(args) /\ c # 0
      BY <1>2, <3>1
    <3>5. Scan(args, known, never)[1][1] = c
      BY <1>0, <3>2, <3>3, <3>4, FirstWordAgrees DEF c
    <3> QED  BY <1>1, <1>6, <3>1, <3>5
  <2> QED  BY <2>1, <2>2
<1>7. CASE k # 0
  <2> DEFINE R == SubSeq(args, 1, k) \o <<"--http-proxy=false">> \o SubSeq(args, k + 1, n)
             B == Wrapper!Arguments \union {"--http-proxy=false"}
  <2>1. Wrapper!podmanWrapperArgs(args) = R
    BY <1>7 DEF Wrapper!podmanWrapperArgs, Wrapper!NoProxy, k
  <2>2. /\ R \in Seq(B) /\ Len(R) = n + 1 /\ R[k + 1] = "--http-proxy=false"
        /\ \A j \in 1 .. k : R[j] = args[j]
        /\ \A j \in k + 1 .. n : R[j + 1] = args[j]
    <3> DEFINE a == SubSeq(args, 1, k)
               b == SubSeq(args, k + 1, n)
    <3>1. a \in Seq(B) /\ Len(a) = k /\ \A j \in 1 .. k : a[j] = args[j]
      BY <1>2, <1>7
    <3>2. b \in Seq(B) /\ Len(b) = n - k /\ \A j \in 1 .. n - k : b[j] = args[k + j]
      BY <1>2, <1>7
    <3> HIDE DEF a, b, B
    <3> DEFINE x == <<"--http-proxy=false">>
    <3>3. x \in Seq(B) /\ Len(x) = 1 /\ x[1] = "--http-proxy=false"
      BY DEF B
    <3> HIDE DEF x
    <3> DEFINE ax == a \o x
    <3>4. ax \in Seq(B) /\ Len(ax) = k + 1 /\ ax[k + 1] = "--http-proxy=false" /\ \A j \in 1 .. k : ax[j] = args[j]
      <4>1. a \in Seq(B) /\ x \in Seq(B)
        BY <3>1, <3>3
      <4>2. /\ ax \in Seq(B) /\ Len(ax) = Len(a) + Len(x)
            /\ \A j \in 1 .. Len(a) + Len(x) : ax[j] = IF j <= Len(a) THEN a[j] ELSE x[j - Len(a)]
        BY <4>1, ConcatProperties
      <4> HIDE DEF ax
      <4> QED  BY <1>2, <1>7, <3>1, <3>3, <4>2
    <3> HIDE DEF ax
    <3>5. /\ ax \o b \in Seq(B) /\ Len(ax \o b) = n + 1
          /\ \A j \in 1 .. k + 1 : (ax \o b)[j] = ax[j]
          /\ \A j \in 1 .. n - k : (ax \o b)[k + 1 + j] = b[j]
      BY <1>2, <3>2, <3>4
    <3>6. R = ax \o b
      BY DEF ax, a, b, x
    <3> HIDE DEF R
    <3>7. ASSUME NEW j \in k + 1 .. n PROVE R[j + 1] = args[j]
      <4>1. j - k \in 1 .. n - k /\ k + 1 + (j - k) = j + 1 /\ k + (j - k) = j
        BY <1>2
      <4>2. R[k + 1 + (j - k)] = b[j - k] /\ b[j - k] = args[k + (j - k)]
        BY <3>2, <3>5, <3>6, <4>1
      <4> QED  BY <4>1, <4>2
    <3>8. k + 1 \in 1 .. k + 1 /\ \A j \in 1 .. k : j \in 1 .. k + 1
      BY <1>2
    <3>9. R \in Seq(B) /\ Len(R) = n + 1 /\ \A j \in 1 .. k + 1 : R[j] = ax[j]
      BY <3>5, <3>6
    <3>10. R[k + 1] = "--http-proxy=false" /\ \A j \in 1 .. k : R[j] = args[j]
      BY <3>4, <3>8, <3>9
    <3> QED  BY <3>7, <3>9, <3>10
  <2> HIDE DEF R, B
  <2>3. k = Scan(args, known, never)[1][1] /\ k \in 1 .. n /\ args[k] = "build"
    BY <1>1, <1>2, <1>7
  <2>4. Covers(args, known, never, flags, takes)
    BY <1>4 DEF Covers, known, never, Wrapper!Width, Wrapper!Unknown
  <2>5. args[k] \notin flags \union {"image"} /\ 1 \in 1 .. Len(args) + 2 /\ 1 \in 0 .. 1
    BY <1>2, <1>4, <2>3
  <2>6. Scan(args, flags, takes)[1][1] = k
    BY <1>0, <2>3, <2>4, <2>5, FirstWordAgrees
  <2>7. Scan(R, flags, takes)[1][1] = k
    <3>1. k <= Len(R) /\ R \in Seq(B) /\ k # 0 /\ \A j \in 1 .. k : R[j] = args[j]
      BY <1>2, <1>7, <2>2
    <3> QED  BY <1>0, <2>3, <2>4, <2>5, <3>1, FirstWordAgrees
  <2>8. /\ Wrapper!CommandOf(args, takes) = k /\ Wrapper!CommandOf(R, takes) = k
        /\ Wrapper!Builds(args, takes) /\ Wrapper!Builds(R, takes)
    BY <1>5, <1>7, <2>2, <2>3, <2>6, <2>7
  <2>9. Wrapper!Chosen(args, takes) = Option(args, takes)[k + 1] /\ Wrapper!Chosen(R, takes) = Option(R, takes)[k + 1]
    BY <2>8 DEF Wrapper!Chosen, Option
  <2>10. Option(R, takes)[k + 2] = Option(args, takes)[k + 1]
    <3>1. /\ R \in Seq(B) /\ Len(R) = Len(args) + 1 /\ k \in 1 .. Len(args)
          /\ \A j \in k + 1 .. Len(args) : R[j + 1] = args[j]
      BY <2>2, <2>3
    <3> QED  BY <3>1, OptionsShift
  <2>11. Option(R, takes)[k + 1] =
           IF Option(R, takes)[k + 2] = "default" THEN "--http-proxy=false" ELSE Option(R, takes)[k + 2]
    <3>1. k + 1 \in 1 .. Len(R) + 2 /\ ~(k + 1 > Len(R)) /\ (k + 1) + 1 = k + 2
      BY <1>2, <2>2, <2>3
    <3>2. Wrapper!Width(R[k + 1], takes) = 1
      BY <2>2 DEF Wrapper!Width, Wrapper!Valued, Wrapper!Unknown
    <3>3. R \in Seq(B) /\ R[k + 1] = "--http-proxy=false"
      BY <2>2
    <3>4. Option(R, takes)[k + 1] =
             IF k + 1 > Len(R) \/ R[k + 1] = "--" THEN "default"
             ELSE IF Option(R, takes)[(k + 1) + Wrapper!Width(R[k + 1], takes)] = "default"
                       /\ R[k + 1] \in {"--http-proxy", "--http-proxy=false"}
             THEN R[k + 1] ELSE Option(R, takes)[(k + 1) + Wrapper!Width(R[k + 1], takes)]
      BY <3>1, <3>3, ProxyOptionIs
    <3>5. R[k + 1] # "--" /\ R[k + 1] \in {"--http-proxy", "--http-proxy=false"}
      BY <3>3
    <3> QED  BY <3>1, <3>2, <3>3, <3>4, <3>5
  <2>12. R # args
    BY <1>2, <2>2
  <2> QED  BY <2>1, <2>8, <2>9, <2>10, <2>11, <2>12
<1> QED  BY <1>6, <1>7

-----------------------------------------------------------------------------
(* The environments.                                                       *)

\* ListEnvironments and LoadEnvironment, which look for profiles separately, agree.
LEMMA ListEnvironmentsAgrees ==
  ASSUME NEW files \in Files
  PROVE  ListAgrees(files, ListEnvironments(files))
<1> DEFINE catalogue == LoadCatalogue(files)
           locals == localEnvironmentNames(files)
           list == ListEnvironments(files)
           shown == catalogue.result \union locals
           Source(n) == IF n \in locals THEN "local" ELSE "catalogue"
<1>1. ASSUME NEW n \in Names, files.local[n] # "absent" PROVE LoadEnvironment(files, n) # Found("catalogue")
  BY <1>1 DEF LoadEnvironment, Found, Failed
<1>2. ASSUME list.ok
      PROVE  /\ \A n \in Names, source \in {"local", "catalogue"} :
                  <<n, source>> \in list.result <=> LoadEnvironment(files, n) = Found(source)
             /\ CountEnvironments(files) = Found(Cardinality(list.result))
  <2>1. /\ catalogue.ok /\ \A n \in locals : files.local[n] = "valid"
        /\ list.result = {<<n, Source(n)>> : n \in shown}
    BY <1>2 DEF ListEnvironments, Failed, Found
  <2>2. catalogue.result \subseteq Names /\ locals \subseteq Names
    BY <2>1 DEF LoadCatalogue, localEnvironmentNames, Found, Failed
  <2> HIDE DEF catalogue, list
  <2>3. ASSUME NEW n \in Names, NEW source \in {"local", "catalogue"}
        PROVE  <<n, source>> \in list.result <=> LoadEnvironment(files, n) = Found(source)
    <3>0. \A x, y : (Found(x) = Found(y) => x = y) /\ Failed # Found(x)
      <4>1. ASSUME NEW x, NEW y PROVE (Found(x) = Found(y) => x = y) /\ Failed # Found(x)
        <5>1. Found(x).result = x /\ Found(y).result = y /\ Found(x).ok # Failed.ok
          BY DEF Found, Failed
        <5> QED  BY <5>1
      <4> QED  BY <4>1
    <3>1. <<n, source>> \in list.result <=> n \in shown /\ source = Source(n)
      BY <2>1
    <3>2. n \in locals <=> files.local[n] # "absent"
      BY DEF localEnvironmentNames
    <3>3. CASE n \in locals
      <4>1. LoadEnvironment(files, n) = Found("local")
        BY <2>1, <3>3 DEF LoadEnvironment
      <4> HIDE DEF locals
      <4> QED  BY <3>0, <3>1, <3>3, <4>1
    <3>4. CASE n \notin locals
      <4>1. files.local[n] = "absent"
        BY <3>2, <3>4
      <4>2. LoadEnvironment(files, n) = IF n \in catalogue.result THEN Found("catalogue") ELSE Failed
        BY <2>1, <4>1 DEF LoadEnvironment, InCatalogue, catalogue
      <4> HIDE DEF locals
      <4> QED  BY <3>0, <3>1, <3>4, <4>2
    <3> QED  BY <3>3, <3>4
  <2>4. Cardinality(list.result) = Cardinality(shown)
    <3> DEFINE pair == [n \in shown |-> <<n, Source(n)>>]
    <3>1. IsFiniteSet(shown)
      BY <2>2, NamesAssumption, FS_Subset
    <3>2. pair \in Bijection(shown, list.result)
      <4>1. pair \in Injection(shown, list.result)
        BY <2>1 DEF Injection, IsInjective
      <4>2. pair \in Surjection(shown, list.result)
        BY <2>1 DEF Surjection
      <4> QED  BY <4>1, <4>2 DEF Bijection
    <3>3. ExistsBijection(shown, list.result)
      BY <3>2 DEF ExistsBijection
    <3> QED  BY <3>1, <3>3, FS_Bijection
  <2> QED  BY <2>1, <2>3, <2>4 DEF CountEnvironments, catalogue
<1> QED  BY <1>1, <1>2 DEF ListAgrees

-----------------------------------------------------------------------------
(* The kubeconfig: the steps of prepareKubeconfig.                         *)

KubeTypeOK ==
  /\ kstage \in {"check", "returned"} \union Tools
  /\ cancelled \in BOOLEAN /\ expired \in BOOLEAN /\ worker \in BOOLEAN
  /\ launcher \in {None} \union Processes
  /\ kfile \in {"foreign", "absent", "left", "raw", "converted", "ready"}
  /\ kresult \in {None} \union Results
  /\ kask.foreign \in BOOLEAN

\* Until a tool runs the path has what was there, and the tools run only when it
\* is free; a worker is left only of a tool that has not been waited for.
Untouched == kstage = "check" => ~worker /\ launcher = None /\ kfile = IF kask.foreign THEN "foreign" ELSE "absent"
Attended == kstage \in Tools => ~kask.foreign /\ (launcher = None => ~worker)
Settled == kstage = "returned" => ~worker /\ launcher = None /\ kresult # None

\* Only a file that could be rewritten is ready.
ReadyTransforms == kresult = "ready" => transformKubeconfig(kask.document).ok

KubeInv ==
  /\ KubeTypeOK /\ Untouched /\ Attended /\ Settled /\ KubeFileAsReported /\ ReadyTransforms
  /\ kresult # None => kstage = "returned"

\* prepareKubeconfig starts with whatever is in place.
LEMMA InitKubeInv ==
  ASSUME NEW asks, KubeInit(asks), \A ask \in asks : ask.foreign \in BOOLEAN
  PROVE  KubeInv
BY KubeAssumption DEF KubeInit, KubeInv, KubeTypeOK, Untouched, Attended, Settled, KubeFileAsReported, ReadyTransforms, Tools, Results, Processes

\* The tools, their children, their deadlines and the session keep the invariant.
LEMMA KubeNextInv ==
  ASSUME KubeInv, KubeNext
  PROVE  KubeInv'
<1> USE KubeAssumption DEF KubeInv, KubeTypeOK, Untouched, Attended, Settled, KubeFileAsReported, ReadyTransforms, Tools, Results, Processes
<1>1. CASE Check
  BY <1>1 DEF Check, Return
<1>2. CASE StartTool
  <2>1. CASE ~cancelled
    BY <1>2, <2>1 DEF StartTool
  <2>2. CASE cancelled
    <3>1. Failure = "cancelled"
      BY <2>2 DEF Failure
    <3>2. kstage' = "returned" /\ kresult' = "cancelled" /\ kfile' \in {"absent", "left"} /\ ~kask.foreign /\ ~worker
      BY <1>2, <2>2, <3>1 DEF StartTool, Return
    <3>3. UNCHANGED <<kask, cancelled, launcher, worker, expired>> /\ launcher = None
      BY <1>2, <2>2 DEF StartTool
    <3> QED  BY <3>2, <3>3
  <2> QED  BY <2>1, <2>2
<1>3. CASE WorkerWrites
  BY <1>3 DEF WorkerWrites
<1>4. CASE WorkerEnds
  BY <1>4 DEF WorkerEnds
<1>5. CASE Expire
  BY <1>5 DEF Expire
<1>6. CASE KillTool
  BY <1>6 DEF KillTool
<1>7. CASE ToolReturns
  BY <1>7 DEF ToolReturns, JudgeTool, Succeeded, Return, Failure
<1>8. CASE Cancel
  BY <1>8 DEF Cancel
<1> QED  BY <1>1, <1>2, <1>3, <1>4, <1>5, <1>6, <1>7, <1>8 DEF KubeNext

-----------------------------------------------------------------------------
(* The kubeconfig: what is in the file.                                    *)

\* The entries of a section can be counted.
FiniteSection(section) == section # Malformed => IsFiniteSet(DOMAIN section)

\* A list has finitely many entries.
LEMMA SectionsAreFinite ==
  ASSUME NEW section, Indexed(section)
  PROVE  FiniteSection(section)
BY FS_Interval DEF Indexed, FiniteSection

\* namedKubeObject takes the only entry of that name.
LEMMA NamedObjectFound ==
  ASSUME NEW section, NEW name, FiniteSection(section), namedKubeObject(section, name).ok
  PROVE  /\ section # Malformed
         /\ \E i \in DOMAIN section :
              /\ Named(section, name) = {i} /\ section[i].name = name
              /\ section[i] # Malformed /\ section[i].object # Malformed
              /\ namedKubeObject(section, name).object = section[i].object
<1> DEFINE here == {i \in DOMAIN section : section[i] # Malformed /\ section[i].name = name}
<1>1. /\ section # Malformed /\ ~(\E i \in DOMAIN section : section[i] = Malformed)
      /\ Cardinality(here) = 1 /\ ~\E i \in here : section[i].object = Malformed
      /\ namedKubeObject(section, name).object = section[CHOOSE i \in here : TRUE].object
  BY DEF namedKubeObject, Invalid
<1>2. IsFiniteSet(here)
  BY <1>1, FS_Subset DEF FiniteSection
<1>3. PICK i : here = {i}
  BY <1>1, <1>2, FS_Singleton
<1>4. Named(section, name) = here /\ i \in here /\ (CHOOSE j \in here : TRUE) = i
  BY <1>1, <1>3 DEF Named
<1> QED  BY <1>1, <1>3, <1>4

\* It finds the one entry of a section that the rewriting made.
LEMMA SingleNamedObject ==
  ASSUME NEW name, NEW object, object # Malformed,
         singleNamedSection(name, object) # Malformed, singleNamedSection(name, object)[1] # Malformed
  PROVE  namedKubeObject(singleNamedSection(name, object), name) = [ok |-> TRUE, object |-> object]
<1> DEFINE section == singleNamedSection(name, object)
           here == {i \in DOMAIN section : section[i] # Malformed /\ section[i].name = name}
<1>1. DOMAIN section = {1} /\ section[1].name = name /\ section[1].object = object
  BY DEF singleNamedSection
<1>2. here = {1}
  BY <1>1
<1>3. Cardinality(here) = 1 /\ (CHOOSE i \in here : TRUE) = 1
  BY <1>2, FS_Singleton
<1> QED  BY <1>1, <1>2, <1>3 DEF namedKubeObject

\* The object of the one entry is replaced, and the entry stays the only one.
LEMMA EntryReplaced ==
  ASSUME NEW list, NEW object, 1 \in DOMAIN list, "object" \in DOMAIN list[1]
  PROVE  LET new == [list EXCEPT ![1].object = object] IN DOMAIN new = DOMAIN list /\ new[1].object = object
OBVIOUS

\* A reader of kubelogin's arguments, and what it makes of the one at i.
IsReader(reader) ==
  /\ "login" \in reader.takes /\ reader.error \in Texts
  /\ reader.join \in [Texts -> [Texts \union {None} -> Texts \union {None}]]

\* A login option that is not the last argument gives some mode.
LEMMA ModeTyped ==
  ASSUME NEW args \in Seq(ExecArguments), NEW i \in 1 .. Len(args),
         args[i].form = "login" => i # Len(args)
  PROVE  ModeAt(args, i) \in Texts
<1>1. args[i] \in ExecArguments
  OBVIOUS
<1>2. CASE args[i].form # "login"
  BY <1>1, <1>2 DEF ModeAt, ExecArguments
<1>3. CASE args[i].form = "login"
  <2>1. args[i + 1] \in ExecArguments
    BY <1>3
  <2> QED  BY <1>3, <2>1 DEF ModeAt, ExecArguments, Texts
<1> QED  BY <1>2, <1>3

\* What it makes of an argument is a mode or none.
LEMMA ReadTyped ==
  ASSUME NEW args \in Seq(ExecArguments), NEW reader, IsReader(reader), NEW i \in 1 .. Len(args),
         NEW next \in Texts \union {None}, NEW overnext \in Texts \union {None}
  PROVE  ReadAt(args, i, reader, next, overnext) \in Texts \union {None}
<1>1. CASE args[i].form \in reader.takes /\ i = Len(args)
  BY <1>1 DEF ReadAt, IsReader
<1>2. CASE ~(args[i].form \in reader.takes /\ i = Len(args))
  <2>1. ModeAt(args, i) \in Texts
    BY <1>2, ModeTyped DEF IsReader
  <2> QED  BY <1>2, <2>1 DEF ReadAt, IsReader
<1> QED  BY <1>1, <1>2

\* The recursion that ReadMode states has a solution, which ReadMode then is.
LEMMA ReadModeIs ==
  ASSUME NEW args \in Seq(ExecArguments), NEW reader, IsReader(reader)
  PROVE  \A i \in 1 .. Len(args) + 2 :
           ReadMode(args, reader)[i] =
             IF i > Len(args) THEN None
             ELSE ReadAt(args, i, reader, ReadMode(args, reader)[i + 1], ReadMode(args, reader)[i + 2])
<1> DEFINE V == Texts \union {None}
           n == Len(args)
           F == [i \in 1 .. n |-> [u \in V |-> [w \in V |-> ReadAt(args, i, reader, u, w)]]]
           Solution(f) == f = [i \in 1 .. n + 2 |->
             IF i > n THEN None ELSE ReadAt(args, i, reader, f[i + 1], f[i + 2])]
<1>1. n \in Nat /\ None \in V
  OBVIOUS
<1>2. F \in [1 .. n -> [V -> [V -> V]]]
  <2>1. ASSUME NEW i \in 1 .. n, NEW u \in V PROVE [w \in V |-> ReadAt(args, i, reader, u, w)] \in [V -> V]
    BY ReadTyped
  <2> HIDE DEF V
  <2>2. ASSUME NEW i \in 1 .. n PROVE [u \in V |-> [w \in V |-> ReadAt(args, i, reader, u, w)]] \in [V -> [V -> V]]
    BY <2>1
  <2> QED  BY <2>2, Zenon
<1>3. PICK f \in [1 .. n + 2 -> V] : UpFrom(f, n, None, F)
  <2> HIDE DEF n, V, F, Solution
  <2> QED  BY <1>1, <1>2, Upward
<1>4. Solution(f)
  <2>1. ASSUME NEW i \in 1 .. n + 2, ~(i > n) PROVE f[i] = ReadAt(args, i, reader, f[i + 1], f[i + 2])
    <3>1. i \in 1 .. n /\ f[i + 1] \in V /\ f[i + 2] \in V
      BY <1>1, <2>1
    <3>2. f[i] = F[i][f[i + 1]][f[i + 2]]
      BY <1>3, <2>1 DEF UpFrom
    <3> HIDE DEF V
    <3> QED  BY <3>1, <3>2
  <2> HIDE DEF F, V
  <2>2. ASSUME NEW i \in 1 .. n + 2
        PROVE  f[i] = IF i > n THEN None ELSE ReadAt(args, i, reader, f[i + 1], f[i + 2])
    BY <1>3, <2>1 DEF UpFrom
  <2> QED  BY <2>2
<1>5. Solution(CHOOSE h : Solution(h))
  BY <1>4
<1>6. Solution(ReadMode(args, reader))
  BY <1>5 DEF ReadMode
<1> HIDE DEF V, F
<1> QED
  <2> DEFINE w == ReadMode(args, reader)
  <2> HIDE DEF w
  <2>1. w = [i \in 1 .. n + 2 |-> IF i > n THEN None ELSE ReadAt(args, i, reader, w[i + 1], w[i + 2])]
    BY <1>6 DEF w
  <2>2. ASSUME NEW i \in 1 .. n + 2
        PROVE  w[i] = IF i > n THEN None ELSE ReadAt(args, i, reader, w[i + 1], w[i + 2])
    BY <2>1
  <2> QED  BY <2>2 DEF w

\* Two readings that agree on what follows agree with one more mode before it.
LEMMA ModesAgree ==
  ASSUME NEW mode \in Texts, NEW ours \in Texts \union {None}, NEW theirs \in Texts \union {None},
         ours = None => theirs \in {None, ""}, ours = "azurecli" => theirs \in {"azurecli", ""}
  PROVE  /\ OneMode[mode][ours] = None => LastMode[mode][theirs] \in {None, ""}
         /\ OneMode[mode][ours] = "azurecli" => LastMode[mode][theirs] \in {"azurecli", ""}
<1>1. OneMode[mode][ours] = IF mode = "" THEN ours ELSE IF ours = None THEN mode ELSE "another"
  BY DEF OneMode
<1>2. LastMode[mode][theirs] = IF theirs = None THEN mode ELSE theirs
  BY DEF LastMode
<1> QED  BY <1>1, <1>2, KubeAssumption DEF Texts

\* If bivrost reads Azure CLI's login in arguments as the tools write them, kubelogin
\* reads no other.
LEMMA OneLogin ==
  ASSUME NEW args \in Seq(ExecArguments), Plain(args), ReadMode(args, AsBivrost)[1] = "azurecli"
  PROVE  ReadMode(args, AsKubelogin)[1] \in {"azurecli", ""}
<1> DEFINE n == Len(args)
           ours == ReadMode(args, AsBivrost)
           theirs == ReadMode(args, AsKubelogin)
           Agree(i) == /\ ours[i] \in Texts \union {None} /\ theirs[i] \in Texts \union {None}
                       /\ ours[i] = None => theirs[i] \in {None, ""}
                       /\ ours[i] = "azurecli" => theirs[i] \in {"azurecli", ""}
           S == {i \in 1 .. n + 2 : Agree(i)}
<1>1. n \in Nat
  OBVIOUS
<1>2. IsReader(AsBivrost) /\ IsReader(AsKubelogin)
  BY DEF IsReader, AsBivrost, AsKubelogin, OneMode, LastMode, Texts
<1>3. \A i \in 1 .. n + 2 : ours[i] = IF i > n THEN None ELSE ReadAt(args, i, AsBivrost, ours[i + 1], ours[i + 2])
  BY <1>2, ReadModeIs
<1>4. \A i \in 1 .. n + 2 : theirs[i] = IF i > n THEN None ELSE ReadAt(args, i, AsKubelogin, theirs[i + 1], theirs[i + 2])
  BY <1>2, ReadModeIs
<1> HIDE DEF ours, theirs
<1>5. n + 1 \in S /\ n + 2 \in S
  <2>1. ours[n + 1] = None /\ ours[n + 2] = None /\ theirs[n + 1] = None /\ theirs[n + 2] = None
    BY <1>1, <1>3, <1>4
  <2>2. Agree(n + 1) /\ Agree(n + 2)
    BY <2>1, KubeAssumption DEF Texts
  <2> HIDE DEF Agree
  <2> QED  BY <1>1, <2>2
<1>6. ASSUME NEW i \in 1 .. n, i + 1 \in S, i + 2 \in S PROVE i \in S
  <2>1. /\ ours[i] = ReadAt(args, i, AsBivrost, ours[i + 1], ours[i + 2])
        /\ theirs[i] = ReadAt(args, i, AsKubelogin, theirs[i + 1], theirs[i + 2])
    <3>1. i \in 1 .. n + 2 /\ ~(i > n)
      BY <1>1
    <3> HIDE DEF S, Agree
    <3> QED  BY <1>3, <1>4, <3>1
  <2>2. Agree(i + 1) /\ Agree(i + 2)
    BY <1>6
  <2>3. ours[i] \in Texts \union {None} /\ theirs[i] \in Texts \union {None}
    <3>1. /\ ours[i + 1] \in Texts \union {None} /\ ours[i + 2] \in Texts \union {None}
          /\ theirs[i + 1] \in Texts \union {None} /\ theirs[i + 2] \in Texts \union {None}
      BY <2>2
    <3> HIDE DEF S
    <3>2. ReadAt(args, i, AsBivrost, ours[i + 1], ours[i + 2]) \in Texts \union {None}
      BY <1>2, <3>1, ReadTyped
    <3>3. ReadAt(args, i, AsKubelogin, theirs[i + 1], theirs[i + 2]) \in Texts \union {None}
      BY <1>2, <3>1, ReadTyped
    <3> QED  BY <2>1, <3>2, <3>3
  <2>4. args[i] \in ExecArguments /\ i \in DOMAIN args
    OBVIOUS
  <2>5. args[i].form \in {"login", "login=", "other", "word"}
    BY <2>4 DEF Plain, ExecArguments
  <2> SUFFICES Agree(i)
    <3> HIDE DEF Agree
    <3> QED  BY <1>1
  <2> HIDE DEF S
  <2>6. CASE args[i].form = "login" /\ i = n
    <3>1. ours[i] = "another"
      BY <2>1, <2>6 DEF ReadAt, AsBivrost
    <3> QED  BY <2>3, <3>1, KubeAssumption DEF Texts
  <2>7. CASE args[i].form = "login" /\ i # n
    <3>1. ours[i] = OneMode[ModeAt(args, i)][ours[i + 2]] /\ theirs[i] = LastMode[ModeAt(args, i)][theirs[i + 2]]
      BY <2>1, <2>7 DEF ReadAt, AsBivrost, AsKubelogin
    <3>2. ModeAt(args, i) \in Texts
      BY <2>7, ModeTyped
    <3> DEFINE mode == ModeAt(args, i)
               our == ours[i + 2]
               their == theirs[i + 2]
    <3>3. /\ our \in Texts \union {None} /\ their \in Texts \union {None}
          /\ our = None => their \in {None, ""}
          /\ our = "azurecli" => their \in {"azurecli", ""}
          /\ mode \in Texts
      BY <2>2, <3>2
    <3> HIDE DEF mode, our, their
    <3>4. /\ OneMode[mode][our] = None => LastMode[mode][their] \in {None, ""}
          /\ OneMode[mode][our] = "azurecli" => LastMode[mode][their] \in {"azurecli", ""}
      BY <3>3, ModesAgree
    <3> QED  BY <2>3, <3>1, <3>4 DEF mode, our, their
  <2>8. CASE args[i].form = "login="
    <3>1. ours[i] = OneMode[ModeAt(args, i)][ours[i + 1]] /\ theirs[i] = LastMode[ModeAt(args, i)][theirs[i + 1]]
      BY <2>1, <2>8 DEF ReadAt, AsBivrost, AsKubelogin
    <3>2. ModeAt(args, i) \in Texts
      BY <2>8, ModeTyped
    <3> DEFINE mode == ModeAt(args, i)
               our == ours[i + 1]
               their == theirs[i + 1]
    <3>3. /\ our \in Texts \union {None} /\ their \in Texts \union {None}
          /\ our = None => their \in {None, ""}
          /\ our = "azurecli" => their \in {"azurecli", ""}
          /\ mode \in Texts
      BY <2>2, <3>2
    <3> HIDE DEF mode, our, their
    <3>4. /\ OneMode[mode][our] = None => LastMode[mode][their] \in {None, ""}
          /\ OneMode[mode][our] = "azurecli" => LastMode[mode][their] \in {"azurecli", ""}
      BY <3>3, ModesAgree
    <3> QED  BY <2>3, <3>1, <3>4 DEF mode, our, their
  <2>9. CASE args[i].form = "word"
    <3>1. ours[i] = ours[i + 1] /\ theirs[i] = theirs[i + 1]
      BY <2>1, <2>9 DEF ReadAt, AsBivrost, AsKubelogin
    <3> QED  BY <2>2, <3>1
  <2>10. CASE args[i].form = "other" /\ i = n
    <3>1. theirs[i] = "" /\ ours[i] = ours[i + 1]
      BY <2>1, <2>10 DEF ReadAt, AsBivrost, AsKubelogin
    <3> QED  BY <2>3, <3>1
  <2>11. CASE args[i].form = "other" /\ i # n
    <3>1. ours[i] = ours[i + 1] /\ theirs[i] = theirs[i + 2]
      BY <2>1, <2>11 DEF ReadAt, AsBivrost, AsKubelogin
    <3>2. i + 1 \in 1 .. n /\ (i + 1) + 1 = i + 2 /\ args[i + 1].form \notin {"login", "login="}
      BY <1>1, <2>4, <2>11 DEF Plain
    <3>3. ours[i + 1] = ReadAt(args, i + 1, AsBivrost, ours[(i + 1) + 1], ours[(i + 1) + 2])
      BY <1>1, <1>3, <3>2
    <3>4. ours[i + 1] = ours[i + 2]
      BY <3>2, <3>3 DEF ReadAt, AsBivrost
    <3> QED  BY <2>2, <3>1, <3>4
  <2> QED  BY <2>5, <2>6, <2>7, <2>8, <2>9, <2>10, <2>11
<1>7. 1 .. n + 2 \subseteq S
  <2> HIDE DEF n, S
  <2> QED  BY <1>1, <1>5, <1>6, Backwards
<1>8. Agree(1)
  <2>1. 1 \in S
    <3> HIDE DEF S
    <3> QED  BY <1>1, <1>7
  <2> QED  BY <2>1
<1> QED  BY <1>8 DEF ours, theirs

\* What transformKubeconfig and publicationKubeconfig make of a kubeconfig is verified
\* as the original was.
LEMMA TransformKeepsTrust ==
  ASSUME NEW document, IsDocument(document), transformKubeconfig(document).ok
  PROVE  KeepsTrust(document)
<1> DEFINE active == Active(document)
           original == active.cluster
           account == active.user
           prepared == transformKubeconfig(document)
           made == prepared.document
           target == kubeAPITarget(original.server)
           cluster == RewrittenCluster(original, target.host)
<1>1. /\ document # Malformed /\ active.ok /\ validateAzureCLIExec(account) /\ target.ok
      /\ original.ca # None /\ original.insecure \in {None, FALSE} /\ original.serverName \notin {"ip", Malformed}
      /\ prepared = [ok |-> TRUE, host |-> target.host, port |-> target.port,
            document |-> [current |-> document.current,
                          contexts |-> singleNamedSection(document.current, active.names),
                          clusters |-> singleNamedSection(active.names.cluster, cluster),
                          users |-> singleNamedSection(active.names.user, account)]]
  BY DEF transformKubeconfig, Invalid
<1> HIDE DEF prepared, cluster, target, active
<1>2. /\ original.server # Malformed /\ original.server.https /\ original.server.host # "ip"
      /\ target.host = original.server.host
  BY <1>1 DEF kubeAPITarget, Invalid, target
<1>3. /\ namedKubeObject(document.contexts, document.current).ok
      /\ active.names = namedKubeObject(document.contexts, document.current).object
      /\ namedKubeObject(document.clusters, active.names.cluster).ok
      /\ original = namedKubeObject(document.clusters, active.names.cluster).object
      /\ namedKubeObject(document.users, active.names.user).ok
      /\ account = namedKubeObject(document.users, active.names.user).object
  BY <1>1 DEF Active, Invalid, active
<1>4. FiniteSection(document.contexts) /\ FiniteSection(document.clusters) /\ FiniteSection(document.users)
  BY <1>1, SectionsAreFinite DEF IsDocument
<1>5. PICK c \in DOMAIN document.contexts :
        /\ Named(document.contexts, document.current) = {c} /\ active.names = document.contexts[c].object
        /\ active.names # Malformed
  BY <1>3, <1>4, NamedObjectFound
<1>6. PICK k \in DOMAIN document.clusters :
        /\ Named(document.clusters, active.names.cluster) = {k} /\ original = document.clusters[k].object
        /\ document.clusters[k] # Malformed /\ original # Malformed
        /\ document.clusters # Malformed /\ document.clusters[k].name = active.names.cluster
  BY <1>3, <1>4, NamedObjectFound
<1>7. PICK u \in DOMAIN document.users :
        /\ Named(document.users, active.names.user) = {u} /\ account = document.users[u].object
        /\ document.users[u] # Malformed /\ account # Malformed
        /\ document.users # Malformed /\ document.users[u].name = active.names.user
  BY <1>3, <1>4, NamedObjectFound
<1>8. IsCluster(original) /\ IsUser(account)
  BY <1>1, <1>6, <1>7 DEF IsDocument, Objects
<1>9. /\ cluster.server = Loopback /\ cluster.insecure = None /\ cluster.proxy = FALSE /\ cluster.caFile = FALSE
      /\ cluster.ca = original.ca /\ DOMAIN cluster = DOMAIN original
      /\ cluster.serverName = IF original.serverName = None THEN original.server.host ELSE original.serverName
  BY <1>2, <1>8 DEF RewrittenCluster, IsCluster, cluster
<1>10. /\ cluster.serverName \in {original.serverName, original.server.host}
       /\ cluster.serverName \notin {None, "ip", Malformed}
  BY <1>1, <1>2, <1>8, <1>9 DEF IsCluster
<1>11. SameTrust(cluster, account, original, account)
  <2>1. Plain(account.exec.args) => ReadMode(account.exec.args, AsKubelogin)[1] \in {"azurecli", ""}
    BY <1>1, <1>8, OneLogin DEF validateAzureCLIExec, IsUser
  <2>2. ~account.extra
    BY <1>1 DEF validateAzureCLIExec
  <2>3. original.insecure # TRUE
    BY <1>1, KubeAssumption
  <2> QED  BY <1>1, <1>9, <1>10, <2>1, <2>2, <2>3 DEF SameTrust
\* The prepared document leads to the same cluster and user.
<1>12. /\ made.current = document.current
       /\ made.contexts = singleNamedSection(document.current, active.names)
       /\ made.clusters = singleNamedSection(active.names.cluster, cluster)
       /\ made.users = singleNamedSection(active.names.user, account)
  BY <1>1
<1>13. /\ made # Malformed /\ made.contexts # Malformed /\ made.clusters # Malformed /\ made.users # Malformed
       /\ made.contexts[1] # Malformed /\ made.clusters[1] # Malformed /\ made.users[1] # Malformed
       /\ cluster # Malformed /\ Loopback # Malformed
  <2>1. made.clusters[1].object = cluster
    BY <1>12 DEF singleNamedSection
  <2> QED  BY <1>1, <2>1 DEF IsDocument, Encodes, prepared
<1>14. Active(made) = [ok |-> TRUE, names |-> active.names, cluster |-> cluster, user |-> account]
  <2> HIDE DEF made
  <2>1. namedKubeObject(made.contexts, made.current) = [ok |-> TRUE, object |-> active.names]
    <3>1. /\ singleNamedSection(document.current, active.names) # Malformed
          /\ singleNamedSection(document.current, active.names)[1] # Malformed
      BY <1>12, <1>13
    <3>2. active.names # Malformed
      BY <1>5
    <3>3. namedKubeObject(singleNamedSection(document.current, active.names), document.current) = [ok |-> TRUE, object |-> active.names]
      BY <3>1, <3>2, SingleNamedObject
    <3> QED  BY <1>12, <3>3
  <2>2. namedKubeObject(made.clusters, active.names.cluster) = [ok |-> TRUE, object |-> cluster]
    <3>1. /\ singleNamedSection(active.names.cluster, cluster) # Malformed
          /\ singleNamedSection(active.names.cluster, cluster)[1] # Malformed
      BY <1>12, <1>13
    <3> QED  BY <1>12, <1>13, <3>1, SingleNamedObject
  <2>3. namedKubeObject(made.users, active.names.user) = [ok |-> TRUE, object |-> account]
    <3>1. /\ singleNamedSection(active.names.user, account) # Malformed
          /\ singleNamedSection(active.names.user, account)[1] # Malformed
      BY <1>12, <1>13
    <3>2. account # Malformed
      BY <1>7
    <3>3. namedKubeObject(singleNamedSection(active.names.user, account), active.names.user) = [ok |-> TRUE, object |-> account]
      BY <3>1, <3>2, SingleNamedObject
    <3> QED  BY <1>12, <3>3
  <2> DEFINE one == namedKubeObject(made.contexts, made.current)
             two == namedKubeObject(made.clusters, active.names.cluster)
             three == namedKubeObject(made.users, active.names.user)
  <2>4. one.ok /\ one.object = active.names /\ two.ok /\ two.object = cluster /\ three.ok /\ three.object = account
    BY <2>1, <2>2, <2>3
  <2>5. Active(made) =
          IF ~one.ok THEN Invalid
          ELSE IF ~namedKubeObject(made.clusters, one.object.cluster).ok \/ ~namedKubeObject(made.users, one.object.user).ok
          THEN Invalid
          ELSE [ok |-> TRUE, names |-> one.object,
                cluster |-> namedKubeObject(made.clusters, one.object.cluster).object,
                user |-> namedKubeObject(made.users, one.object.user).object]
    BY DEF Active
  <2> HIDE DEF one
  <2> QED  BY <2>4, <2>5
<1> HIDE DEF made
<1>15. Publishable(cluster)
  <2>1. /\ Loopback # Malformed /\ Loopback.https /\ Loopback.host = "127.0.0.1" /\ Loopback.port # None
    BY <1>13, KubeAssumption DEF Loopback
  <2>2. cluster.insecure \in {None, FALSE} /\ ~cluster.caFile
    BY <1>9
  <2> QED  BY <1>1, <1>9, <1>10, <2>1, <2>2 DEF Publishable
<1>16. LET shared == Publication(made)
       IN  /\ shared.ok /\ shared.upstream = Loopback
           /\ shared.cluster = [cluster EXCEPT !.server = "gateway", !.proxy = TRUE, !.insecure = None]
           /\ shared.user = [account EXCEPT !.exec.command = "kubelogin", !.exec.env = TRUE]
  BY <1>1, <1>9, <1>13, <1>14, <1>15, KubeAssumption DEF Publication, publicationKubeconfig
<1>17. LET shared == Publication(made)
       IN  /\ SameTrust(shared.cluster, shared.user, original, account)
           /\ shared.cluster.server = "gateway" /\ shared.cluster.proxy
  <2> DEFINE out == Publication(made).cluster
             user == Publication(made).user
  <2>1. /\ out.server = "gateway" /\ out.proxy = TRUE /\ out.insecure = None /\ out.ca = cluster.ca
        /\ out.caFile = cluster.caFile /\ out.serverName = cluster.serverName
    BY <1>8, <1>9, <1>16 DEF IsCluster
  <2>2. user.extra = account.extra /\ user.exec.args = account.exec.args
    <3>1. "exec" \in DOMAIN account /\ "args" \in DOMAIN account.exec
      BY <1>1, <1>8 DEF IsUser, validateAzureCLIExec
    <3>2. user.exec = [account.exec EXCEPT !.command = "kubelogin", !.env = TRUE] /\ user.extra = account.extra
      BY <1>8, <1>16, <3>1 DEF IsUser
    <3> QED  BY <3>1, <3>2
  <2> HIDE DEF out, user
  <2>3. SameTrust(out, user, original, account)
    BY <1>11, <2>1, <2>2 DEF SameTrust
  <2> QED  BY <2>1, <2>3 DEF out, user
<1>18. ASSUME NEW skip, NEW name, NEW ca, NEW caFile, NEW extra
       PROVE  LET out == Publication(Edited(made, skip, name, ca, caFile, extra)) IN out.ok => Verified(out)
  <2> DEFINE edited == Edited(made, skip, name, ca, caFile, extra)
             out == Publication(edited)
             new == Active(edited)
  <2> SUFFICES ASSUME out.ok PROVE Verified(out)
    OBVIOUS
  <2> DEFINE other == [made.clusters[1].object EXCEPT !.insecure = skip, !.serverName = name, !.ca = ca, !.caFile = caFile]
             person == [made.users[1].object EXCEPT !.extra = extra]
  <2>1. /\ edited.clusters = [made.clusters EXCEPT ![1].object = other]
        /\ edited.users = [made.users EXCEPT ![1].object = person]
    BY <1>1 DEF Edited, made
  <2>2. /\ DOMAIN edited.clusters = {1} /\ DOMAIN edited.users = {1}
        /\ DOMAIN edited.clusters[1].object = DOMAIN cluster /\ DOMAIN edited.users[1].object = DOMAIN account
    <3>1. /\ DOMAIN made.clusters = {1} /\ "object" \in DOMAIN made.clusters[1] /\ made.clusters[1].object = cluster
          /\ DOMAIN made.users = {1} /\ "object" \in DOMAIN made.users[1] /\ made.users[1].object = account
      BY <1>12 DEF singleNamedSection
    <3>2. DOMAIN other = DOMAIN cluster /\ DOMAIN person = DOMAIN account
      BY <3>1
    <3> HIDE DEF edited, made, other, person
    <3>3. DOMAIN edited.clusters = {1} /\ edited.clusters[1].object = other
      BY <2>1, <3>1, EntryReplaced
    <3>4. DOMAIN edited.users = {1} /\ edited.users[1].object = person
      BY <2>1, <3>1, EntryReplaced
    <3> QED  BY <3>2, <3>3, <3>4
  <2> HIDE DEF edited
  <2>3. /\ new.ok /\ validateAzureCLIExec(new.user) /\ Publishable(new.cluster)
        /\ out.cluster = [new.cluster EXCEPT !.server = "gateway", !.proxy = TRUE, !.insecure = None]
        /\ out.user = [new.user EXCEPT !.exec.command = "kubelogin", !.exec.env = TRUE]
    BY DEF Publication, publicationKubeconfig, Invalid
  <2> HIDE DEF out, new
  <2>4. /\ namedKubeObject(edited.clusters, new.names.cluster).ok
        /\ new.cluster = namedKubeObject(edited.clusters, new.names.cluster).object
        /\ namedKubeObject(edited.users, new.names.user).ok
        /\ new.user = namedKubeObject(edited.users, new.names.user).object
    BY <2>3 DEF Active, Invalid, new
  <2>5. FiniteSection(edited.clusters) /\ FiniteSection(edited.users)
    <3>1. \A x : IsFiniteSet({x})
      BY FS_Singleton
    <3> QED  BY <2>2, <3>1 DEF FiniteSection
  <2>6. new.cluster = edited.clusters[1].object /\ new.user = edited.users[1].object
    BY <2>2, <2>4, <2>5, NamedObjectFound
  <2>7. /\ out.cluster.ca = new.cluster.ca /\ out.cluster.caFile = new.cluster.caFile
        /\ out.cluster.insecure = None /\ out.cluster.serverName = new.cluster.serverName
    BY <1>8, <1>9, <2>2, <2>3, <2>6 DEF IsCluster
  <2>8. out.user.extra = new.user.extra
    BY <1>8, <2>2, <2>3, <2>6 DEF IsUser
  <2> QED  BY <2>3, <2>7, <2>8 DEF Verified, Publishable, validateAzureCLIExec
<1>19. Cardinality(Named(document.clusters, document.clusters[k].name)) = 1
         /\ Cardinality(Named(document.users, document.users[u].name)) = 1
  BY <1>6, <1>7, FS_Singleton
<1>20. Len(made.clusters) = 1 /\ Len(made.users) = 1 /\ made.clusters[1].object = cluster /\ made.users[1].object = account
  BY <1>12 DEF singleNamedSection
<1>21. /\ c \in Named(document.contexts, document.current)
       /\ k \in Named(document.clusters, document.contexts[c].object.cluster)
       /\ u \in Named(document.users, document.contexts[c].object.user)
  BY <1>5, <1>6, <1>7
<1>22. prepared.host = original.server.host /\ prepared.document = made
  BY <1>1, <1>2 DEF made
<1>23. LET shared == Publication(made)
       IN  /\ prepared.host = original.server.host /\ prepared.host # "ip" /\ original.server.https
           /\ SameTrust(cluster, account, original, account)
           /\ cluster.server = Loopback /\ ~cluster.proxy
           /\ shared.ok /\ SameTrust(shared.cluster, shared.user, original, account)
           /\ shared.upstream = Loopback /\ shared.cluster.server = "gateway" /\ shared.cluster.proxy
  BY <1>2, <1>9, <1>11, <1>16, <1>17, <1>22
<1>24. original = document.clusters[k].object /\ account = document.users[u].object
  BY <1>6, <1>7
<1> HIDE DEF original, account
<1> QED  BY <1>18, <1>19, <1>20, <1>21, <1>22, <1>23, <1>24 DEF KeepsTrust, prepared

-----------------------------------------------------------------------------
(* The sign-in pages.  A rebuilt environment is left out: run              *)
(* browser_refused shows that it has neither bivrost nor its mode.         *)

\* The first of some rules is one of them.
LEMMA MinIsIn ==
  ASSUME NEW I \in SUBSET Nat, I # {}
  PROVE  Min(I) \in I
<1>1. PICK x \in I : \A y \in I : x <= y
  BY HasLeast
<1> QED  BY <1>1 DEF Min

\* A rule that names the tenant, if there is one, gives the browser.
LEMMA SelectedNamesTenant ==
  ASSUME NEW ask, IsSignIn(ask), NamesTenant(ask) # {}
  PROVE  \E i \in NamesTenant(ask) :
           ask.rules[i].browser # None /\ SelectAuthenticationBrowser(ask) = ask.rules[i].browser
<1> DEFINE I == NamesTenant(ask)
<1>1. I \in SUBSET Nat /\ I \subseteq DOMAIN ask.rules
  BY DEF IsSignIn, NamesTenant
<1> HIDE DEF I
<1>2. Min(I) \in I
  BY <1>1, MinIsIn DEF I
<1>3. SelectAuthenticationBrowser(ask) = ask.rules[Min(I)].browser
  BY DEF SelectAuthenticationBrowser, First, I
<1> QED  BY <1>1, <1>2, <1>3 DEF IsSignIn, I

\* The environments, as Azure CLI has them.
LEMMA AzureEnvIs ==
  ASSUME NEW ask, IsSignIn(ask), ask.kind # "rebuilt"
  PROVE  AzureEnv(ask) =
           IF ask.kind = "login" /\ ~HasAuthenticationBrowsers(ask) THEN Env(FALSE, DOMAIN ask.browsers, None)
           ELSE IF Interactive(ask) THEN Env(TRUE, Kept(ask, DOMAIN ask.browsers), "interactive")
           ELSE Env(TRUE, {}, "refuse")
<1> DEFINE entries == DOMAIN ask.browsers
<1>1. /\ UserEnv(ask).mode = None /\ UserEnv(ask).kept = entries
      /\ UserEnv(ask) = Env(FALSE, entries, None)
  BY DEF UserEnv, Env
<1>2. Route(UserEnv(ask), ask, "refuse") = Env(TRUE, {}, "refuse")
  BY DEF Route
<1>3. Route(UserEnv(ask), ask, "interactive") = Env(TRUE, Kept(ask, entries), "interactive")
  BY <1>1 DEF Route
<1>4. /\ Route(Env(TRUE, {}, "refuse"), ask, "refuse") = Env(TRUE, {}, "refuse")
      /\ Route(Env(TRUE, {}, "refuse"), ask, "interactive") = Env(TRUE, Kept(ask, entries), "interactive")
  <2>1. Env(TRUE, {}, "refuse").mode # None
    BY ModeAssumption DEF Env
  <2> QED  BY <2>1 DEF Route
<1>5. CASE ask.kind = "login"
  BY <1>1, <1>3, <1>5 DEF AzureEnv, Interactive
<1>6. CASE ask.kind = "certificate"
  BY <1>2, <1>4, <1>6 DEF AzureEnv, Interactive
<1>7. CASE ask.kind = "other"
  BY <1>2, <1>7 DEF AzureEnv, Interactive
<1> QED  BY <1>5, <1>6, <1>7 DEF IsSignIn

\* What becomes of a page that bivrost refuses.
LEMMA SignInRefused ==
  ASSUME NEW ask, IsSignIn(ask), ask.kind # "rebuilt", ~Interactive(ask)
  PROVE  /\ SignIn(ask).opened = None /\ SignIn(ask).shown = FALSE /\ SignIn(ask).asked = TRUE
         /\ SignIn(ask).inherits = Env(FALSE, {}, None)
<1>1. AzureEnv(ask) = Env(TRUE, {}, "refuse")
  BY AzureEnvIs DEF Interactive
<1>2. AzureEnv(ask).first = TRUE /\ AzureEnv(ask).kept = {} /\ AzureEnv(ask).mode = "refuse"
  BY <1>1 DEF Env
<1>3. SignIn(ask) = [Nothing EXCEPT !.asked = TRUE]
  BY <1>2 DEF SignIn, Declines, Handle
<1> QED  BY <1>3 DEF Nothing

\* What becomes of one that bivrost is asked to open.
LEMMA SignInRoutes ==
  ASSUME NEW ask, IsSignIn(ask), ask.kind # "rebuilt", Interactive(ask),
         ask.kind = "login" => HasAuthenticationBrowsers(ask)
  PROVE  LET browser == SelectAuthenticationBrowser(ask)
         IN  /\ SignIn(ask).asked = TRUE /\ SignIn(ask).inherits.first = FALSE
             /\ StillLoads(ask) /\ browser = None =>
                  /\ SignIn(ask).opened = UsersOwn(ask, Kept(ask, DOMAIN ask.browsers))
                  /\ SignIn(ask).shown = FALSE
             /\ StillLoads(ask) /\ browser # None /\ ask.starts =>
                  SignIn(ask).opened = browser /\ SignIn(ask).shown = FALSE
             /\ (StillLoads(ask) => browser # None /\ ~ask.starts) =>
                  SignIn(ask).opened = None /\ SignIn(ask).shown = ask.terminal
<1> DEFINE kept == Kept(ask, DOMAIN ask.browsers)
           env == AzureEnv(ask)
           browser == SelectAuthenticationBrowser(ask)
<1>1. env = Env(TRUE, kept, "interactive")
  BY AzureEnvIs
<1>2. env.first = TRUE /\ env.kept = kept /\ env.mode = "interactive"
  BY <1>1 DEF Env
<1>3. \A i \in kept : ask.browsers[i] # Edge
  BY DEF Kept
<1> HIDE DEF kept, env, browser
<1>4. SignIn(ask) = IF ~(StillLoads(ask) /\ browser = None) THEN Handle(ask, env)
                    ELSE [Nothing EXCEPT !.opened = UsersOwn(ask, kept), !.asked = TRUE]
  BY <1>2, <1>3 DEF SignIn, Declines, env, browser
<1>5. Handle(ask, env) =
        IF StillLoads(ask) /\ ask.starts
        THEN [[Nothing EXCEPT !.asked = TRUE] EXCEPT !.opened = browser, !.inherits = userEnvironment(env)]
        ELSE [[Nothing EXCEPT !.asked = TRUE] EXCEPT !.shown = ask.terminal]
  BY <1>2 DEF Handle, browser
<1>6. userEnvironment(env).first = FALSE /\ Env(FALSE, {}, None).first = FALSE
  BY DEF userEnvironment, Env
<1>7. CASE StillLoads(ask) /\ browser = None
  BY <1>4, <1>6, <1>7 DEF Nothing, kept, browser
<1>8. CASE StillLoads(ask) /\ browser # None /\ ask.starts
  BY <1>4, <1>5, <1>6, <1>8 DEF Nothing, browser
<1>9. CASE StillLoads(ask) => browser # None /\ ~ask.starts
  BY <1>4, <1>5, <1>6, <1>9 DEF Nothing, browser
<1> QED  BY <1>7, <1>8, <1>9

\* What becomes of a page of a login that nothing configures.
LEMMA SignInUnrouted ==
  ASSUME NEW ask, IsSignIn(ask), ask.kind = "login", ~HasAuthenticationBrowsers(ask)
  PROVE  /\ SignIn(ask).inherits.first = FALSE
         /\ SelectAuthenticationBrowser(ask) = None
         /\ (\A i \in DOMAIN ask.browsers : ask.browsers[i] # Edge) =>
              SignIn(ask).opened = UsersOwn(ask, DOMAIN ask.browsers) /\ SignIn(ask).shown = FALSE
<1> DEFINE env == AzureEnv(ask)
<1>1. env = Env(FALSE, DOMAIN ask.browsers, None)
  BY AzureEnvIs
<1>2. env.first = FALSE /\ env.kept = DOMAIN ask.browsers
  BY <1>1 DEF Env
<1>3. SignIn(ask) = IF \E i \in DOMAIN ask.browsers : ask.browsers[i] = Edge THEN [Nothing EXCEPT !.opened = Edge]
                    ELSE [Nothing EXCEPT !.opened = UsersOwn(ask, DOMAIN ask.browsers), !.asked = FALSE]
  BY <1>2 DEF SignIn
<1>4. Nothing.inherits.first = FALSE
  BY DEF Nothing, Env
<1>5. ask.rules = <<>> /\ ask.setting = None
  BY DEF HasAuthenticationBrowsers
<1>6. SelectAuthenticationBrowser(ask) = None
  BY <1>5 DEF SelectAuthenticationBrowser, NamesTenant, NamesDomain
<1> QED  BY <1>3, <1>4, <1>6 DEF Nothing

\* One page is opened once, by the right program, or not at all.
LEMMA SignInIsRoutedOnce ==
  ASSUME NEW ask, IsSignIn(ask), ask.kind # "rebuilt"
  PROVE  RoutedOnce(ask, SignIn(ask))
<1>1. CASE ~Interactive(ask)
  <2>1. SignIn(ask).inherits.first = FALSE
    <3>1. SignIn(ask).inherits = Env(FALSE, {}, None)
      BY <1>1, SignInRefused
    <3> QED  BY <3>1 DEF Env
  <2> QED  BY <1>1, <2>1, SignInRefused DEF RoutedOnce
<1>2. CASE Interactive(ask) /\ (ask.kind = "login" => HasAuthenticationBrowsers(ask))
  <2>1. HasAuthenticationBrowsers(ask) \/ ask.kind = "certificate"
    BY <1>2 DEF Interactive
  <2> QED  BY <1>2, <2>1, SignInRoutes DEF RoutedOnce
<1>3. CASE ask.kind = "login" /\ ~HasAuthenticationBrowsers(ask)
  <2>1. Interactive(ask)
    BY <1>3 DEF Interactive
  <2> QED  BY <1>3, <2>1, SignInUnrouted DEF RoutedOnce
<1> QED  BY <1>1, <1>2, <1>3 DEF Interactive

\* A page for a tenant that rules name is opened by the browser of one, or not at all.
LEMMA SignInKeepsApart ==
  ASSUME NEW ask, IsSignIn(ask), ask.kind # "rebuilt"
  PROVE  OwnOrganisation(ask, SignIn(ask))
<1> SUFFICES ASSUME NamesTenant(ask) # {}
             PROVE  SignIn(ask).opened \in {None} \union {ask.rules[i].browser : i \in NamesTenant(ask)}
  BY DEF OwnOrganisation
<1>1. PICK i \in NamesTenant(ask) :
        ask.rules[i].browser # None /\ SelectAuthenticationBrowser(ask) = ask.rules[i].browser
  BY SelectedNamesTenant
<1>2. HasAuthenticationBrowsers(ask)
  BY DEF NamesTenant, HasAuthenticationBrowsers
<1>3. SignIn(ask).opened \in {None, SelectAuthenticationBrowser(ask)}
  BY <1>1, <1>2, SignInRefused, SignInRoutes
<1> QED  BY <1>1, <1>3

-----------------------------------------------------------------------------
(* The registry proxy.  A start that runs holds the host's port or knows    *)
(* that it has lost it (Holds), and has an ssh only while it runs, or when  *)
(* it was killed (Bridged).  An ssh that is up has the forward of the       *)
(* machine it was started for, and no other ssh has it (Forwarded).         *)

Running == {"inspect", "starting", "serving", "stopping", "closing"}
Bridging == {"starting", "serving", "stopping"}

ServerType ==
  [stage : {"new", "returned", "dead"} \union Running, config : Configs, machine : Connections,
   ssh : {"none", "starting", "up", "exited", "reaped"},
   line : BOOLEAN, bridge : BOOLEAN, cancelled : BOOLEAN, failed : BOOLEAN]
LoginType ==
  [stage : {"new", "podman", "proxy", "checked", "reachable", "command", "ended"}, wants : Connections]

AcrTypeOK ==
  /\ port \in Servers \union {None}
  /\ forward \in [Machines -> Servers \union {None}]
  /\ selected \in Connections
  /\ servers \in [Servers -> ServerType]
  /\ login \in LoginType

\* A start has the host's port from startProxy to its end, unless its listener fails.
Holds ==
  \A p \in Servers :
    /\ port = p => servers[p].stage \in Running
    /\ servers[p].stage \in Running => port = p \/ servers[p].failed

\* A start has an ssh from its look at Podman to the end of child.stop.
Bridged ==
  \A p \in Servers :
    /\ servers[p].ssh \in {"none", "starting"} => ~servers[p].line
    /\ servers[p].ssh # "none" => servers[p].machine # None
    /\ servers[p].stage \in {"new", "inspect"} => servers[p].ssh = "none"
    /\ servers[p].ssh \in {"starting", "up", "exited"} =>
         servers[p].stage \in Bridging \union {"dead"}
    /\ servers[p].bridge => servers[p].line

\* A guest's port is forwarded by an ssh that is up, for its own machine.
Forwarded ==
  /\ \A m \in Machines : forward[m] # None =>
       servers[forward[m]].ssh = "up" /\ servers[forward[m]].machine = m
  /\ \A p \in Servers : servers[p].ssh = "up" => forward[servers[p].machine] = p

AcrInv == AcrTypeOK /\ Holds /\ Bridged /\ Forwarded

-----------------------------------------------------------------------------
\* Any starts and any connection do.
LEMMA InitAcrInv ==
  ASSUME NEW configs \in SUBSET Configs, NEW choices \in SUBSET Connections, AcrInit(configs, choices)
  PROVE  AcrInv
<1> USE AcrAssumption DEF AcrInit
<1>1. AcrTypeOK
  BY DEF AcrTypeOK, ServerType, LoginType, Connections
<1>2. \A p \in Servers : servers[p].stage = "new" /\ servers[p].ssh = "none"
                         /\ ~servers[p].line /\ ~servers[p].bridge
  OBVIOUS
<1>3. Holds /\ Bridged
  BY <1>2 DEF Holds, Bridged, Running
<1>4. Forwarded
  BY <1>2 DEF Forwarded
<1> QED  BY <1>1, <1>3, <1>4 DEF AcrInv

ServerStep(p) ==
  \/ Listen(p) \/ ServeFails(p) \/ InspectPodman(p) \/ AllocateForward(p) \/ PrintReady(p) \/ SshExits(p)
  \/ ReapSsh(p) \/ SeeReady(p) \/ FailBridge(p) \/ EndServe(p) \/ StopBridge(p) \/ CloseProxy(p)
  \/ Interrupt(p) \/ KillServer(p)

\* A flag is a flag, set or not.
LEMMA FlagsTyped ==
  ASSUME NEW s \in ServerType
  PROVE  /\ [s EXCEPT !.line = TRUE] \in ServerType
         /\ [s EXCEPT !.stage = "serving", !.bridge = TRUE] \in ServerType
         /\ [s EXCEPT !.cancelled = TRUE] \in ServerType
         /\ [s EXCEPT !.failed = TRUE] \in ServerType
<1>1. "serving" \in {"new", "returned", "dead"} \union Running
  BY DEF Running
<1>2. [s EXCEPT !.line = TRUE] \in ServerType
  BY Zenon DEF ServerType
<1>3. [s EXCEPT !.stage = "serving", !.bridge = TRUE] \in ServerType
  BY <1>1, Zenon DEF ServerType
<1>4. [s EXCEPT !.cancelled = TRUE] \in ServerType
  BY Zenon DEF ServerType
<1>5. [s EXCEPT !.failed = TRUE] \in ServerType
  BY Zenon DEF ServerType
<1> QED  BY <1>2, <1>3, <1>4, <1>5

\* A process that has ended has its type still.
LEMMA EndTyped ==
  ASSUME AcrTypeOK, NEW p \in Servers, NEW stage0 \in {"returned", "dead"}, End(p, stage0)
  PROVE  port' \in Servers \union {None} /\ servers' \in [Servers -> ServerType]
<1>1. servers[p] \in ServerType
  BY DEF AcrTypeOK
<1>2. servers' = [servers EXCEPT ![p] = [servers[p] EXCEPT !.stage = stage0, !.bridge = FALSE,
                                           !.cancelled = FALSE, !.failed = FALSE]]
  BY DEF End
<1>3. [servers[p] EXCEPT !.stage = stage0, !.bridge = FALSE, !.cancelled = FALSE, !.failed = FALSE]
        \in ServerType
  BY <1>1, Zenon DEF ServerType
<1>4. servers' \in [Servers -> ServerType]
  BY <1>2, <1>3, Zenon DEF AcrTypeOK
<1> QED  BY <1>4 DEF End, AcrTypeOK

\* Type correctness of the steps of a start.
LEMMA ServerTyped ==
  ASSUME AcrInv, NEW p \in Servers, ServerStep(p)
  PROVE  AcrTypeOK'
<1> USE AcrAssumption DEF AcrInv, AcrTypeOK, Goes
<1>1. CASE Listen(p)  BY <1>1 DEF Listen, ServerType, Running
<1>2. CASE InspectPodman(p)
  <2>1. CASE servers' = [servers EXCEPT ![p].stage = "starting", ![p].machine = selected,
                                        ![p].ssh = "starting"]
    <3>1. servers' = [servers EXCEPT ![p] = [servers[p] EXCEPT !.stage = "starting",
                                               !.machine = selected, !.ssh = "starting"]]
      BY <2>1
    <3>2. [servers[p] EXCEPT !.stage = "starting", !.machine = selected, !.ssh = "starting"] \in ServerType
      BY DEF ServerType, Running
    <3> QED  BY <1>2, <3>1, <3>2 DEF InspectPodman
  <2>2. CASE Goes(p, "serving") \/ Goes(p, "closing")
    BY <1>2, <2>2 DEF InspectPodman, ServerType, Running
  <2> QED  BY <1>2, <2>1, <2>2 DEF InspectPodman
<1>3. CASE AllocateForward(p)
  <2>1. servers' \in [Servers -> ServerType]
    BY <1>3 DEF AllocateForward, ServerType, Running
  <2>2. forward' \in [Machines -> Servers \union {None}]
    BY <1>3 DEF AllocateForward
  <2> QED  BY <1>3, <2>1, <2>2 DEF AllocateForward
<1>4. CASE PrintReady(p)
  <2>1. servers[p] \in ServerType
    OBVIOUS
  <2>2. servers' = [servers EXCEPT ![p] = [servers[p] EXCEPT !.line = TRUE]]
    BY <1>4 DEF PrintReady
  <2>3. [servers[p] EXCEPT !.line = TRUE] \in ServerType
    BY <2>1, FlagsTyped
  <2> QED  BY <1>4, <2>2, <2>3 DEF PrintReady
<1>5. CASE SshExits(p)  BY <1>5 DEF SshExits, ServerType, Running
<1>6. CASE ReapSsh(p)  BY <1>6 DEF ReapSsh, ServerType, Running
<1>7. CASE SeeReady(p)
  <2>1. servers[p] \in ServerType
    OBVIOUS
  <2>2. servers' = [servers EXCEPT ![p] = [servers[p] EXCEPT !.stage = "serving", !.bridge = TRUE]]
    BY <1>7 DEF SeeReady
  <2>3. [servers[p] EXCEPT !.stage = "serving", !.bridge = TRUE] \in ServerType
    BY <2>1, FlagsTyped
  <2> QED  BY <1>7, <2>2, <2>3 DEF SeeReady
<1>8. CASE FailBridge(p)  BY <1>8 DEF FailBridge, ServerType, Running
<1>9. CASE EndServe(p)  BY <1>9 DEF EndServe, ServerType, Running
<1>10. CASE StopBridge(p)  BY <1>10 DEF StopBridge, ServerType, Running
<1>11. CASE CloseProxy(p)  BY <1>11, EndTyped DEF CloseProxy
<1>12. CASE Interrupt(p)
  <2>1. servers[p] \in ServerType
    OBVIOUS
  <2>2. servers' = [servers EXCEPT ![p] = [servers[p] EXCEPT !.cancelled = TRUE]]
    BY <1>12 DEF Interrupt
  <2>3. [servers[p] EXCEPT !.cancelled = TRUE] \in ServerType
    BY <2>1, FlagsTyped
  <2> QED  BY <1>12, <2>2, <2>3 DEF Interrupt
<1>13. CASE KillServer(p)  BY <1>13, EndTyped DEF KillServer
<1>14. CASE ServeFails(p)
  <2>1. servers[p] \in ServerType
    OBVIOUS
  <2>2. servers' = [servers EXCEPT ![p] = [servers[p] EXCEPT !.failed = TRUE]]
    BY <1>14 DEF ServeFails
  <2>3. [servers[p] EXCEPT !.failed = TRUE] \in ServerType
    BY <2>1, FlagsTyped
  <2> QED  BY <1>14, <2>2, <2>3 DEF ServeFails
<1> QED  BY <1>1, <1>2, <1>3, <1>4, <1>5, <1>6, <1>7, <1>8, <1>9, <1>10, <1>11, <1>12, <1>13, <1>14
            DEF ServerStep

\* The port is taken when nobody has it, and left by its own start.
LEMMA ServerHolds ==
  ASSUME AcrInv, NEW p \in Servers, ServerStep(p)
  PROVE  Holds'
<1> USE AcrAssumption DEF AcrInv, AcrTypeOK, ServerType, Running, Bridging, Goes, Holds, Bridged
<1>1. CASE Listen(p)  BY <1>1 DEF Listen
<1>2. CASE InspectPodman(p)  BY <1>2 DEF InspectPodman
<1>3. CASE AllocateForward(p) \/ PrintReady(p) \/ SshExits(p) \/ ReapSsh(p)
  BY <1>3 DEF AllocateForward, PrintReady, SshExits, ReapSsh
<1>4. CASE SeeReady(p) \/ FailBridge(p)  BY <1>4 DEF SeeReady, FailBridge
<1>5. CASE EndServe(p) \/ StopBridge(p)  BY <1>5 DEF EndServe, StopBridge
<1>6. CASE CloseProxy(p)  BY <1>6 DEF CloseProxy, End
<1>7. CASE Interrupt(p)  BY <1>7 DEF Interrupt
<1>8. CASE KillServer(p)  BY <1>8 DEF KillServer, End
<1>9. CASE ServeFails(p)  BY <1>9 DEF ServeFails
<1> QED  BY <1>1, <1>2, <1>3, <1>4, <1>5, <1>6, <1>7, <1>8, <1>9 DEF ServerStep

\* ssh is started in one stage only, and over before the next but one.
LEMMA ServerBridged ==
  ASSUME AcrInv, NEW p \in Servers, ServerStep(p)
  PROVE  Bridged'
<1> USE AcrAssumption DEF AcrInv, AcrTypeOK, ServerType, Running, Bridging, Goes, Bridged
<1>1. CASE Listen(p)  BY <1>1 DEF Listen
<1>2. CASE InspectPodman(p)  BY <1>2 DEF InspectPodman
<1>3. CASE AllocateForward(p) \/ PrintReady(p)  BY <1>3 DEF AllocateForward, PrintReady
<1>4. CASE SshExits(p) \/ ReapSsh(p)  BY <1>4 DEF SshExits, ReapSsh
<1>5. CASE SeeReady(p) \/ FailBridge(p)  BY <1>5 DEF SeeReady, FailBridge
<1>6. CASE EndServe(p) \/ StopBridge(p)  BY <1>6 DEF EndServe, StopBridge
<1>7. CASE CloseProxy(p)  BY <1>7 DEF CloseProxy, End
<1>8. CASE Interrupt(p) \/ ServeFails(p)  BY <1>8 DEF Interrupt, ServeFails
<1>9. CASE KillServer(p)  BY <1>9 DEF KillServer, End
<1> QED  BY <1>1, <1>2, <1>3, <1>4, <1>5, <1>6, <1>7, <1>8, <1>9 DEF ServerStep

\* A guest's port is bound by an ssh that is starting, and goes with it.
LEMMA ServerForwarded ==
  ASSUME AcrInv, NEW p \in Servers, ServerStep(p)
  PROVE  Forwarded'
<1> USE AcrAssumption DEF AcrInv, AcrTypeOK, ServerType, Running, Goes, Bridged, Forwarded
<1>1. CASE InspectPodman(p)  BY <1>1 DEF InspectPodman
<1>2. CASE AllocateForward(p)
  <2> DEFINE n == servers[p].machine
  <2>1. /\ n \in Machines /\ forward[n] = None /\ forward' = [forward EXCEPT ![n] = p]
        /\ servers' = [servers EXCEPT ![p].ssh = "up"]
    BY <1>2 DEF AllocateForward, Connections
  <2>2. servers'[p].ssh = "up" /\ servers'[p].machine = n
    BY <2>1
  <2>3. \A q \in Servers \ {p} : servers'[q] = servers[q]
    BY <2>1
  <2>4. servers[p].ssh # "up"
    BY <1>2 DEF AllocateForward
  <2>5. ASSUME NEW m \in Machines, forward'[m] # None
        PROVE  servers'[forward'[m]].ssh = "up" /\ servers'[forward'[m]].machine = m
    BY <2>1, <2>2, <2>3, <2>4, <2>5
  <2>6. ASSUME NEW q \in Servers, servers'[q].ssh = "up"
        PROVE  forward'[servers'[q].machine] = q
    <3>1. CASE q = p
      BY <2>1, <2>2, <3>1
    <3>2. CASE q # p
      BY <2>1, <2>3, <2>6, <3>2
    <3> QED  BY <3>1, <3>2
  <2> QED  BY <2>5, <2>6
<1>3. CASE SshExits(p)
  <2>1. /\ forward' = [m \in Machines |-> IF forward[m] = p THEN None ELSE forward[m]]
        /\ servers' = [servers EXCEPT ![p].ssh = "exited"]
    BY <1>3 DEF SshExits
  <2>2. \A q \in Servers \ {p} : servers'[q] = servers[q]
    BY <2>1
  <2>3. servers'[p].ssh = "exited"
    BY <2>1
  <2>4. ASSUME NEW q \in Servers, servers'[q].ssh = "up"
        PROVE  forward'[servers'[q].machine] = q
    <3>1. q # p /\ servers'[q] = servers[q]
      BY <2>2, <2>3, <2>4
    <3>2. servers[q].machine \in Machines /\ forward[servers[q].machine] = q
      BY <2>4, <3>1 DEF Connections
    <3> QED  BY <2>1, <3>1, <3>2
  <2>5. ASSUME NEW m \in Machines, forward'[m] # None
        PROVE  servers'[forward'[m]].ssh = "up" /\ servers'[forward'[m]].machine = m
    BY <2>1, <2>2, <2>5
  <2> QED  BY <2>4, <2>5
<1>4. CASE ReapSsh(p)  BY <1>4 DEF ReapSsh
<1>5. CASE Listen(p) \/ PrintReady(p) \/ SeeReady(p) \/ FailBridge(p)
  BY <1>5 DEF Listen, PrintReady, SeeReady, FailBridge
<1>6. CASE EndServe(p) \/ StopBridge(p) \/ Interrupt(p) \/ ServeFails(p)
  BY <1>6 DEF EndServe, StopBridge, Interrupt, ServeFails
<1>7. CASE CloseProxy(p) \/ KillServer(p)
  BY <1>7 DEF CloseProxy, KillServer, End
<1> QED  BY <1>1, <1>2, <1>3, <1>4, <1>5, <1>6, <1>7 DEF ServerStep

\* The steps of a start keep the invariant, and leave the login alone.
LEMMA ServerInv ==
  ASSUME AcrInv, NEW p \in Servers, ServerStep(p)
  PROVE  AcrInv' /\ login' = login
<1>1. AcrInv'
  BY ServerTyped, ServerHolds, ServerBridged, ServerForwarded DEF AcrInv
<1>2. login' = login
  BY DEF ServerStep, Listen, ServeFails, InspectPodman, AllocateForward, PrintReady, SshExits, ReapSsh,
         SeeReady, FailBridge, EndServe, StopBridge, CloseProxy, Interrupt, KillServer
<1> QED  BY <1>1, <1>2

LoginStep ==
  RequirePodman \/ RequireProxy \/ CheckProxy \/ RegistryCheck \/ LoginCommand \/ LogIn

\* A login looks, and changes nothing of the others.
LEMMA LoginInv == AcrInv /\ LoginStep => AcrInv'
<1> SUFFICES ASSUME AcrInv, LoginStep PROVE AcrInv'
  OBVIOUS
<1> USE AcrAssumption DEF AcrInv, AcrTypeOK, LoginType, LoginEnds
<1>1. UNCHANGED <<port, forward, selected, servers>>
  BY DEF LoginStep, RequirePodman, RequireProxy, CheckProxy, RegistryCheck, LoginCommand, LogIn
<1>2. (Holds /\ Bridged /\ Forwarded)'
  BY <1>1 DEF Holds, Bridged, Forwarded
<1>3. login' \in LoginType
  <2> USE DEF Connections
  <2>1. CASE RequirePodman  BY <2>1 DEF RequirePodman
  <2>2. CASE RequireProxy
    <3>1. CASE login' = [login EXCEPT !.stage = "proxy", !.wants = selected]
      <4>1. login' = [stage |-> "proxy", wants |-> selected]
        BY <3>1
      <4> QED  BY <4>1
    <3>2. CASE LoginEnds  BY <3>2
    <3> QED  BY <2>2, <3>1, <3>2 DEF RequireProxy
  <2>3. CASE CheckProxy
    <3>1. CASE login' = [login EXCEPT !.stage = "checked"]  BY <3>1
    <3>2. CASE LoginEnds  BY <3>2
    <3> QED  BY <2>3, <3>1, <3>2 DEF CheckProxy
  <2>4. CASE RegistryCheck  BY <2>4 DEF RegistryCheck
  <2>5. CASE LoginCommand  BY <2>5 DEF LoginCommand
  <2>6. CASE LogIn  BY <2>6 DEF LogIn
  <2> QED  BY <2>1, <2>2, <2>3, <2>4, <2>5, <2>6 DEF LoginStep
<1> QED  BY <1>1, <1>2, <1>3

\* And so does the user, who may choose another machine at any time.
LEMMA AcrNextInv == AcrInv /\ AcrNext => AcrInv'
<1> SUFFICES ASSUME AcrInv, AcrNext PROVE AcrInv'
  OBVIOUS
<1>1. CASE \E p \in Servers : ServerStep(p)
  BY <1>1, ServerInv
<1>2. CASE LoginStep
  BY <1>2, LoginInv
<1>3. CASE SelectMachine
  <2>1. UNCHANGED <<port, forward, servers, login>> /\ selected' \in Connections
    BY <1>3 DEF SelectMachine
  <2> QED
    BY <2>1 DEF AcrInv, AcrTypeOK, Holds, Bridged, Forwarded
<1> QED  BY <1>1, <1>2, <1>3 DEF AcrNext, ServerStep, LoginStep

Accepted == login.stage = "proxy" /\ login'.stage = "checked"

\* An answer that is accepted names a machine only if ssh has printed its line, and
\* then it has the forward or has ended since.
LEMMA AnswerIsTrue ==
  ASSUME AcrInv, AcrNext, Accepted
  PROVE  Confirmed
<1> USE AcrAssumption DEF AcrInv, AcrTypeOK, LoginType, LoginEnds, Accepted
<1>1. CheckProxy
  <2>1. ~\E p \in Servers : ServerStep(p)
    BY ServerInv
  <2>2. ~SelectMachine
    BY DEF SelectMachine
  <2>3. ~RequirePodman /\ ~RequireProxy
    BY DEF RequirePodman, RequireProxy
  <2>4. ~RegistryCheck /\ ~LoginCommand /\ ~LogIn
    BY DEF RegistryCheck, LoginCommand, LogIn
  <2> QED  BY <2>1, <2>2, <2>3, <2>4 DEF AcrNext, ServerStep
<1>2. /\ port \in Servers /\ servers[port].config = "the login's"
      /\ login.wants = None \/ Advertised(port) = login.wants
  <2>1. ~LoginEnds
    OBVIOUS
  <2> HIDE DEF LoginEnds
  <2> QED  BY <1>1, <2>1 DEF CheckProxy
<1>3. ASSUME login.wants # None
      PROVE  /\ servers[port].machine = login.wants /\ servers[port].line
             /\ forward[login.wants] = port \/ servers[port].ssh = "exited"
  <2>1. /\ servers[port].bridge /\ servers[port].ssh # "reaped"
        /\ servers[port].machine = login.wants
    BY <1>2, <1>3 DEF Advertised
  <2>2. servers[port].line /\ servers[port].ssh \in {"up", "exited"}
    BY <1>2, <2>1 DEF Bridged, ServerType
  <2> QED  BY <1>2, <2>1, <2>2 DEF Forwarded
<1> QED  BY <1>2, <1>3 DEF Confirmed

\* A guest's forward belongs to the start that has the port, or to one that was killed
\* or has lost its listener.
LEMMA AcrInvLeadsHome == AcrInv => ForwardLeadsHome
BY AcrAssumption DEF AcrInv, AcrTypeOK, Holds, Bridged, Forwarded, ForwardLeadsHome, Running, Bridging

-----------------------------------------------------------------------------
(* The program.                                                            *)

\* A job that is one step was answered as its operator says.
Answered == answer # None =>
  /\ job.kind = "sign-in" => answer = SignIn(job.ask)
  /\ job.kind = "podman" => answer = Wrapper!podmanWrapperArgs(job.ask)
  /\ job.kind = "list" => answer = ListEnvironments(job.ask)

\* The inductive invariant: that of each job.
CommandsInv ==
  /\ job \in Jobs /\ Answered
  /\ LogInv
  /\ KubeInv /\ kask \in KubeAsks \union {IdleKubeAsk}
  /\ AcrInv

\* Every start of the program has the invariant.
LEMMA InitCommandsInv == Init => CommandsInv
<1> SUFFICES ASSUME Init PROVE CommandsInv
  OBVIOUS
<1>1. job \in Jobs /\ Answered
  BY DEF Init, Answered
<1>2. LogInv
  <2>1. Directories \in SUBSET [Slots -> Commands \union {Old, None}]
    BY DEF Directories
  <2> QED  BY <2>1, InitLogInv DEF Init
<1>3. KubeInv /\ kask \in KubeAsks \union {IdleKubeAsk}
  <2> DEFINE asks == IF job.kind = "kubeconfig" THEN KubeAsks ELSE {IdleKubeAsk}
  <2>1. KubeInit(asks) /\ asks \subseteq KubeAsks \union {IdleKubeAsk}
    BY DEF Init
  <2> HIDE DEF asks
  <2>2. \A ask \in asks : ask.foreign \in BOOLEAN
    BY <2>1, AsksAssumption DEF IsKubeAsk
  <2> QED  BY <2>1, <2>2, InitKubeInv DEF KubeInit
<1>4. AcrInv
  <2>1. AcrInit(Configs, Connections) \/ AcrInit({"another"}, {None})
    BY DEF Init
  <2>2. {"another"} \in SUBSET Configs /\ {None} \in SUBSET Connections
    BY DEF Configs, Connections
  <2> QED  BY <2>1, <2>2, InitAcrInv
<1> QED  BY <1>1, <1>2, <1>3, <1>4 DEF CommandsInv

\* The jobs share no state.
LEMMA UnchangedLog == LogInv /\ UNCHANGED logVars => LogInv'
<1> SUFFICES ASSUME LogInv, UNCHANGED logVars PROVE LogInv'
  OBVIOUS
<1>1. UNCHANGED <<names, stage, slot, open, file, content, bytes, failed, given, steps, status>>
  BY DEF logVars
<1>2. LogTypeOK'
  BY <1>1 DEF LogInv, LogTypeOK
<1>3. ASSUME NEW c \in Commands PROVE (OwnFile(c) /\ Recorded(c) /\ Told(c))'
  BY <1>1 DEF LogInv, OwnFile, Recorded, Told, Given
<1> QED  BY <1>2, <1>3 DEF LogInv

\* prepareKubeconfig is not disturbed by the others.
LEMMA UnchangedKube == KubeInv /\ UNCHANGED kvars => KubeInv'
<1> SUFFICES ASSUME KubeInv, UNCHANGED kvars PROVE KubeInv'
  OBVIOUS
<1>1. UNCHANGED <<kask, kstage, cancelled, expired, launcher, worker, kfile, kresult>>
  BY DEF kvars
<1>2. (KubeTypeOK /\ Untouched /\ Attended /\ Settled)'
  BY <1>1 DEF KubeInv, KubeTypeOK, Untouched, Attended, Settled
<1>3. (KubeFileAsReported /\ ReadyTransforms)'
  BY <1>1 DEF KubeInv, KubeFileAsReported, ReadyTransforms
<1> QED  BY <1>1, <1>2, <1>3 DEF KubeInv

\* Nor is the registry proxy.
LEMMA UnchangedAcr == AcrInv /\ UNCHANGED acrVars => AcrInv'
<1> SUFFICES ASSUME AcrInv, UNCHANGED acrVars PROVE AcrInv'
  OBVIOUS
<1>1. UNCHANGED <<port, forward, selected, servers, login>>
  BY DEF acrVars
<1>2. (AcrTypeOK /\ Holds /\ Bridged)'
  BY <1>1 DEF AcrInv, AcrTypeOK, Holds, Bridged
<1>3. Forwarded'
  BY <1>1 DEF AcrInv, Forwarded
<1> QED  BY <1>2, <1>3 DEF AcrInv

\* The documents that kubectl prints stay what they were.
LEMMA KubeAskStays == KubeNext => kask' = kask
BY DEF KubeNext, Check, StartTool, WorkerWrites, WorkerEnds, Expire, KillTool, ToolReturns, JudgeTool, Cancel

\* The invariant holds of every behaviour.
LEMMA CommandsInductive == Spec => []CommandsInv
<1>1. CommandsInv /\ [Next]_vars => CommandsInv'
  <2> SUFFICES ASSUME CommandsInv, [Next]_vars PROVE CommandsInv'
    OBVIOUS
  <2> USE DEF CommandsInv
  <2>1. CASE Answer
    <3>1. UNCHANGED <<job, logVars, kvars, acrVars>>
      BY <2>1 DEF Answer
    <3>2. LogInv' /\ KubeInv' /\ AcrInv' /\ kask' = kask
      BY <3>1, UnchangedLog, UnchangedKube, UnchangedAcr DEF kvars
    <3>3. Answered'
      BY <2>1 DEF Answer, Answered
    <3> QED  BY <3>1, <3>2, <3>3 DEF Jobs
  <2>2. CASE LogNext /\ UNCHANGED <<job, answer, kvars, acrVars>>
    <3>1. LogInv' /\ KubeInv' /\ AcrInv' /\ kask' = kask
      BY <2>2, LogNextInv, UnchangedKube, UnchangedAcr DEF kvars
    <3> QED  BY <2>2, <3>1 DEF Answered, Jobs
  <2>3. CASE KubeNext /\ UNCHANGED <<job, answer, logVars, acrVars>>
    <3>1. LogInv' /\ KubeInv' /\ AcrInv' /\ kask' = kask
      BY <2>3, KubeNextInv, KubeAskStays, UnchangedLog, UnchangedAcr
    <3> QED  BY <2>3, <3>1 DEF Answered, Jobs
  <2>4. CASE AcrNext /\ UNCHANGED <<job, answer, logVars, kvars>>
    <3>1. LogInv' /\ KubeInv' /\ AcrInv' /\ kask' = kask
      BY <2>4, AcrNextInv, UnchangedLog, UnchangedKube DEF kvars
    <3> QED  BY <2>4, <3>1 DEF Answered, Jobs
  <2>5. CASE UNCHANGED vars
    <3>1. UNCHANGED <<job, answer, logVars, kvars, acrVars>>
      BY <2>5 DEF vars
    <3>2. LogInv' /\ KubeInv' /\ AcrInv' /\ kask' = kask
      BY <3>1, UnchangedLog, UnchangedKube, UnchangedAcr DEF kvars
    <3> QED  BY <3>1, <3>2 DEF Answered, Jobs
  <2> QED  BY <2>1, <2>2, <2>3, <2>4, <2>5 DEF Next
<1> QED  BY <1>1, InitCommandsInv, PTL DEF Spec

\* Every variable of the program's start, of the log, of prepareKubeconfig and of
\* the registry proxy keeps its type.
THEOREM CommandsTypeCorrect == Spec => [](job \in Jobs /\ LogTypeOK /\ KubeTypeOK /\ AcrTypeOK)
<1>1. CommandsInv => job \in Jobs /\ LogTypeOK /\ KubeTypeOK /\ AcrTypeOK
  BY DEF CommandsInv, LogInv, KubeInv, AcrInv
<1> QED  BY <1>1, CommandsInductive, PTL

\* log.write works under a mutex and stops at its first failure, so that a command's
\* file has what its goroutines gave it up to there, whoever removes or writes files.
THEOREM LogsAreAsGiven == Spec => []LogAsGiven
<1>1. CommandsInv => LogAsGiven
  BY LogInvSafe DEF CommandsInv
<1> QED  BY <1>1, CommandsInductive, PTL

\* Run turns the error that Close remembers into the command's, so that success is
\* reported of a complete log only.
THEOREM SuccessesAreComplete == Spec => []SuccessIsComplete
<1>1. CommandsInv => SuccessIsComplete
  BY LogInvSafe DEF CommandsInv
<1> QED  BY <1>1, CommandsInductive, PTL

\* podmanWrapperArgs gives Podman's builds the session's default behind the user's
\* own choice and changes nothing else, for arguments of any number.
THEOREM WrapperAlwaysYields == Spec => []WrapperYields
<1>1. CommandsInv => WrapperYields
  <2> SUFFICES ASSUME CommandsInv, job.kind = "podman", answer # None
               PROVE  Wrapper!Yields(job.ask, answer)
    BY DEF WrapperYields
  <2>1. job.ask \in ArgumentLists /\ answer = Wrapper!podmanWrapperArgs(job.ask)
    BY DEF CommandsInv, Answered, Jobs
  <2>2. job.ask \in Seq(Wrapper!Arguments)
    BY <2>1, AsksAssumption
  <2> QED  BY <2>1, <2>2, WrapperArgsYield
<1> QED  BY <1>1, CommandsInductive, PTL

\* What ListEnvironments shows is what LoadEnvironment loads and CountEnvironments
\* counts, for any catalogue and any local profiles.
THEOREM ListsAreLoadable == Spec => []ListIsLoadable
<1>1. CommandsInv => ListIsLoadable
  <2> SUFFICES ASSUME CommandsInv, job.kind = "list", answer # None
               PROVE  ListAgrees(job.ask, answer)
    BY DEF ListIsLoadable
  <2>1. job.ask \in Files /\ answer = ListEnvironments(job.ask)
    BY DEF CommandsInv, Answered, Jobs
  <2> QED  BY <2>1, ListEnvironmentsAgrees
<1> QED  BY <1>1, CommandsInductive, PTL

\* prepareKubeconfig waits for every process that can write the file, so that the
\* path has what it returned, also later.
THEOREM KubeFilesAreAsReported == Spec => []KubeFileAsReported
<1>1. CommandsInv => KubeFileAsReported
  BY DEF CommandsInv, KubeInv
<1> QED  BY <1>1, CommandsInductive, PTL

\* transformKubeconfig and publicationKubeconfig keep a cluster's authority and its
\* name, for any document that kubectl may print; and of arguments as Azure CLI and
\* kubelogin write them (Plain), what validateAzureCLIExec accepts is the Azure CLI's
\* login for kubelogin too, or an error.
THEOREM KubeconfigsKeepTrust == Spec => []KubeconfigKeepsTrust
<1>1. CommandsInv => KubeconfigKeepsTrust
  <2> SUFFICES ASSUME CommandsInv, kresult = "ready" PROVE KeepsTrust(kask.document)
    BY DEF KubeconfigKeepsTrust
  <2>1. transformKubeconfig(kask.document).ok
    BY DEF CommandsInv, KubeInv, ReadyTransforms
  <2>2. IsDocument(kask.document)
    BY AsksAssumption DEF CommandsInv, IsKubeAsk
  <2> QED  BY <2>1, <2>2, TransformKeepsTrust
<1> QED  BY <1>1, CommandsInductive, PTL

\* authbrowser.Run opens a page once, in the browser the rules name, or leaves it to
\* the user's own: every command but those that set BROWSER anew (browser_refused).
THEOREM SignInsAreRouted ==
  ASSUME \A ask \in SignIns : ask.kind # "rebuilt"
  PROVE  Spec => []SignInRouted
<1>1. CommandsInv => SignInRouted
  <2> SUFFICES ASSUME CommandsInv, job.kind = "sign-in", answer # None
               PROVE  RoutedOnce(job.ask, answer)
    BY DEF SignInRouted
  <2>1. job.ask \in SignIns /\ answer = SignIn(job.ask)
    BY DEF CommandsInv, Answered, Jobs
  <2> QED  BY <2>1, AsksAssumption, SignInIsRoutedOnce
<1> QED  BY <1>1, CommandsInductive, PTL

\* SelectAuthenticationBrowser looks at the tenant in every rule before it looks at a
\* domain, so that no organization's sign-in lands in another's browser.
THEOREM OrganizationsStayApart ==
  ASSUME \A ask \in SignIns : ask.kind # "rebuilt"
  PROVE  Spec => []OrganizationsApart
<1>1. CommandsInv => OrganizationsApart
  <2> SUFFICES ASSUME CommandsInv, job.kind = "sign-in", answer # None
               PROVE  OwnOrganisation(job.ask, answer)
    BY DEF OrganizationsApart
  <2>1. job.ask \in SignIns /\ answer = SignIn(job.ask)
    BY DEF CommandsInv, Answered, Jobs
  <2> QED  BY <2>1, AsksAssumption, SignInKeepsApart
<1> QED  BY <1>1, CommandsInductive, PTL

\* serveProxy waits for its ssh before it gives the port back, so that a guest's
\* forward never reaches a later start, unless its own was killed or lost its
\* listener to an error of Accept.
THEOREM ForwardsLeadHome == Spec => []ForwardLeadsHome
<1>1. CommandsInv => ForwardLeadsHome
  BY AcrInvLeadsHome DEF CommandsInv
<1> QED  BY <1>1, CommandsInductive, PTL

\* podmanBridgeID names the machine after ssh's ready line and until child.done, so
\* that at the moment checkProxy accepts it the forward is this proxy's own, or ssh
\* has ended and not been reaped.  Nothing is said of the login's later steps.
THEOREM LoginsAreChecked == Spec => LoginChecked
<1>1. CommandsInv /\ [Next]_vars => [login.stage = "proxy" /\ login'.stage = "checked" => Confirmed]_acrVars
  <2> SUFFICES ASSUME CommandsInv, Next, Accepted PROVE Confirmed
    BY DEF Accepted, vars, acrVars
  <2>1. AcrNext
    BY DEF Next, Answer, acrVars, Accepted
  <2> QED  BY <2>1, AnswerIsTrue DEF CommandsInv
<1> QED  BY <1>1, CommandsInductive, PTL DEF Spec, LoginChecked
=============================================================================
