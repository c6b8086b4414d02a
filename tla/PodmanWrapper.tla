--------------------------- MODULE PodmanWrapper ---------------------------
(***************************************************************************)
(* The podman command of a session's shell (podman/wrapper.go): a copy of  *)
(* bivrost that hands its arguments to the real Podman, with               *)
(* --http-proxy=false put after the word build so that the session's proxy *)
(* does not get into images.  An argument is the class the code tells      *)
(* apart; how Podman itself reads the arguments is external.               *)
(***************************************************************************)
EXTENDS Naturals, Sequences

Group == "image"          \* image, buildx
Alone == "-r"             \* a global flag without a value, or with one attached
Valued == "--log-level"   \* a global flag whose value is the next argument
Unknown == "-?"           \* a flag the wrapper does not know
Choice == "--http-proxy"  \* the user's own --http-proxy=true
Arguments == {"build", Group, Alone, Valued, Unknown, Choice, "--", "word"}

NoProxy == "--http-proxy=false"

\* takes says whether a flag the wrapper does not know has its value in the next
\* argument.
Width(arg, takes) == IF arg = Valued \/ (arg = Unknown /\ takes) THEN 2 ELSE 1

\* From each index on, the first argument that is none of the flags, nor a value
\* of one, nor one of so many groups; 0 without one.
FirstWord(args, flags, takes) ==
  LET from[i \in 1 .. Len(args) + 2] ==
        IF i > Len(args) THEN [groups \in 0 .. 1 |-> 0]
        ELSE [groups \in 0 .. 1 |->
               IF args[i] \in flags \/ (args[i] = Group /\ groups = 1)
               THEN from[i + Width(args[i], takes)][IF args[i] = Group THEN 0 ELSE groups]
               ELSE i]
  IN  from

-----------------------------------------------------------------------------
(* The wrapper.                                                            *)

\* What stands before the word build: flags the wrapper knows, with their values,
\* and at most one group; 0 if that is followed by another word or flag.
podmanBuildCommand(args) ==
  LET i == FirstWord(args, {Alone, Valued}, FALSE)[1][1]
  IN  IF i # 0 /\ args[i] = "build" THEN i ELSE 0

\* Mistake: the default comes after what the user wrote.
AppendDefault(args) ==
  IF podmanBuildCommand(args) = 0 THEN args ELSE Append(args, NoProxy)

podmanWrapperArgs(args) ==
  LET i == podmanBuildCommand(args)
  IN  IF i = 0 THEN args
      ELSE SubSeq(args, 1, i) \o <<NoProxy>> \o SubSeq(args, i + 1, Len(args))

-----------------------------------------------------------------------------
(* Podman (external).                                                      *)

Flags == {Alone, Valued, Unknown, Choice, NoProxy}

\* The index of the argument that names the command, past the flags and the
\* group before it; 0 when there is none.
CommandOf(args, takes) ==
  LET i == FirstWord(args, Flags, takes)[1][1]
  IN  IF i # 0 /\ args[i] = "--" THEN 0 ELSE i

Builds(args, takes) == CommandOf(args, takes) # 0 /\ args[CommandOf(args, takes)] = "build"

\* From each index on, what the last --http-proxy of the command's options says,
\* "default" without one.
ProxyOption(args, takes) ==
  LET last[i \in 1 .. Len(args) + 2] ==
        IF i > Len(args) \/ args[i] = "--" THEN "default"
        ELSE IF last[i + Width(args[i], takes)] = "default" /\ args[i] \in {Choice, NoProxy}
        THEN args[i] ELSE last[i + Width(args[i], takes)]
  IN  last

Chosen(args, takes) == ProxyOption(args, takes)[CommandOf(args, takes) + 1]

-----------------------------------------------------------------------------
(* What the wrapper may make of args.                                      *)

\* Podman reads another command than build, or a build the wrapper cannot be
\* sure of, as the user wrote it; a build has the session's default, and the
\* user's own choice before it.
Yields(args, rewritten) ==
  \A takes \in BOOLEAN :
    /\ ~Builds(args, takes) => rewritten = args
    /\ rewritten # args =>
         /\ Builds(rewritten, takes)
         /\ Chosen(rewritten, takes) =
              IF Chosen(args, takes) = "default" THEN NoProxy ELSE Chosen(args, takes)
    /\ Builds(args, takes) /\ rewritten = args => \E i \in DOMAIN args : args[i] \in {Unknown, Choice}
=============================================================================
