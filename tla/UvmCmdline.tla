----------------------------- MODULE UvmCmdline ------------------------------
(***************************************************************************)
(* The command line of a simulation as UVM sees it: uvm_svcmd_dpi.c walks  *)
(* the simulator's argument vector, in which -f stands for the arguments   *)
(* of a file, and hands the flat list out one argument per call; the       *)
(* constructor of uvm_cmdline_processor (uvm_cmdline_processor.svh:        *)
(* 283-310) collects and sorts them.  The vector is walked twice, to count *)
(* the arguments and to store them into an array of that many entries.     *)
(*                                                                         *)
(* An argument is [text |-> t], or [file |-> arguments] for "-f" (or "-F") *)
(* together with the vector that follows it, without the file's own name.  *)
(***************************************************************************)
EXTENDS Integers, Sequences, FiniteSets

CONSTANTS
  Arguments,         \* what a vector may hold, in a file or not
  CommandLines,      \* the argument vectors a simulation is started with
  MaxFiles,          \* bound on the files of one, in one another or not
  PlusTexts,         \* the texts that begin with "+",
  UvmTexts,          \* and the ones that begin with "+UVM" or "-UVM"
  MaxProcessors      \* how often a processor is constructed

IsFile(a) == "file" \in DOMAIN a

(* Reading a vector by hand: the first file in it is replaced by what is   *)
(* in it, again and again until none is left.                              *)
HasFile(args) == \E i \in 1 .. Len(args) : IsFile(args[i])
FirstFile(args) ==
  CHOOSE i \in 1 .. Len(args) : IsFile(args[i]) /\ \A j \in 1 .. i - 1 : ~IsFile(args[j])
Inlined(args) ==
  IF ~HasFile(args) THEN args
  ELSE LET f == FirstFile(args)
       IN  SubSeq(args, 1, f - 1) \o args[f].file \o SubSeq(args, f + 1, Len(args))
Inlinings(args) ==
  LET inlining[n \in 0 .. MaxFiles] == IF n = 0 THEN args ELSE Inlined(inlining[n - 1])
  IN  inlining
TextsOf(args) == [i \in 1 .. Len(args) |-> args[i].text]
Reading(args) == TextsOf(Inlinings(args)[MaxFiles])

ASSUME ArgumentsAssumption ==
  /\ \A a \in Arguments : a \in [text : STRING] \/ a \in [file : Seq(Arguments)]
  /\ CommandLines \subseteq Seq(Arguments)
ASSUME FilesAssumption ==
  MaxFiles \in Nat /\ \A args \in CommandLines : ~HasFile(Inlinings(args)[MaxFiles])

VARIABLES
  argv,              \* info.argv, fixed when the simulation starts
  walk,              \* the lists walk_level is in, innermost first
  cmd,               \* what uvm_dpi_get_next_arg_c is doing
  argc_total, argv_stack, idx,
  m_argv, m_plus_argv, m_uvm_argv,
  processors         \* constructors run so far

cmdVars == <<argv, walk, cmd, argc_total, argv_stack, idx,
             m_argv, m_plus_argv, m_uvm_argv, processors>>


CmdIdle ==
  /\ walk = <<>> /\ cmd = "idle"
  /\ argc_total = 0 /\ argv_stack = <<>> /\ idx = 0
  /\ m_argv = <<>> /\ m_plus_argv = <<>> /\ m_uvm_argv = <<>>
  /\ processors = 0
CmdInit == argv \in CommandLines /\ CmdIdle

-----------------------------------------------------------------------------
(* Faulty variant: the count of the first construction is added to.        *)
NewKeepsCount ==
  /\ cmd = "idle" /\ processors < MaxProcessors
  /\ cmd' = "count" /\ walk' = <<argv>>
  /\ argv_stack' = <<>> /\ UNCHANGED argc_total
  /\ m_argv' = <<>> /\ m_plus_argv' = <<>> /\ m_uvm_argv' = <<>>
  /\ processors' = processors + 1
  /\ UNCHANGED <<argv, idx>>

(* new() makes its first call with init = 1: counts start over, and the    *)
(* counting walk begins.  The object's queues are new.                     *)
New ==
  /\ cmd = "idle" /\ processors < MaxProcessors
  /\ cmd' = "count" /\ walk' = <<argv>>
  /\ argc_total' = 0 /\ argv_stack' = <<>>
  /\ m_argv' = <<>> /\ m_plus_argv' = <<>> /\ m_uvm_argv' = <<>>
  /\ processors' = processors + 1
  /\ UNCHANGED <<argv, idx>>

(* push_data counts the argument in the first walk, stores it in the next. *)
PushData(t) ==
  IF cmd = "count"
  THEN argc_total' = argc_total + 1 /\ UNCHANGED argv_stack
  ELSE argv_stack' = Append(argv_stack, t) /\ UNCHANGED argc_total

(* One turn of the loop of walk_level: an argument is pushed, the list of  *)
(* a file is walked one level down.                                        *)
WalkArgument ==
  /\ cmd \in {"count", "store"} /\ walk # <<>> /\ Head(walk) # <<>>
  /\ LET a == Head(Head(walk))
         rest == <<Tail(Head(walk))>> \o Tail(walk)
     IN  IF IsFile(a)
         THEN walk' = <<a.file>> \o rest /\ UNCHANGED <<argc_total, argv_stack>>
         ELSE walk' = rest /\ PushData(a.text)
  /\ UNCHANGED <<argv, cmd, idx, m_argv, m_plus_argv, m_uvm_argv, processors>>

(* Faulty variant: a second processor starts where the first one stopped.  *)
WalkReturnKeepsIdx ==
  /\ cmd \in {"count", "store"} /\ walk # <<>> /\ Head(walk) = <<>>
  /\ IF Len(walk) > 1 THEN walk' = Tail(walk) /\ UNCHANGED <<cmd, idx>>
     ELSE IF cmd = "count" THEN cmd' = "store" /\ walk' = <<argv>> /\ UNCHANGED idx
     ELSE cmd' = "hand_out" /\ walk' = <<>> /\ UNCHANGED idx
  /\ UNCHANGED <<argv, argc_total, argv_stack, m_argv, m_plus_argv, m_uvm_argv, processors>>

(* The end of a list: back to the level above, and from level 0 to the     *)
(* second walk or, the array being full, to handing it out from its start. *)
WalkReturn ==
  /\ cmd \in {"count", "store"} /\ walk # <<>> /\ Head(walk) = <<>>
  /\ IF Len(walk) > 1 THEN walk' = Tail(walk) /\ UNCHANGED <<cmd, idx>>
     ELSE IF cmd = "count" THEN cmd' = "store" /\ walk' = <<argv>> /\ UNCHANGED idx
     ELSE cmd' = "hand_out" /\ walk' = <<>> /\ idx' = 0
  /\ UNCHANGED <<argv, argc_total, argv_stack, m_argv, m_plus_argv, m_uvm_argv, processors>>

(* A call hands out the next argument, NULL (read as "") after the last.   *)
NextArg == IF idx >= argc_total THEN "" ELSE argv_stack[idx + 1]

(* A turn of the constructor's loop, which ends with the first "".         *)
Collect ==
  /\ cmd = "hand_out"
  /\ idx' = idx + 1
  /\ LET s == NextArg IN
     IF s = ""
     THEN cmd' = "idle" /\ UNCHANGED <<m_argv, m_plus_argv, m_uvm_argv>>
     ELSE /\ m_argv' = Append(m_argv, s)
          /\ m_plus_argv' = IF s \in PlusTexts THEN Append(m_plus_argv, s) ELSE m_plus_argv
          /\ m_uvm_argv' = IF s \in UvmTexts THEN Append(m_uvm_argv, s) ELSE m_uvm_argv
          /\ UNCHANGED cmd
  /\ UNCHANGED <<argv, walk, argc_total, argv_stack, processors>>

CmdNext == New \/ WalkArgument \/ WalkReturn \/ Collect
CmdSpec == CmdInit /\ [][CmdNext]_cmdVars

-----------------------------------------------------------------------------
(* s up to its first empty argument, the members of T in s in their order. *)
IsUpToEmpty(t, s) ==
  /\ Len(t) <= Len(s) /\ \A i \in 1 .. Len(t) : t[i] = s[i] /\ s[i] # ""
  /\ Len(t) < Len(s) => s[Len(t) + 1] = ""
IsSelection(t, s, T) ==
  LET chosen(n) == {i \in 1 .. n : s[i] \in T}
  IN  /\ Len(t) = Cardinality(chosen(Len(s)))
      /\ \A i \in chosen(Len(s)) : t[Cardinality(chosen(i))] = s[i]

(* However the lists are nested, and however often a processor is built,   *)
(* it ends up with every argument of every file in reading order (up to an *)
(* argument that is the empty string, which ends its loop), sorted into    *)
(* the plus and the UVM arguments.                                         *)
ArgumentsCollected ==
  cmd = "idle" /\ processors > 0 =>
    /\ IsUpToEmpty(m_argv, Reading(argv))
    /\ IsSelection(m_plus_argv, m_argv, PlusTexts)
    /\ IsSelection(m_uvm_argv, m_argv, UvmTexts)

(* The second walk never stores more entries than the first one counted,   *)
(* the size the array was allocated with, and fills it.                    *)
ArrayFits ==
  /\ Len(argv_stack) <= argc_total
  /\ cmd = "hand_out" => Len(argv_stack) = argc_total
=============================================================================
