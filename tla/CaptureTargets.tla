--------------------------- MODULE CaptureTargets ---------------------------
(***************************************************************************)
(* "Capture process": from the text of the window to the processes that    *)
(* the driver takes for targets.                                           *)
(*                                                                         *)
(* A text is its tokens between commas, trimmed: a number, the wildcard or *)
(* a name, which is a sequence of characters in lower case, without quotes *)
(* or a path.  A process has a pid and a file name.                        *)
(***************************************************************************)
EXTENDS Integers, Sequences, SequencesExt

CONSTANTS
  Texts,            (* what the user may enter                               *)
  Processes,        (* [pid, file]                                           *)
  NameBytes,        (* PROCESS_NAME_BYTES                                    *)
  ImageChars,       (* external: the characters a kernel image name keeps    *)
  MaxTargets        (* MAX_TARGET_PIDS and MAX_TARGET_NAMES                  *)

NUL == "NUL"

IsName(name) == name \in Seq({name[i] : i \in DOMAIN name} \ {NUL})

IsToken(token) ==
  /\ token.type \in {"wildcard", "number", "name"}
  /\ token.type = "name" => IsName(token.name)

(* A field has room for more than the kernel keeps, and its end.           *)
TargetAssumption ==
  /\ {NameBytes, ImageChars, MaxTargets} \subseteq Nat /\ ImageChars + 1 < NameBytes
  /\ \A tokens \in Texts :
       /\ tokens \in Seq({tokens[i] : i \in DOMAIN tokens})
       /\ \A i \in DOMAIN tokens : IsToken(tokens[i])
  /\ \A process \in Processes : IsName(process.file)

VARIABLES
  text,                                     (* history: the text applied     *)
  active_capture_pids, active_capture_names,
  gTargetPids, gTargetNames                 (* of the driver                 *)

vars == <<text, active_capture_pids, active_capture_names, gTargetPids, gTargetNames>>

Exe == <<".", "e", "x", "e">>

WithoutExe(name) ==
  IF IsSuffix(Exe, name) THEN SubSeq(name, 1, Len(name) - Len(Exe)) ELSE name

Add(seq, e) == IF Contains(seq, e) THEN seq ELSE Append(seq, e)

(* One token of the loop; "done" once the loop has ended.                  *)
ParseToken(read, token) ==
  LET base == WithoutExe(token.name) IN
  CASE read.done \/ Len(read.pids) + Len(read.names) >= MaxTargets
         -> [read EXCEPT !.done = TRUE]
    [] token.type = "wildcard" -> [pids |-> << >>, names |-> << >>, done |-> TRUE]
    [] token.type = "number"
         -> IF token.pid = 0 THEN read ELSE [read EXCEPT !.pids = Add(@, token.pid)]
    [] OTHER -> IF base = << >> THEN read ELSE [read EXCEPT !.names = Add(@, base)]

(* What the loop has read after i tokens.                                  *)
parse_capture_filters(tokens) ==
  LET read[i \in 0..Len(tokens)] ==
        IF i = 0 THEN [pids |-> << >>, names |-> << >>, done |-> FALSE]
        ELSE ParseToken(read[i - 1], tokens[i])
  IN read[Len(tokens)]

encode_kernel_process_name(name) ==
  [i \in 1..NameBytes |-> IF i <= Len(name) /\ i < NameBytes THEN name[i] ELSE NUL]
-----------------------------------------------------------------------------
Init ==
  /\ text = << >>
  /\ active_capture_pids = << >> /\ active_capture_names = << >>
  /\ gTargetPids = << >> /\ gTargetNames = << >>

(* apply_capture_process, send_config and SET_CONFIG, which both cut the   *)
(* lists.                                                                  *)
Cut(seq) == SubSeq(seq, 1, IF Len(seq) < MaxTargets THEN Len(seq) ELSE MaxTargets)

ApplyCaptureProcess(tokens) ==
  LET read == parse_capture_filters(tokens)
      cut  == Cut(read.names)
  IN /\ text' = tokens
     /\ active_capture_pids' = read.pids /\ active_capture_names' = read.names
     /\ gTargetPids' = Cut(read.pids)
     /\ gTargetNames' = [i \in DOMAIN cut |-> encode_kernel_process_name(cut[i])]

Next == \E tokens \in Texts : ApplyCaptureProcess(tokens)

Spec == Init /\ [][Next]_vars
-----------------------------------------------------------------------------
(* The driver's match.                                                     *)

UpToNul(bytes) ==
  SubSeq(bytes, 1, CHOOSE n \in 0..Len(bytes) :
                     /\ \A i \in 1..n : bytes[i] # NUL
                     /\ n = Len(bytes) \/ bytes[n + 1] = NUL)

(* PsGetProcessImageFileName: the file name, cut.                          *)
ImageFileName(file) == SubSeq(file, 1, IF Len(file) < ImageChars THEN Len(file) ELSE ImageChars)

NormalizeProcessName(name) == WithoutExe(name)

(* Mutant of EqualProcessName: a suffix that was cut is not recognised.    *)
SameName(left, right) == left = right

(* Equal, but for what is left of the suffix.                              *)
EqualProcessName(left, right) ==
  /\ IsPrefix(right, left)
  /\ IsPrefix(SubSeq(left, Len(right) + 1, Len(left)), Exe)

MatchesTargetProcess(process) ==
  \/ gTargetPids = << >> /\ gTargetNames = << >>
  \/ Contains(gTargetPids, process.pid)
  \/ \E i \in DOMAIN gTargetNames :
       EqualProcessName(NormalizeProcessName(ImageFileName(process.file)), UpToNul(gTargetNames[i]))
-----------------------------------------------------------------------------
Wildcard == \E i \in DOMAIN text : text[i].type = "wildcard"

Named(process) ==
  \E i \in DOMAIN text :
    CASE text[i].type = "number" -> text[i].pid = process.pid
      [] text[i].type = "name"   -> WithoutExe(text[i].name) = WithoutExe(process.file)
      [] OTHER                   -> FALSE

(* Equal, but for a beginning of the suffix at the end of one of them.     *)
Alike(left, right) ==
  \E n \in 0..Len(Exe) :
    left = right \o SubSeq(Exe, 1, n) \/ right = left \o SubSeq(Exe, 1, n)

(* "Kernel-side filtering by process name": as long as the targets are not *)
(* too many, a process whose name the kernel keeps whole (but for the      *)
(* suffix) is captured if the text has its pid or its name, and only if it *)
(* has its pid or a name that the suffix, cut anywhere, cannot tell from   *)
(* its own.                                                                *)
NamesDecideInKernel ==
  Len(text) <= MaxTargets /\ ~Wildcard
  /\ active_capture_pids \o active_capture_names # << >> =>
    \A process \in Processes :
      process.pid # 0 /\ Len(WithoutExe(process.file)) \in 1..(ImageChars - 1) =>
        /\ Named(process) => MatchesTargetProcess(process)
        /\ MatchesTargetProcess(process) =>
             \E i \in DOMAIN text :
               \/ text[i].type = "number" /\ text[i].pid = process.pid
               \/ /\ text[i].type = "name"
                  /\ Alike(WithoutExe(text[i].name), WithoutExe(process.file))

(* README.md: "Kernel-side filtering by process name": a process named in  *)
(* the text is captured.  A long name of the window keeps a character that *)
(* the kernel's has lost.                                                  *)
NamedProcessCaptured ==
  Len(text) <= MaxTargets =>
    \A process \in Processes : Named(process) => MatchesTargetProcess(process)

(* The test "wildcard means capture every process".  A wildcard after the  *)
(* last target that fits is not read.                                      *)
WildcardCapturesEverybody ==
  Wildcard => \A process \in Processes : MatchesTargetProcess(process)
=============================================================================
