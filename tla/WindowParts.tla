---------------------------- MODULE WindowParts ----------------------------
(***************************************************************************)
(* Five parts of the window that work on their own: the filter rules (F),  *)
(* the capture targets (T), the export (X), the times of events (E) and    *)
(* the icons (L).  A behaviour takes one of them, the others stay as they  *)
(* began.  Constants and variables are those of the parts.                 *)
(***************************************************************************)
EXTENDS Integers, Sequences, FiniteSets

CONSTANTS
  Ids, NameOf, Spelled, DefaultExcluded, Files, NoFile, Err, Values, MaxU64,
  MaxArgumentRules,
  Texts, Processes, NameBytes, ImageChars, MaxTargets,
  Histories, Rows, Details, Controls, BufferSize,
  Frequency, Millis, Day, Offsets, MaxTicks, MaxGap, MaxEvents,
  BitmapsHaveBits, MaxLoads

VARIABLES
  part,
  syscall_names, included_operations, excluded_operations, argument_rules, sent, loaded,
  text, active_capture_pids, active_capture_names, gTargetPids, gTargetNames,
  history, visible, format, file, buffer, next, status, full,
  time_at, ticks, offset, queued, now_qpc, gap, events,
  icon_at, held, selected, drawn, canvas, image, misused, loads

filterVars == <<syscall_names, included_operations, excluded_operations, argument_rules, sent, loaded>>
targetVars == <<text, active_capture_pids, active_capture_names, gTargetPids, gTargetNames>>
exportVars == <<history, visible, format, file, buffer, next, status, full>>
timeVars   == <<time_at, ticks, offset, queued, now_qpc, gap, events>>
iconVars   == <<icon_at, held, selected, drawn, canvas, image, misused, loads>>
-----------------------------------------------------------------------------
F == INSTANCE FilterFile
T == INSTANCE CaptureTargets
X == INSTANCE ExportFile WITH events <- history
E == INSTANCE EventTime WITH at <- time_at
L == INSTANCE IconLoader WITH at <- icon_at

ASSUME PartsAssumption ==
  /\ F!FilterAssumption /\ T!TargetAssumption
  /\ X!ExportAssumption /\ E!TimeAssumption /\ L!IconAssumption
-----------------------------------------------------------------------------
Parts == {"rules", "targets", "export", "times", "icons"}

Init ==
  /\ part \in Parts
  /\ F!Init /\ T!Init /\ X!Init /\ E!Init /\ L!Init
  /\ part # "export" =>
       /\ history = CHOOSE h \in Histories : TRUE
       /\ visible = << >> /\ format = "txt"
  /\ part # "times" => offset = CHOOSE o \in Offsets : TRUE

RulesStep ==
  part = "rules" /\ F!Next /\ UNCHANGED <<part, targetVars, exportVars, timeVars, iconVars>>
TargetsStep ==
  part = "targets" /\ T!Next /\ UNCHANGED <<part, filterVars, exportVars, timeVars, iconVars>>
ExportStep ==
  part = "export" /\ X!Next /\ UNCHANGED <<part, filterVars, targetVars, timeVars, iconVars>>
TimesStep ==
  part = "times" /\ E!Next /\ UNCHANGED <<part, filterVars, targetVars, exportVars, iconVars>>
IconsStep ==
  part = "icons" /\ L!Next /\ UNCHANGED <<part, filterVars, targetVars, exportVars, timeVars>>

Next == RulesStep \/ TargetsStep \/ ExportStep \/ TimesStep \/ IconsStep

Spec == Init /\ [][Next]_<<part, filterVars, targetVars, exportVars, timeVars, iconVars>>
-----------------------------------------------------------------------------
(* The driver queues exactly the calls that the window would show under    *)
(* its filters (FilterFile).                                               *)
DriverDecidesAsWindow == F!DriverDecidesAsWindow

(* Rules loaded from a file decide as the README says of the file          *)
(* (FilterFile).                                                           *)
LoadedRulesMeanFile == F!LoadedRulesMeanFile

(* A process with a name that the kernel keeps whole is captured if and    *)
(* only if the text names it (CaptureTargets).                             *)
NamesDecideInKernel == T!NamesDecideInKernel

(* README.md: a process named in the text is captured (CaptureTargets).    *)
NamedProcessCaptured == T!NamedProcessCaptured

(* Whatever fails, the file has a beginning of the rows in the order of    *)
(* the view (ExportFile).                                                  *)
FileIsPrefix == X!FileIsPrefix

(* A reader of the file finds what the view shows (ExportFile).            *)
FileSaysWhatIsShown == X!CsvSaysWhatIsShown /\ X!JsonSaysWhatIsShown

(* Times of events are right up to rounding, midnight included (EventTime).*)
TimesAreClose == E!TimesAreClose

(* A load of an icon, whatever fails in it, gives its objects back in      *)
(* order and shows an icon or none, while bitmaps have bits (IconLoader).  *)
IconLoadsAreClean == L!NothingStaysHeld /\ L!ObjectsInOrder /\ L!NoBlankImages
=============================================================================
