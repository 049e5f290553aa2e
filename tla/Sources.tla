------------------------------- MODULE Sources -------------------------------
(***************************************************************************)
(* The two threads that SourceHandle::spawn can start, of which a build    *)
(* has one: the collector of a Windows build (Pipeline, by its own names)  *)
(* and the demo of any other (D).  The idle one stays as it began.         *)
(***************************************************************************)
EXTENDS Pipeline

CONSTANTS   (* of the demo, see DemoSource                                   *)
  DemoOrders, DefaultConfig, DemoTable, BatchSize, FirstPid, ArgumentStep,
  MaxSequence, MaxOrders

VARIABLES
  build,
  demo_commands, config, demo_at, sequence, demo_captured, demo_heard, demo_last,
  detailed, delivered, orders

demoVars ==
  <<demo_commands, config, demo_at, sequence, demo_captured, demo_heard, demo_last,
    detailed, delivered, orders>>

D == INSTANCE DemoSource WITH
  Orders <- DemoOrders, Table <- DemoTable,
  commands <- demo_commands, at <- demo_at, captured <- demo_captured,
  heard <- demo_heard, last <- demo_last

ASSUME SourcesAssumption == D!DemoAssumption

SourcesInit ==
  /\ build \in {"windows", "demo"}
  /\ Init /\ D!Init
  /\ build = "windows" => demo_commands = <<CHOOSE c \in DemoOrders : TRUE>>

WindowsStep == build = "windows" /\ Next /\ UNCHANGED <<build, demoVars>>

DemoStep == build = "demo" /\ D!Next /\ UNCHANGED <<build, vars>>

(* Requests return, the window is drawn again and again, and the demo      *)
(* sleeps for 25 ms at most.  A window may be kept busy for ever, so that  *)
(* "no command" need not stay true.                                        *)
SourcesSpec ==
  /\ SourcesInit /\ [][WindowsStep \/ DemoStep]_<<build, vars, demoVars>>
  /\ WF_vars(build = "windows" /\ Source) /\ SF_vars(build = "windows" /\ NoCommand)
  /\ WF_vars(build = "windows" /\ (Receive \/ EndDrain \/ NoWidget))
  /\ WF_demoVars(build = "demo" /\ D!Source)
-----------------------------------------------------------------------------
(* The demo keeps what the window expects of a source, and keeps back      *)
(* every event that its configuration's categories, operations, rules or   *)
(* PIDs do not admit (DemoSource).                                         *)
DemoIsEventSource == D!DemoIsEventSource

(* It does not keep back all that the driver would: see DemoSource.        *)
DemoAdmitsAsDriver == D!DemoAdmitsAsDriver

(* What the window says reaches the driver, if the build has one.          *)
WindowConfigurationArrives == build = "windows" => ConfigurationArrives

(* A closed window ends the thread behind it: the collector closes the     *)
(* device, which ends the capture, and the demo stops, whatever was        *)
(* ordered before.                                                         *)
ClosedWindowEndsSource == ClosedWindowFreesDevice /\ D!ClosedWindowEndsDemo
=============================================================================
