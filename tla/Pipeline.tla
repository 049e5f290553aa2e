------------------------------ MODULE Pipeline ------------------------------
(***************************************************************************)
(* The collector thread of a Windows build (windows_source::run) between   *)
(* the driver and the window: two channels, the device's requests, their   *)
(* failures, and the window's end.                                         *)
(*                                                                         *)
(* A configuration is the capture switch and the targets, which are PIDs.  *)
(* A call passes the switch, then the targets, and is queued later: the    *)
(* driver may get another configuration, and empty its ring, in between.   *)
(* Targets are compared in one step, and SET_CONFIG takes two, its globals *)
(* and its flush (PidTargetsHold of CaptureFilter says why that is enough  *)
(* for PIDs).  Details are left to CaptureRing and MonitorApp, filters and *)
(* the view to MonitorApp.                                                 *)
(***************************************************************************)
EXTENDS Integers, Sequences, FiniteSets

CONSTANTS
  Pids,
  Choices,       (* targets that the user may apply                          *)
  EarlierTargets, EarlierPids,   (* targets and calls of an earlier window   *)
  StopCommand,   (* SourceCommand::Stop, against the configurations          *)
  RingEntries,   (* LOG_RING_ENTRIES                                         *)
  BatchEvents,   (* events that fit the buffer of READ_EVENTS                *)
  MaxEvents,     (* the window's memory limit, max_events                    *)
  DrainLimit,    (* messages handled in a frame, 128 in the code             *)
  MaxCaptured,   (* bound: calls that ever pass the driver's filter          *)
  MaxWidgets,    (* bound: widgets the user touches                          *)
  MaxMessages    (* bound on the channel to the window, which has none       *)

ASSUME LimitsAssumption ==
  {RingEntries, BatchEvents, DrainLimit, MaxEvents} \subseteq Nat \ {0}

VARIABLES
  commands, messages,        (* the two channels                             *)
  collector, handle,         (* where the thread is, is the device open      *)
  heard, last, late,         (* history: see EventSource                     *)
  refused,                   (* history: did the last SET_CONFIG fail        *)
  enabled, installed,        (* the driver: gCaptureEnabled, the filter      *)
  entered,                   (* of which a call may be past gCaptureEnabled  *)
  calls, captured,           (* calls past the targets, how many ever        *)
  ring, changed,             (* its ring, filtersChanged of SET_CONFIG       *)
  at, drained,               (* where the window's frame is                  *)
  capture, targets,          (* {} is every process                          *)
  history,
  widgets                    (* external: widgets touched so far             *)

collectorVars == <<collector, handle, refused>>
sentVars      == <<messages, heard, last>>
callVars      == <<entered, calls, captured>>
ringVars      == <<ring, changed>>
driverVars    == <<enabled, installed, callVars, ringVars>>
filterVars    == <<capture, targets>>
windowVars    == <<at, drained, filterVars, history, widgets>>
vars == <<commands, collectorVars, sentVars, driverVars, late, windowVars>>

Configs == [capture : BOOLEAN, targets : SUBSET Pids]

ASSUME TargetsAssumption ==
  Choices \subseteq SUBSET Pids /\ {EarlierTargets, EarlierPids} \subseteq SUBSET Pids

ASSUME CommandsAssumption == StopCommand \notin Configs

Admits(config, event) == config.targets = {} \/ event.pid \in config.targets

(* What the window shows as its configuration.                             *)
Wanted == [capture |-> capture, targets |-> targets]

(* The driver may have served another window before, whose targets stayed  *)
(* when it closed the device, and whose last calls are still on their way. *)
Init ==
  /\ capture = TRUE /\ targets = {} /\ commands = <<Wanted>> /\ messages = << >>
  /\ collector = "open" /\ handle = FALSE /\ refused = FALSE
  /\ heard = {} /\ last = [kind |-> "none"]
  /\ enabled = FALSE /\ installed = [capture |-> FALSE, targets |-> EarlierTargets]
  /\ entered = EarlierPids /\ calls = [id : {0}, pid : EarlierPids]
  /\ captured = 0 /\ ring = << >> /\ changed = FALSE
  /\ late = {e \in calls : ~Admits(installed, e)}
  /\ at = "drain" /\ drained = 0 /\ history = << >> /\ widgets = 0
-----------------------------------------------------------------------------
(* The driver.  EnqueueEvent, of any number of threads.                    *)
Driver == UNCHANGED <<commands, collectorVars, sentVars, enabled, installed, late, windowVars>>

(* The targets are compared and the sequence number is taken, by a call    *)
(* that saw the switch on, now or long ago.                                *)
Pass(pid) ==
  LET event == [id |-> captured + 1, pid |-> pid] IN
  /\ pid \in entered /\ captured < MaxCaptured
  /\ Admits(installed, event)
  /\ calls' = calls \cup {event} /\ captured' = captured + 1
  /\ Driver /\ UNCHANGED <<entered, ringVars>>

(* Mutant of Push: a full ring takes one more.                             *)
PushOverfull(event) ==
  /\ ring' = Append(ring, event) /\ calls' = calls \ {event}
  /\ Driver /\ UNCHANGED <<entered, captured, changed>>

(* The section under gRingLock.                                            *)
Push(event) ==
  /\ ring' = Append(IF Len(ring) = RingEntries THEN Tail(ring) ELSE ring, event)
  /\ calls' = calls \ {event}
  /\ Driver /\ UNCHANGED <<entered, captured, changed>>

Call == (\E pid \in Pids : Pass(pid)) \/ (\E event \in calls : Push(event))
-----------------------------------------------------------------------------
(* The collector.  Nobody listens once the window is closed; send's error  *)
(* is ignored.                                                             *)
Post(batch) ==
  /\ at # "closed" => Len(messages) + Len(batch) <= MaxMessages
  /\ messages' = IF at = "closed" THEN messages ELSE messages \o batch

(* A message that EventSource knows of.                                    *)
Send(m) == Post(<<m>>) /\ heard' = heard \cup {m.kind} /\ last' = m

(* Messages that it does not.                                              *)
Tell(batch) == Post(batch) /\ UNCHANGED <<heard, last>>

(* Shown in a line, one like the other.                                    *)
Status == [kind |-> "note"]
Stats  == [kind |-> "note"]

Collector(from, to) ==
  /\ collector = from /\ collector' = to
  /\ UNCHANGED windowVars

(* CloseHandle: the driver stops capturing.                                *)
Close ==
  /\ handle' = FALSE /\ enabled' = FALSE
  /\ UNCHANGED <<installed, callVars, ringVars, late, refused>>

(* What is not in the ring escapes.                                        *)
FlushRing == ring' = << >> /\ late' = late \cap calls

(* CreateFileW: the driver empties its rings for a new connection.         *)
OpenDevice ==
  /\ Collector("open", "query")
  /\ handle' = TRUE /\ enabled' = FALSE /\ FlushRing
  /\ UNCHANGED <<commands, sentVars, refused, installed, callVars, changed>>

CannotOpen ==
  /\ Collector("open", "gone")
  /\ Tell(<<Status>>)
  /\ UNCHANGED <<commands, handle, refused, driverVars, late>>

(* Mutant of ProtocolMismatch: the early return forgets the handle.        *)
ProtocolMismatchLeaking ==
  /\ Collector("query", "gone")
  /\ Tell(<<Status>>)
  /\ UNCHANGED <<commands, handle, refused, driverVars, late>>

(* GET_STATS fails, or tells of another version.                           *)
ProtocolMismatch ==
  /\ Collector("query", "gone")
  /\ Tell(<<Status>>) /\ Close
  /\ UNCHANGED commands

Greet ==
  /\ Collector("query", "table")
  /\ Tell(<<Stats, Status>>)
  /\ UNCHANGED <<commands, handle, refused, driverVars, late>>

(* send_table: a failure is ignored.                                       *)
SendTable ==
  /\ Collector("table", "commands")
  /\ Send([kind |-> "table"]) \/ UNCHANGED sentVars
  /\ UNCHANGED <<commands, handle, refused, driverVars, late>>

(* SET_CONFIG: the targets, then the switch.  While it is on, any number   *)
(* of calls of any process pass it, and go on as slowly as they like: none *)
(* leaves entered.  A refused configuration is told to the window and      *)
(* forgotten.                                                              *)
Configure(isChange) ==
  /\ commands # << >> /\ Head(commands) # StopCommand
  /\ commands' = Tail(commands)
  /\ \/ /\ Collector("commands", "flush") /\ refused' = FALSE
        /\ installed' = Head(commands) /\ enabled' = installed'.capture
        /\ entered' = IF enabled' THEN Pids ELSE entered
        /\ changed' = isChange
        /\ late' = IF isChange THEN {e \in calls : ~Admits(installed', e)} ELSE late
        /\ UNCHANGED sentVars
     \/ /\ Collector("commands", "commands") /\ refused' = TRUE
        /\ Tell(<<Status>>)
        /\ UNCHANGED <<installed, enabled, entered, changed, late>>
  /\ UNCHANGED <<handle, calls, captured, ring>>

(* Mutant of SetConfig: the ring keeps what the old targets admitted.      *)
SetConfigUnchanged == Configure(FALSE)

SetConfig == Configure(installed.targets # Head(commands).targets)

(* The end of SET_CONFIG.  A call that had passed the old targets may be   *)
(* queued after it.                                                        *)
Flush ==
  /\ Collector("flush", "commands")
  /\ IF changed THEN FlushRing ELSE UNCHANGED <<ring, late>>
  /\ changed' = FALSE
  /\ UNCHANGED <<commands, sentVars, handle, refused, enabled, installed, callVars>>

(* Mutant of Stop: it ends the loop over the commands only.                *)
StopCommands ==
  /\ Collector("commands", "events")
  /\ commands # << >> /\ Head(commands) = StopCommand /\ commands' = Tail(commands)
  /\ UNCHANGED <<sentVars, handle, refused, driverVars, late>>

Stop ==
  /\ Collector("commands", "gone")
  /\ commands # << >> /\ Head(commands) = StopCommand /\ commands' = Tail(commands)
  /\ Close /\ UNCHANGED sentVars

NoCommand ==
  /\ Collector("commands", "events")
  /\ commands = << >>
  /\ UNCHANGED <<commands, sentVars, handle, refused, driverVars, late>>

(* READ_EVENTS; nothing read, nothing sent.                                *)
ReadEvents ==
  /\ Collector("events", "stats")
  /\ LET n == IF Len(ring) > BatchEvents THEN BatchEvents ELSE Len(ring) IN
       /\ IF n = 0 THEN UNCHANGED sentVars
          ELSE Send([kind |-> "events", events |-> SubSeq(ring, 1, n)])
       /\ ring' = SubSeq(ring, n + 1, Len(ring))
       /\ late' = late \ {ring[i] : i \in 1..n}
  /\ UNCHANGED <<commands, handle, refused, enabled, installed, callVars, changed>>

(* Mutant of SendStats: the table is asked for again with the statistics.  *)
SendStatsAndTable ==
  /\ Collector("stats", "commands")
  /\ Tell(<<Stats>>) \/ Send([kind |-> "table"]) \/ UNCHANGED sentVars
  /\ UNCHANGED <<commands, handle, refused, driverVars, late>>

(* Every 250 ms, if GET_STATS does not fail.                               *)
SendStats ==
  /\ Collector("stats", "commands")
  /\ Tell(<<Stats>>) \/ UNCHANGED sentVars
  /\ UNCHANGED <<commands, handle, refused, driverVars, late>>

Source ==
  \/ OpenDevice \/ CannotOpen \/ ProtocolMismatch \/ Greet \/ SendTable
  \/ SetConfig \/ Flush \/ Stop \/ NoCommand \/ ReadEvents \/ SendStats
-----------------------------------------------------------------------------
(* The window                                                              *)
Window == UNCHANGED <<collectorVars, heard, last, driverVars, late>>

send_config == commands' = Append(commands, Wanted')

Receive ==
  /\ at = "drain" /\ drained < DrainLimit /\ messages # << >>
  /\ LET m == Head(messages) IN
       /\ LET all == IF m.kind = "events" THEN history \o m.events ELSE history IN
            history' = IF Len(all) > MaxEvents
                       THEN SubSeq(all, Len(all) - MaxEvents + 1, Len(all)) ELSE all
       /\ IF m.kind = "table" THEN commands' = Append(commands, Wanted)
                              ELSE UNCHANGED commands
  /\ messages' = Tail(messages) /\ drained' = drained + 1
  /\ Window /\ UNCHANGED <<at, filterVars, widgets>>

EndDrain ==
  /\ at = "drain"
  /\ messages = << >> \/ drained = DrainLimit
  /\ at' = "panels" /\ drained' = 0
  /\ Window /\ UNCHANGED <<commands, messages, filterVars, history, widgets>>

NoWidget ==
  /\ at = "panels" /\ at' = "drain"
  /\ Window
  /\ UNCHANGED <<commands, messages, drained, filterVars, history, widgets>>

Widget ==
  /\ at = "panels" /\ at' = "drain" /\ widgets < MaxWidgets
  /\ widgets' = widgets + 1
  /\ Window /\ UNCHANGED <<messages, drained>>

ToggleCapture ==
  /\ Widget
  /\ capture' = ~capture /\ UNCHANGED <<targets, history>>
  /\ send_config

(* Mutant of ApplyCaptureProcess: the same targets as before are not sent  *)
(* again, nor is the wildcard.                                             *)
ApplySomeProcess(chosen) ==
  /\ Widget
  /\ targets' = chosen /\ UNCHANGED capture
  /\ history' = IF chosen = {} THEN history ELSE << >>
  /\ IF chosen \in {targets, {}} THEN UNCHANGED commands ELSE send_config

(* prune_history_to_capture empties the history, unless everyone is meant. *)
ApplyCaptureProcess(chosen) ==
  /\ Widget
  /\ targets' = chosen /\ UNCHANGED capture
  /\ history' = IF chosen = {} THEN history ELSE << >>
  /\ send_config

(* MonitorApp is dropped, with its ends of both channels.                  *)
CloseWindow ==
  /\ at = "panels" /\ at' = "closed"
  /\ commands' = Append(commands, StopCommand) /\ messages' = << >>
  /\ Window /\ UNCHANGED <<drained, filterVars, history, widgets>>

Frame ==
  \/ Receive \/ EndDrain \/ NoWidget \/ ToggleCapture \/ CloseWindow
  \/ \E chosen \in Choices : ApplyCaptureProcess(chosen)

Next == Source \/ Frame \/ Call

Spec == Init /\ [][Next]_vars
-----------------------------------------------------------------------------
EventsIn(seq) == {seq[i] : i \in 1..Len(seq)}

InFlight ==
  UNION {EventsIn(m.events) : m \in {e \in EventsIn(messages) : e.kind = "events"}}

Old == {e \in InFlight \cup EventsIn(history) : ~Admits(Wanted, e)}

TypeOK ==
  /\ EventsIn(commands) \subseteq Configs \cup {StopCommand}
  /\ collector \in
       {"open", "query", "table", "commands", "flush", "events", "stats", "gone"}
  /\ installed \in Configs /\ (enabled => handle /\ installed.capture)
  /\ Len(ring) <= RingEntries /\ Len(history) <= MaxEvents
  /\ at \in {"drain", "panels", "closed"} /\ drained \in 0..DrainLimit

(* The device is open exactly while the thread works with it: no early     *)
(* return leaks the handle, or capture would go on with nobody to read.    *)
HandleHasOwner == handle <=> collector \notin {"open", "gone"}

(* The collector keeps what the window expects of a source: the table      *)
(* before any event, and only events that the configuration in force       *)
(* admits, though the ring was filled under the one before, or late ones.  *)
(* Late are the calls that had passed the old targets and were not queued: *)
(* SET_CONFIG's flush cannot reach them, and each may come once.           *)
Promise == INSTANCE EventSource WITH
  config <- installed, running <- collector # "gone"
CollectorIsEventSource == Promise!Spec

(* Once the driver has the window's targets, and until they change, an     *)
(* event that they do not admit is new in the channel or the history only  *)
(* if its call had passed the old targets and was not in the ring when the *)
(* ring was flushed, and only once.                                        *)
OldEventsStayAway ==
  [][installed.targets = targets /\ targets' = targets => Old' \ Old \subseteq late]_vars

(* The same without exception, of which SET_CONFIG's flush falls short: a  *)
(* call that passed the old targets is queued after the flush.             *)
NoOldEventReturns ==
  [][installed.targets = targets /\ targets' = targets /\ Old = {} => Old' = {}]_vars

(* README.md: filters of the window are "applied in the driver": as often  *)
(* as the user leaves them alone, what the window says is installed in the *)
(* end, unless it was closed, the driver refused it (and a status says so) *)
(* or there is no driver.                                                  *)
ConfigurationArrives ==
  []<>(\/ installed = Wanted /\ enabled = capture
       \/ at = "closed" \/ collector = "gone" \/ refused)

(* A closed window closes the device, which ends the capture.              *)
ClosedWindowFreesDevice == at = "closed" ~> ~handle

(* "Names are matched in the kernel immediately": the history, emptied     *)
(* when targets change, holds only what they admit.                        *)
HistoryIsOfTargets == \A e \in EventsIn(history) : Admits(Wanted, e)

(* README.md: "Bounded kernel queues and configurable GUI memory usage":   *)
(* the GUI holds no more events than the limit and what one frame takes.   *)
MemoryBounded ==
  Len(history) + Cardinality(InFlight) <= MaxEvents + DrainLimit * BatchEvents
=============================================================================
