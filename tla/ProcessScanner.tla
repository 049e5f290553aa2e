--------------------------- MODULE ProcessScanner ---------------------------
(***************************************************************************)
(* The process list of the window: a thread per refresh that takes a       *)
(* snapshot of the processes and loads icons, the rows made of what it     *)
(* sends, and what the event view takes from the rows.                     *)
(*                                                                         *)
(* A process is a pid and a program, which stands for its name and path.   *)
(* The history is that of MonitorApp with one filter, that of names.       *)
(***************************************************************************)
EXTENDS Integers, Sequences

CONSTANTS
  Pids, Programs,
  WithIcon,        (* external: programs whose icon process_icon can load    *)
  MaxHistory,      (* max_events                                             *)
  MaxCaptured,     (* bound: events ever captured                            *)
  MaxStarted,      (* bound: processes ever started                          *)
  MaxScans,        (* bound: refreshes                                       *)
  MaxWidgets       (* bound: widgets used                                    *)

None == "none"

ASSUME ScannerAssumption ==
  None \notin Programs /\ WithIcon \subseteq Programs /\ MaxHistory \in Nat \ {0}

VARIABLES
  alive, started,            (* external: [pid, program]                     *)
  scanner, snapshot, seen, load_default_icon, updates,     (* the thread     *)
  at, widgets,               (* the part of the frame that is next           *)
  processes,                 (* the rows                                     *)
  process_refresh_pending, default_process_icon_loaded, scans,
  complete,                  (* history: did the last refresh reach its end  *)
  events, captured, visible, filters_dirty, process_filter,
  target, chosen             (* the captured program, the pid clicked for it   *)

world   == <<alive, started>>
thread  == <<scanner, snapshot, seen, load_default_icon, updates>>
refresh == <<process_refresh_pending, scans>>
rows    == <<processes, default_process_icon_loaded, complete>>
view    == <<events, captured, visible, filters_dirty, process_filter, target, chosen>>
vars    == <<world, thread, at, widgets, refresh, rows, view>>

PidsOf(set) == {p.pid : p \in set}

EventsIn(history) == {history[i] : i \in DOMAIN history}

(* event_process_name: the row comes before what the driver said.          *)
Name(e, table) ==
  IF e.pid \in PidsOf(table) THEN (CHOOSE r \in table : r.pid = e.pid).program
                             ELSE e.program
-----------------------------------------------------------------------------
StartProcess(pid, program) ==
  /\ pid \notin PidsOf(alive) /\ started < MaxStarted
  /\ alive' = alive \cup {[pid |-> pid, program |-> program]} /\ started' = started + 1
  /\ UNCHANGED <<thread, at, widgets, refresh, rows, view>>

EndProcess(process) ==
  /\ process \in alive /\ alive' = alive \ {process}
  /\ UNCHANGED <<started, thread, at, widgets, refresh, rows, view>>
-----------------------------------------------------------------------------
(* request_process_refresh.                                                *)

(* Mutant of CachedPaths: those without an icon are not tried again.       *)
AllPaths == {r.program : r \in processes}

CachedPaths == {r.program : r \in {row \in processes : row.icon}}

(* The thread cannot always be started.                                    *)
RequestRefresh ==
  /\ ~process_refresh_pending /\ scans < MaxScans /\ scans' = scans + 1
  /\ \/ /\ scanner' = "scan" /\ seen' = CachedPaths /\ updates' = << >>
        /\ load_default_icon' = ~default_process_icon_loaded
        /\ process_refresh_pending' = TRUE /\ UNCHANGED snapshot
     \/ UNCHANGED <<thread, process_refresh_pending>>

Scanner(from) ==
  /\ scanner = from
  /\ UNCHANGED <<world, at, widgets, refresh, rows, view, load_default_icon>>

Scan ==
  /\ Scanner("scan") /\ scanner' = "icons"
  /\ snapshot' = alive
  /\ LET listed == Append(updates, [kind |-> "rows", set |-> alive]) IN
       \/ updates' = listed
       \/ load_default_icon /\ updates' = Append(listed, [kind |-> "default"])
  /\ UNCHANGED seen

LoadIcon(program) ==
  /\ Scanner("icons")
  /\ program \in {p.program : p \in snapshot} \ seen
  /\ seen' = seen \cup {program}
  /\ updates' = IF program \in WithIcon
                THEN Append(updates, [kind |-> "icon", program |-> program]) ELSE updates
  /\ UNCHANGED <<scanner, snapshot>>

Complete ==
  /\ Scanner("icons") /\ {p.program : p \in snapshot} \subseteq seen
  /\ scanner' = "ended" /\ updates' = Append(updates, [kind |-> "complete"])
  /\ UNCHANGED <<snapshot, seen>>

(* A panic in the loader ends the thread, and with it the channel.         *)
Die ==
  /\ Scanner("icons") /\ scanner' = "ended"
  /\ UNCHANGED <<snapshot, seen, updates>>

Thread == Scan \/ (\E program \in Programs : LoadIcon(program)) \/ Complete \/ Die
-----------------------------------------------------------------------------
(* The frame: drain_source, drain_process_updates, the timer, the panels.  *)

Frame(from, to) == at = from /\ at' = to /\ UNCHANGED world

Matching(history, table) ==
  {e \in EventsIn(history) : process_filter \in {None, Name(e, table)}}

DrainSource(batch) ==
  /\ Frame("source", "updates")
  /\ LET all == events \o batch IN
       events' = IF Len(all) > MaxHistory
                 THEN SubSeq(all, Len(all) - MaxHistory + 1, Len(all)) ELSE all
  /\ captured' = captured + Len(batch)
  /\ visible' = IF filters_dirty \/ batch # << >> THEN Matching(events', processes) ELSE visible
  /\ filters_dirty' = FALSE
  /\ UNCHANGED <<thread, widgets, refresh, rows, process_filter, target, chosen>>

Batches ==
  {<< >>} \cup
  {<<[id |-> captured + 1, pid |-> p.pid, program |-> p.program]>> :
     p \in {q \in alive : captured < MaxCaptured /\ target \in {None, q.program}}}

(* Mutant of NewRows: a process that ended takes its row with it.          *)
RowsOfSnapshot(table, set) ==
  {[pid |-> p.pid, program |-> p.program, running |-> TRUE,
    icon |-> \E r \in table : r.icon /\ r.program = p.program] : p \in set}

(* replace_process_rows.  What is still in the history keeps its row.      *)
NewRows(table, set) ==
  LET ended == {r \in table : r.pid \notin PidsOf(set)} IN
  {[pid |-> p.pid, program |-> p.program, running |-> TRUE,
    icon |-> \E r \in table : r.icon /\ r.program = p.program] : p \in set}
  \cup {[r EXCEPT !.running = FALSE] : r \in {o \in ended : o.pid \in PidsOf(EventsIn(events))}}

Kinds == {updates[i].kind : i \in DOMAIN updates}

IconIn(program, from, to) ==
  \E i \in from..to : updates[i].kind = "icon" /\ updates[i].program = program

WithIcons(table, from, to) ==
  {[r EXCEPT !.icon = @ \/ IconIn(r.program, from, to)] : r \in table}

(* The updates, one after the other: those before the rows change the rows *)
(* there were, those behind them the new ones.                             *)
Updated(table) ==
  LET place == CHOOSE i \in DOMAIN updates : updates[i].kind = "rows" IN
  IF "rows" \in Kinds
  THEN WithIcons(NewRows(WithIcons(table, 1, place - 1), updates[place].set),
                 place + 1, Len(updates))
  ELSE WithIcons(table, 1, Len(updates))

(* drain_process_updates, and what ends the refresh.  A channel carries the *)
(* rows once; filters_dirty stays as it is.                                *)
Drain(ended) ==
  /\ Frame("updates", "timer")
  /\ processes' = Updated(processes) /\ updates' = << >>
  /\ default_process_icon_loaded' = (default_process_icon_loaded \/ "default" \in Kinds)
  /\ process_refresh_pending' = (process_refresh_pending /\ ~ended)
  /\ complete' = IF process_refresh_pending THEN "complete" \in Kinds ELSE complete
  /\ UNCHANGED <<scanner, snapshot, seen, load_default_icon, widgets, scans, view>>

(* Mutant of DrainUpdates: a thread that broke off is waited for.          *)
DrainUntilComplete == Drain("complete" \in Kinds)

(* A disconnected channel ends the refresh as well.                        *)
DrainUpdates == Drain("complete" \in Kinds \/ scanner = "ended")

(* Five seconds have passed since the last refresh, or not yet.            *)
Timer ==
  /\ Frame("timer", "panels")
  /\ RequestRefresh \/ UNCHANGED <<thread, refresh>>
  /\ UNCHANGED <<widgets, rows, view>>

NoWidget ==
  /\ Frame("panels", "source")
  /\ UNCHANGED <<thread, widgets, refresh, rows, view>>

Widget ==
  /\ Frame("panels", "source")
  /\ widgets < MaxWidgets /\ widgets' = widgets + 1
  /\ UNCHANGED <<rows, captured>>

ClickRefresh ==
  /\ Widget /\ RequestRefresh
  /\ UNCHANGED <<events, visible, filters_dirty, process_filter, target, chosen>>

ChangeFilter(program) ==
  /\ Widget
  /\ process_filter' = program /\ filters_dirty' = TRUE
  /\ UNCHANGED <<thread, refresh, events, visible, target, chosen>>

(* A double click on a row makes its name the capture filter, with what    *)
(* apply_capture_process does to the history.                              *)
ChooseProcess(row) ==
  /\ Widget
  /\ row \in processes /\ target' = row.program /\ chosen' = row.pid
  /\ events' = << >> /\ visible' = {} /\ filters_dirty' = TRUE
  /\ UNCHANGED <<thread, refresh, process_filter>>

Window ==
  \/ \E batch \in Batches : DrainSource(batch)
  \/ DrainUpdates \/ Timer \/ NoWidget \/ ClickRefresh
  \/ \E program \in Programs \cup {None} : ChangeFilter(program)
  \/ \E row \in processes : ChooseProcess(row)

Init ==
  /\ alive = {} /\ started = 0
  /\ process_refresh_pending \in BOOLEAN
  /\ scanner = IF process_refresh_pending THEN "scan" ELSE "ended"
  /\ snapshot = {} /\ seen = {} /\ updates = << >>
  /\ load_default_icon = TRUE
  /\ at = "source" /\ widgets = 0 /\ processes = {} /\ default_process_icon_loaded = FALSE
  /\ scans = 1 /\ complete = FALSE
  /\ events = << >> /\ captured = 0 /\ visible = {} /\ filters_dirty = TRUE
  /\ process_filter = None /\ target = None /\ chosen = 0

World ==
  \/ \E pid \in Pids, program \in Programs : StartProcess(pid, program)
  \/ \E process \in alive : EndProcess(process)

Next == World \/ Thread \/ Window

Spec == Init /\ [][Next]_vars

(* The thread is scheduled and the window repainted.                       *)
FairSpec ==
  Spec /\ WF_vars(Thread) /\ WF_vars(Window)
-----------------------------------------------------------------------------
(* A process that the history speaks of keeps its row over every refresh,  *)
(* ended or not.                                                           *)
RowsOfEventsStay ==
  [][PidsOf(processes) \cap PidsOf(EventsIn(events')) \subseteq PidsOf(processes')]_vars

(* The thread skips the paths whose icon the window had at its start.      *)
(* Still, once a refresh is complete every process it found shows the icon *)
(* of its program.                                                         *)
IconsAreShown ==
  complete /\ ~process_refresh_pending =>
    \A r \in processes : r.running /\ r.program \in WithIcon => r.icon

(* A refresh ends, whether the thread reaches its end or not; only then    *)
(* can there be another.                                                   *)
RefreshEnds == process_refresh_pending ~> ~process_refresh_pending

(* README.md: "Live syscall view with process names": the name shown for   *)
(* an event is that of the process that made the call.                     *)
NamesAreOfCallers ==
  \A i \in DOMAIN events : Name(events[i], processes) = events[i].program

(* The filter "Process" of the view, hint "name.exe": what is drawn are    *)
(* the events whose shown name it finds.                                   *)
ViewFollowsNames == at = "panels" => visible = Matching(events, processes)

(* "Double-click a process to capture only calls made by it."              *)
OnlyChosenCaptured ==
  chosen # 0 => \A i \in DOMAIN events : events[i].pid = chosen
=============================================================================
