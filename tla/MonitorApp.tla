----------------------------- MODULE MonitorApp -----------------------------
(***************************************************************************)
(* The window of smonitor.exe.  App::ui runs once per frame: it drains the *)
(* channel from the collector thread, then draws the bottom panel, the top *)
(* bar and the central view, each of which changes the state it draws.  A  *)
(* panel is one action here, with at most one widget used in it.           *)
(*                                                                         *)
(* An event is its sequence number and its operation, a detail the number  *)
(* of its event.  Argument rules are left out (module CaptureFilter), as   *)
(* are the process and TID filters of the view.  The rows of the table are *)
(* in the order of the events, so visible is the set of their indices.     *)
(***************************************************************************)
EXTENDS Integers, Sequences, FiniteSets

CONSTANTS
  Operations, Categories,
  CategoryOf,      (* the category of each operation                         *)
  DefaultExcluded, (* DEFAULT_EXCLUDED_OPERATION, as a set                   *)
  DefaultMask,     (* DEFAULT_CATEGORY_MASK                                  *)
  Targets,         (* what "Capture process" may be set to; {} is everyone   *)
  Limits,          (* positions of the slider "Memory limit"                 *)
  DrainLimit,      (* messages handled in a frame, 128 in the code           *)
  InOrder,         (* does the driver's ring hold events in sequence order   *)
  MaxSequence,     (* bound: events the driver ever queues                   *)
  MaxMessages,     (* bound on the channel, which has none                   *)
  MaxWidgets       (* bound: widgets the user touches                        *)

ASSUME WindowAssumption ==
  /\ "Unknown" \notin Operations
  /\ CategoryOf \in [Operations -> Categories]
  /\ InOrder \in BOOLEAN /\ DrainLimit > 0 /\ Limits \subseteq Nat \ {0}

VARIABLES
  messages,        (* the channel from the collector                         *)
  unsent,          (* external: sequences whose event is still in the driver *)
  undetailed,      (* external: sequences whose detail is still there        *)
  at, drained,     (* where the frame is                                     *)
  events, visible, details, category_counts, history_evicted, selected,
  filters_dirty,
  syscall_names,   (* has the table arrived                                  *)
  capture, category_mask, included_operations, excluded_operations,
  targets,         (* active_capture_pids and active_capture_names           *)
  search, view, max_events,
  sent,            (* the last configuration sent to the collector           *)
  widgets          (* external: widgets touched so far                       *)

collectorVars == <<messages, unsent, undetailed>>
historyVars == <<events, details, category_counts, history_evicted, selected>>
operationVars == <<included_operations, excluded_operations>>
filterVars == <<category_mask, operationVars, search>>
configVars == <<capture, category_mask, operationVars, targets, syscall_names>>
vars == <<collectorVars, at, drained, historyVars, visible, filters_dirty,
          configVars, search, view, max_events, sent, widgets>>

KnownNames == IF syscall_names THEN Operations ELSE {}

(* export::name_for                                                        *)
NameFor(o) == IF o \in KnownNames THEN o ELSE "Unknown"

(* operation_enabled, of a name                                            *)
OperationEnabled(name) ==
  /\ name \notin excluded_operations
  /\ included_operations = {} \/ name \in included_operations

EventEnabled(e) == OperationEnabled(NameFor(e.operation))

(* operation_mask skips the ids that have no name.                         *)
OperationMask ==
  {o \in Operations : IF syscall_names THEN OperationEnabled(o)
                                       ELSE included_operations = {}}

(* The DriverConfig that send_config makes of the state.                   *)
Config ==
  [capture |-> capture, categories |-> category_mask, targets |-> targets,
   operations |-> OperationMask]

send_config == sent' = Config'

NoCounts == [c \in Categories |-> 0]

(* The table is the first message, unless the driver refused to give it.   *)
Init ==
  /\ messages \in {<<[kind |-> "table"]>>, << >>}
  /\ unsent = 1..MaxSequence /\ undetailed = 1..MaxSequence
  /\ at = "drain" /\ drained = 0
  /\ events = << >> /\ visible = {} /\ details = {}
  /\ category_counts = NoCounts /\ history_evicted = 0 /\ selected = 0
  /\ filters_dirty = TRUE /\ syscall_names = FALSE
  /\ capture = TRUE /\ category_mask = DefaultMask
  /\ included_operations = {} /\ excluded_operations = DefaultExcluded
  /\ targets = {} /\ search = "" /\ view = "Events" /\ max_events \in Limits
  /\ sent = Config /\ widgets = 0
-----------------------------------------------------------------------------
(* The collector thread.  Its loop reads events, then details: a detail    *)
(* pushed between the two reads is sent before its event.                  *)

CollectorSends(message) ==
  /\ Len(messages) < MaxMessages
  /\ messages' = Append(messages, message)
  /\ UNCHANGED <<at, drained, historyVars, visible, filters_dirty, configVars,
                 search, view, max_events, sent, widgets>>

SendEvent(s, o) ==
  /\ s \in unsent
  /\ InOrder => \A u \in unsent : s <= u
  /\ unsent' = unsent \ {s}
  /\ CollectorSends([kind |-> "events",
                     batch |-> <<[sequence |-> s, operation |-> o]>>])
  /\ UNCHANGED undetailed

(* Two events in one batch.                                                *)
SendEvents(s, o, t, p) ==
  /\ s \in unsent /\ t \in unsent /\ s # t
  /\ InOrder => s < t /\ \A u \in unsent \ {s} : t <= u
  /\ unsent' = unsent \ {s, t}
  /\ CollectorSends([kind |-> "events",
                     batch |-> <<[sequence |-> s, operation |-> o],
                                 [sequence |-> t, operation |-> p]>>])
  /\ UNCHANGED undetailed

SendDetail(s) ==
  /\ s \in undetailed
  /\ undetailed' = undetailed \ {s}
  /\ CollectorSends([kind |-> "details", sequences |-> {s}])
  /\ UNCHANGED unsent

Collector ==
  \/ \E s \in unsent, o \in Operations : SendEvent(s, o)
  \/ \E s, t \in unsent, o, p \in Operations : SendEvents(s, o, t, p)
  \/ \E s \in undetailed : SendDetail(s)
-----------------------------------------------------------------------------
(* drain_source                                                            *)

Surplus(seq) == IF Len(seq) > max_events THEN Len(seq) - max_events ELSE 0

Without(seq, n) == SubSeq(seq, n + 1, Len(seq))

Receive(kind) ==
  /\ at = "drain" /\ drained < DrainLimit
  /\ messages # << >> /\ Head(messages).kind = kind
  /\ messages' = Tail(messages)
  /\ drained' = drained + 1
  /\ UNCHANGED <<unsent, undetailed, at, visible, capture, category_mask,
                 operationVars, targets, search, view, max_events, widgets>>

OfCategory(seq, c) == {i \in 1..Len(seq) : CategoryOf[seq[i].operation] = c}

Counted(counts, seq) ==
  [c \in Categories |-> counts[c] + Cardinality(OfCategory(seq, c))]

(* The events of a batch that pass, one after the other.                   *)
Passed(batch, i) == Cardinality({j \in 1..i : EventEnabled(batch[j])})

Kept(batch) ==
  LET place(k) == CHOOSE i \in 1..Len(batch) :
                    EventEnabled(batch[i]) /\ Passed(batch, i) = k
  IN [k \in 1..Passed(batch, Len(batch)) |-> batch[place(k)]]

(* What push_events keeps of the details: none older than the first event. *)
RetainFrom(seq, set) ==
  IF seq = << >> THEN set ELSE {s \in set : s >= seq[1].sequence}

(* Mutant of PushEvents: the selected row is kept when rows are removed.   *)
PushEventsSelected ==
  LET kept == Kept(Head(messages).batch)
      all  == events \o kept
      n    == Surplus(all)
  IN /\ Receive("events")
     /\ events' = Without(all, n)
     /\ category_counts' = Counted(category_counts, kept)
     /\ history_evicted' = history_evicted + n
     /\ UNCHANGED selected
     /\ details' = RetainFrom(Without(all, n), details)
     /\ filters_dirty' = TRUE
     /\ UNCHANGED <<syscall_names, sent>>

PushEvents ==
  LET kept == Kept(Head(messages).batch)
      all  == events \o kept
      n    == Surplus(all)
  IN /\ Receive("events")
     /\ events' = Without(all, n)
     /\ category_counts' = Counted(category_counts, kept)
     /\ history_evicted' = history_evicted + n
     /\ selected' = IF n > 0 THEN 0 ELSE selected
     /\ details' = RetainFrom(Without(all, n), details)
     /\ filters_dirty' = TRUE
     /\ UNCHANGED <<syscall_names, sent>>

(* trim_auxiliary_map: the oldest details go.                              *)
Newest(set, limit) ==
  {s \in set : Cardinality({u \in set : u > s}) < limit}

(* Mutant of AddDetails: the view is not rebuilt for a search.             *)
AddDetailsClean ==
  /\ Receive("details")
  /\ details' = Newest(details \cup Head(messages).sequences, max_events)
  /\ UNCHANGED <<events, category_counts, history_evicted, selected,
                 filters_dirty, syscall_names, sent>>

AddDetails ==
  /\ Receive("details")
  /\ details' = Newest(details \cup Head(messages).sequences, max_events)
  /\ filters_dirty' = (filters_dirty \/ search # "")
  /\ UNCHANGED <<events, category_counts, history_evicted, selected,
                 syscall_names, sent>>

(* Mutant of TakeTable: the driver keeps the mask made without names.      *)
TakeTableSilently ==
  /\ Receive("table")
  /\ syscall_names' = TRUE /\ filters_dirty' = TRUE
  /\ UNCHANGED <<historyVars, sent>>

TakeTable ==
  /\ Receive("table")
  /\ syscall_names' = TRUE /\ filters_dirty' = TRUE
  /\ UNCHANGED historyVars
  /\ send_config

(* rebuild_visible.  The search finds what only a detail says.             *)
Shown(e) ==
  /\ CategoryOf[e.operation] \in category_mask
  /\ EventEnabled(e)
  /\ search # "" => e.sequence \in details

Filtered == {i \in 1..Len(events) : Shown(events[i])}

FinishDrain ==
  /\ at = "drain"
  /\ messages = << >> \/ drained = DrainLimit
  /\ at' = "bottom" /\ drained' = 0
  /\ visible' = IF filters_dirty THEN Filtered ELSE visible
  /\ filters_dirty' = FALSE
  /\ UNCHANGED <<collectorVars, historyVars, configVars, search, view,
                 max_events, sent, widgets>>
-----------------------------------------------------------------------------
(* The panels.  Each is drawn in every frame, mostly with no widget used.  *)

Panel(from, to) ==
  /\ at = from /\ at' = to
  /\ UNCHANGED <<collectorVars, drained, syscall_names>>

NoWidget(from, to) ==
  /\ Panel(from, to) /\ UNCHANGED widgets
  /\ UNCHANGED <<historyVars, visible, filters_dirty, capture, filterVars,
                 targets, view, max_events, sent>>

Widget(from, to) ==
  /\ Panel(from, to)
  /\ widgets < MaxWidgets /\ widgets' = widgets + 1

(* Mutant of MoveSlider: what the slider evicts is not counted.            *)
MoveSliderUncounted(limit) ==
  /\ Widget("bottom", "top")
  /\ limit # max_events /\ max_events' = limit
  /\ LET n == IF Len(events) > limit THEN Len(events) - limit ELSE 0 IN
       /\ events' = Without(events, n)
       /\ selected' = IF n > 0 THEN 0 ELSE selected
  /\ filters_dirty' = TRUE
  /\ UNCHANGED <<details, category_counts, history_evicted, visible, capture,
                 filterVars, targets, view, sent>>

(* bottom_panel: the slider evicts events at once; visible waits for the   *)
(* next frame.                                                             *)
MoveSlider(limit) ==
  /\ Widget("bottom", "top")
  /\ limit # max_events /\ max_events' = limit
  /\ LET n == IF Len(events) > limit THEN Len(events) - limit ELSE 0 IN
       /\ events' = Without(events, n)
       /\ history_evicted' = history_evicted + n
       /\ selected' = IF n > 0 THEN 0 ELSE selected
  /\ filters_dirty' = TRUE
  /\ UNCHANGED <<details, category_counts, visible, capture, filterVars,
                 targets, view, sent>>

(* top_bar                                                                 *)
ToggleCapture ==
  /\ Widget("top", "central")
  /\ capture' = ~capture
  /\ UNCHANGED <<historyVars, visible, filters_dirty, filterVars, targets, view,
                 max_events>>
  /\ send_config

EmptyHistory ==
  /\ events' = << >> /\ visible' = {} /\ details' = {}
  /\ category_counts' = NoCounts /\ history_evicted' = 0 /\ selected' = 0

Clear ==
  /\ Widget("top", "central")
  /\ EmptyHistory
  /\ UNCHANGED <<filters_dirty, capture, filterVars, targets, view, max_events,
                 sent>>

(* apply_capture_process and prune_history_to_capture                      *)
ApplyCaptureProcess(chosen) ==
  /\ Widget("top", "central")
  /\ targets' = chosen
  /\ IF chosen = {} THEN UNCHANGED <<historyVars, visible, filters_dirty>>
     ELSE EmptyHistory /\ filters_dirty' = TRUE
  /\ UNCHANGED <<capture, filterVars, view, max_events>>
  /\ send_config

ChangeView ==
  /\ Widget("top", "central")
  /\ view' = IF view = "Events" THEN "Statistics" ELSE "Events"
  /\ UNCHANGED <<historyVars, visible, filters_dirty, capture, filterVars,
                 targets, max_events, sent>>

(* filter_bar and the row menu of events_view: every change sets           *)
(* filters_dirty and ends in send_config.                                  *)
ChangeFilter ==
  /\ Widget("central", "drain")
  /\ view = "Events"
  /\ filters_dirty' = TRUE
  /\ UNCHANGED <<historyVars, visible, capture, targets, view, max_events>>

ToggleCategory(c) ==
  /\ ChangeFilter
  /\ category_mask' = (category_mask \ {c}) \cup ({c} \ category_mask)
  /\ UNCHANGED <<operationVars, search>>
  /\ send_config

ChangeSearch ==
  /\ ChangeFilter
  /\ search' = IF search = "" THEN "detail" ELSE ""
  /\ UNCHANGED <<category_mask, operationVars>>
  /\ send_config

(* The names a widget offers: add_operation_rule wants one of the table,   *)
(* the row menu takes that of a row, be it "Unknown".                      *)
Offered ==
  KnownNames \cup {NameFor(events[i].operation) : i \in visible \cap 1..Len(events)}

ChangeOperations(included, excluded) ==
  /\ ChangeFilter
  /\ included_operations' = included /\ excluded_operations' = excluded
  /\ UNCHANGED <<category_mask, search>>
  /\ send_config

IncludeOperation(name) ==
  /\ name \in Offered
  /\ ChangeOperations(included_operations \cup {name}, excluded_operations \ {name})

ExcludeOperation(name) ==
  /\ name \in Offered
  /\ ChangeOperations(included_operations \ {name}, excluded_operations \cup {name})

(* "Clear operation rule" and "Remove"                                     *)
ClearOperation(name) ==
  /\ name \in included_operations \cup excluded_operations
  /\ ChangeOperations(included_operations \ {name}, excluded_operations \ {name})

ClearAll ==
  /\ included_operations \cup excluded_operations # {}
  /\ ChangeOperations({}, {})

(* load_filter_config: a file that names an operation twice is refused.    *)
LoadFilters(included, excluded) ==
  /\ included \cap excluded = {}
  /\ ChangeOperations(included, excluded)

ResetFilters ==
  /\ ChangeFilter
  /\ category_mask' = DefaultMask /\ search' = ""
  /\ included_operations' = {} /\ excluded_operations' = DefaultExcluded
  /\ send_config

OutOfRange(i) == i > Len(events)

(* events_view indexes events for every row in sight; one out of range     *)
(* ends the program.                                                       *)
Panic ==
  /\ Panel("central", "panicked") /\ UNCHANGED widgets
  /\ view = "Events"
  /\ \E i \in visible : OutOfRange(i)
  /\ UNCHANGED <<historyVars, visible, filters_dirty, capture, filterVars,
                 targets, view, max_events, sent>>

(* A click on a row of the table.                                          *)
SelectRow(i) ==
  /\ Widget("central", "drain")
  /\ view = "Events"
  /\ ~OutOfRange(i)
  /\ selected' = i
  /\ UNCHANGED <<events, details, category_counts, history_evicted, visible,
                 filters_dirty, capture, filterVars, targets, view, max_events,
                 sent>>

Frame ==
  \/ PushEvents \/ AddDetails \/ TakeTable \/ FinishDrain
  \/ NoWidget("bottom", "top") \/ \E limit \in Limits : MoveSlider(limit)
  \/ NoWidget("top", "central") \/ ToggleCapture \/ Clear \/ ChangeView
  \/ \E chosen \in Targets : ApplyCaptureProcess(chosen)
  \/ NoWidget("central", "drain") \/ Panic \/ ChangeSearch \/ ResetFilters
  \/ \E c \in Categories : ToggleCategory(c)
  \/ \E name \in Operations \cup {"Unknown"} :
       IncludeOperation(name) \/ ExcludeOperation(name) \/ ClearOperation(name)
  \/ \E included, excluded \in SUBSET KnownNames : LoadFilters(included, excluded)
  \/ ClearAll
  \/ \E i \in visible : SelectRow(i)

Next == Collector \/ Frame

Spec == Init /\ [][Next]_vars
-----------------------------------------------------------------------------
EventsAsSet == {events[i] : i \in 1..Len(events)}

(* When a frame starts to draw, the table shows exactly the events that    *)
(* pass the filters: whatever changed since the last rebuild, events, the  *)
(* limit, filters, names or details, marked the view dirty.                *)
VisibleIsFiltered == at = "bottom" => visible = Filtered

(* A set of as many elements as the counts sum up to.                      *)
Units(counts) == UNION {{c} \X (1..counts[c]) : c \in Categories}

(* The statistics add up: every event counted in a category was evicted by *)
(* the memory limit, counted as such, or is retained.                      *)
CountsAddUp == Cardinality(Units(category_counts)) = history_evicted + Len(events)

(* The selection never slips to another event: as long as a row stays      *)
(* selected, its index denotes the same event.                             *)
SelectionStays ==
  [][selected # 0 /\ selected' = selected => events'[selected] = events[selected]]_vars

(* What the driver was last told is what the window says, after every      *)
(* frame and although operations have no names before the table arrives.   *)
ConfigIsCurrent == sent = Config

(* README.md: calls with "typed decoders ... can show object paths" and    *)
(* the "other calls" raw arguments: a retained event keeps the detail that *)
(* arrived for it, unless more details than the limit allows push it out.  *)
DetailsKept ==
  [][\A e \in EventsAsSet' :
       e.sequence \in details /\ e.sequence \notin details'
         => Cardinality(details) >= max_events]_vars

(* README.md: "configurable GUI memory usage".  The table indexes events   *)
(* with what visible holds: moving the limit leaves every index in range.  *)
VisibleInRange ==
  at = "central" /\ view = "Events" =>
    \A i \in visible : i <= Len(events)
=============================================================================
