# A formal model of smonitor

smonitor shows the system calls of a Windows machine while they happen. A
kernel driver, `swatcher.sys` (`driver/etw_hook`), hooks the system-call path,
filters calls, decodes some of their arguments and keeps the results in two
ring buffers. A window, `smonitor.exe` (`app`), configures the driver and
reads the rings through IOCTLs. `shared/scall_protocol.h` and
`app/src/protocol.rs` are the two sides of the protocol.

This directory holds TLA+ modules of that system, TLC configurations that check
them on small instances, and proofs that TLAPS checks for all values of the
constants. `PROJECT.json` is the index: components, runs, the source lines of
every definition, hazards, findings and theorems.

    tlc -workers 2 -config CaptureRingRace.cfg MCCaptureRing
    tlapm CaptureRingProofs.tla

## 1. The system

### Who runs, and what they share

| actor | runs | touches |
|---|---|---|
| any thread that makes a system call | `hk_HalCollectPmcCounters` → `SyscallCallback` → `EnqueueEvent`, `Decode…Arguments` → `EnqueueDetail` | filters (reads), rings, counters, `gHooksActive` |
| the collector thread of `smonitor.exe` | `run_source` (source.rs): commands, then READ_EVENTS, then READ_DETAILS, then statistics every 250 ms | device, channel to the window |
| the window's thread | `App::ui`, once per frame | history, view, commands to the collector, the file of an export |
| a scanner thread per refresh of the process list | the closure in `request_process_refresh` | channel of process updates |
| the driver's handlers | `HandleDeviceControl`, `HandleCreateClose`: run on the caller's thread | filters (writes), rings, counters |
| load and unload | `InitializeMonitorDriver`, `DriverUnload` | everything |

    system call ─► hook ─► filters ─► event ring ──┐           ┌► channel ─► history ─► view
                              ▲   └► detail ring ──┴► collector ┘               │
                              └──────── SET_CONFIG ◄─ commands ◄────────────────┘

Nothing orders the threads in the hook with respect to the handlers except
`gRingLock` (one spin lock for both rings), three "updating" flags for the
filters, and `gUnloading`/`gHooksActive` for the unload. Between the threads of
the window there are only channels, none of them bounded.

### Inventory

**Kernel rings and counters** (etwhook_main.cpp: `EnqueueEvent` from line 309,
`EnqueueDetail`, `FlushRings`, READ_EVENTS, READ_DETAILS, GET_STATS).
State: two arrays with free-running `ULONG` head and tail, `gSequence` and the
statistics. Operations: push (a full ring gives up its oldest entry), read up
to n, flush, report. Hard: the sequence number is taken outside the lock that
orders the ring, the counters are updated after the lock is released, indices
wrap, the report takes no lock at all. Correct if: bounded, first in first out,
nothing twice, every loss counted and reported, a thread's own calls stay in
order, a detail follows its event, everything leaves.

**Capture filters** (`MatchesTargetProcess`, `OperationEnabled`,
`ArgumentRulesAllow`, SET_CONFIG, CREATE, CLEANUP).
State: fourteen globals without a lock. Operations: a call reads them one by
one; SET_CONFIG rewrites them one by one and flushes the rings if a filter
changed. Hard: every interleaving of the two; counts, arrays and bit masks that
only together mean something; recognising whether anything changed. Correct if:
an undisturbed call is decided as configured, a disturbed one as some
configuration it met, and the rings hold nothing of an older filter.

**Load, unload, device** (`InitializeMonitorDriver`, `DriverUnload`,
`SyscallCallback`'s guards). State: what is allocated and published,
`gUnloading`, `gHooksActive`, open handles. Hard: each load step may fail after
others succeeded; the device can be opened before the hook is installed;
unloading while threads are inside the hook. Correct if: nothing is used after
it is freed, nothing is left behind, and an unload ends.

**Hook manager and kernel logger session** (etwhook_manager.cpp,
etwhook_init.cpp). State: `_instance`, the callback, the saved HAL entry, the
session. Operations: `Initialize`, `Destroy`, the hook, StartTrace, EndTrace,
OpenPmcCounter. Correct if: the original entry is known before anyone needs it
and restored at the end, and the session stops.

**Collector thread** (source.rs, `windows_source::run`). State: the device
handle and two channels. Operations: open, first statistics, table, commands,
reads. Hard: each request may fail, each early return has to close the handle;
batches and commands cross; a call that has passed the targets
(etwhook_main.cpp:298) may be queued (line 324) when SET_CONFIG has replaced them
and flushed the ring (lines 1160-1166). Correct if: it sends the table before
events, only events the configuration in force admits or whose calls SET_CONFIG
overtook, nothing after it stopped; what the window wants is installed in the end;
a closed window ends it and the capture.

**Demo source** (source.rs, `run_source`): the same promises from a thread that
makes events up, with filters of its own: it has categories, operations, PIDs and
rules, but neither target names nor the excluded PID.

**Window: history, view and filters** (main.rs). State: the history (`events`,
`details`, counts), the view (`visible`, indices into the history; `selected`,
another index), the filters, the last configuration sent. Operations: one per
message and per widget. Hard: indices into a list that shrinks, masks made of
names that arrive later, details that arrive before or after their event.
Correct if: the view is the filtered history, the statistics add up, the
selection stays on its event, and the driver was told what the window says.

**Argument rules of the window** (`load_filter_file` to
`argument_rules_allow`, `send_config`). State: included and excluded operations,
rules. Hard: two syntaxes of a file, several conditions in one rule, several
rules of one operation, two independent evaluators (window and driver). Correct
if: a file means what the README says of it, a bad file changes nothing, and
driver and window decide alike.

**Process names and capture targets** (`parse_capture_filters`,
`encode_kernel_process_name`, `EqualProcessName`). Hard: two sides cut names at
different lengths and drop the suffix `.exe` at different times. Correct if: a
process is captured exactly when the text names it.

**Process list** (`request_process_refresh`, `drain_process_updates`). State:
rows, an optional channel, a thread. Hard: the thread may die, processes end and
pids are reused between scan and drain, icons are cached by path. Correct if:
rows that the history needs stay, icons appear, a refresh ends.

**Export** (export.rs). Hard: writes that fail after others succeeded, quoting in
two formats. Correct if: the file has a beginning of the rows, and a reader of
the format finds what the view shows.

**Icons** (process_icon.rs) and **times of events** (`convert_qpc_to_local_seconds`).
Hard: four early returns with three kinds of objects to give back; ticks, clock
and midnight in integer arithmetic. Correct if: nothing leaks; times are right up
to rounding.

**Decoders, syscall table, wire structures, drawing, kernel utilities, build
files**: formatting, parsing, I/O or one-off sequential code. What the rest of
the system sees of them (a call has a detail, none, or faults; building the
table may fail) is in the modules; section 7 says why the remainder is left out.

## 2. The modules

| module | models | code |
|---|---|---|
| `LossyQueue` | what a ring promises: a bounded queue that loses its oldest entry and counts the loss | (abstract) |
| `CaptureRing` | both rings, every thread that pushes, the collector's loop, the flushes | etwhook_main.cpp, source.rs |
| `DriverStats` | GET_STATS, read by read, on top of `CaptureRing` | etwhook_main.cpp |
| `CaptureFilter` | `EnqueueEvent`'s reads of the filters against the handlers' writes | etwhook_main.cpp |
| `DriverLifecycle` | load, hook, device, unload | etwhook_main.cpp, etwhook_manager.cpp, etwhook_init.cpp |
| `EventSource` | what the window expects of the thread behind `SourceHandle` | (abstract) |
| `Pipeline` | driver, collector, both channels and window together | source.rs, main.rs, etwhook_main.cpp |
| `DemoSource` | the demo thread | source.rs |
| `MonitorApp` | frames of the window | main.rs, source.rs |
| `ProcessScanner` | process list, its threads, names and icons of rows | main.rs |
| `FilterFile` | filter files, rules, both evaluators | main.rs, etwhook_main.cpp |
| `CaptureTargets` | texts of targets, names on both sides | main.rs, etwhook_main.cpp |
| `ExportFile` | export to a disk that may refuse, and readers of it | export.rs, main.rs |
| `EventTime` | ticks to times of day | source.rs |
| `IconLoader` | `load_shell_icon`, call by call | process_icon.rs |
| `WindowParts` | the five sequential parts of the window together | – |
| `Sources` | `Pipeline` or `DemoSource`, whichever thread the build has | source.rs |
| `Iterations` | facts about numbers and loops that several proofs need | – |
| `CaptureRingProofs`, `CaptureFilterProofs`, `DriverLifecycleProofs`, `PipelineProofs`, `MonitorAppProofs`, `ProcessScannerProofs`, `WindowPartsProofs` | theorems and their proofs | – |
| `MCCaptureRing`, `MCCaptureFilter`, `MCMonitorApp` | instances for TLC | – |
| `MCSources`, `MCWindowParts` | values for `Sources` and `WindowParts` | – |

How they fit together: `DriverStats` and the proofs extend `CaptureRing`;
`CaptureRing` implements `LossyQueue` twice; `Pipeline` and `DemoSource` implement
`EventSource`; `Pipeline` composes the driver's ring (as `CaptureRing` shows it
to be), SET_CONFIG (as two steps, its globals and its flush; `CaptureFilter` takes
both apart) and the window's commands (which `MonitorApp` has with all widgets).

Names of variables and actions follow the source. A definition whose comment
says "Mutant of X" is a plausible bug in X; no behaviour uses it. It is there to
show that the property it is paired with in `PROJECT.json` can fail: with X
replaced by it, TLC finds the property violated under the run's own
configuration.

### CaptureRing, DriverStats

One action per atomic step: an interlocked operation or one section under
`gRingLock`. A thread goes `Admit` (capture is on and the filters pass, a free
choice here) → `Stamp` (`InterlockedIncrement64(&gSequence)`) → `PushEvent` →
`CountCaptured` → one of `PushDetail`, `NoDetail`, `DecoderFault`. The exception
handler of `SyscallCallback` counts a fault as a lost detail; since the argument
rules can fault too, `FilterFault` does so with nothing queued. The collector
goes `NoCommand` → `ReadEvents` → `CountDelivered` → `ReadDetails` and takes
commands only before reading events. `OpenDevice` and `SetConfig` change
`gCaptureEnabled` first and flush in a section of their own.

`received`, `receivedDetails`, `discarded` and `faulted` are history variables
for the properties. The two rings implement `LossyQueue`: `EventQueue` and
`DetailQueue` are the instances, with `QueuedEvents` and `QueuedDetails` (the
slots between tail and head) as refinement mapping. For details the mapping of
`lost` is `gDetailsDropped - faulted`, since the code counts both in one variable.

`DriverStats` adds the block that GET_STATS fills in, one read of a variable per
step, in the order of the assignments; the two operands of `gHead - gTail` come in
either order, which C++ leaves open. The collector's other requests wait for it.

### CaptureFilter

Each action is one read or write of a shared variable, in the order of the code.
The filter globals are the fields of `g`; a configuration is the record the GUI
sends. `local[t]` holds the locals of `EnqueueEvent`, `handler` those of the
request. Only history variables (`config`, `installing`, and `seen` and `quiet` of
each call) know what a configuration means; the code's decision never reads them.
One handler runs at a time because one collector thread sends all requests.

Abstractions: `rule.syscall_id` and `rule.action`, which the code reads one
after the other, are one read (`ReadRuleHeader`), and SET_CONFIG's copy of a
rule is header, then conditions (`CopyRuleHeader`, `CopyRuleConditions`). A
process name is a sequence of words compared for equality; which spellings
denote one process is the subject of `CaptureTargets`; a name is an array of
`NameWords` words, as in the request. Which rules SET_CONFIG accepts is said by
place: `Accepted(c, n)` counts the valid rules among the first n, and the k-th
accepted rule is the one whose count is k.
Each operation has a mask word of its own, and a word that keeps its value is
not written. `CallAssumption` says that no call comes from process 0: the idle
process makes none, and 0 is what fills the unused entries of `gTargetPids`.

### DriverLifecycle

`driver` is the next step of the load or, after it, of the unload; `held` is the
set of resources to give back. A load step acquires its resource or gives back
exactly what its early return gives back. A failed `Initialize` runs
`DriverUnload`, as in the code. `pc[t]` follows a thread from the HAL entry
through the hook and the callback. `client[c]` is a process's use of the device;
while it copies from a ring (`gRingLock` held) its value is the name of that
ring. `ReadManager` models what the hook does with the manager's fields: with the
manager freed, the outcome is any of three, one of them `lost`.

A request of SET_CONFIG is one step here, and the rings are empty or not:
the other modules have those in detail. Finding the markers of a system call
on the stack is one nondeterministic step. `RequestUnload` and `unloadPending`
stand for the I/O manager, which unloads a driver only with no handle open and
lets nobody open it from then on.

### EventSource, Pipeline, DemoSource, Sources

`EventSource` is what the window may rely on: commands are taken in order, no
table follows an event, and after Stop or a failure nothing is sent. A source that
refuses a configuration keeps the one before. Each event is admitted by the
configuration in force when it is sent, or it is *late*: its call was admitted by an
earlier configuration and on its way when that was replaced (`calls`). The set `late`
grows by nothing else, and loses what is sent.

`Pipeline` has an action for every command, request and early return of
`windows_source::run`. `commands` and `messages` are the two `mpsc` channels, sends
to a closed window are dropped, as the code ignores the error. A configuration
is the capture switch and the targets, since those decide what the properties
ask: which events may be where. A call is in three places, as in `EnqueueEvent`: past
`gCaptureEnabled` (`entered`; any number of calls of each process, and none is ever
known to be through), past the targets (`Pass`, into `calls`), and in the ring
(`Push`). Between any two of them SET_CONFIG may write its globals (`SetConfig`) and
flush (`Flush`). `TargetsAssumption` says that targets are processes.
The comparison with the targets is one step: that a list of PIDs
changes word by word while it is read is harmless is `PidTargetsHold` of
`CaptureFilter`, and for names, where it is not, see `TargetsDecideBeforeQueue` in
section 3. A driver that served another window keeps its targets, and that window's
calls may still be on their way (`EarlierTargets`, `EarlierPids`). The window drains up to `DrainLimit` messages per
frame, evicts at `MaxEvents`, answers a table with its configuration, and changes
targets (`ApplyCaptureProcess`, with `prune_history_to_capture`) or the switch.
`heard`, `last`, `late` and `refused` are history variables.

`DemoSource` has the demo's loop, its decision with categories, operations, pids
and argument rules, and the fixed table. `Admits` is what a configuration means to
the demo, `DriverAdmits` what the same configuration means to the driver; with names
alone the demo takes the three pids that it has if there are no targets
(source.rs:112), and passes them. `Sources` runs one of
the two per behaviour (`build`), as a build has one of them: they share nothing,
and checking them side by side would only multiply states. `DemoAssumption` says
that the table is not empty, that a batch has events, that a configuration is
not the stop, and that its pids and rules are lists.

### MonitorApp

`App::ui` is a cycle: drain the channel (`PushEvents`, `AddDetails`, `TakeTable`
per message; `FinishDrain` with `rebuild_visible`), then the bottom panel, the
top bar and the central view. Each panel is one action, with no widget or one
widget used; several widgets used in one panel of one frame are the same as in
several frames except for the drain between them. `Panic` is the out-of-bounds
index in the event table, which ends the program. An event is sequence and
operation, a detail the sequence of its event, a search text either empty or
something only details contain. `visible`, a vector in ascending order in the code, is the
set of its indices.

The collector's side is in `SendEvent`, `SendEvents` and `SendDetail`: it sends
batches of what the driver's rings hold, in order, and details independently of
their events, because the collector's loop reads events first and details after
(a detail pushed between the two reads is sent first). A message carries one detail; the
code's carry several, which `drain_source` takes together. `InOrder` says whether the
ring holds events in sequence order. It is TRUE in the run about the window
alone and FALSE in the run about that assumption.

### ProcessScanner

The machine starts and ends processes, a pid may be reused. A refresh starts a
thread that takes a snapshot, sends it, loads one icon after the other and says
that it is complete, or dies anywhere in between, which closes the channel. The
window drains that channel once per frame, keeps the rows of processes that
ended while the history speaks of them, and starts a refresh by timer or button.
The updates in the channel are applied in their order; the rows come once per refresh.
A process is a pid and a program, which stands for its name and path.

### The sequential parts: FilterFile, CaptureTargets, ExportFile, EventTime, IconLoader

They are modelled because what can go wrong in them depends on a combination of
inputs or of failures, and TLC enumerates all of them.

- `FilterFile`: a JSON value is `[type, value]`. `load_filter_file` reads it with every
  error path, in the short syntax (`op`, `skip`, `only`) and the long one; every
  widget then edits rules and operations. `argument_rules_allow` is the window's
  decision, `ArgumentRulesAllow` the driver's on what `send_config` makes of the
  rules, `Listed` the reference meaning of a file. Names and arguments in any
  case and with blanks are abstracted by `Spelled`.
- `CaptureTargets`: a text is its tokens; names are sequences of characters, so
  that cutting, padding with NUL, the suffix and what is left of it after a cut
  are what the code makes of them. The driver accepts a process name that goes on
  after the target with a beginning of ".exe" (`EqualProcessName`), which is all
  that a cut may have left of it. A process called "foo.e" is therefore taken for
  "foo": `NamesDecideInKernel` says that this is the only confusion (`Alike`).
- `ExportFile`: rows go through a `BufWriter` to a disk that takes any part of a
  flush. `CsvRead` and `JsonRead` are readers of the two formats: the next state of
  one that has read a character. `Records` is what it has at the end of the file.
- `EventTime`: the counter and the clock are read at different times, ticks become
  whole milliseconds, times of day wrap at midnight. A frequency of 0 is an early
  return of the code and not modelled.
- `IconLoader`: one call of the system per step. `BitmapsHaveBits` says whether
  `CreateDIBSection` keeps its promise, that a bitmap comes with its bits; if it may
  break it, `NoBits` has the bitmap that process_icon.rs:83 returns without.

`WindowParts` runs one of the five per behaviour (`part`), since they share no
state, and has the constants of all; `MCWindowParts` gives the values. What is assumed of them:

- `FilterAssumption`: no two syscalls of the table have the same name, ids are
  numbers, files are what a parser of JSON returns, and a failure (`Err`) is not
  the word for a type of rule.
- `TargetAssumption`: tokens are numbers, wildcards or names, names contain no NUL,
  and the field for a name has more room than what the kernel keeps and its end
  (16 bytes against 14 characters in the code).
- `ExportAssumption`: names and details are texts, a line end is a control character,
  and a pid is none of the characters that the formats use (it is a number).
- `TimeAssumption`: a second has a positive whole number of ticks.
- `IconAssumption`: whether the system keeps the promise about bitmaps is one of the two.

## 3. What the runs check

Passing runs, with 2 workers:

| run | module | states, time | properties |
|---|---|---|---|
| `CaptureRingRace` | `MCCaptureRing` | 1.2 M, 75 s | `LossLedger`, `PerThreadOrder`, `DetailAfterEvent`, `EventRingIsLossyQueue`, `DetailRingIsLossyQueue` |
| `DriverStats` | `DriverStats` | 125 k, 20 s | `TypeOK`, `CapturedIsAccountedFor`, `EventsLeaveDriver` |
| `CaptureFilterChange` | `MCCaptureFilter` | 2.9 M, 95 s | `QuietDecision`, `FlushDecision`, `FlushLeavesNoOldFilter`, `MasksDecideBeforeQueue`, `PidTargetsHold` |
| `DriverLifecycle` | `DriverLifecycle` | 69 k, 10 s | `TypeOK`, `NoRingUseAfterFree`, `NothingLeftBehind`, `OriginalKnown`, `NoCaptureWithoutGui`, `UnloadCompletes` |
| `MonitorAppFrames` | `MCMonitorApp` | 2.7 M, 80 s | `VisibleIsFiltered`, `CountsAddUp`, `ConfigIsCurrent`, `SelectionStays` |
| `Sources` | `MCSources` | 372 k, 170 s | `TypeOK`, `HandleHasOwner`, `CollectorIsEventSource`, `OldEventsStayAway`, `WindowConfigurationArrives`, `ClosedWindowEndsSource`, `DemoIsEventSource` |
| `ProcessScanner` | `ProcessScanner` | 859 k, 110 s | `IconsAreShown`, `RowsOfEventsStay`, `RefreshEnds` |
| `WindowParts` | `MCWindowParts` | 168 k, 50 s | `DriverDecidesAsWindow`, `LoadedRulesMeanFile`, `NamesDecideInKernel`, `FileIsPrefix`, `FileSaysWhatIsShown`, `TimesAreClose`, `IconLoadsAreClean` |

What they show:

- *Rings.* A loss is never silent. Up to callbacks between the push and
  `gCaptured` and a read between the copy and `gDelivered`, the statistics
  balance: captured = queued + dropped + delivered + flushed. A thread's calls
  arrive in their order although the number is taken outside the lock. A detail
  never overtakes the push of its event. Both rings are lossy queues. A block of
  GET_STATS is no snapshot, but it accounts for what it calls captured, and
  only because the losses are read last. Stamped events leave the driver.
- *Filters.* A call that no request overlaps is decided exactly as the installed
  configuration says (`QuietDecision`): masks, counts, cut-off arrays, compacted
  rules and rule bits agree. The rings are flushed exactly if targets, operations
  or valid rules changed, and after that only events of calls that met the new
  filters remain. Under overlap, the masks stay exact, and PID targets hold as
  long as every configuration in sight names PIDs only.
- *Lifecycle.* Neither ring is used after it is freed, whichever step fails and
  whoever is in the hook or at the device. After a failed load or an unload
  nothing is left. Capture never goes on without a connected GUI that asked
  for it. An unload that starts ends.
- *Sources.* No early return of the collector leaks the handle. Collector and demo
  keep the same promise to the window. What the window shows is installed in the
  end, or refused with a status (a refusal is not repeated), or there is no driver.
  Once the driver has the window's targets, an event of other targets comes only if
  its call had passed them and was not in the ring when SET_CONFIG flushed it, and
  it comes once. The demo lets nothing pass that the configuration's categories,
  operations, PIDs or rules keep back. A closed window ends its thread, and with it
  the capture.
- *Window.* When drawing starts the table shows exactly the events that pass the
  filters. Every counted event is retained or was evicted. A selection stays on
  its event. The last configuration sent is the one the window shows, also with
  names that arrive after rules.
- *Process list.* Rows that the history speaks of survive every refresh; after a
  complete refresh every running process shows its icon although the thread skips
  paths it believes loaded; a refresh ends even if its thread dies.
- *Parts.* Driver and window decide every call alike, whatever file was loaded and
  however it was edited. Rules of a file mean what the README says, in both
  syntaxes. Names that the kernel keeps whole decide as the text says, up to what a
  cut leaves of ".exe". An export
  is always a prefix of the right rows, and CSV and JSON read back. Times are
  right up to rounding, over midnight as well. Icons leak nothing while bitmaps have
  bits.

### Findings

Four runs each check one property that a document, a comment or the README
states and the code does not keep:

1. `CaptureFilterRules` (`RulesDecideBeforeQueue`): README.md:85 says rules apply
   before events enter the queue. SET_CONFIG clears the bits of all rules, also of
   unchanged ones, and `ArgumentRulesAllow` trusts a clear bit without a second
   look at the flag (etwhook_main.cpp:265).
2. `MonitorAppSlider` (`VisibleInRange`): lowering the memory limit removes
   events while `visible` still holds old indices (main.rs:1170). The table, drawn
   later in the same frame, indexes past the end and the program panics.
3. `MonitorAppDetails` (`DetailsKept`): `push_events` assumes events in sequence
   order (main.rs:377). The driver takes the number before the lock, so the order
   in the ring may differ. The detail of an event that is still shown is deleted.
4. `CaptureTargetsLong` (`NamedProcessCaptured`): a name is cut to 15 bytes by the
   window (main.rs:1638) and to 14 by the kernel; a longer one never matches.

Where `InOrder` is TRUE `DetailsKept` holds: the theorem `DetailsStayInOrder` proves it
for batches of events, channels and limits of any size, details coming one per message.
The missing order is what makes the difference in finding 3.

Further claims that TLC refutes. They have no run of their own; to reproduce one,
put the definition into the cfg named, in place of its properties, with the
change in the third column.

| definition | cfg | change | the claim, and why it fails |
|---|---|---|---|
| `CaptureFilter!TargetsDecideBeforeQueue` | `CaptureFilterChange` | `Configs <- PidThenName` | README.md:35, filters apply before an event is queued. `MatchesTargetProcess` (etwhook_main.cpp:230) looks at the flag once and reads the two counts separately; across a change from PIDs to names it can see zero twice, which means everyone. |
| `DriverLifecycle!CaptureFollowsGui` | `DriverLifecycle` | | etwhook_main.cpp:1058, "the GUI owns the only user-mode connection". The device is not exclusive; a second handle stops the first one's capture when it opens and when it closes. |
| `DriverStats!KernelQueueBounded` | `DriverStats` | `IndexModulus = 4` | README.md:21, bounded kernel queues. `gHead - gTail` without the lock (etwhook_main.cpp:1178) is larger than the ring, or near 2^32, when a push falls between the reads. |
| `Pipeline!HistoryIsOfTargets` | `Sources` | | main.rs:641, "names are matched in the kernel immediately". Batches of the old targets in the channel return to the emptied history. |
| `Pipeline!NoOldEventReturns` | `Sources` | | the purpose of SET_CONFIG's flush (etwhook_main.cpp:1160): no event of old targets, in a history that was emptied. A call that passed them at line 298 is queued at line 324, after the flush. |
| `DemoSource!DemoAdmitsAsDriver` | `Sources` | | that the demo filters as the driver. With names alone (source.rs:112) it passes processes of other names, and with an excluded PID among the targets that process. |
| `WindowParts!IconLoadsAreClean` | `WindowParts` | `BitmapsHaveBits = FALSE` | that each early return gives back what it has. The one at process_icon.rs:83 covers a bitmap without bits and does not delete the bitmap; by its documentation `CreateDIBSection` returns none. |
| `Pipeline!MemoryBounded` | `Sources` | `MaxEvents = 1`, `DrainLimit = 1`, `MaxCaptured = 4`, `MaxMessages = 5` | README.md:21, configurable memory usage. The channel (source.rs:40) has no bound. |
| `CaptureTargets!WildcardCapturesEverybody` | `WindowParts` | name `T!WildcardCapturesEverybody` in `MCWindowParts` | the test at main.rs:1853. A `*` behind the last target that fits is not read (main.rs:1610). |
| `ProcessScanner!NamesAreOfCallers` | `ProcessScanner` | | README.md:17, process names. `event_process_name` (main.rs:1708) prefers the row of a pid, which may be of another process by now. |
| `ProcessScanner!ViewFollowsNames` | `ProcessScanner` | | README.md:19, search filters (box at main.rs:876). New rows change what the filter matches and do not set `filters_dirty` (main.rs:532). |
| `ProcessScanner!OnlyChosenCaptured` | `ProcessScanner` | | main.rs:1043, "capture only calls made by it". The double click takes the name, not the pid. |
| `ExportFile!SavedMeansWritten` | `WindowParts` | name `X!SavedMeansWritten` in `MCWindowParts` | main.rs:1261, "saved {} rows". The `BufWriter` is dropped without a flush, and the drop ignores the error. |
| `ExportFile!JsonSaysWhatIsShown` without its condition `Printable` | `WindowParts` | the same | README.md:22, JSONL export. `json_escape` (export.rs:142) leaves control characters in. |

## 4. Bounds, and why they are enough

- `CaptureRingRace`: rings of two events and one detail, modulus 4. Two threads and
  three events give every order of stamp and push, an overflow with a
  read or flush in between, and a detail ring that overflows while its events
  are read. Two threads are interchangeable (symmetry; no liveness is checked
  there). `MaxSequence` and `MaxFaults` bound `Stamp` and `CountFault`. Three
  events do not take the event index past the modulus; the next run does.
- `DriverStats`: rings of one entry and modulus 2, so that both indices wrap with
  the second push; one thread and two events between the reads of a block are
  enough to make every pair of fields inconsistent.
- `CaptureFilter`: one thread, because threads in `EnqueueEvent` only read the
  filters and do not influence each other. Two slots of each kind, names of two
  words, two rules and two operations in two categories give a shorter and a
  longer list, a torn name, a removed, an invalid and a moved rule. The
  configurations differ in everything that SET_CONFIG compares; the calls
  include one a PID names, one a name, one nobody names, and the GUI's own.
  `MaxCalls` = 2 and `MaxRequests` = 4 (an open and three configurations, or two
  sessions) let one call overlap more than one change.
- `DriverLifecycle`: two threads and two clients, no further bound: the state
  space is finite.
- `MonitorApp`: two events, two operations, limits one and two, so every event
  can be the one that is evicted. `DrainLimit` = 2 with up to two messages in
  the channel lets a frame end with a full drain or an empty channel.
  `MaxMessages` bounds a channel that has no bound, `MaxWidgets` = 3 the user: three
  uses reach a filter, a change of the limit or of targets, and a selection in
  any order.
- `Sources`: two processes give a target and somebody else; a ring and batches of
  one event and a limit of two let every event be dropped, flushed, in flight
  or evicted. One call may pass the filter in the behaviour (`MaxCaptured`), next to
  one of an earlier window that is on its way from the start (`EarlierPids`, with an
  event of its own), so that two events meet in ring, channel and history; the
  earlier call may pass again under the new targets. The user may choose everybody
  or one process (`Choices`), and two widgets give a change and a change back with an
  event on either side. `MaxMessages` = 2 holds `Post` back where the code would
  not wait, which leaves every order of messages. The demo makes at most 16 events
  (`MaxSequence`), every operation of its table several times, under up to two
  further configurations (`MaxOrders`).
- `ProcessScanner`: two pids, two programs of which one has an icon, two processes
  ever started (a pid reused, or two pids of one program), two refreshes (the
  second finds rows of the first), one event, one widget.
- `WindowParts`: `u64` has eight bits, so that 256 and negative numbers overflow;
  files in both syntaxes with every kind of error, up to four rules against
  `MaxArgumentRules` = 3. Names have fields of 10 of which the kernel keeps 8
  (16 and 14 in the code) and every length from 1 to 10, with the suffix, a part of
  it, or without; texts of up to three tokens meet room for two targets. Two events,
  with quotes, commas, backslashes and a line end, and rows that overflow a buffer of 8
  fail at every write. Seven ticks and four "milliseconds" to a second and days of
  three seconds: no tick is a whole millisecond, and every batch may see midnight. Three
  icons, each failing anywhere.

One run for several independent parts (`Sources`, `WindowParts`): a behaviour
chooses its part in the initial state and the others stay as they began, so the
states add up rather than multiply.

## 5. Fairness

- `DriverStats` (`FairStatsSpec`): weak fairness of a thread that holds a stamped
  event or is about to stamp it (it runs straight-line code), of the reads of
  GET_STATS, and of the collector's IOCTLs, which return. `NoCommand` is strongly
  fair. The collector drains the command channel before it reads, and a command
  may arrive any time, so "the channel is empty" does not stay true; but the window
  sends at most one configuration per widget used in a frame, so it becomes true
  again and again. Nothing is assumed of the system calls themselves, of the GUI, or
  of `CloseDevice`: the property allows for a closed device.
- `DriverLifecycle` (`FairSpec`): weak fairness of the load and unload steps, of each
  thread in the hook (it cannot be blocked there except by `gRingLock`), and of the
  end of a copy under that lock. A thread may never enter the hook again, and no
  client is forced to close its handle.
- `Sources` (`SourcesSpec`): weak fairness of the source's thread and of the window's frames
  without a widget (`App::ui` asks to be repainted after 33 ms), strong fairness of
  `NoCommand` for the reason above. Nobody has to touch a
  widget, and the window need not be closed. Which of its steps the thread takes,
  failures included, is open.
- `ProcessScanner` (`FairSpec`): weak fairness of the scanner thread and of the
  window. Which of its steps the thread takes, dying included, is open.

Runs without liveness use `Spec` without fairness. `CHECK_DEADLOCK FALSE` is
there because runs end: events, calls or widgets are used up, or the driver is gone.

## 6. Proofs

TLAPS checks these for every value of the constants that meets the assumptions
named in the modules:

| theorem | says | inductive invariant |
|---|---|---|
| `TypeCorrect` | `CaptureRing`: `Spec => []TypeOK` | `TypeOK` |
| `RingsStayBounded` | `Spec => []RingBounded` | `TypeOK /\ RingBounded` |
| `NoSilentLoss` | `Spec => []LossLedger` | `LedgerInv` |
| `EventRingImplementsQueue`, `DetailRingImplementsQueue` | `Spec => EventRingIsLossyQueue`, `Spec => DetailRingIsLossyQueue` | `QueueInv` |
| `ThreadsStayInOrder` | `Spec => []PerThreadOrder` | `OrderInv` |
| `DetailsFollowEvents` | `Spec => []DetailAfterEvent` | `DetailInv` |
| `StatsAddUp` | `StatsSpec => []CapturedIsAccountedFor` | `StatsInv` |
| `MasksNeverMisjudge`, `PidListsChangeSafely` | `CaptureFilter`: `Spec => []MasksDecideBeforeQueue`, `Spec => []PidTargetsHold` | `FilterInv` |
| `FlushesExactlyOnChange` | `Spec => []FlushDecision` | `DecisionInv`, with `FilterInv` |
| `NoOldFilterSurvives` | `Spec => []FlushLeavesNoOldFilter` | `RingFresh`, with both |
| `QuietCallsDecidedAsConfigured` | `Spec => []QuietDecision` | `QuietInv`, with both |
| `LifecycleTypeCorrect` | `DriverLifecycle`: `Spec => []TypeOK` | `TypeOK /\ HooksCounted` (inside `RingInv`) |
| `RingsOutliveTheirUsers` | `Spec => []NoRingUseAfterFree` | `RingInv` |
| `DriverLeavesNothing` | `Spec => []NothingLeftBehind` | `LeftoverInv` |
| `HookKnowsOriginal` | `Spec => []OriginalKnown` | `RingInv` |
| `CaptureNeedsGui` | `Spec => []NoCaptureWithoutGui` | the property, with `TypeOK` |
| `PipelineTypeCorrect`, `DeviceHasOwner` | `Pipeline`: `Spec => []TypeOK`, `Spec => []HandleHasOwner` | `PipelineInv` |
| `CollectorImplementsSource` | `Spec => CollectorIsEventSource` | `PipelineInv` |
| `OldEventsNeverReturn` | `Spec => OldEventsStayAway` | `PipelineInv` |
| `DemoImplementsSource` | `Sources`: `SourcesSpec => DemoIsEventSource` | `DemoInv` |
| `DriverIsTold` | `MonitorApp`: `Spec => []ConfigIsCurrent` | the property itself |
| `TableShowsFiltered` | `Spec => []VisibleIsFiltered` | `Fresh` |
| `StatisticsAddUp` | `Spec => []CountsAddUp` | `HistoryInv` |
| `SelectionNeverSlips` | `Spec => SelectionStays` | `HistoryInv`, `RowsAreIndices` |
| `DetailsStayInOrder` | `InOrder => (Spec => DetailsKept)` | `OrderInv`, with `HistoryInv` |
| `IconsShown` | `ProcessScanner`: `Spec => []IconsAreShown` | `ScannerInv` |
| `RowsAreKept` | `Spec => RowsOfEventsStay` | `ScannerInv` |
| `DriverAndWindowAgree` | `WindowParts`: `Spec => []DriverDecidesAsWindow` | `RulesInv` |
| `LoadedRulesDecideAsFile` | `Spec => []LoadedRulesMeanFile` | `LoadedInv` |
| `NamesDecide` | `Spec => []NamesDecideInKernel` | `TargetInv` |
| `ExportNeverGarbles` | `Spec => []FileIsPrefix` | `ExportInv` |
| `SavedFileSaysWhatIsShown` | `Spec => []FileSaysWhatIsShown` | `SavedInv`, with `ExportInv` |
| `TimesStayClose` | `Spec => []TimesAreClose` | `TimeInv` |
| `IconsNeverLeak` | `BitmapsHaveBits => (Spec => []IconLoadsAreClean)` | `IconInv` |

*CaptureRing.* `RingAssumption`: both sizes are positive and divide
`IndexModulus`, which is larger than either; that is 65536 and 32768 against
2^32. `ThreadsAssumption`: finitely many threads. The lemmas `QueuedPush`,
`QueuedPushOver` and `QueuedTake` say what one push, a push into a full ring and
a read do to `(head - tail) % IndexModulus`; they carry the wrap-around, and
everything above them is arithmetic without it. A ring stays bounded because a
push either finds room or moves the tail along. The ledger is inductive only
together with the bound (a push into a full ring keeps the number queued) and
with `CopiedInFlight` (`copied` is zero except between a read's copy and its
counter). That the number of threads between push and counter changes by one
needs a finite set of threads.

*The rings as queues (CaptureRingProofs).* `Contents` is the sequence of slots between
tail and head. Since the size divides the modulus, an index and its successor name
neighbouring slots across the wrap (`SlotOfIndex`), and no two of at most size
consecutive indices name the same slot (`SlotsDiffer`). From that `PushAppends`,
`PushOverAppends` and `TakeTakes`: a push appends, a push into a full ring also
drops the first element, a read takes a prefix. `HoldsEvent` (a slot between the indices
holds an event) and the bound make it inductive. Each action of `CaptureRing` is
then a step of `LossyQueue` or a stutter.

*Order (CaptureRingProofs).* Uses the rings only as these queues. `Stream` is what was received
followed by what is queued; every step thins it out or appends at its end
(`StreamSteps`), and thinning keeps an order. Per thread the appended event is newer
than all before it, because the thread pushes before it takes the next number
(`StampedIsNewest`). For details, `HeldIsFresh`: a thread about to push a detail
has pushed the event and not yet the detail.

*GET_STATS (CaptureRingProofs).* While a block is read, what it has of captured and
delivered can only be behind the counters, and the collector that would deliver is
the one that waits. With the ledger and the bound this is `BlockInv`.

*CaptureFilter.* `GlobalsInv` says where in a request which globals still have the old
and which the new value, so that every word a call can read is that of a configuration
in sight (the current one or the one being installed); `CallInv` says it of what each
call has read so far, and `RingInv` of what was queued. For PID lists it needs that
count and entries are written in the order entries, count, and that 0, which fills
unused entries, is nobody's PID (`CallAssumption`). `ConfigAssumption` is what a
well-formed SCALL_CONFIG is.

*What SET_CONFIG decides.* `GlobalsInv` bounds what a call may read; `DecisionInv` says
exactly what each global holds at each place of a request: which words of which name
are written, how many rules are in place whole and how many by their header, what is
left of the old ones behind them (compacted rules never overtake the old ones they are
compared with), which bits the mask has so far, and that `changed` is the verdict
on just the parts compared so far (`ChangedByTargets`, `ChangedByMask`,
`ChangedByRules`). At the place of the decision this is `FlushDecision`. `RingFresh` adds
that at every place but the flush itself each queued call has met a configuration
that filters as the installed one does: without a flush nothing changed, and a call
under way meets the new one when it is installed. For a call that no request overlaps the globals are the installed
configuration (`GlobalsInstalled`), and `QuietInv` says of every place of
`EnqueueEvent` which part of `Admits` the call has established. That the loop over compacted
rules decides like the declarative filter over all valid rules is
`RulesAdmitByPlace`, by counting (`AcceptedPlace`, `AcceptedSource`).

*DriverLifecycle.* That no ring is used after it is freed is not inductive: what
keeps the unload back is `gHooksActive`, so `HooksCounted` says it is the number
of threads between increment and decrement. That by itself does not keep
a thread from entering after the wait: `Drained` says that past the wait
`gUnloading` is set and no thread is anywhere it could still reach a ring, because the
flag is tested again after the increment. `HookComesLast` says that nobody is in
the hook and nothing is in the rings before the original entry is saved, that no
load step can fail from then on, and that an unload after it is one the I/O
manager asked for, with all handles closed: a client that still copies from a
ring would rule the unload out. `RingsHeld` says which rings
are held at which step. For `NothingLeftBehind`, `LoadLedger`, `ManagerLedger` and
`UnloadLedger` say what is held and what runs at each step of load and unload.

*Pipeline.* `PipelineInv` has the types of both channels, driver, window and thread,
`TableFirst`, `LateKnown` and `Distinct`. `LateKnown`: what the installed configuration does
not admit, among the calls on their way and, but between SET_CONFIG's globals and
its flush, in the ring, is late. A flush leaves of the late events those of calls,
a push moves one of them into the ring, a read sends and forgets it. That a read
forgets no event that is still to come needs that no event is twice in calls and ring
(`Distinct`; `PushElements` and `CutElements` keep it, and a new call has a new
number). The refinement of `EventSource` follows action by action. For
`OldEventsNeverReturn`, lemmas say what a step adds to the events in flight and in the
history: only what the ring held and is admitted or late (`SourceAdds`), or nothing
(`FrameMoves`).

*The demo (PipelineProofs).* The loop over the rules keeps three flags. By induction on the
rules read so far (`FoundNext`) they say, of the rules of the operation, whether an
"except" rule matched, whether there was an "only" rule and whether one
matched; what passes, no rule keeps back (`RulesAdmit`). An event that passes is one that `Admits` admits
(`KeptIsAdmitted`), its pid is one of the targets (`PidOfDemo`), and a batch has no other
events (`BatchIsAdmitted`). With the types of the channel (`DemoInv`) each step of
the demo is a step of `EventSource` or a stutter (`DemoRefines`).

*MonitorApp.* `ConfigIsCurrent` is inductive: every widget that changes what
`send_config` reads calls it, and every other action leaves that alone. `VisibleIsFiltered`
speaks of the moment of drawing; `Fresh` says of every moment that the
view is the filtered history or marked dirty, and that where drawing starts it is not
dirty. `CountsAddUp` compares what the categories count with lengths (the sum is the number of
units counted); `HistoryType` and `CountedAdds` (a batch adds as many units as it has
events) make it inductive. A selection stays because evictions drop it (`EvictionCounts`) and a
rebuilt view keeps only an index it contains. That details stay (`DetailsStayInOrder`) needs
the order of everything on its way: `OrderInv` says that the retained events ascend, come
before those of every message, these before those of later messages, and all before what
the driver still holds. Then the first event is the oldest and `RetainFrom` removes no
detail of another (`PushKeepsOrder`); the limit removes one only when it is reached (`NewestKeeps`).

*ProcessScanner.* That icons are shown when a refresh is complete depends on what the
thread will skip. `RowsFirst` says that the rows of the snapshot are in the channel ahead
of all icons, or taken; `IconsOnTheWay` and `IconsArriving`, that a program the thread
skips has its icon in the old rows or on its way until the rows are replaced, and in
the new rows or on its way from then on. A drain applies the updates in order, so
`DrainShows` needs the position of the rows in the channel.

*The window's parts.* `PartsAssumption` is what section 2 says is assumed of them.

- Rules: every rule that `load_filter_file` lets through, in either syntax, is one the
  driver takes: one to four conditions on arguments 0 to 3 with values of 64 bits, and a
  name of the table (`CompactRuleType`, `VerboseRuleType`). What was sent
  is the configuration of what is shown, ids and names denote the same call
  (`FilterAssumption`), and then the two evaluators agree rule by rule (`RuleForRule`,
  `SameDecision`).
- Files: `Faithful` says that the rules shown are those of the file, place by place: the
  same operation, the same kind, the same set of conditions (`CompactRuleSays`,
  `VerboseRuleSays`: the short syntax has its conditions as keys of an object, which the
  code reads in the order of the arguments, the long one as a list). It lasts until
  a rule is removed (`LoadedStep`), and what the window's loop decides
  on such rules is what the records of the file say (`FaithfulDecides`).
- Names: `ParseMeans` says which pids and names the loop over the tokens has at its end,
  doubles and empty names dropped. Within the limits nothing of that is cut
  (`TargetsOfText`). `TargetRead` is what the driver reads of a name that was padded and cut,
  `KernelKeeps` what the kernel has of a file name. `NameMatch` compares the two:
  a name is matched if it is the process's own, and otherwise the two differ by a beginning of
  ".exe" at the end of one of them. `TargetInv` says that the driver has what the
  text was read as.
- Export: `ExportInv` says that file and buffer together are the header and the lines
  before `next`, and that the file alone is a beginning of everything. `FlattenSeq` is
  a recursive function; `FlattenIsSum` shows that it is the last of the sums of its
  first pieces, which is all that the rest needs.
- Reading it back: `Consumes(r, t, s)` says that a reader in state `r` that is given the
  text `t` ends in `s`; it composes over concatenation (`ConsumesBoth`), and the end of a
  whole file is `Records` (`ConsumedDecides`). An escaped character is one piece of one or two
  characters that the reader takes for the one (`PieceRead`), so a quoted field is
  read as its text whatever is in it (`FieldRead`, `QuotedRead`), a line as its row
  (`LineRead`) and the file as the rows in their order (`FileRead`). `SavedInv` says
  that an export which ended with nothing refused has everything in the file.
- Times: the rounding lemmas `RoundedParts` and `SameTimeOfDay` carry the remainders,
  for any frequency, and `CountedBack` puts them together over midnight.
- Icons: `IconInv` says which objects are held at each call, what is selected
  and what the bitmap and the image show; it needs `BitmapsHaveBits`.

*Numbers instead of recursion.* What the code filters or counts one by one is
stated by places: how many of the first n are kept. The facts about such counts (`RankStep`,
`AcceptedCounts`, `UpTo`) are proved from the least counterexample (`Least`, from the
well-foundedness of the naturals), since the induction theorems cannot be used.

Only model-checked:

- Liveness (`EventsLeaveDriver`, `UnloadCompletes`, `WindowConfigurationArrives`,
  `ClosedWindowEndsSource`, `RefreshEnds`): the prover has no fairness or ENABLED.

Every invariant, action property and refinement that a passing run checks is stated by
a theorem; only liveness is left to TLC. The violated properties of the findings are
counterexamples of TLC and need no proof.

## 7. What is not modelled

- The manager's use after free and the code between the decrement of
  `gHooksActive` and the return from the driver's image: `DriverLifecycle` has
  the first as the place `lost` and states nothing of it; it is undefined
  behaviour of the kernel, about which the repository promises nothing.
- A kernel logger session that somebody else had started, and the temporary
  change of `EtwpMaxPmcCounter`.
- The search for the markers of a system call on the stack, the pattern searches
  in the kernel image and the parsing of PE exports: sequential code over
  memory of an operating system that is not in the repository.
- The argument decoders: they read user memory and format text. A call has a
  detail, none, or a fault.
- The capture switch of a window that closed: the next one finds it off, as
  `CLEANUP` leaves it. Names as targets in `Pipeline`, see section 2.
- Layout of the wire structures (asserted at compile time in protocol.rs), UTF-8 and
  UTF-16, upper and lower case, quotes and paths around names, the wording of
  messages, `format_event_time`, colours and panels.
- In `NamesDecideInKernel`: names the kernel cuts (finding 4), files called ".exe" with
  nothing before it, and the idle process, whose pid 0 the window does not accept.
- The TID filter of the view (a comparison of one field, which nothing else
  depends on), scrolling.
- Weak memory: the driver runs on x64 and uses interlocked operations, whose
  order the models keep.
- Build scripts, logging and module lookup.

## 8. What could be added

In the order of what it would show:

1. The owner of the kernel logger session and the driver's image as resources of
   `DriverLifecycle`, to state what holds of a thread that is still in the
   driver's code after the unload.
2. Details and statistics in `Pipeline`, which now leaves them to `CaptureRing`
   and `MonitorApp`; then `DetailsKept` could be stated of the composed system.
3. The composition of `ProcessScanner` with `MonitorApp`, whose histories are the
   same variable of the code.
