-------------------------- MODULE DriverLifecycle --------------------------
(***************************************************************************)
(* swatcher.sys from DriverEntry to the end of DriverUnload: resources are *)
(* acquired one after the other, any step may fail, the HAL hook is        *)
(* installed last, and everything is given back while threads are still    *)
(* inside the hook and GUIs hold the device open.                          *)
(*                                                                         *)
(* held is what the driver has to give back; the rings' contents matter    *)
(* only as empty or not (module CaptureRing has them), and the filters not *)
(* at all (module CaptureFilter).                                          *)
(***************************************************************************)
EXTENDS Integers, FiniteSets

CONSTANTS
  Threads,         (* user threads that make system calls                    *)
  Clients          (* processes that may open the device                     *)

ASSUME ThreadsAssumption == IsFiniteSet(Threads)

VARIABLES
  driver,          (* the next step of the load or the unload                *)
  held,            (* resources acquired and not yet given back              *)
  gUnloading, gHooksActive, gCaptureEnabled,
  _instance,       (* is the manager's pointer set                           *)
  _hookCallback,   (* is the manager's callback set                          *)
  original,        (* is _originalHalCollectPmcCounters set                  *)
  halEntry,        (* entry 73 of HalPrivateDispatchTable: hook or original  *)
  trace,           (* does the kernel logger run                             *)
  isActive,        (* EtwInitializer::_isActive                              *)
  pc,              (* where each thread is in the hook                       *)
  nonEmpty,        (* which rings hold entries                               *)
  client,          (* each client's use of the device                        *)
  asked,           (* the capture switch each client last sent               *)
  unloadPending,   (* external: the I/O manager refuses to open the device   *)
  stopFailed       (* history: a stop of the kernel logger failed            *)

manager == <<_instance, _hookCallback>>
hal     == <<original, halEntry>>
session == <<trace, isActive, stopFailed>>
globals == <<gUnloading, gHooksActive, gCaptureEnabled>>
rings   == nonEmpty
devices == <<client, asked, unloadPending>>

vars == <<driver, held, globals, manager, hal, session, pc, rings, devices>>

Rings == {"ring", "detailRing"}
Resources == Rings \cup {"device", "link", "manager"}

Init ==
  /\ driver = "ring" /\ held = {}
  /\ gUnloading = FALSE /\ gHooksActive = 0 /\ gCaptureEnabled = FALSE
  /\ _instance = FALSE /\ _hookCallback = FALSE
  /\ original = FALSE /\ halEntry = "original"
  /\ trace = FALSE /\ isActive = FALSE /\ stopFailed = FALSE
  /\ pc = [t \in Threads |-> "user"]
  /\ nonEmpty = {}
  /\ client = [c \in Clients |-> "closed"]
  /\ asked = [c \in Clients |-> FALSE]
  /\ unloadPending = FALSE
-----------------------------------------------------------------------------
(* InitializeMonitorDriver.                                                *)

Step(from, to) == driver = from /\ driver' = to

(* A resource is acquired, or the driver gives back what the code of that  *)
(* early return gives back, and fails to load.                             *)
Acquire(from, resource, to, givenBack) ==
  /\ \/ Step(from, to) /\ held' = held \cup {resource}
     \/ Step(from, "gone") /\ held' = held \ givenBack
  /\ UNCHANGED <<globals, manager, hal, session, pc, rings, devices>>

AllocateRing       == Acquire("ring", "ring", "detailRing", {})
AllocateDetailRing == Acquire("detailRing", "detailRing", "table", {"ring"})

BuildSyscallTable ==
  /\ \/ Step("table", "device") /\ UNCHANGED held
     \/ Step("table", "gone") /\ held' = held \ Rings
  /\ UNCHANGED <<globals, manager, hal, session, pc, rings, devices>>

CreateDevice == Acquire("device", "device", "link", Rings)

(* Mutant of CreateLink: one early return forgets a ring.                  *)
CreateLinkLeaking == Acquire("link", "link", "publish", {"device", "ring"})

CreateLink == Acquire("link", "link", "publish", {"device"} \cup Rings)

(* DO_DEVICE_INITIALIZING is cleared: from now on the device can be opened *)
(* although the hook may still fail to install.                            *)
Publish ==
  /\ Step("publish", "manager")
  /\ UNCHANGED <<held, globals, manager, hal, session, pc, rings, devices>>

(* GetInstance, and the checks at the start of Initialize.                 *)
NewManager ==
  /\ \/ /\ Step("manager", "trace") \/ Step("manager", "unload")
        /\ held' = held \cup {"manager"} /\ _instance' = TRUE
     \/ Step("manager", "unload") /\ UNCHANGED <<held, _instance>>
  /\ UNCHANGED <<globals, _hookCallback, hal, session, pc, rings, devices>>

(* StartStopTrace(true): if the session starts and cannot be updated, it   *)
(* is stopped, which may fail as well.                                     *)
StartTrace ==
  /\ \/ Step("trace", "counters") /\ trace' = TRUE /\ isActive' = TRUE
        /\ UNCHANGED stopFailed
     \/ Step("trace", "unload") /\ UNCHANGED session
     \/ Step("trace", "unload") /\ trace' = TRUE /\ stopFailed' = TRUE
        /\ UNCHANGED isActive
  /\ UNCHANGED <<held, globals, manager, hal, pc, rings, devices>>

OpenPmcCounter ==
  /\ Step("counters", "saveEntry") \/ Step("counters", "unload")
  /\ UNCHANGED <<held, globals, manager, hal, session, pc, rings, devices>>

(* Mutant of SaveEntry: the entry is exchanged before it is saved.         *)
SwapBeforeSave ==
  /\ Step("saveEntry", "swapEntry")
  /\ halEntry' = "hook"
  /\ UNCHANGED <<held, globals, manager, original, session, pc, rings, devices>>

SaveEntry ==
  /\ Step("saveEntry", "swapEntry")
  /\ original' = TRUE
  /\ UNCHANGED <<held, globals, manager, halEntry, session, pc, rings, devices>>

SwapEntry ==
  /\ Step("swapEntry", "callback")
  /\ halEntry' = "hook"
  /\ UNCHANGED <<held, globals, manager, original, session, pc, rings, devices>>

SetCallback ==
  /\ Step("callback", "running")
  /\ _hookCallback' = TRUE
  /\ UNCHANGED <<held, globals, _instance, hal, session, pc, rings, devices>>
-----------------------------------------------------------------------------
(* DriverUnload, which a failed load runs as well.                         *)

(* External: the I/O manager calls it once no handle is open, and lets     *)
(* nobody open the device from then on.                                    *)
RequestUnload ==
  /\ \A c \in Clients : client[c] = "closed"
  /\ Step("running", "unload")
  /\ unloadPending' = TRUE
  /\ UNCHANGED <<held, globals, manager, hal, session, pc, rings, client, asked>>

BeginUnload ==
  /\ Step("unload", "stopCapture")
  /\ gUnloading' = TRUE
  /\ UNCHANGED <<held, gHooksActive, gCaptureEnabled, manager, hal, session, pc,
                 rings, devices>>

StopCapture ==
  /\ Step("stopCapture", "destroy")
  /\ gCaptureEnabled' = FALSE
  /\ UNCHANGED <<held, gUnloading, gHooksActive, manager, hal, session, pc,
                 rings, devices>>

(* GetInstance allocates the manager again if the load could not; Destroy  *)
(* returns at once if there still is none.                                 *)
GetInstance ==
  /\ \/ Step("destroy", "endTrace") /\ held' = held \cup {"manager"}
        /\ _instance' = TRUE
     \/ ~_instance /\ Step("destroy", "wait") /\ UNCHANGED <<held, _instance>>
  /\ UNCHANGED <<globals, _hookCallback, hal, session, pc, rings, devices>>

(* EndTrace, called by ~EtwHookManager and again by ~EtwInitializer.       *)
EndTrace(from, to) ==
  /\ Step(from, to)
  /\ \/ ~isActive /\ UNCHANGED session
     \/ isActive /\ isActive' = FALSE /\ trace' = FALSE /\ UNCHANGED stopFailed
     \/ isActive /\ stopFailed' = TRUE /\ UNCHANGED <<trace, isActive>>
  /\ UNCHANGED <<held, globals, manager, hal, pc, rings, devices>>

RestoreEntry ==
  /\ Step("restoreEntry", "endTraceAgain")
  /\ halEntry' = IF original THEN "original" ELSE halEntry
  /\ UNCHANGED <<held, globals, manager, original, session, pc, rings, devices>>

(* operator delete; _instance points to freed memory until it is cleared.  *)
DeleteManager ==
  /\ Step("deleteManager", "clearInstance")
  /\ held' = held \ {"manager"}
  /\ UNCHANGED <<globals, manager, hal, session, pc, rings, devices>>

ClearInstance ==
  /\ Step("clearInstance", "wait")
  /\ _instance' = FALSE
  /\ UNCHANGED <<held, globals, _hookCallback, hal, session, pc, rings, devices>>

(* Mutant of WaitForHooks: nobody waits.                                   *)
SkipWait ==
  /\ Step("wait", "deleteLink")
  /\ UNCHANGED <<held, globals, manager, hal, session, pc, rings, devices>>

(* while (gHooksActive != 0) KeStallExecutionProcessor(50)                 *)
WaitForHooks ==
  /\ gHooksActive = 0
  /\ Step("wait", "deleteLink")
  /\ UNCHANGED <<held, globals, manager, hal, session, pc, rings, devices>>

GiveBack(from, resource, to) ==
  /\ Step(from, to)
  /\ held' = held \ {resource}
  /\ UNCHANGED <<globals, manager, hal, session, pc, rings, devices>>

DriverStep ==
  \/ AllocateRing \/ AllocateDetailRing \/ BuildSyscallTable \/ CreateDevice
  \/ CreateLink \/ Publish \/ NewManager \/ StartTrace \/ OpenPmcCounter
  \/ SaveEntry \/ SwapEntry \/ SetCallback
  \/ BeginUnload \/ StopCapture \/ GetInstance
  \/ EndTrace("endTrace", "restoreEntry") \/ RestoreEntry
  \/ EndTrace("endTraceAgain", "deleteManager") \/ DeleteManager
  \/ ClearInstance \/ WaitForHooks
  \/ GiveBack("deleteLink", "link", "deleteDevice")
  \/ GiveBack("deleteDevice", "device", "freeRing")
  \/ GiveBack("freeRing", "ring", "freeDetailRing")
  \/ GiveBack("freeDetailRing", "detailRing", "gone")
-----------------------------------------------------------------------------
(* A thread that makes a system call while the table entry is the hook.    *)

Goto(t, from, to) == pc[t] = from /\ pc' = [pc EXCEPT ![t] = to]

ThreadUnchanged ==
  UNCHANGED <<driver, held, gUnloading, gCaptureEnabled, manager, hal, session,
              devices>>

EnterHook(t) ==
  /\ halEntry = "hook"
  /\ Goto(t, "user", "hook")
  /\ ThreadUnchanged /\ UNCHANGED <<gHooksActive, rings>>

(* if (_instance)                                                          *)
CheckInstance(t) ==
  /\ Goto(t, "hook", IF _instance THEN "manager" ELSE "original")
  /\ ThreadUnchanged /\ UNCHANGED <<gHooksActive, rings>>

(* TraceStackToSyscall and ProcessSyscall read the manager's fields.  Once *)
(* it is freed they read what is left of them, or anything: then the       *)
(* thread is lost.                                                         *)
ReadManager(t) ==
  /\ \/ Goto(t, "manager", "original")
     \/ _hookCallback /\ Goto(t, "manager", "callback")
     \/ "manager" \notin held /\ Goto(t, "manager", "lost")
  /\ ThreadUnchanged /\ UNCHANGED <<gHooksActive, rings>>

(* if (gUnloading) return; numbers without a table entry return as well.   *)
CheckUnloading(t) ==
  /\ \/ ~gUnloading /\ Goto(t, "callback", "entered")
     \/ Goto(t, "callback", "original")
  /\ ThreadUnchanged /\ UNCHANGED <<gHooksActive, rings>>

CountHook(t) ==
  /\ Goto(t, "entered", "counted")
  /\ gHooksActive' = gHooksActive + 1
  /\ ThreadUnchanged /\ UNCHANGED rings

(* Mutant of RecheckUnloading: the thread returns without the decrement.   *)
ReturnUncounted(t) ==
  /\ \/ ~gUnloading /\ gCaptureEnabled /\ Goto(t, "counted", "enqueue")
     \/ ~gUnloading /\ Goto(t, "counted", "leaving")
     \/ gUnloading /\ Goto(t, "counted", "original")
  /\ ThreadUnchanged /\ UNCHANGED <<gHooksActive, rings>>

(* EnqueueEvent's first line, and its filters.                             *)
RecheckUnloading(t) ==
  /\ \/ ~gUnloading /\ gCaptureEnabled /\ Goto(t, "counted", "enqueue")
     \/ Goto(t, "counted", "leaving")
  /\ ThreadUnchanged /\ UNCHANGED <<gHooksActive, rings>>

RingLockFree == \A c \in Clients : client[c] \notin Rings

PushEvent(t) ==
  /\ RingLockFree
  /\ Goto(t, "enqueue", "detail")
  /\ nonEmpty' = nonEmpty \cup {"ring"}
  /\ ThreadUnchanged /\ UNCHANGED gHooksActive

(* The decoders push a detail, or have none, or fault.                     *)
PushDetail(t) ==
  /\ \/ RingLockFree /\ nonEmpty' = nonEmpty \cup {"detailRing"}
     \/ UNCHANGED nonEmpty
  /\ Goto(t, "detail", "leaving")
  /\ ThreadUnchanged /\ UNCHANGED gHooksActive

(* Mutant of Leave: the decrement is made twice.                           *)
LeaveTwice(t) ==
  /\ Goto(t, "leaving", "original")
  /\ gHooksActive' = gHooksActive - 2
  /\ ThreadUnchanged /\ UNCHANGED rings

Leave(t) ==
  /\ Goto(t, "leaving", "original")
  /\ gHooksActive' = gHooksActive - 1
  /\ ThreadUnchanged /\ UNCHANGED rings

CallOriginal(t) ==
  /\ Goto(t, "original", "user")
  /\ ThreadUnchanged /\ UNCHANGED <<gHooksActive, rings>>

InHook(t) ==
  \/ CheckInstance(t) \/ ReadManager(t) \/ CheckUnloading(t) \/ CountHook(t)
  \/ RecheckUnloading(t) \/ PushEvent(t) \/ PushDetail(t) \/ Leave(t)
  \/ CallOriginal(t)
-----------------------------------------------------------------------------
(* The processes that open the device.                                     *)

ClientUnchanged ==
  UNCHANGED <<driver, held, gUnloading, gHooksActive, manager, hal, session, pc,
              unloadPending>>

Published ==
  /\ {"device", "link"} \subseteq held
  /\ driver \notin {"link", "publish"}
  /\ ~unloadPending

(* IRP_MJ_CREATE stops capture and empties the rings.                      *)
OpenDevice(c) ==
  /\ Published /\ RingLockFree
  /\ client[c] = "closed"
  /\ client' = [client EXCEPT ![c] = "open"]
  /\ asked' = [asked EXCEPT ![c] = FALSE]
  /\ gCaptureEnabled' = FALSE
  /\ nonEmpty' = {}
  /\ ClientUnchanged

(* SET_CONFIG; with a change of the filters it empties the rings as well.  *)
SetConfig(c, capture) ==
  /\ client[c] = "open"
  /\ gCaptureEnabled' = capture
  /\ asked' = [asked EXCEPT ![c] = capture]
  /\ UNCHANGED rings \/ (RingLockFree /\ nonEmpty' = {})
  /\ ClientUnchanged /\ UNCHANGED client

(* READ_EVENTS or READ_DETAILS finds entries and copies them from the ring *)
(* with gRingLock held; an empty ring is not looked at.                    *)
BeginRead(c, ring) ==
  /\ client[c] = "open"
  /\ RingLockFree
  /\ ring \in nonEmpty
  /\ client' = [client EXCEPT ![c] = ring]
  /\ ClientUnchanged /\ UNCHANGED <<gCaptureEnabled, asked, rings>>

EndRead(c) ==
  /\ client[c] \in Rings
  /\ client' = [client EXCEPT ![c] = "open"]
  /\ UNCHANGED rings \/ nonEmpty' = nonEmpty \ {client[c]}
  /\ ClientUnchanged /\ UNCHANGED <<gCaptureEnabled, asked>>

(* Mutant of CleanupDevice: capture goes on.                               *)
CleanupCapturing(c) ==
  /\ client[c] = "open"
  /\ client' = [client EXCEPT ![c] = "closed"]
  /\ ClientUnchanged /\ UNCHANGED <<gCaptureEnabled, asked, rings>>

(* IRP_MJ_CLEANUP, also of a process that ends.                            *)
CleanupDevice(c) ==
  /\ client[c] = "open"
  /\ client' = [client EXCEPT ![c] = "closed"]
  /\ gCaptureEnabled' = FALSE
  /\ ClientUnchanged /\ UNCHANGED <<asked, rings>>

UseDevice(c) ==
  \/ OpenDevice(c) \/ EndRead(c) \/ CleanupDevice(c)
  \/ \E capture \in BOOLEAN : SetConfig(c, capture)
  \/ \E ring \in Rings : BeginRead(c, ring)
-----------------------------------------------------------------------------
Next ==
  \/ DriverStep \/ RequestUnload
  \/ \E t \in Threads : EnterHook(t) \/ InHook(t)
  \/ \E c \in Clients : UseDevice(c)

Spec == Init /\ [][Next]_vars

(* Fairness: load and unload go on, a thread in the hook is scheduled      *)
(* until it is out, and a copy under the spin lock ends.                   *)
FairSpec ==
  /\ Spec
  /\ WF_vars(DriverStep)
  /\ \A t \in Threads : WF_vars(InHook(t))
  /\ \A c \in Clients : WF_vars(EndRead(c))
-----------------------------------------------------------------------------
LoadSteps ==
  {"ring", "detailRing", "table", "device", "link", "publish", "manager",
   "trace", "counters", "saveEntry", "swapEntry", "callback"}
UnloadSteps ==
  {"unload", "stopCapture", "destroy", "endTrace", "restoreEntry",
   "endTraceAgain", "deleteManager", "clearInstance", "wait"}
TeardownSteps == {"deleteLink", "deleteDevice", "freeRing", "freeDetailRing"}

Counted == {"counted", "enqueue", "detail", "leaving"}
Places == {"user", "hook", "manager", "callback", "entered", "original", "lost"}
            \cup Counted

TypeOK ==
  /\ driver \in LoadSteps \cup {"running"} \cup UnloadSteps \cup TeardownSteps
                  \cup {"gone"}
  /\ held \subseteq Resources
  /\ gUnloading \in BOOLEAN /\ gHooksActive \in Nat
  /\ gCaptureEnabled \in BOOLEAN
  /\ _instance \in BOOLEAN /\ _hookCallback \in BOOLEAN
  /\ original \in BOOLEAN /\ halEntry \in {"hook", "original"}
  /\ trace \in BOOLEAN /\ isActive \in BOOLEAN /\ stopFailed \in BOOLEAN
  /\ pc \in [Threads -> Places]
  /\ nonEmpty \subseteq Rings
  /\ client \in [Clients -> {"closed", "open"} \cup Rings]
  /\ asked \in [Clients -> BOOLEAN]
  /\ unloadPending \in BOOLEAN

(* A ring that somebody is about to write, or is copying from, has not     *)
(* been freed: neither by an unload that overtakes a thread anywhere in    *)
(* SyscallCallback, nor by a load that fails while a GUI has the device    *)
(* open.                                                                   *)
NoRingUseAfterFree ==
  /\ \A t \in Threads :
       /\ pc[t] = "enqueue" => "ring" \in held
       /\ pc[t] \in {"enqueue", "detail"} => "detailRing" \in held
  /\ \A c \in Clients : client[c] \in Rings => client[c] \in held

(* Whichever step fails, and after every unload, the driver holds nothing, *)
(* the table entry is the original one, and the kernel logger runs on only *)
(* if stopping it failed.                                                  *)
NothingLeftBehind ==
  driver = "gone" =>
    /\ held = {}
    /\ ~_instance
    /\ halEntry = "original"
    /\ trace => stopFailed

(* The hook always ends in a call through _originalHalCollectPmcCounters:  *)
(* nobody gets there before it is set, whatever the manager's state.       *)
OriginalKnown ==
  \A t \in Threads : pc[t] # "user" => original

(* "Stop capture as soon as its file object is cleaned up": the driver     *)
(* captures only for a GUI that is connected and asked for it, whatever    *)
(* order clients come, go and end in.                                      *)
NoCaptureWithoutGui ==
  gCaptureEnabled => \E c \in Clients : client[c] # "closed" /\ asked[c]

(* An unload waits for the threads in the hook and no longer: the hook     *)
(* lets no new ones in, those inside get out, and the driver is gone.      *)
UnloadCompletes == driver = "unload" ~> driver = "gone"

(* "The GUI owns the only user-mode connection": what a connected GUI last *)
(* asked for is what the driver does.                                      *)
CaptureFollowsGui ==
  driver = "running" =>
    \A c \in Clients : client[c] # "closed" => gCaptureEnabled = asked[c]
=============================================================================
