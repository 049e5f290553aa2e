----------------------- MODULE DriverLifecycleProofs -----------------------
(***************************************************************************)
(* Proofs about DriverLifecycle for any number of threads and of           *)
(* processes that open the device.                                         *)
(***************************************************************************)
EXTENDS DriverLifecycle, FiniteSetTheorems, TLAPS

(* gHooksActive counts the threads between its increment and its decrement. *)
CountedThreads == {t \in Threads : pc[t] \in Counted}
HooksCounted == gHooksActive = Cardinality(CountedThreads)

(* What is held before each step, as far as the rings are concerned.       *)
RingsHeld ==
  /\ driver \notin {"ring", "detailRing", "freeDetailRing", "gone"} =>
       Rings \subseteq held
  /\ driver = "detailRing" => "ring" \in held
  /\ driver = "freeDetailRing" => "detailRing" \in held

(* The hook comes last: once the original entry is saved, no load step can *)
(* fail any more, and an unload is one the I/O manager asked for, without  *)
(* open handles.  Only hooked threads fill the rings.                      *)
HookComesLast ==
  /\ halEntry = "hook" => original
  /\ \A t \in Threads : pc[t] # "user" => original
  /\ nonEmpty # {} => original
  /\ \A c \in Clients : client[c] \in Rings => original
  /\ driver \in {"swapEntry", "callback", "running"} => original
  /\ original => driver \in {"swapEntry", "callback", "running"} \/ unloadPending
  /\ unloadPending =>
       /\ driver \in UnloadSteps \cup TeardownSteps \cup {"gone"}
       /\ \A c \in Clients : client[c] = "closed"

(* Once the flag is up and the hooks have drained, nobody gets past the    *)
(* second check.                                                           *)
Drained ==
  /\ driver \in (UnloadSteps \ {"unload"}) \cup TeardownSteps => gUnloading
  /\ driver = "gone" /\ original => gUnloading
  /\ driver \in TeardownSteps \cup {"gone"} =>
       \A t \in Threads : pc[t] \notin {"enqueue", "detail"}

RingInv == TypeOK /\ HooksCounted /\ RingsHeld /\ HookComesLast /\ Drained

(* What is held, installed and running before each step of the load and    *)
(* the unload.                                                             *)
LoadLedger ==
  /\ driver = "ring" => held = {}
  /\ driver = "detailRing" => held = {"ring"}
  /\ driver \in {"table", "device"} => held = Rings
  /\ driver = "link" => held = Rings \cup {"device"}
  /\ driver = "publish" => held = Rings \cup {"device", "link"}
  /\ driver \in LoadSteps \ {"swapEntry", "callback"} => ~original
  /\ driver \in LoadSteps \ {"trace", "counters", "saveEntry", "swapEntry",
                             "callback"} => ~_instance /\ ~trace /\ ~isActive

ManagerLedger ==
  /\ driver # "clearInstance" => (_instance <=> "manager" \in held)
  /\ driver = "clearInstance" => "manager" \notin held
  /\ driver \in {"trace", "counters", "saveEntry", "swapEntry", "callback",
                 "running", "endTrace", "restoreEntry", "endTraceAgain",
                 "deleteManager"} => _instance
  /\ driver \in {"unload", "stopCapture", "destroy"} /\ ~_instance =>
       ~original /\ ~isActive
  /\ driver \in {"wait", "gone"} \cup TeardownSteps => ~_instance

UnloadLedger ==
  /\ halEntry = "hook" => original
  /\ driver \in {"endTraceAgain", "deleteManager", "clearInstance", "wait",
                 "gone"} \cup TeardownSteps => halEntry = "original"
  /\ trace => isActive \/ stopFailed
  /\ driver \in {"deleteManager", "clearInstance", "wait", "gone"}
                  \cup TeardownSteps => (isActive => stopFailed)
  /\ driver \in {"deleteDevice", "freeRing", "freeDetailRing"} => "link" \notin held
  /\ driver \in {"freeRing", "freeDetailRing"} => "device" \notin held
  /\ driver = "freeDetailRing" => "ring" \notin held
  /\ driver = "gone" => held = {}

-----------------------------------------------------------------------------
(* The actions by what they do to pc and to gHooksActive.                  *)
ThreadStep(t) == EnterHook(t) \/ InHook(t)

LEMMA CountedIsFinite ==
  /\ IsFiniteSet(CountedThreads)
  /\ Cardinality(CountedThreads) \in Nat
<1>1. CountedThreads \subseteq Threads
  BY DEF CountedThreads
<1> QED
  BY <1>1, ThreadsAssumption, FS_Subset, FS_CardinalityType

LEMMA InitTypeOK == Init => TypeOK
<1> SUFFICES ASSUME Init PROVE TypeOK
  OBVIOUS
<1>1. driver \in LoadSteps /\ pc \in [Threads -> Places]
  BY DEF Init, LoadSteps, Places
<1>2. /\ client \in [Clients -> {"closed", "open"} \cup Rings]
      /\ asked \in [Clients -> BOOLEAN]
      /\ held \subseteq Resources /\ nonEmpty \subseteq Rings
  BY DEF Init
<1>3. /\ gUnloading \in BOOLEAN /\ gHooksActive \in Nat
      /\ gCaptureEnabled \in BOOLEAN /\ unloadPending \in BOOLEAN
  BY DEF Init
<1>4. /\ _instance \in BOOLEAN /\ _hookCallback \in BOOLEAN
      /\ original \in BOOLEAN /\ halEntry \in {"hook", "original"}
  BY DEF Init
<1>5. trace \in BOOLEAN /\ isActive \in BOOLEAN /\ stopFailed \in BOOLEAN
  BY DEF Init
<1> QED
  BY <1>1, <1>2, <1>3, <1>4, <1>5 DEF TypeOK

(* A load step goes to a load step, or runs, or fails; and so on.          *)
LEMMA DriverStepFrom ==
  ASSUME DriverStep
  PROVE  driver' \in LoadSteps \cup {"running"} \cup UnloadSteps
                       \cup TeardownSteps \cup {"gone"}
<1>1. CASE \/ AllocateRing \/ AllocateDetailRing \/ BuildSyscallTable
           \/ CreateDevice \/ CreateLink \/ Publish
  <2>1. driver' \in LoadSteps \cup {"gone"}
    BY <1>1 DEF AllocateRing, AllocateDetailRing, BuildSyscallTable,
       CreateDevice, CreateLink, Publish, Acquire, Step, LoadSteps
  <2> QED
    BY <2>1
<1>2. CASE \/ NewManager \/ StartTrace \/ OpenPmcCounter
           \/ SaveEntry \/ SwapEntry \/ SetCallback
  <2>1. driver' \in LoadSteps \cup {"unload", "running"}
    BY <1>2 DEF NewManager, StartTrace, OpenPmcCounter, SaveEntry, SwapEntry,
       SetCallback, Step, LoadSteps
  <2> QED
    BY <2>1 DEF UnloadSteps
<1>3. CASE \/ BeginUnload \/ StopCapture \/ GetInstance
           \/ EndTrace("endTrace", "restoreEntry") \/ RestoreEntry
           \/ EndTrace("endTraceAgain", "deleteManager") \/ DeleteManager
           \/ ClearInstance
  <2>1. driver' \in UnloadSteps
    BY <1>3 DEF BeginUnload, StopCapture, GetInstance, EndTrace, RestoreEntry,
       DeleteManager, ClearInstance, Step, UnloadSteps
  <2> QED
    BY <2>1
<1>4. CASE \/ WaitForHooks
           \/ GiveBack("deleteLink", "link", "deleteDevice")
           \/ GiveBack("deleteDevice", "device", "freeRing")
           \/ GiveBack("freeRing", "ring", "freeDetailRing")
           \/ GiveBack("freeDetailRing", "detailRing", "gone")
  <2>1. driver' \in TeardownSteps \cup {"gone"}
    BY <1>4 DEF WaitForHooks, GiveBack, Step, TeardownSteps
  <2> QED
    BY <2>1
<1> QED
  BY <1>1, <1>2, <1>3, <1>4 DEF DriverStep

LEMMA DriverStepHeld ==
  ASSUME TypeOK, DriverStep
  PROVE  held' \subseteq Resources
<1>1. CASE \/ AllocateRing \/ AllocateDetailRing \/ BuildSyscallTable
           \/ CreateDevice \/ CreateLink
  BY <1>1 DEF TypeOK, AllocateRing, AllocateDetailRing, BuildSyscallTable,
     CreateDevice, CreateLink, Acquire, Resources, Rings
<1>2. CASE NewManager \/ GetInstance
  BY <1>2 DEF TypeOK, NewManager, GetInstance, Resources
<1>3. CASE \/ Publish \/ StartTrace \/ OpenPmcCounter \/ SaveEntry \/ SwapEntry
           \/ SetCallback \/ BeginUnload \/ StopCapture
           \/ EndTrace("endTrace", "restoreEntry") \/ RestoreEntry
           \/ EndTrace("endTraceAgain", "deleteManager")
           \/ ClearInstance \/ WaitForHooks
  BY <1>3 DEF TypeOK, Publish, StartTrace, OpenPmcCounter, SaveEntry, SwapEntry,
     SetCallback, BeginUnload, StopCapture, EndTrace, RestoreEntry,
     ClearInstance, WaitForHooks
<1>4. CASE \/ DeleteManager
           \/ GiveBack("deleteLink", "link", "deleteDevice")
           \/ GiveBack("deleteDevice", "device", "freeRing")
           \/ GiveBack("freeRing", "ring", "freeDetailRing")
           \/ GiveBack("freeDetailRing", "detailRing", "gone")
  BY <1>4 DEF TypeOK, DeleteManager, GiveBack
<1> QED
  BY <1>1, <1>2, <1>3, <1>4 DEF DriverStep

LEMMA DriverStepTypeOK ==
  ASSUME TypeOK, DriverStep
  PROVE  TypeOK'
<1> USE DEF globals, manager, hal, session, devices, rings
<1>1. CASE \/ AllocateRing \/ AllocateDetailRing \/ BuildSyscallTable
           \/ CreateDevice \/ CreateLink \/ Publish \/ OpenPmcCounter
           \/ DeleteManager \/ WaitForHooks
           \/ GiveBack("deleteLink", "link", "deleteDevice")
           \/ GiveBack("deleteDevice", "device", "freeRing")
           \/ GiveBack("freeRing", "ring", "freeDetailRing")
           \/ GiveBack("freeDetailRing", "detailRing", "gone")
  <2>1. UNCHANGED <<globals, manager, hal, session, pc, rings, devices>>
    BY <1>1 DEF AllocateRing, AllocateDetailRing, BuildSyscallTable,
       CreateDevice, CreateLink, Publish, OpenPmcCounter, DeleteManager,
       WaitForHooks, GiveBack, Acquire
  <2> QED
    BY <2>1, DriverStepFrom, DriverStepHeld DEF TypeOK
<1>2. CASE NewManager \/ GetInstance \/ ClearInstance \/ SetCallback
  <2>1. UNCHANGED <<globals, hal, session, pc, rings, devices>>
    BY <1>2 DEF NewManager, GetInstance, ClearInstance, SetCallback
  <2>2. _instance' \in BOOLEAN /\ _hookCallback' \in BOOLEAN
    BY <1>2 DEF TypeOK, NewManager, GetInstance, ClearInstance, SetCallback
  <2> QED
    BY <2>1, <2>2, DriverStepFrom, DriverStepHeld DEF TypeOK
<1>3. CASE \/ StartTrace \/ EndTrace("endTrace", "restoreEntry")
           \/ EndTrace("endTraceAgain", "deleteManager")
  <2>1. UNCHANGED <<globals, manager, hal, pc, rings, devices>>
    BY <1>3 DEF StartTrace, EndTrace
  <2>2. trace' \in BOOLEAN /\ isActive' \in BOOLEAN /\ stopFailed' \in BOOLEAN
    BY <1>3 DEF TypeOK, StartTrace, EndTrace
  <2> QED
    BY <2>1, <2>2, DriverStepFrom, DriverStepHeld DEF TypeOK
<1>4. CASE SaveEntry \/ SwapEntry \/ RestoreEntry
  <2>1. UNCHANGED <<globals, manager, session, pc, rings, devices>>
    BY <1>4 DEF SaveEntry, SwapEntry, RestoreEntry
  <2>2. original' \in BOOLEAN /\ halEntry' \in {"hook", "original"}
    BY <1>4 DEF TypeOK, SaveEntry, SwapEntry, RestoreEntry
  <2> QED
    BY <2>1, <2>2, DriverStepFrom, DriverStepHeld DEF TypeOK
<1>5. CASE BeginUnload \/ StopCapture
  <2>1. UNCHANGED <<gHooksActive, manager, hal, session, pc, rings, devices>>
    BY <1>5 DEF BeginUnload, StopCapture
  <2>2. gUnloading' \in BOOLEAN /\ gCaptureEnabled' \in BOOLEAN
    BY <1>5 DEF TypeOK, BeginUnload, StopCapture
  <2> QED
    BY <2>1, <2>2, DriverStepFrom, DriverStepHeld DEF TypeOK
<1> QED
  BY <1>1, <1>2, <1>3, <1>4, <1>5 DEF DriverStep

LEMMA RequestUnloadTypeOK ==
  ASSUME TypeOK, RequestUnload
  PROVE  TypeOK'
<1>1. driver' \in UnloadSteps /\ unloadPending' \in BOOLEAN
  BY DEF RequestUnload, Step, UnloadSteps
<1>2. UNCHANGED <<held, gUnloading, gHooksActive, gCaptureEnabled, _instance,
                  _hookCallback, original, halEntry, trace, isActive,
                  stopFailed, pc, nonEmpty, client, asked>>
  BY DEF RequestUnload, globals, manager, hal, session, rings
<1> QED
  BY <1>1, <1>2 DEF TypeOK

(* The load, the unload and the clients leave the threads alone.           *)
LEMMA OthersLeaveThreads ==
  ASSUME \/ DriverStep \/ RequestUnload \/ UNCHANGED vars
         \/ \E c \in Clients : UseDevice(c)
  PROVE  pc' = pc /\ gHooksActive' = gHooksActive
<1>1. CASE DriverStep \/ RequestUnload
  BY <1>1 DEF DriverStep, AllocateRing, AllocateDetailRing, Acquire,
     BuildSyscallTable, CreateDevice, CreateLink, Publish, NewManager,
     StartTrace, OpenPmcCounter, SaveEntry, SwapEntry, SetCallback,
     RequestUnload, BeginUnload, StopCapture, GetInstance, EndTrace,
     RestoreEntry, DeleteManager, ClearInstance, WaitForHooks, GiveBack, globals
<1>2. CASE \E c \in Clients : UseDevice(c)
  BY <1>2 DEF UseDevice, OpenDevice, EndRead, CleanupDevice, SetConfig,
     BeginRead, ClientUnchanged
<1>3. CASE UNCHANGED vars
  BY <1>3 DEF vars, globals
<1> QED
  BY <1>1, <1>2, <1>3

(* Threads and clients leave the driver's steps and what it holds alone.   *)
LEMMA OthersLeaveDriver ==
  ASSUME \/ \E t \in Threads : ThreadStep(t)
         \/ \E c \in Clients : UseDevice(c)
         \/ UNCHANGED vars
  PROVE  UNCHANGED <<driver, held, gUnloading, _instance, _hookCallback,
                     original, halEntry, trace, isActive, stopFailed,
                     unloadPending>>
<1>1. CASE \E t \in Threads : ThreadStep(t)
  BY <1>1 DEF ThreadStep, EnterHook, InHook, CheckInstance, ReadManager,
     CheckUnloading, CountHook, RecheckUnloading, PushEvent, PushDetail, Leave,
     CallOriginal, ThreadUnchanged, manager, hal, session, devices
<1>2. CASE \E c \in Clients : UseDevice(c)
  BY <1>2 DEF UseDevice, OpenDevice, EndRead, CleanupDevice, SetConfig,
     BeginRead, ClientUnchanged, manager, hal, session
<1>3. CASE UNCHANGED vars
  BY <1>3 DEF vars, globals, manager, hal, session, devices
<1> QED
  BY <1>1, <1>2, <1>3

LEMMA ClientTypeOK ==
  ASSUME TypeOK, NEW c \in Clients, UseDevice(c)
  PROVE  TypeOK'
<1>1. UNCHANGED <<driver, held, gUnloading, gHooksActive, _instance,
                  _hookCallback, original, halEntry, trace, isActive,
                  stopFailed, pc, unloadPending>>
  BY OthersLeaveDriver, OthersLeaveThreads
<1>2. /\ gCaptureEnabled' \in BOOLEAN
      /\ nonEmpty' \subseteq Rings
      /\ client' \in [Clients -> {"closed", "open"} \cup Rings]
      /\ asked' \in [Clients -> BOOLEAN]
  BY DEF TypeOK, UseDevice, OpenDevice, EndRead, CleanupDevice, SetConfig,
     BeginRead, rings
<1> QED
  BY <1>1, <1>2 DEF TypeOK

LEMMA ThreadTypeOK ==
  ASSUME TypeOK, HooksCounted, NEW t \in Threads, ThreadStep(t)
  PROVE  TypeOK' /\ HooksCounted'
<1>1. UNCHANGED <<driver, held, gUnloading, gCaptureEnabled, _instance,
                  _hookCallback, original, halEntry, trace, isActive,
                  stopFailed, client, asked, unloadPending>>
  BY DEF ThreadStep, EnterHook, InHook, CheckInstance, ReadManager,
     CheckUnloading, CountHook, RecheckUnloading, PushEvent, PushDetail, Leave,
     CallOriginal, ThreadUnchanged, manager, hal, session, devices
<1>2. pc' \in [Threads -> Places] /\ nonEmpty' \subseteq Rings
  BY DEF TypeOK, ThreadStep, EnterHook, InHook, CheckInstance, ReadManager,
     CheckUnloading, CountHook, RecheckUnloading, PushEvent, PushDetail, Leave,
     CallOriginal, Goto, Places, Counted, Rings, rings
<1>3. /\ IsFiniteSet(CountedThreads)
      /\ Cardinality(CountedThreads) \in Nat
  BY CountedIsFinite
<1>4. gHooksActive' \in Nat /\ gHooksActive' = Cardinality(CountedThreads')
  <2>1. CASE CountHook(t)
    <3>1. CountedThreads' = CountedThreads \cup {t} /\ t \notin CountedThreads
      BY <2>1 DEF CountHook, Goto, TypeOK, CountedThreads, Counted
    <3>2. Cardinality(CountedThreads') = Cardinality(CountedThreads) + 1
      BY <1>3, <3>1, FS_AddElement
    <3> QED
      BY <1>3, <2>1, <3>2 DEF CountHook, HooksCounted
  <2>2. CASE Leave(t)
    <3>1. CountedThreads' = CountedThreads \ {t} /\ t \in CountedThreads
      BY <2>2 DEF Leave, Goto, TypeOK, CountedThreads, Counted
    <3>2. Cardinality(CountedThreads') = Cardinality(CountedThreads) - 1
      BY <1>3, <3>1, FS_RemoveElement
    <3>3. Cardinality(CountedThreads') \in Nat
      BY <1>3, <3>1, FS_RemoveElement, FS_CardinalityType
    <3> QED
      BY <3>2, <3>3, <2>2 DEF Leave, HooksCounted
  <2>3. CASE \/ EnterHook(t) \/ CheckInstance(t) \/ ReadManager(t)
             \/ CheckUnloading(t) \/ RecheckUnloading(t) \/ PushEvent(t)
             \/ PushDetail(t) \/ CallOriginal(t)
    <3>1. CountedThreads' = CountedThreads
      BY <2>3 DEF EnterHook, CheckInstance, ReadManager, CheckUnloading,
         RecheckUnloading, PushEvent, PushDetail, CallOriginal, Goto, TypeOK,
         CountedThreads, Counted
    <3>2. gHooksActive' = gHooksActive
      BY <2>3 DEF EnterHook, CheckInstance, ReadManager, CheckUnloading,
         RecheckUnloading, PushEvent, PushDetail, CallOriginal
    <3> QED
      BY <1>3, <3>1, <3>2 DEF HooksCounted
  <2> QED
    BY <2>1, <2>2, <2>3 DEF ThreadStep, InHook
<1> QED
  BY <1>1, <1>2, <1>4 DEF TypeOK, HooksCounted

LEMMA NextTypeOK == TypeOK /\ HooksCounted /\ [Next]_vars => TypeOK' /\ HooksCounted'
<1> SUFFICES ASSUME TypeOK, HooksCounted, [Next]_vars
             PROVE  TypeOK' /\ HooksCounted'
  OBVIOUS
<1>1. CASE DriverStep \/ RequestUnload
  BY <1>1, DriverStepTypeOK, RequestUnloadTypeOK, OthersLeaveThreads DEF HooksCounted, CountedThreads
<1>2. CASE \E t \in Threads : ThreadStep(t)
  BY <1>2, ThreadTypeOK
<1>3. CASE \E c \in Clients : UseDevice(c)
  BY <1>3, ClientTypeOK, OthersLeaveThreads DEF HooksCounted, CountedThreads
<1>4. CASE UNCHANGED vars
  BY <1>4 DEF TypeOK, HooksCounted, CountedThreads, vars, globals, manager, hal,
     session, rings, devices
<1> QED
  BY <1>1, <1>2, <1>3, <1>4 DEF Next, ThreadStep
-----------------------------------------------------------------------------
(* The rings are not freed under anyone's hands.                           *)

LEMMA NextRingsHeld ==
  ASSUME RingsHeld, [Next]_vars
  PROVE  RingsHeld'
<1>1. CASE DriverStep
  <2>1. CASE AllocateRing \/ AllocateDetailRing \/ BuildSyscallTable
    <3>1. CASE AllocateRing
      BY <3>1 DEF RingsHeld, AllocateRing, Acquire, Step
    <3>2. CASE AllocateDetailRing
      BY <3>2 DEF RingsHeld, AllocateDetailRing, Acquire, Step, Rings
    <3>3. CASE BuildSyscallTable
      BY <3>3 DEF RingsHeld, BuildSyscallTable, Step
    <3> QED
      BY <2>1, <3>1, <3>2, <3>3
  <2>5. CASE CreateDevice \/ CreateLink \/ Publish
    BY <2>5 DEF RingsHeld, CreateDevice, CreateLink, Publish, Acquire, Step
  <2>2. CASE \/ NewManager \/ StartTrace \/ OpenPmcCounter \/ SaveEntry
             \/ SwapEntry \/ SetCallback
    BY <2>2 DEF RingsHeld, NewManager, StartTrace, OpenPmcCounter, SaveEntry,
       SwapEntry, SetCallback, Step
  <2>3. CASE \/ BeginUnload \/ StopCapture \/ GetInstance
             \/ EndTrace("endTrace", "restoreEntry") \/ RestoreEntry
             \/ EndTrace("endTraceAgain", "deleteManager") \/ DeleteManager
             \/ ClearInstance
    BY <2>3 DEF RingsHeld, BeginUnload, StopCapture, GetInstance, EndTrace,
       RestoreEntry, DeleteManager, ClearInstance, Step, Rings
  <2>4. CASE \/ WaitForHooks
             \/ GiveBack("deleteLink", "link", "deleteDevice")
             \/ GiveBack("deleteDevice", "device", "freeRing")
             \/ GiveBack("freeRing", "ring", "freeDetailRing")
             \/ GiveBack("freeDetailRing", "detailRing", "gone")
    BY <2>4 DEF RingsHeld, WaitForHooks, GiveBack, Step, Rings
  <2> QED
    BY <1>1, <2>1, <2>2, <2>3, <2>4, <2>5 DEF DriverStep
<1>2. CASE RequestUnload
  BY <1>2 DEF RingsHeld, RequestUnload, Step
<1>3. CASE \/ \E t \in Threads : ThreadStep(t)
           \/ \E c \in Clients : UseDevice(c)
           \/ UNCHANGED vars
  BY <1>3, OthersLeaveDriver DEF RingsHeld
<1> QED
  BY <1>1, <1>2, <1>3 DEF Next, ThreadStep

(* What the driver's own steps do to the variables of HookComesLast.       *)
LEMMA DriverStepHook ==
  ASSUME TypeOK, DriverStep
  PROVE  /\ UNCHANGED <<pc, nonEmpty, client, unloadPending>>
         /\ original => original'
         /\ driver = "saveEntry" => original'
         /\ original' => original \/ driver = "saveEntry"
         /\ halEntry' = "hook" => halEntry = "hook" \/ driver = "swapEntry"
<1>1. CASE SaveEntry \/ SwapEntry \/ RestoreEntry
  BY <1>1 DEF SaveEntry, SwapEntry, RestoreEntry, Step, rings, devices
<1>2. CASE \/ AllocateRing \/ AllocateDetailRing \/ BuildSyscallTable
           \/ CreateDevice \/ CreateLink \/ Publish \/ NewManager \/ StartTrace
           \/ OpenPmcCounter \/ SetCallback
  <2>1. driver # "saveEntry" /\ UNCHANGED <<hal, pc, rings, devices>>
    BY <1>2 DEF AllocateRing, AllocateDetailRing, BuildSyscallTable,
       CreateDevice, CreateLink, Publish, NewManager, StartTrace,
       OpenPmcCounter, SetCallback, Acquire, Step
  <2> QED
    BY <2>1 DEF hal, rings, devices
<1>3. CASE \/ BeginUnload \/ StopCapture \/ GetInstance
           \/ EndTrace("endTrace", "restoreEntry")
           \/ EndTrace("endTraceAgain", "deleteManager") \/ DeleteManager
           \/ ClearInstance \/ WaitForHooks
           \/ GiveBack("deleteLink", "link", "deleteDevice")
           \/ GiveBack("deleteDevice", "device", "freeRing")
           \/ GiveBack("freeRing", "ring", "freeDetailRing")
           \/ GiveBack("freeDetailRing", "detailRing", "gone")
  <2>1. driver # "saveEntry" /\ UNCHANGED <<hal, pc, rings, devices>>
    BY <1>3 DEF BeginUnload, StopCapture, GetInstance, EndTrace, DeleteManager,
       ClearInstance, WaitForHooks, GiveBack, Step
  <2> QED
    BY <2>1 DEF hal, rings, devices
<1> QED
  BY <1>1, <1>2, <1>3 DEF DriverStep

(* The steps after the original entry is saved: none of them fails.        *)
LEMMA AfterSaving ==
  ASSUME DriverStep
  PROVE  /\ driver = "saveEntry" => driver' = "swapEntry"
         /\ driver = "swapEntry" => driver' = "callback"
         /\ driver = "callback" => driver' = "running"
         /\ driver # "running" /\ driver # "gone"
         /\ driver' \in {"swapEntry", "callback", "running"} =>
              driver \in {"saveEntry", "swapEntry", "callback"}
         /\ driver \in UnloadSteps \cup TeardownSteps =>
              driver' \in UnloadSteps \cup TeardownSteps \cup {"gone"}
<1>1. CASE \/ AllocateRing \/ AllocateDetailRing \/ BuildSyscallTable
           \/ CreateDevice \/ CreateLink \/ Publish
  <2>1. /\ driver \in {"ring", "detailRing", "table", "device", "link", "publish"}
        /\ driver' \notin {"swapEntry", "callback", "running"}
    BY <1>1 DEF AllocateRing, AllocateDetailRing, BuildSyscallTable,
       CreateDevice, CreateLink, Publish, Acquire, Step
  <2> QED
    BY <2>1 DEF UnloadSteps, TeardownSteps
<1>2. CASE \/ NewManager \/ StartTrace \/ OpenPmcCounter
           \/ SaveEntry \/ SwapEntry \/ SetCallback
  <2>1. \/ /\ driver \in {"manager", "trace", "counters"}
           /\ driver' \notin {"swapEntry", "callback", "running"}
        \/ driver = "saveEntry" /\ driver' = "swapEntry"
        \/ driver = "swapEntry" /\ driver' = "callback"
        \/ driver = "callback" /\ driver' = "running"
    BY <1>2 DEF NewManager, StartTrace, OpenPmcCounter, SaveEntry, SwapEntry,
       SetCallback, Step
  <2> QED
    BY <2>1 DEF UnloadSteps, TeardownSteps
<1>3. CASE \/ BeginUnload \/ StopCapture \/ GetInstance
           \/ EndTrace("endTrace", "restoreEntry") \/ RestoreEntry
           \/ EndTrace("endTraceAgain", "deleteManager") \/ DeleteManager
           \/ ClearInstance
  <2>1. driver \in UnloadSteps /\ driver' \in UnloadSteps
    BY <1>3 DEF BeginUnload, StopCapture, GetInstance, EndTrace, RestoreEntry,
       DeleteManager, ClearInstance, Step, UnloadSteps
  <2> QED
    BY <2>1 DEF UnloadSteps
<1>4. CASE \/ WaitForHooks
           \/ GiveBack("deleteLink", "link", "deleteDevice")
           \/ GiveBack("deleteDevice", "device", "freeRing")
           \/ GiveBack("freeRing", "ring", "freeDetailRing")
           \/ GiveBack("freeDetailRing", "detailRing", "gone")
  <2>1. /\ driver \in {"wait"} \cup TeardownSteps
        /\ driver' \in TeardownSteps \cup {"gone"}
    BY <1>4 DEF WaitForHooks, GiveBack, Step, TeardownSteps
  <2> QED
    BY <2>1 DEF TeardownSteps
<1> QED
  BY <1>1, <1>2, <1>3, <1>4 DEF DriverStep

LEMMA NextHookComesLast ==
  ASSUME TypeOK, HookComesLast, [Next]_vars
  PROVE  HookComesLast'
<1>1. CASE DriverStep
  <2>1. halEntry' = "hook" => original'
    BY <1>1, DriverStepHook DEF HookComesLast
  <2>2. /\ \A t \in Threads : pc'[t] # "user" => original'
        /\ nonEmpty' # {} => original'
        /\ \A c \in Clients : client'[c] \in Rings => original'
    BY <1>1, DriverStepHook DEF HookComesLast
  <2>3. driver' \in {"swapEntry", "callback", "running"} => original'
    BY <1>1, DriverStepHook, AfterSaving DEF HookComesLast
  <2>4. original' => driver' \in {"swapEntry", "callback", "running"} \/ unloadPending'
    BY <1>1, DriverStepHook, AfterSaving DEF HookComesLast
  <2>5. unloadPending' =>
          /\ driver' \in UnloadSteps \cup TeardownSteps \cup {"gone"}
          /\ \A c \in Clients : client'[c] = "closed"
    BY <1>1, DriverStepHook, AfterSaving DEF HookComesLast
  <2> QED
    BY <2>1, <2>2, <2>3, <2>4, <2>5 DEF HookComesLast
<1>2. CASE RequestUnload
  <2>1. /\ unloadPending' /\ driver' = "unload"
        /\ \A c \in Clients : client'[c] = "closed"
        /\ UNCHANGED <<halEntry, original, pc, nonEmpty>>
    BY <1>2 DEF RequestUnload, Step, hal, rings
  <2>2. "unload" \in UnloadSteps
    BY DEF UnloadSteps
  <2> QED
    BY <2>1, <2>2 DEF HookComesLast, Rings
<1>3. ASSUME NEW t \in Threads, ThreadStep(t) PROVE HookComesLast'
  <2>1. UNCHANGED <<driver, original, halEntry, unloadPending, client>>
    BY <1>3, OthersLeaveDriver DEF ThreadStep, EnterHook, InHook, CheckInstance,
       ReadManager, CheckUnloading, CountHook, RecheckUnloading, PushEvent,
       PushDetail, Leave, CallOriginal, ThreadUnchanged, devices
  <2>2. original
    BY <1>3 DEF HookComesLast, ThreadStep, EnterHook, InHook, CheckInstance,
       ReadManager, CheckUnloading, CountHook, RecheckUnloading, PushEvent,
       PushDetail, Leave, CallOriginal, Goto
  <2> QED
    BY <2>1, <2>2 DEF HookComesLast
<1>4. ASSUME NEW c \in Clients, UseDevice(c) PROVE HookComesLast'
  <2>1. UNCHANGED <<driver, original, halEntry, unloadPending, pc>>
    BY <1>4, OthersLeaveDriver, OthersLeaveThreads
  <2>2. nonEmpty' # {} => nonEmpty # {}
    BY <1>4 DEF UseDevice, OpenDevice, EndRead, CleanupDevice, SetConfig,
       BeginRead, rings
  <2>3. \A d \in Clients : client'[d] \in Rings => client[d] \in Rings \/ nonEmpty # {}
    BY <1>4 DEF TypeOK, UseDevice, OpenDevice, EndRead, CleanupDevice,
       SetConfig, BeginRead, Rings
  <2>4. unloadPending => client' = client
    BY <1>4 DEF HookComesLast, UseDevice, OpenDevice, Published, EndRead,
       CleanupDevice, SetConfig, BeginRead, Rings
  <2> QED
    BY <2>1, <2>2, <2>3, <2>4 DEF HookComesLast
<1>5. CASE UNCHANGED vars
  BY <1>5 DEF HookComesLast, vars, hal, rings, devices
<1> QED
  BY <1>1, <1>2, <1>3, <1>4, <1>5 DEF Next, ThreadStep

(* The flag goes up once and stays up, before the driver waits.            *)
LEMMA DriverStepDrained ==
  ASSUME TypeOK, HooksCounted, HookComesLast, Drained, DriverStep
  PROVE  Drained'
<1>1. gUnloading => gUnloading'
  <2>1. CASE BeginUnload
    BY <2>1 DEF BeginUnload
  <2>2. CASE ~BeginUnload
    BY <2>2 DEF DriverStep, AllocateRing, AllocateDetailRing, Acquire,
       BuildSyscallTable, CreateDevice, CreateLink, Publish, NewManager,
       StartTrace, OpenPmcCounter, SaveEntry, SwapEntry, SetCallback,
       StopCapture, GetInstance, EndTrace, RestoreEntry, DeleteManager,
       ClearInstance, WaitForHooks, GiveBack, globals
  <2> QED
    BY <2>1, <2>2
<1>2. pc' = pc
  BY OthersLeaveThreads
<1>3. CASE BeginUnload
  <2>1. driver' = "stopCapture" /\ gUnloading'
    BY <1>3 DEF BeginUnload, Step
  <2> QED
    BY <2>1 DEF Drained, TeardownSteps
<1>4. CASE WaitForHooks
  <2>1. CountedThreads = {}
    BY <1>4, CountedIsFinite, ThreadsAssumption, FS_EmptySet
       DEF WaitForHooks, HooksCounted
  <2>2. gUnloading /\ driver' = "deleteLink"
    BY <1>4 DEF WaitForHooks, Step, Drained, UnloadSteps
  <2>3. \A t \in Threads : pc[t] \notin {"enqueue", "detail"}
    BY <2>1 DEF CountedThreads, Counted
  <2> QED
    BY <1>1, <1>2, <2>2, <2>3 DEF Drained
<1>5. CASE \/ GiveBack("deleteLink", "link", "deleteDevice")
           \/ GiveBack("deleteDevice", "device", "freeRing")
           \/ GiveBack("freeRing", "ring", "freeDetailRing")
           \/ GiveBack("freeDetailRing", "detailRing", "gone")
  <2>1. driver \in TeardownSteps
    BY <1>5 DEF GiveBack, Step, TeardownSteps
  <2> QED
    BY <1>1, <1>2, <2>1 DEF Drained
<1>6. CASE \/ StopCapture \/ GetInstance
           \/ EndTrace("endTrace", "restoreEntry") \/ RestoreEntry
           \/ EndTrace("endTraceAgain", "deleteManager") \/ DeleteManager
           \/ ClearInstance
  <2>1. /\ driver \in UnloadSteps \ {"unload"}
        /\ driver' \notin TeardownSteps \cup {"gone"}
    BY <1>6 DEF StopCapture, GetInstance, EndTrace, RestoreEntry,
       DeleteManager, ClearInstance, Step, UnloadSteps, TeardownSteps
  <2> QED
    BY <1>1, <2>1 DEF Drained
<1>7. CASE \/ AllocateRing \/ AllocateDetailRing \/ BuildSyscallTable
           \/ CreateDevice \/ CreateLink
  <2>1. /\ driver' \notin UnloadSteps \cup TeardownSteps
        /\ driver \notin {"swapEntry", "callback", "running"} \cup UnloadSteps
                          \cup TeardownSteps \cup {"gone", "saveEntry"}
    BY <1>7 DEF AllocateRing, AllocateDetailRing, BuildSyscallTable,
       CreateDevice, CreateLink, Acquire, Step, UnloadSteps, TeardownSteps
  <2>2. ~original /\ ~original'
    BY <2>1, DriverStepHook DEF HookComesLast
  <2>3. \A t \in Threads : pc[t] = "user"
    BY <2>2 DEF HookComesLast
  <2> QED
    BY <1>2, <2>1, <2>2, <2>3 DEF Drained
<1>8. CASE \/ Publish \/ NewManager \/ StartTrace \/ OpenPmcCounter
           \/ SaveEntry \/ SwapEntry \/ SetCallback
  <2>1. driver' \notin (UnloadSteps \ {"unload"}) \cup TeardownSteps \cup {"gone"}
    BY <1>8 DEF Publish, NewManager, StartTrace, OpenPmcCounter, SaveEntry,
       SwapEntry, SetCallback, Step, UnloadSteps, TeardownSteps
  <2> QED
    BY <2>1 DEF Drained
<1> QED
  BY <1>3, <1>4, <1>5, <1>6, <1>7, <1>8 DEF DriverStep

LEMMA NextDrained ==
  ASSUME TypeOK, HooksCounted, HookComesLast, Drained, [Next]_vars
  PROVE  Drained'
<1>1. CASE DriverStep
  BY <1>1, DriverStepDrained
<1>2. CASE RequestUnload
  <2>1. driver' = "unload"
    BY <1>2 DEF RequestUnload, Step
  <2> QED
    BY <2>1 DEF Drained, TeardownSteps
<1>3. ASSUME NEW t \in Threads, ThreadStep(t) PROVE Drained'
  <2>1. UNCHANGED <<driver, original, gUnloading>>
    BY <1>3, OthersLeaveDriver
  <2>2. driver \in TeardownSteps \cup {"gone"} =>
          pc'[t] \notin {"enqueue", "detail"}
    <3>1. driver \in TeardownSteps \cup {"gone"} => gUnloading
      BY <1>3 DEF Drained, HookComesLast, ThreadStep, EnterHook, InHook,
         CheckInstance, ReadManager, CheckUnloading, CountHook,
         RecheckUnloading, PushEvent, PushDetail, Leave, CallOriginal, Goto
    <3>2. gUnloading /\ pc[t] \notin {"enqueue", "detail"}
            => pc'[t] \notin {"enqueue", "detail"}
      BY <1>3 DEF TypeOK, ThreadStep, EnterHook, InHook, CheckInstance,
         ReadManager, CheckUnloading, CountHook, RecheckUnloading, PushEvent,
         PushDetail, Leave, CallOriginal, Goto
    <3> QED
      BY <3>1, <3>2 DEF Drained
  <2>3. \A u \in Threads \ {t} : pc'[u] = pc[u]
    BY <1>3 DEF TypeOK, ThreadStep, EnterHook, InHook, CheckInstance,
       ReadManager, CheckUnloading, CountHook, RecheckUnloading, PushEvent,
       PushDetail, Leave, CallOriginal, Goto
  <2> QED
    BY <2>1, <2>2, <2>3 DEF Drained
<1>4. CASE \/ \E c \in Clients : UseDevice(c)
           \/ UNCHANGED vars
  BY <1>4, OthersLeaveDriver, OthersLeaveThreads DEF Drained
<1> QED
  BY <1>1, <1>2, <1>3, <1>4 DEF Next, ThreadStep

LEMMA InitRingInv == Init => RingInv
<1> SUFFICES ASSUME Init PROVE RingInv
  OBVIOUS
<1>1. CountedThreads = {}
  BY DEF Init, CountedThreads, Counted
<1>2. HooksCounted
  BY <1>1, FS_EmptySet DEF Init, HooksCounted
<1>3. RingsHeld /\ Drained
  BY DEF Init, RingsHeld, Drained, UnloadSteps, TeardownSteps
<1>4. HookComesLast
  BY DEF Init, HookComesLast, Rings
<1> QED
  BY <1>2, <1>3, <1>4, InitTypeOK DEF RingInv

LEMMA NextRingInv == RingInv /\ [Next]_vars => RingInv'
BY NextTypeOK, NextRingsHeld, NextHookComesLast, NextDrained DEF RingInv

(* Every variable keeps its type; above all gHooksActive never goes below  *)
(* zero, because it counts the threads inside SyscallCallback.             *)
THEOREM LifecycleTypeCorrect == Spec => []TypeOK
<1>1. RingInv => TypeOK
  BY DEF RingInv
<1> QED
  BY <1>1, InitRingInv, NextRingInv, PTL DEF Spec

(* However many threads are in the hook when the driver unloads, and       *)
(* whoever has the device open when a load fails: no ring is freed while   *)
(* somebody is about to write it or copies from it.                        *)
THEOREM RingsOutliveTheirUsers == Spec => []NoRingUseAfterFree
<1>1. RingInv => NoRingUseAfterFree
  <2> SUFFICES ASSUME RingInv PROVE NoRingUseAfterFree
    OBVIOUS
  <2>1. ASSUME NEW t \in Threads, pc[t] \in {"enqueue", "detail"}
        PROVE  Rings \subseteq held
    <3>1. driver \notin TeardownSteps \cup {"gone"}
      BY <2>1 DEF RingInv, Drained
    <3>2. original
      BY <2>1 DEF RingInv, HookComesLast
    <3>3. driver \in {"swapEntry", "callback", "running"} \/ driver \in UnloadSteps
      BY <3>1, <3>2 DEF RingInv, HookComesLast
    <3> QED
      BY <3>3 DEF RingInv, RingsHeld, UnloadSteps
  <2>2. ASSUME NEW c \in Clients, client[c] \in Rings
        PROVE  client[c] \in held
    <3>1. original /\ ~unloadPending
      BY <2>2 DEF RingInv, HookComesLast, Rings
    <3>2. driver \in {"swapEntry", "callback", "running"}
      BY <3>1 DEF RingInv, HookComesLast
    <3> QED
      BY <2>2, <3>2 DEF RingInv, RingsHeld
  <2> QED
    BY <2>1, <2>2 DEF NoRingUseAfterFree, Rings
<1> QED
  BY <1>1, InitRingInv, NextRingInv, PTL DEF Spec
-----------------------------------------------------------------------------
(* Nothing is left behind.                                                 *)

(* An early return of the load gives back exactly what is held.            *)
LEMMA EarlySteps ==
  ASSUME LoadLedger,
         \/ AllocateRing \/ AllocateDetailRing \/ BuildSyscallTable
         \/ CreateDevice \/ CreateLink
  PROVE  /\ ~original /\ ~_instance /\ ~trace /\ ~isActive
         /\ "manager" \notin held
         /\ \/ driver' = "gone" /\ held' = {}
            \/ driver' = "detailRing" /\ held' = {"ring"}
            \/ driver' \in {"table", "device"} /\ held' = Rings
            \/ driver' = "link" /\ held' = Rings \cup {"device"}
            \/ driver' = "publish" /\ held' = Rings \cup {"device", "link"}
         /\ UNCHANGED <<hal, manager, session>>
<1>1. CASE AllocateRing
  <2>1. driver = "ring" /\ UNCHANGED <<hal, manager, session>>
    BY <1>1 DEF AllocateRing, Acquire, Step
  <2>2. held = {} /\ ~original /\ ~_instance /\ ~trace /\ ~isActive
    BY <2>1 DEF LoadLedger, LoadSteps
  <2>3. \/ driver' = "gone" /\ held' = {}
        \/ driver' = "detailRing" /\ held' = {"ring"}
    BY <1>1, <2>2 DEF AllocateRing, Acquire, Step, Rings
  <2> QED
    BY <2>1, <2>2, <2>3 DEF Rings
<1>2. CASE AllocateDetailRing
  <2>1. driver = "detailRing" /\ UNCHANGED <<hal, manager, session>>
    BY <1>2 DEF AllocateDetailRing, Acquire, Step
  <2>2. held = {"ring"} /\ ~original /\ ~_instance /\ ~trace /\ ~isActive
    BY <2>1 DEF LoadLedger, LoadSteps
  <2>3. \/ driver' = "gone" /\ held' = {}
        \/ driver' = "table" /\ held' = Rings
    BY <1>2, <2>2 DEF AllocateDetailRing, Acquire, Step, Rings
  <2> QED
    BY <2>1, <2>2, <2>3 DEF Rings
<1>3. CASE BuildSyscallTable
  <2>1. driver = "table" /\ UNCHANGED <<hal, manager, session>>
    BY <1>3 DEF BuildSyscallTable, Step
  <2>2. held = Rings /\ ~original /\ ~_instance /\ ~trace /\ ~isActive
    BY <2>1 DEF LoadLedger, LoadSteps
  <2>3. \/ driver' = "gone" /\ held' = {}
        \/ driver' = "device" /\ held' = Rings
    BY <1>3, <2>2 DEF BuildSyscallTable, Step, Rings
  <2> QED
    BY <2>1, <2>2, <2>3 DEF Rings
<1>4. CASE CreateDevice
  <2>1. driver = "device" /\ UNCHANGED <<hal, manager, session>>
    BY <1>4 DEF CreateDevice, Acquire, Step
  <2>2. held = Rings /\ ~original /\ ~_instance /\ ~trace /\ ~isActive
    BY <2>1 DEF LoadLedger, LoadSteps
  <2>3. \/ driver' = "gone" /\ held' = {}
        \/ driver' = "link" /\ held' = Rings \cup {"device"}
    BY <1>4, <2>2 DEF CreateDevice, Acquire, Step, Rings
  <2> QED
    BY <2>1, <2>2, <2>3 DEF Rings
<1>5. CASE CreateLink
  <2>1. driver = "link" /\ UNCHANGED <<hal, manager, session>>
    BY <1>5 DEF CreateLink, Acquire, Step
  <2>2. held = Rings \cup {"device"} /\ ~original /\ ~_instance /\ ~trace /\ ~isActive
    BY <2>1 DEF LoadLedger, LoadSteps
  <2>3. \/ driver' = "gone" /\ held' = {}
        \/ driver' = "publish" /\ held' = Rings \cup {"device", "link"}
    BY <1>5, <2>2 DEF CreateLink, Acquire, Step, Rings
  <2> QED
    BY <2>1, <2>2, <2>3 DEF Rings
<1> QED
  BY <1>1, <1>2, <1>3, <1>4, <1>5

LEMMA EarlyLedgers ==
  ASSUME TypeOK, LoadLedger, ManagerLedger, UnloadLedger,
         \/ AllocateRing \/ AllocateDetailRing \/ BuildSyscallTable
         \/ CreateDevice \/ CreateLink
  PROVE  LoadLedger' /\ ManagerLedger' /\ UnloadLedger'
<1>1. /\ ~original' /\ ~_instance' /\ ~trace' /\ ~isActive'
      /\ halEntry' = "original"
  BY EarlySteps DEF TypeOK, UnloadLedger, hal, manager, session
<1>2. \/ driver' = "gone" /\ held' = {}
      \/ driver' = "detailRing" /\ held' = {"ring"}
      \/ driver' \in {"table", "device"} /\ held' = Rings
      \/ driver' = "link" /\ held' = Rings \cup {"device"}
      \/ driver' = "publish" /\ held' = Rings \cup {"device", "link"}
  BY EarlySteps
<1>3. LoadLedger'
  BY <1>1, <1>2 DEF LoadLedger
<1>4. ManagerLedger'
  BY <1>1, <1>2 DEF ManagerLedger, TeardownSteps, Rings
<1>5. UnloadLedger'
  BY <1>1, <1>2 DEF UnloadLedger, TeardownSteps
<1> QED
  BY <1>3, <1>4, <1>5

LEMMA DriverStepLoadLedger ==
  ASSUME TypeOK, HookComesLast, LoadLedger, ManagerLedger, UnloadLedger,
         DriverStep
  PROVE  LoadLedger'
<1> USE DEF LoadLedger, Step, hal, manager, session, LoadSteps, UnloadSteps, TeardownSteps, Rings
<1>1. CASE \/ AllocateRing \/ AllocateDetailRing \/ BuildSyscallTable
           \/ CreateDevice \/ CreateLink
  BY <1>1, EarlyLedgers
<1>2. CASE Publish
  BY <1>2 DEF Publish
<1>3. CASE NewManager
  <2>1. driver = "manager" /\ driver' \in {"trace", "unload"}
    BY <1>3 DEF NewManager
  <2>2. UNCHANGED original
    BY <1>3 DEF NewManager
  <2> QED
    BY <2>1, <2>2
<1>4. CASE StartTrace
  BY <1>4 DEF StartTrace
<1>5. CASE OpenPmcCounter
  BY <1>5 DEF OpenPmcCounter
<1>6. CASE SaveEntry
  BY <1>6 DEF SaveEntry
<1>7. CASE SwapEntry
  BY <1>7 DEF SwapEntry
<1>8. CASE SetCallback
  BY <1>8 DEF SetCallback
<1>9. CASE BeginUnload
  BY <1>9 DEF BeginUnload
<1>10. CASE StopCapture
  BY <1>10 DEF StopCapture
<1>11. CASE GetInstance
  BY <1>11 DEF GetInstance
<1>12. CASE EndTrace("endTrace", "restoreEntry")
  BY <1>12 DEF EndTrace
<1>13. CASE RestoreEntry
  BY <1>13 DEF RestoreEntry
<1>14. CASE EndTrace("endTraceAgain", "deleteManager")
  BY <1>14 DEF EndTrace
<1>15. CASE DeleteManager
  BY <1>15 DEF DeleteManager
<1>16. CASE ClearInstance
  BY <1>16 DEF ClearInstance
<1>17. CASE WaitForHooks
  BY <1>17 DEF WaitForHooks
<1>18. CASE GiveBack("deleteLink", "link", "deleteDevice")
  BY <1>18 DEF GiveBack
<1>19. CASE GiveBack("deleteDevice", "device", "freeRing")
  BY <1>19 DEF GiveBack
<1>20. CASE GiveBack("freeRing", "ring", "freeDetailRing")
  BY <1>20 DEF GiveBack
<1>21. CASE GiveBack("freeDetailRing", "detailRing", "gone")
  BY <1>21 DEF GiveBack
<1> QED
  BY <1>1, <1>2, <1>3, <1>4, <1>5, <1>6, <1>7, <1>8, <1>9, <1>10, <1>11,
     <1>12, <1>13, <1>14, <1>15, <1>16, <1>17, <1>18, <1>19, <1>20, <1>21
     DEF DriverStep

LEMMA DriverStepManagerLedger ==
  ASSUME TypeOK, HookComesLast, LoadLedger, ManagerLedger, UnloadLedger,
         DriverStep
  PROVE  ManagerLedger'
<1> USE DEF ManagerLedger, Step, hal, manager, session, TeardownSteps, Rings
<1>1. CASE \/ AllocateRing \/ AllocateDetailRing \/ BuildSyscallTable
           \/ CreateDevice \/ CreateLink
  BY <1>1, EarlyLedgers
<1>2. CASE Publish
  BY <1>2 DEF Publish
<1>3. CASE NewManager
  <2>1. driver = "manager" /\ ~original /\ ~isActive
    BY <1>3 DEF NewManager, LoadLedger, LoadSteps
  <2>2. ~original' /\ ~isActive'
    BY <1>3, <2>1 DEF NewManager
  <2> QED
    BY <1>3, <2>1, <2>2 DEF NewManager
<1>4. CASE StartTrace
  BY <1>4 DEF StartTrace
<1>5. CASE OpenPmcCounter
  BY <1>5 DEF OpenPmcCounter
<1>6. CASE SaveEntry
  BY <1>6 DEF SaveEntry
<1>7. CASE SwapEntry
  BY <1>7 DEF SwapEntry
<1>8. CASE SetCallback
  BY <1>8 DEF SetCallback
<1>9. CASE BeginUnload
  BY <1>9 DEF BeginUnload
<1>10. CASE StopCapture
  BY <1>10 DEF StopCapture
<1>11. CASE GetInstance
  BY <1>11 DEF GetInstance
<1>12. CASE EndTrace("endTrace", "restoreEntry")
  BY <1>12 DEF EndTrace
<1>13. CASE RestoreEntry
  BY <1>13 DEF RestoreEntry
<1>14. CASE EndTrace("endTraceAgain", "deleteManager")
  BY <1>14 DEF EndTrace
<1>15. CASE DeleteManager
  BY <1>15 DEF DeleteManager
<1>16. CASE ClearInstance
  BY <1>16 DEF ClearInstance
<1>17. CASE WaitForHooks
  BY <1>17 DEF WaitForHooks
<1>18. CASE GiveBack("deleteLink", "link", "deleteDevice")
  BY <1>18 DEF GiveBack
<1>19. CASE GiveBack("deleteDevice", "device", "freeRing")
  BY <1>19 DEF GiveBack
<1>20. CASE GiveBack("freeRing", "ring", "freeDetailRing")
  BY <1>20 DEF GiveBack
<1>21. CASE GiveBack("freeDetailRing", "detailRing", "gone")
  BY <1>21 DEF GiveBack
<1> QED
  BY <1>1, <1>2, <1>3, <1>4, <1>5, <1>6, <1>7, <1>8, <1>9, <1>10, <1>11,
     <1>12, <1>13, <1>14, <1>15, <1>16, <1>17, <1>18, <1>19, <1>20, <1>21
     DEF DriverStep

LEMMA DriverStepUnloadLedger ==
  ASSUME TypeOK, HookComesLast, LoadLedger, ManagerLedger, UnloadLedger,
         DriverStep
  PROVE  UnloadLedger'
<1> USE DEF UnloadLedger, Step, hal, manager, session, TeardownSteps, Resources, Rings
<1>t. halEntry \in {"hook", "original"}
  BY DEF TypeOK
<1>1. CASE \/ AllocateRing \/ AllocateDetailRing \/ BuildSyscallTable
           \/ CreateDevice \/ CreateLink
  BY <1>1, EarlyLedgers
<1>2. CASE Publish
  BY <1>2 DEF Publish
<1>3. CASE NewManager
  <2>1. driver' \in {"trace", "unload"} /\ UNCHANGED <<hal, session>>
    BY <1>3 DEF NewManager
  <2> QED
    BY <2>1
<1>4. CASE StartTrace
  BY <1>4 DEF StartTrace
<1>5. CASE OpenPmcCounter
  BY <1>5 DEF OpenPmcCounter
<1>6. CASE SaveEntry
  BY <1>6 DEF SaveEntry
<1>7. CASE SwapEntry
  <2>1. original /\ driver' = "callback"
    BY <1>7 DEF SwapEntry, HookComesLast
  <2> QED
    BY <1>7, <2>1 DEF SwapEntry
<1>8. CASE SetCallback
  BY <1>8 DEF SetCallback
<1>9. CASE BeginUnload
  BY <1>9 DEF BeginUnload
<1>10. CASE StopCapture
  BY <1>10 DEF StopCapture
<1>11. CASE GetInstance
  <2>1. driver = "destroy" /\ UNCHANGED <<hal, session>>
    BY <1>11 DEF GetInstance
  <2>2. CASE driver' = "endTrace"
    BY <2>1, <2>2
  <2>3. CASE ~_instance /\ driver' = "wait"
    <3>1. ~original /\ ~isActive /\ halEntry = "original"
      BY <1>t, <2>1, <2>3 DEF ManagerLedger
    <3> QED
      BY <2>1, <2>3, <3>1
  <2> QED
    BY <1>11, <2>2, <2>3 DEF GetInstance
<1>12. CASE EndTrace("endTrace", "restoreEntry")
  BY <1>12 DEF EndTrace
<1>13. CASE RestoreEntry
  <2>1. halEntry' = "original" /\ driver' = "endTraceAgain"
    BY <1>13, <1>t DEF RestoreEntry
  <2> QED
    BY <1>13, <2>1 DEF RestoreEntry
<1>14. CASE EndTrace("endTraceAgain", "deleteManager")
  BY <1>14 DEF EndTrace
<1>15. CASE DeleteManager
  BY <1>15 DEF DeleteManager
<1>16. CASE ClearInstance
  BY <1>16 DEF ClearInstance
<1>17. CASE WaitForHooks
  BY <1>17 DEF WaitForHooks
<1>18. CASE GiveBack("deleteLink", "link", "deleteDevice")
  BY <1>18 DEF GiveBack
<1>19. CASE GiveBack("deleteDevice", "device", "freeRing")
  BY <1>19 DEF GiveBack
<1>20. CASE GiveBack("freeRing", "ring", "freeDetailRing")
  BY <1>20 DEF GiveBack
<1>21. CASE GiveBack("freeDetailRing", "detailRing", "gone")
  <2>1. held \subseteq {"detailRing"}
    BY <1>21 DEF GiveBack, TypeOK, ManagerLedger
  <2>2. held' = {} /\ driver' = "gone"
    BY <1>21, <2>1 DEF GiveBack
  <2> QED
    BY <1>21, <2>2 DEF GiveBack
<1> QED
  BY <1>1, <1>2, <1>3, <1>4, <1>5, <1>6, <1>7, <1>8, <1>9, <1>10, <1>11,
     <1>12, <1>13, <1>14, <1>15, <1>16, <1>17, <1>18, <1>19, <1>20, <1>21
     DEF DriverStep

LeftoverInv == RingInv /\ LoadLedger /\ ManagerLedger /\ UnloadLedger

LEMMA InitLeftoverInv == Init => LeftoverInv
<1> SUFFICES ASSUME Init PROVE LoadLedger /\ ManagerLedger /\ UnloadLedger
  BY InitRingInv DEF LeftoverInv
<1>1. LoadLedger
  BY DEF Init, LoadLedger
<1>2. ManagerLedger
  BY DEF Init, ManagerLedger, TeardownSteps
<1>3. UnloadLedger
  BY DEF Init, UnloadLedger, TeardownSteps
<1> QED
  BY <1>1, <1>2, <1>3

LEMMA NextLeftoverInv == LeftoverInv /\ [Next]_vars => LeftoverInv'
<1> SUFFICES ASSUME LeftoverInv, [Next]_vars
             PROVE  LoadLedger' /\ ManagerLedger' /\ UnloadLedger'
  BY NextRingInv DEF LeftoverInv
<1>1. CASE DriverStep
  BY <1>1, DriverStepLoadLedger, DriverStepManagerLedger, DriverStepUnloadLedger
     DEF LeftoverInv, RingInv
<1>2. CASE RequestUnload
  <2>1. driver = "running" /\ driver' = "unload"
    BY <1>2 DEF RequestUnload, Step
  <2>2. UNCHANGED <<held, _instance, original, halEntry, trace, isActive,
                    stopFailed>>
    BY <1>2 DEF RequestUnload, manager, hal, session
  <2>3. LoadLedger'
    BY <2>1 DEF LoadLedger, LoadSteps
  <2>4. ManagerLedger'
    BY <2>1, <2>2 DEF LeftoverInv, ManagerLedger, TeardownSteps
  <2>5. UnloadLedger'
    BY <2>1, <2>2 DEF LeftoverInv, UnloadLedger, TeardownSteps
  <2> QED
    BY <2>3, <2>4, <2>5
<1>3. CASE \/ \E t \in Threads : ThreadStep(t)
           \/ \E c \in Clients : UseDevice(c)
           \/ UNCHANGED vars
  BY <1>3, OthersLeaveDriver
     DEF LeftoverInv, LoadLedger, ManagerLedger, UnloadLedger
<1> QED
  BY <1>1, <1>2, <1>3 DEF Next, ThreadStep

(* Whatever step of the load fails, and however an unload interleaves with *)
(* the threads in the hook: in the end the driver holds no resource, its   *)
(* hook is out of the table, and the kernel logger runs on only if         *)
(* stopping it failed.                                                     *)
THEOREM DriverLeavesNothing == Spec => []NothingLeftBehind
<1>1. LeftoverInv => NothingLeftBehind
  BY DEF LeftoverInv, ManagerLedger, UnloadLedger, NothingLeftBehind
<1> QED
  BY <1>1, InitLeftoverInv, NextLeftoverInv, PTL DEF Spec
-----------------------------------------------------------------------------
(* Two facts the hook and the switch of the capture rest on.               *)

(* No thread is anywhere in the hook before the original entry is saved:   *)
(* the call the hook ends in always has a target, also while a load fails  *)
(* or an unload takes the hook out of the table.                           *)
THEOREM HookKnowsOriginal == Spec => []OriginalKnown
<1>1. RingInv => OriginalKnown
  BY DEF RingInv, HookComesLast, OriginalKnown
<1> QED
  BY <1>1, InitRingInv, NextRingInv, PTL DEF Spec

LEMMA SwitchUntouched ==
  ASSUME TypeOK, NoCaptureWithoutGui,
         DriverStep \/ RequestUnload \/ (\E t \in Threads : ThreadStep(t))
           \/ UNCHANGED vars
  PROVE  NoCaptureWithoutGui'
<1>1. CASE StopCapture
  BY <1>1 DEF StopCapture, NoCaptureWithoutGui
<1>2. CASE DriverStep /\ ~StopCapture
  <2>1. UNCHANGED <<gCaptureEnabled, client, asked>>
    BY <1>2 DEF DriverStep, AllocateRing, AllocateDetailRing, Acquire,
       BuildSyscallTable, CreateDevice, CreateLink, Publish, NewManager,
       StartTrace, OpenPmcCounter, SaveEntry, SwapEntry, SetCallback,
       BeginUnload, GetInstance, EndTrace, RestoreEntry, DeleteManager,
       ClearInstance, WaitForHooks, GiveBack, globals, devices
  <2> QED
    BY <2>1 DEF NoCaptureWithoutGui
<1>3. CASE RequestUnload \/ (\E t \in Threads : ThreadStep(t)) \/ UNCHANGED vars
  <2>1. UNCHANGED <<gCaptureEnabled, client, asked>>
    BY <1>3 DEF RequestUnload, ThreadStep, EnterHook, InHook, CheckInstance,
       ReadManager, CheckUnloading, CountHook, RecheckUnloading, PushEvent,
       PushDetail, Leave, CallOriginal, ThreadUnchanged, vars, globals, devices
  <2> QED
    BY <2>1 DEF NoCaptureWithoutGui
<1> QED
  BY <1>1, <1>2, <1>3

LEMMA ClientKeepsSwitch ==
  ASSUME TypeOK, NoCaptureWithoutGui, NEW c \in Clients, UseDevice(c)
  PROVE  NoCaptureWithoutGui'
<1> USE DEF TypeOK, NoCaptureWithoutGui
<1>1. CASE OpenDevice(c) \/ CleanupDevice(c)
  <2>1. gCaptureEnabled' = FALSE
    BY <1>1 DEF OpenDevice, CleanupDevice
  <2> QED
    BY <2>1
<1>2. ASSUME NEW capture \in BOOLEAN, SetConfig(c, capture)
      PROVE  NoCaptureWithoutGui'
  <2>1. gCaptureEnabled' = capture /\ client'[c] = "open" /\ asked'[c] = capture
    BY <1>2 DEF SetConfig
  <2> QED
    BY <2>1
<1>3. ASSUME EndRead(c) \/ \E ring \in Rings : BeginRead(c, ring)
      PROVE  NoCaptureWithoutGui'
  <2>1. /\ UNCHANGED <<gCaptureEnabled, asked>>
        /\ \A d \in Clients : client[d] # "closed" => client'[d] # "closed"
    BY <1>3 DEF EndRead, BeginRead, Rings
  <2> QED
    BY <2>1
<1> QED
  BY <1>1, <1>2, <1>3 DEF UseDevice

(* However many processes open the device, configure it and end in         *)
(* whatever order, the driver captures only while one of those connected   *)
(* asked for it.                                                           *)
THEOREM CaptureNeedsGui == Spec => []NoCaptureWithoutGui
<1>1. Init => NoCaptureWithoutGui
  BY DEF Init, NoCaptureWithoutGui
<1>2. TypeOK /\ NoCaptureWithoutGui /\ [Next]_vars => NoCaptureWithoutGui'
  BY SwitchUntouched, ClientKeepsSwitch DEF Next, ThreadStep
<1> QED
  BY <1>1, <1>2, LifecycleTypeCorrect, PTL DEF Spec
=============================================================================
