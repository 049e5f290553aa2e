---------------------------- MODULE CaptureRing ----------------------------
(***************************************************************************)
(* The two kernel rings of swatcher.sys and everyone who touches them: the *)
(* threads that run SyscallCallback, the collector thread of smonitor.exe  *)
(* that drains the rings through IOCTLs, and the handlers that empty them  *)
(* (IRP_MJ_CREATE, SCALL_IOCTL_SET_CONFIG).                                *)
(*                                                                         *)
(* Each action is one atomic step of the code: an Interlocked operation,   *)
(* or one section under gRingLock.  Whether the filters let a call through *)
(* is a free choice here (module CaptureFilter decides it step by step);   *)
(* an event is its sequence number and thread, a detail its sequence.      *)
(***************************************************************************)
EXTENDS Integers, Sequences, FiniteSets

CONSTANTS
  Threads,         (* threads whose system calls reach SyscallCallback      *)
  RingEntries,     (* LOG_RING_ENTRIES, 65536 in the build                  *)
  DetailEntries,   (* DETAIL_RING_ENTRIES, 32768 in the build               *)
  IndexModulus,    (* ULONG indices wrap at 2^32; a small multiple here     *)
  EventBatch,      (* events one READ_EVENTS can return, 4096 in source.rs  *)
  DetailBatch,     (* details one READ_DETAILS can return, 8192             *)
  MaxSequence,     (* bound on gSequence: how many events are ever stamped  *)
  MaxFaults        (* bound on the faults SyscallCallback's __except sees   *)

ASSUME ThreadsAssumption == IsFiniteSet(Threads)

ASSUME RingAssumption ==
  /\ RingEntries \in Nat \ {0}
  /\ DetailEntries \in Nat \ {0}
  /\ IndexModulus \in Nat
  /\ RingEntries < IndexModulus
  /\ DetailEntries < IndexModulus
  /\ IndexModulus % RingEntries = 0
  /\ IndexModulus % DetailEntries = 0

ASSUME BoundAssumption ==
  /\ EventBatch \in Nat \ {0}
  /\ DetailBatch \in Nat \ {0}
  /\ MaxSequence \in Nat
  /\ MaxFaults \in Nat

VARIABLES
  gRing, gHead, gTail,                    (* events, under gRingLock        *)
  gDetailRing, gDetailHead, gDetailTail,  (* details, under the same lock   *)
  gSequence, gCaptured, gDelivered, gDropped, gDetailsDropped,
  gCaptureEnabled,
  pc,                (* where each thread is inside SyscallCallback          *)
  event,             (* the event each thread holds on its stack             *)
  collector,         (* where the collector thread is                        *)
  copied,            (* READ_EVENTS: entries copied, not yet in gDelivered   *)
  received,          (* history: the events handed to the collector          *)
  receivedDetails,   (* history: the details handed to the collector         *)
  discarded,         (* history: how many queued events were flushed away    *)
  faulted            (* history: the part of gDetailsDropped due to faults   *)

eventRing  == <<gRing, gHead, gTail>>
detailRing == <<gDetailRing, gDetailHead, gDetailTail>>
counters   == <<gSequence, gCaptured, gDelivered, gDropped, gDetailsDropped>>
callback   == <<pc, event>>
reader     == <<collector, copied, received, receivedDetails>>
history    == <<discarded, faulted>>

vars == <<eventRing, detailRing, counters, gCaptureEnabled, callback, reader,
          history>>

Event     == [sequence : 1..MaxSequence, tid : Threads]
NoEvent   == [sequence |-> 0, tid |-> 0]
Index     == 0..(IndexModulus - 1)

(* Mutant of Next32: the index is never reduced.                           *)
Next32Unreduced(i) == i + 1

(* ULONG arithmetic on the free-running indices. *)
Next32(i)       == (i + 1) % IndexModulus
Queued(h, t)    == (h - t) % IndexModulus
EventSlot(i)    == i % RingEntries
DetailSlot(i)   == i % DetailEntries
Smaller(a, b)   == IF a < b THEN a ELSE b
-----------------------------------------------------------------------------
Init ==
  /\ gRing = [s \in 0..(RingEntries - 1) |-> NoEvent]
  /\ gDetailRing = [s \in 0..(DetailEntries - 1) |-> 0]
  /\ gHead = 0 /\ gTail = 0 /\ gDetailHead = 0 /\ gDetailTail = 0
  /\ gSequence = 0 /\ gCaptured = 0 /\ gDelivered = 0
  /\ gDropped = 0 /\ gDetailsDropped = 0
  /\ gCaptureEnabled = FALSE
  /\ pc = [t \in Threads |-> "user"]
  /\ event = [t \in Threads |-> NoEvent]
  /\ collector = "closed"
  /\ copied = 0
  /\ received = << >>
  /\ receivedDetails = << >>
  /\ discarded = 0 /\ faulted = 0
-----------------------------------------------------------------------------
(* A thread inside SyscallCallback.                                        *)

Goto(t, from, to) == pc[t] = from /\ pc' = [pc EXCEPT ![t] = to]

(* EnqueueEvent finds capture enabled and every filter lets the call pass. *)
Admit(t) ==
  /\ gCaptureEnabled
  /\ Goto(t, "user", "admitted")
  /\ UNCHANGED <<eventRing, detailRing, counters, gCaptureEnabled, event,
                 reader, history>>

(* event.sequence = InterlockedIncrement64(&gSequence), outside the lock.  *)
Stamp(t) ==
  /\ gSequence < MaxSequence
  /\ Goto(t, "admitted", "stamped")
  /\ gSequence' = gSequence + 1
  /\ event' = [event EXCEPT ![t] = [sequence |-> gSequence + 1, tid |-> t]]
  /\ UNCHANGED <<eventRing, detailRing, gCaptured, gDelivered, gDropped,
                 gDetailsDropped, gCaptureEnabled, reader, history>>

EventRingFull == Queued(gHead, gTail) >= RingEntries

(* Mutant of PushEvent: a full ring drops its newest event.                *)
PushEventOverNewest(t) ==
  /\ Goto(t, "stamped", "pushed")
  /\ IF EventRingFull
     THEN /\ gDropped' = gDropped + 1
          /\ gRing' = [gRing EXCEPT ![EventSlot(gHead - 1)] = event[t]]
          /\ UNCHANGED gHead
     ELSE /\ gRing' = [gRing EXCEPT ![EventSlot(gHead)] = event[t]]
          /\ gHead' = Next32(gHead)
          /\ UNCHANGED gDropped
  /\ UNCHANGED <<gTail, detailRing, gSequence, gCaptured, gDelivered,
                 gDetailsDropped, gCaptureEnabled, event, reader, history>>

(* Mutant of PushEvent: the loss is not counted.                           *)
PushEventUncounted(t) ==
  /\ Goto(t, "stamped", "pushed")
  /\ gTail' = IF EventRingFull THEN Next32(gTail) ELSE gTail
  /\ gRing' = [gRing EXCEPT ![EventSlot(gHead)] = event[t]]
  /\ gHead' = Next32(gHead)
  /\ UNCHANGED <<detailRing, counters, gCaptureEnabled, event, reader,
                 history>>

(* The section of EnqueueEvent under gRingLock: a full ring gives up its   *)
(* oldest event.                                                           *)
PushEvent(t) ==
  /\ Goto(t, "stamped", "pushed")
  /\ IF EventRingFull
     THEN gTail' = Next32(gTail) /\ gDropped' = gDropped + 1
     ELSE UNCHANGED <<gTail, gDropped>>
  /\ gRing' = [gRing EXCEPT ![EventSlot(gHead)] = event[t]]
  /\ gHead' = Next32(gHead)
  /\ UNCHANGED <<detailRing, gSequence, gCaptured, gDelivered,
                 gDetailsDropped, gCaptureEnabled, event, reader, history>>

(* InterlockedIncrement64(&gCaptured), after the lock is released.         *)
CountCaptured(t) ==
  /\ Goto(t, "pushed", "captured")
  /\ gCaptured' = gCaptured + 1
  /\ UNCHANGED <<eventRing, detailRing, gSequence, gDelivered, gDropped,
                 gDetailsDropped, gCaptureEnabled, event, reader, history>>

Return(t) == Goto(t, "captured", "user") /\ event' = [event EXCEPT ![t] = NoEvent]

(* Not at PASSIVE_LEVEL, or the decoder has nothing to say of this call:   *)
(* EnqueueDetail returns on an empty text.                                 *)
NoDetail(t) ==
  /\ Return(t)
  /\ UNCHANGED <<eventRing, detailRing, counters, gCaptureEnabled, reader,
                 history>>

(* A fault below SyscallCallback is counted there as a lost detail, also   *)
(* when it is the argument rules that faulted and nothing was queued.      *)
CountFault ==
  /\ faulted < MaxFaults
  /\ faulted' = faulted + 1
  /\ gDetailsDropped' = gDetailsDropped + 1
  /\ UNCHANGED <<eventRing, detailRing, gSequence, gCaptured, gDelivered,
                 gDropped, gCaptureEnabled, reader, discarded>>

FilterFault(t) ==
  /\ gCaptureEnabled
  /\ pc[t] = "user"
  /\ CountFault
  /\ UNCHANGED callback

DecoderFault(t) == Return(t) /\ CountFault

(* Mutant of DetailRingFull: one entry too many.                           *)
DetailRingOverfull == Queued(gDetailHead, gDetailTail) > DetailEntries

DetailRingFull == Queued(gDetailHead, gDetailTail) >= DetailEntries

(* Mutant of PushDetail: the arguments are decoded before the push.        *)
PushDetailEarly(t) ==
  /\ pc[t] = "stamped"
  /\ gDetailRing' =
       [gDetailRing EXCEPT ![DetailSlot(gDetailHead)] = event[t].sequence]
  /\ gDetailHead' = Next32(gDetailHead)
  /\ ~DetailRingFull
  /\ UNCHANGED <<eventRing, gDetailTail, counters, gCaptureEnabled, callback,
                 reader, history>>

(* The section of EnqueueDetail under gRingLock.                           *)
PushDetail(t) ==
  /\ Return(t)
  /\ IF DetailRingFull
     THEN /\ gDetailTail' = Next32(gDetailTail)
          /\ gDetailsDropped' = gDetailsDropped + 1
     ELSE UNCHANGED <<gDetailTail, gDetailsDropped>>
  /\ gDetailRing' =
       [gDetailRing EXCEPT ![DetailSlot(gDetailHead)] = event[t].sequence]
  /\ gDetailHead' = Next32(gDetailHead)
  /\ UNCHANGED <<eventRing, gSequence, gCaptured, gDelivered, gDropped,
                 gCaptureEnabled, reader, history>>
-----------------------------------------------------------------------------
(* The collector thread and the driver's handlers it runs.                 *)

CollectorStep(from, to) == collector = from /\ collector' = to

(* CreateFileW: IRP_MJ_CREATE stops capture before it empties the rings.   *)
OpenDevice ==
  /\ CollectorStep("closed", "flush")
  /\ gCaptureEnabled' = FALSE
  /\ UNCHANGED <<eventRing, detailRing, counters, callback, copied, received,
                 receivedDetails, history>>

(* SET_CONFIG: the flush that follows a change of the filters is a section *)
(* of its own, after the exchange of gCaptureEnabled.                      *)
SetConfig(capture, filtersChanged) ==
  /\ CollectorStep("commands", IF filtersChanged THEN "flush" ELSE "commands")
  /\ gCaptureEnabled' = capture
  /\ UNCHANGED <<eventRing, detailRing, counters, callback, copied, received,
                 receivedDetails, history>>

(* gTail = gHead and gDetailTail = gDetailHead, under gRingLock.           *)
FlushRings ==
  /\ CollectorStep("flush", "commands")
  /\ gTail' = gHead
  /\ gDetailTail' = gDetailHead
  /\ discarded' = discarded + Queued(gHead, gTail)
  /\ UNCHANGED <<gRing, gHead, gDetailRing, gDetailHead, counters, faulted,
                 gCaptureEnabled, callback, copied, received, receivedDetails>>

(* try_recv returns Empty: the loop goes on to read the rings.             *)
NoCommand ==
  /\ CollectorStep("commands", "readEvents")
  /\ UNCHANGED <<eventRing, detailRing, counters, gCaptureEnabled, callback,
                 copied, received, receivedDetails, history>>

(* Mutant of BatchSize: the last entry of the buffer is left free.         *)
BatchSizeShort(h, t, limit) == Smaller(Queued(h, t), limit - 1)

BatchSize(h, t, limit) == Smaller(Queued(h, t), limit)

(* Mutant of ReadEvents: the tail stays on the last entry copied.          *)
ReadEventsTwice ==
  LET n == BatchSize(gHead, gTail, EventBatch) IN
  /\ CollectorStep("readEvents", "countDelivered")
  /\ received' = received \o [i \in 1..n |-> gRing[EventSlot(gTail + i - 1)]]
  /\ gTail' = IF n > 1 THEN (gTail + n - 1) % IndexModulus ELSE gTail
  /\ copied' = n
  /\ UNCHANGED <<gRing, gHead, detailRing, counters, gCaptureEnabled, callback,
                 receivedDetails, history>>

(* READ_EVENTS copies from the tail under gRingLock.                       *)
ReadEvents ==
  LET n == BatchSize(gHead, gTail, EventBatch) IN
  /\ CollectorStep("readEvents", "countDelivered")
  /\ received' = received \o [i \in 1..n |-> gRing[EventSlot(gTail + i - 1)]]
  /\ gTail' = (gTail + n) % IndexModulus
  /\ copied' = n
  /\ UNCHANGED <<gRing, gHead, detailRing, counters, gCaptureEnabled, callback,
                 receivedDetails, history>>

(* InterlockedAdd64(&gDelivered, copied), after the lock is released.      *)
CountDelivered ==
  /\ CollectorStep("countDelivered", "readDetails")
  /\ gDelivered' = gDelivered + copied
  /\ copied' = 0
  /\ UNCHANGED <<eventRing, detailRing, gSequence, gCaptured, gDropped,
                 gDetailsDropped, gCaptureEnabled, callback, received,
                 receivedDetails, history>>

(* READ_DETAILS, then the loop starts over.                                *)
ReadDetails ==
  LET n == BatchSize(gDetailHead, gDetailTail, DetailBatch) IN
  /\ CollectorStep("readDetails", "commands")
  /\ receivedDetails' = receivedDetails \o
       [i \in 1..n |-> gDetailRing[DetailSlot(gDetailTail + i - 1)]]
  /\ gDetailTail' = (gDetailTail + n) % IndexModulus
  /\ UNCHANGED <<eventRing, gDetailRing, gDetailHead, counters,
                 gCaptureEnabled, callback, copied, received, history>>

(* Stop, a dropped sender, or the end of the process between two requests: *)
(* IRP_MJ_CLEANUP stops capture and leaves the rings as they are.          *)
CloseDevice ==
  /\ collector \in {"commands", "readEvents", "readDetails"}
  /\ collector' = "closed"
  /\ gCaptureEnabled' = FALSE
  /\ UNCHANGED <<eventRing, detailRing, counters, callback, copied, received,
                 receivedDetails, history>>
-----------------------------------------------------------------------------
SyscallCallback(t) ==
  \/ Admit(t)  \/ Stamp(t) \/ PushEvent(t) \/ CountCaptured(t)
  \/ FilterFault(t) \/ DecoderFault(t) \/ NoDetail(t) \/ PushDetail(t)

Collector ==
  \/ OpenDevice \/ FlushRings \/ NoCommand
  \/ \E capture, filtersChanged \in BOOLEAN : SetConfig(capture, filtersChanged)
  \/ ReadEvents \/ CountDelivered \/ ReadDetails
  \/ CloseDevice

Next == (\E t \in Threads : SyscallCallback(t)) \/ Collector

Spec == Init /\ [][Next]_vars
-----------------------------------------------------------------------------
(* What the rings hold, oldest first.                                      *)
QueuedEvents ==
  [i \in 1..Queued(gHead, gTail) |->
     gRing[EventSlot((gTail + i - 1) % IndexModulus)]]
QueuedDetails ==
  [i \in 1..Queued(gDetailHead, gDetailTail) |->
     gDetailRing[DetailSlot((gDetailTail + i - 1) % IndexModulus)]]

PushedUncounted == {t \in Threads : pc[t] = "pushed"}

PCs == {"user", "admitted", "stamped", "pushed", "captured"}

CollectorStates ==
  {"closed", "flush", "commands", "readEvents", "countDelivered", "readDetails"}

(* Every variable stays in the range its C declaration and its use give    *)
(* it; indices are ULONGs reduced modulo IndexModulus.                     *)
TypeOK ==
  /\ gRing \in [0..(RingEntries - 1) -> Event \cup {NoEvent}]
  /\ gDetailRing \in [0..(DetailEntries - 1) -> 0..MaxSequence]
  /\ gHead \in Index /\ gTail \in Index
  /\ gDetailHead \in Index /\ gDetailTail \in Index
  /\ gSequence \in 0..MaxSequence
  /\ gCaptured \in Nat /\ gDelivered \in Nat
  /\ gDropped \in Nat /\ gDetailsDropped \in Nat
  /\ gCaptureEnabled \in BOOLEAN
  /\ pc \in [Threads -> PCs]
  /\ event \in [Threads -> Event \cup {NoEvent}]
  /\ collector \in CollectorStates
  /\ copied \in Nat
  /\ received \in Seq(Event \cup {NoEvent})
  /\ receivedDetails \in Seq(0..MaxSequence)
  /\ discarded \in Nat
  /\ faulted \in 0..MaxFaults

(* Neither ring ever claims more entries than its array has, across index  *)
(* wrap-around and whatever pushes, reads and flushes interleave; else     *)
(* READ_EVENTS would hand out overwritten slots.                           *)
RingBounded ==
  /\ Queued(gHead, gTail) <= RingEntries
  /\ Queued(gDetailHead, gDetailTail) <= DetailEntries

(* No event is lost silently: what GET_STATS calls captured is, up to the  *)
(* callbacks between the push and its counter and the read between its     *)
(* copy and its counter, the events queued, dropped, delivered or flushed. *)
LossLedger ==
  gCaptured + Cardinality(PushedUncounted)
    = Queued(gHead, gTail) + gDropped + gDelivered + copied + discarded

(* The calls of one thread reach the collector in the order it made them,  *)
(* each at most once, although the sequence number is taken outside the    *)
(* lock that orders the ring.                                              *)
PerThreadOrder ==
  LET stream == received \o QueuedEvents IN
  \A i, j \in 1..Len(stream) :
    i < j /\ stream[i].tid = stream[j].tid
      => stream[i].sequence < stream[j].sequence

(* A detail never runs ahead of its event into the driver: by the time a   *)
(* detail can be read, its event was handed over, is queued, or is one of  *)
(* those counted as dropped or flushed; no detail is read twice.           *)
DetailAfterEvent ==
  LET details == receivedDetails \o QueuedDetails
      unpushed == {event[t].sequence : t \in {u \in Threads : pc[u] = "stamped"}}
  IN /\ \A i \in 1..Len(details) : details[i] \in (1..gSequence) \ unpushed
     /\ \A i, j \in 1..Len(details) : i # j => details[i] # details[j]

(* Each ring is a bounded queue that loses only its oldest entry, counts   *)
(* every loss, and never gives an entry twice (LossyQueue).  For details   *)
(* the losses of the ring are gDetailsDropped less the faults counted in   *)
(* the same variable.                                                      *)
EventQueue == INSTANCE LossyQueue WITH
  Capacity <- RingEntries, Entry <- Event,
  queue <- QueuedEvents, taken <- received, lost <- gDropped

DetailQueue == INSTANCE LossyQueue WITH
  Capacity <- DetailEntries, Entry <- 1..MaxSequence,
  queue <- QueuedDetails, taken <- receivedDetails,
  lost <- gDetailsDropped - faulted

EventRingIsLossyQueue  == EventQueue!Spec
DetailRingIsLossyQueue == DetailQueue!Spec

(* While the device stays open the collector empties the event ring: every *)
(* event a callback has stamped leaves the driver, read or lost, however   *)
(* many arrive behind it and however the GUI reconfigures.                 *)
InDriver(s) ==
  \/ \E t \in Threads : pc[t] = "stamped" /\ event[t].sequence = s
  \/ \E i \in 1..Queued(gHead, gTail) : QueuedEvents[i].sequence = s

EventsLeaveDriver ==
  \A s \in 1..MaxSequence :
    gSequence >= s ~> (collector = "closed" \/ ~InDriver(s))
=============================================================================
