------------------------- MODULE CaptureRingProofs -------------------------
(***************************************************************************)
(* Proofs about CaptureRing for every number of threads, every ring size,  *)
(* every index width and every batch size its assumptions allow: the       *)
(* ledger, what GET_STATS (module DriverStats) reports of the rings, and   *)
(* that they implement LossyQueue.                                         *)
(***************************************************************************)
EXTENDS DriverStats, FiniteSetTheorems, SequenceTheorems, TLAPS

(* ULONG arithmetic reduced to case distinctions without a remainder.      *)
LEMMA QueuedCases ==
  ASSUME NEW h \in Index, NEW t \in Index
  PROVE  Queued(h, t) = IF t <= h THEN h - t ELSE h - t + IndexModulus
BY RingAssumption DEF Queued, Index

LEMMA Next32Cases ==
  ASSUME NEW i \in Index
  PROVE  Next32(i) = IF i + 1 = IndexModulus THEN 0 ELSE i + 1
BY RingAssumption DEF Next32, Index

LEMMA QueuedType ==
  ASSUME NEW h \in Index, NEW t \in Index
  PROVE  /\ Queued(h, t) \in 0..(IndexModulus - 1)
         /\ Queued(h, t) = 0 <=> h = t
BY QueuedCases, RingAssumption DEF Index

LEMMA Next32Type ==
  ASSUME NEW i \in Index
  PROVE  Next32(i) \in Index
BY Next32Cases, RingAssumption DEF Index

(* A push into a ring whose count is below the index modulus.              *)
LEMMA QueuedPush ==
  ASSUME NEW h \in Index, NEW t \in Index, Queued(h, t) < IndexModulus - 1
  PROVE  Queued(Next32(h), t) = Queued(h, t) + 1
<1>1. Next32(h) \in Index
  BY Next32Type
<1>2. Queued(Next32(h), t)
        = IF t <= Next32(h) THEN Next32(h) - t ELSE Next32(h) - t + IndexModulus
  BY <1>1, QueuedCases
<1> QED
  BY <1>2, QueuedCases, Next32Cases, RingAssumption DEF Index

(* The oldest entry makes room for the new one.                            *)
LEMMA QueuedPushOver ==
  ASSUME NEW h \in Index, NEW t \in Index, Queued(h, t) > 0
  PROVE  Queued(Next32(h), Next32(t)) = Queued(h, t)
<1>1. Next32(h) \in Index /\ Next32(t) \in Index
  BY Next32Type
<1>2. Queued(Next32(h), Next32(t))
        = IF Next32(t) <= Next32(h) THEN Next32(h) - Next32(t)
                                    ELSE Next32(h) - Next32(t) + IndexModulus
  BY <1>1, QueuedCases
<1> QED
  BY <1>2, QueuedCases, Next32Cases, RingAssumption DEF Index

(* A read of n entries.                                                    *)
LEMMA QueuedTake ==
  ASSUME NEW h \in Index, NEW t \in Index, NEW n \in 0..Queued(h, t)
  PROVE  /\ (t + n) % IndexModulus \in Index
         /\ Queued(h, (t + n) % IndexModulus) = Queued(h, t) - n
<1> DEFINE u == (t + n) % IndexModulus
<1>1. Queued(h, t) \in 0..(IndexModulus - 1)
  BY QueuedType
<1>2. u = IF t + n < IndexModulus THEN t + n ELSE t + n - IndexModulus
  BY <1>1, RingAssumption DEF Index
<1>3. u \in Index
  BY <1>1, <1>2, RingAssumption DEF Index
<1> HIDE DEF u
<1>4. Queued(h, u) = IF u <= h THEN h - u ELSE h - u + IndexModulus
  BY <1>3, QueuedCases
<1>5. Queued(h, u) = Queued(h, t) - n
  BY <1>1, <1>2, <1>4, QueuedCases, RingAssumption DEF Index
<1> QED
  BY <1>3, <1>5 DEF u

LEMMA BatchSizeType ==
  ASSUME NEW h \in Index, NEW t \in Index, NEW limit \in Nat
  PROVE  BatchSize(h, t, limit) \in 0..Queued(h, t)
BY QueuedType, RingAssumption DEF BatchSize, Smaller

LEMMA FunctionIsSeq ==
  ASSUME NEW S, NEW n \in Nat, NEW f \in [1..n -> S]
  PROVE  f \in Seq(S) /\ Len(f) = n
<1>1. f \in Seq(S)
  BY SeqDef
<1>2. Len(f) \in Nat /\ DOMAIN f = 1..Len(f)
  BY <1>1, LenProperties
<1>3. DOMAIN f = 1..n
  OBVIOUS
<1> QED
  BY <1>1, <1>2, <1>3
-----------------------------------------------------------------------------
LEMMA SlotTypes ==
  ASSUME NEW i \in Nat
  PROVE  /\ EventSlot(i) \in 0..(RingEntries - 1)
         /\ DetailSlot(i) \in 0..(DetailEntries - 1)
BY RingAssumption DEF EventSlot, DetailSlot

-----------------------------------------------------------------------------
(* Types.                                                                  *)

LEMMA InitTypeOK == Init => TypeOK
<1> SUFFICES ASSUME Init PROVE TypeOK
  OBVIOUS
<1>1. 0 \in Index
  BY RingAssumption DEF Index
<1>2. << >> \in Seq(Event \cup {NoEvent}) /\ << >> \in Seq(0..MaxSequence)
  BY EmptySeq
<1>3. /\ gRing \in [0..(RingEntries - 1) -> Event \cup {NoEvent}]
      /\ gDetailRing \in [0..(DetailEntries - 1) -> 0..MaxSequence]
      /\ event \in [Threads -> Event \cup {NoEvent}]
      /\ pc \in [Threads -> PCs]
  BY BoundAssumption DEF Init, PCs
<1>4. /\ gSequence \in 0..MaxSequence
      /\ faulted \in 0..MaxFaults
      /\ collector \in CollectorStates
  BY BoundAssumption DEF Init, CollectorStates
<1> QED
  BY <1>1, <1>2, <1>3, <1>4 DEF Init, TypeOK

LEMMA NextTypeOK == TypeOK /\ [Next]_vars => TypeOK'
<1> SUFFICES ASSUME TypeOK, [Next]_vars
             PROVE  TypeOK'
  OBVIOUS
<1> USE DEF TypeOK, PCs, CollectorStates
<1>a. \A i \in Index : Next32(i) \in Index
  BY Next32Type
<1>b. /\ gHead \in Nat /\ gTail \in Nat
      /\ gDetailHead \in Nat /\ gDetailTail \in Nat
  BY RingAssumption DEF Index
<1>c. /\ EventSlot(gHead) \in 0..(RingEntries - 1)
      /\ DetailSlot(gDetailHead) \in 0..(DetailEntries - 1)
  BY <1>b, SlotTypes
<1>1. ASSUME NEW t \in Threads, Admit(t) PROVE TypeOK'
  BY <1>1 DEF Admit, Goto, eventRing, detailRing, counters, reader, history
<1>2. ASSUME NEW t \in Threads, Stamp(t) PROVE TypeOK'
  <2>1. gSequence' \in 1..MaxSequence
    BY <1>2, BoundAssumption DEF Stamp
  <2>2. event' \in [Threads -> Event \cup {NoEvent}]
    BY <1>2, <2>1 DEF Stamp, Event
  <2>3. pc' \in [Threads -> PCs]
    BY <1>2 DEF Stamp, Goto
  <2> QED
    BY <1>2, <2>1, <2>2, <2>3
       DEF Stamp, eventRing, detailRing, reader, history
<1>3. ASSUME NEW t \in Threads, PushEvent(t) PROVE TypeOK'
  BY <1>3, <1>a, <1>c
     DEF PushEvent, Goto, detailRing, reader, history
<1>4. ASSUME NEW t \in Threads, CountCaptured(t) PROVE TypeOK'
  BY <1>4 DEF CountCaptured, Goto, eventRing, detailRing, reader, history
<1>5. ASSUME NEW t \in Threads, FilterFault(t) PROVE TypeOK'
  BY <1>5, BoundAssumption
     DEF FilterFault, CountFault, eventRing, detailRing, reader, callback
<1>6. ASSUME NEW t \in Threads, DecoderFault(t) PROVE TypeOK'
  BY <1>6, BoundAssumption
     DEF DecoderFault, Return, Goto, CountFault, eventRing, detailRing, reader
<1>7. ASSUME NEW t \in Threads, NoDetail(t) PROVE TypeOK'
  BY <1>7 DEF NoDetail, Return, Goto, eventRing, detailRing, counters, reader,
              history
<1>8. ASSUME NEW t \in Threads, PushDetail(t) PROVE TypeOK'
  <2>1. event[t].sequence \in 0..MaxSequence
    BY BoundAssumption DEF Event, NoEvent
  <2> QED
    BY <1>8, <1>a, <1>c, <2>1
       DEF PushDetail, Return, Goto, eventRing, reader, history
<1>9. CASE OpenDevice
  BY <1>9 DEF OpenDevice, CollectorStep, eventRing, detailRing, counters,
              callback, history
<1>10. CASE FlushRings
  <2>1. Queued(gHead, gTail) \in Nat
    BY QueuedType
  <2>2. discarded' \in Nat
    BY <1>10, <2>1 DEF FlushRings
  <2>3. gTail' \in Index /\ gDetailTail' \in Index
    BY <1>10 DEF FlushRings
  <2> QED
    BY <1>10, <2>2, <2>3
       DEF FlushRings, CollectorStep, counters, callback
<1>11. CASE NoCommand
  BY <1>11 DEF NoCommand, CollectorStep, eventRing, detailRing, counters,
               callback, history
<1>12. ASSUME NEW capture \in BOOLEAN, NEW filtersChanged \in BOOLEAN,
              SetConfig(capture, filtersChanged)
       PROVE  TypeOK'
  BY <1>12 DEF SetConfig, CollectorStep, eventRing, detailRing, counters,
               callback, history
<1>13. CASE ReadEvents
  <2> DEFINE n == BatchSize(gHead, gTail, EventBatch)
             batch == [i \in 1..n |-> gRing[EventSlot(gTail + i - 1)]]
  <2>0. Queued(gHead, gTail) \in Nat
    BY QueuedType
  <2>1. n \in 0..Queued(gHead, gTail) /\ n \in Nat
    <3>1. n \in 0..Queued(gHead, gTail)
      BY BatchSizeType, BoundAssumption
    <3> QED
      BY <2>0, <3>1
  <2>2. batch \in Seq(Event \cup {NoEvent})
    <3>1. ASSUME NEW i \in 1..n
          PROVE  gRing[EventSlot(gTail + i - 1)] \in Event \cup {NoEvent}
      <4>1. gTail + i - 1 \in Nat
        BY <1>b, <2>1
      <4> QED
        BY <4>1, SlotTypes
    <3>2. batch \in [1..n -> Event \cup {NoEvent}]
      BY <3>1
    <3> QED
      BY <2>1, <3>2, FunctionIsSeq
  <2>3. (gTail + n) % IndexModulus \in Index
    BY <2>1, QueuedTake
  <2>4. received' = received \o batch /\ gTail' = (gTail + n) % IndexModulus
        /\ copied' = n
    BY <1>13 DEF ReadEvents
  <2> HIDE DEF n, batch
  <2>5. received' \in Seq(Event \cup {NoEvent})
    BY <2>2, <2>4, ConcatProperties
  <2> QED
    BY <1>13, <2>1, <2>3, <2>4, <2>5
       DEF ReadEvents, CollectorStep, detailRing, counters, callback, history
<1>14. CASE CountDelivered
  BY <1>14 DEF CountDelivered, CollectorStep, eventRing, detailRing,
               callback, history
<1>15. CASE ReadDetails
  <2> DEFINE n == BatchSize(gDetailHead, gDetailTail, DetailBatch)
             batch == [i \in 1..n |->
                         gDetailRing[DetailSlot(gDetailTail + i - 1)]]
  <2>0. Queued(gDetailHead, gDetailTail) \in Nat
    BY QueuedType
  <2>1. n \in 0..Queued(gDetailHead, gDetailTail) /\ n \in Nat
    <3>1. n \in 0..Queued(gDetailHead, gDetailTail)
      BY BatchSizeType, BoundAssumption
    <3> QED
      BY <2>0, <3>1
  <2>2. batch \in Seq(0..MaxSequence)
    <3>1. ASSUME NEW i \in 1..n
          PROVE  gDetailRing[DetailSlot(gDetailTail + i - 1)] \in 0..MaxSequence
      <4>1. gDetailTail + i - 1 \in Nat
        BY <1>b, <2>1
      <4> QED
        BY <4>1, SlotTypes
    <3>2. batch \in [1..n -> 0..MaxSequence]
      BY <3>1
    <3> QED
      BY <2>1, <3>2, FunctionIsSeq
  <2>3. (gDetailTail + n) % IndexModulus \in Index
    BY <2>1, QueuedTake
  <2>4. /\ receivedDetails' = receivedDetails \o batch
        /\ gDetailTail' = (gDetailTail + n) % IndexModulus
    BY <1>15 DEF ReadDetails
  <2> HIDE DEF n, batch
  <2>5. receivedDetails' \in Seq(0..MaxSequence)
    BY <2>2, <2>4, ConcatProperties
  <2> QED
    BY <1>15, <2>3, <2>4, <2>5
       DEF ReadDetails, CollectorStep, eventRing, counters, callback, history
<1>16. CASE CloseDevice
  BY <1>16 DEF CloseDevice, eventRing, detailRing, counters, callback, history
<1>17. CASE UNCHANGED vars
  BY <1>17 DEF vars, eventRing, detailRing, counters, callback, reader, history
<1> QED
  BY <1>1, <1>2, <1>3, <1>4, <1>5, <1>6, <1>7, <1>8, <1>9, <1>10, <1>11,
     <1>12, <1>13, <1>14, <1>15, <1>16, <1>17
     DEF Next, SyscallCallback, Collector

(* Every variable keeps the type its declaration in the driver gives it.   *)
THEOREM TypeCorrect == Spec => []TypeOK
BY InitTypeOK, NextTypeOK, PTL DEF Spec
-----------------------------------------------------------------------------
(* The rings never claim more than they hold.  RingBounded is inductive    *)
(* relative to TypeOK: only a push raises a count, and a push into a full  *)
(* ring moves the tail with the head.                                      *)

LEMMA PushBounded ==
  ASSUME NEW h \in Index, NEW t \in Index, NEW size \in Nat,
         size < IndexModulus, Queued(h, t) <= size,
         NEW t2, t2 = IF Queued(h, t) >= size THEN Next32(t) ELSE t,
         size > 0
  PROVE  /\ Queued(h, t) >= size =>
              Queued(Next32(h), t2) = size /\ Queued(h, t) = size
         /\ Queued(h, t) < size => Queued(Next32(h), t2) = Queued(h, t) + 1
         /\ Queued(Next32(h), t2) <= size
<1>1. Queued(h, t) \in Nat
  BY QueuedType
<1>2. CASE Queued(h, t) >= size
  <2>1. Queued(h, t) = size /\ t2 = Next32(t)
    BY <1>1, <1>2
  <2> QED
    BY <1>1, <2>1, QueuedPushOver
<1>3. CASE Queued(h, t) < size
  <2>1. Queued(h, t) < IndexModulus - 1 /\ t2 = t
    BY <1>1, <1>3, RingAssumption
  <2> QED
    BY <1>1, <1>3, <2>1, QueuedPush
<1> QED
  BY <1>1, <1>2, <1>3

LEMMA NextRingBounded == TypeOK /\ RingBounded /\ [Next]_vars => RingBounded'
<1> SUFFICES ASSUME TypeOK, RingBounded, [Next]_vars
             PROVE  RingBounded'
  OBVIOUS
<1>a. /\ gHead \in Index /\ gTail \in Index
      /\ gDetailHead \in Index /\ gDetailTail \in Index
  BY DEF TypeOK
<1>b. /\ Queued(gHead, gTail) \in Nat
      /\ Queued(gDetailHead, gDetailTail) \in Nat
  BY <1>a, QueuedType
<1>1. ASSUME NEW t \in Threads, PushEvent(t) PROVE RingBounded'
  <2>1. /\ gHead' = Next32(gHead)
        /\ gTail' = IF Queued(gHead, gTail) >= RingEntries
                    THEN Next32(gTail) ELSE gTail
        /\ UNCHANGED <<gDetailHead, gDetailTail>>
    BY <1>1 DEF PushEvent, EventRingFull, detailRing
  <2>2. Queued(gHead', gTail') <= RingEntries
    BY <1>a, <2>1, PushBounded, RingAssumption DEF RingBounded
  <2> QED
    BY <2>1, <2>2 DEF RingBounded
<1>2. ASSUME NEW t \in Threads, PushDetail(t) PROVE RingBounded'
  <2>1. /\ gDetailHead' = Next32(gDetailHead)
        /\ gDetailTail' = IF Queued(gDetailHead, gDetailTail) >= DetailEntries
                          THEN Next32(gDetailTail) ELSE gDetailTail
        /\ UNCHANGED <<gHead, gTail>>
    BY <1>2 DEF PushDetail, DetailRingFull, eventRing
  <2>2. Queued(gDetailHead', gDetailTail') <= DetailEntries
    BY <1>a, <2>1, PushBounded, RingAssumption DEF RingBounded
  <2> QED
    BY <2>1, <2>2 DEF RingBounded
<1>3. CASE FlushRings
  <2>1. /\ gTail' = gHead /\ gHead' = gHead
        /\ gDetailTail' = gDetailHead /\ gDetailHead' = gDetailHead
    BY <1>3 DEF FlushRings
  <2> QED
    BY <1>a, <2>1, QueuedType, RingAssumption DEF RingBounded
<1>4. CASE ReadEvents
  <2> DEFINE n == BatchSize(gHead, gTail, EventBatch)
  <2>1. n \in 0..Queued(gHead, gTail)
    BY <1>a, BatchSizeType, BoundAssumption
  <2>2. /\ gTail' = (gTail + n) % IndexModulus
        /\ UNCHANGED <<gHead, gDetailHead, gDetailTail>>
    BY <1>4 DEF ReadEvents, detailRing
  <2> HIDE DEF n
  <2>3. Queued(gHead', gTail') = Queued(gHead, gTail) - n
    BY <1>a, <2>1, <2>2, QueuedTake
  <2> QED
    BY <1>b, <2>1, <2>2, <2>3, RingAssumption DEF RingBounded
<1>5. CASE ReadDetails
  <2> DEFINE n == BatchSize(gDetailHead, gDetailTail, DetailBatch)
  <2>1. n \in 0..Queued(gDetailHead, gDetailTail)
    BY <1>a, BatchSizeType, BoundAssumption
  <2>2. /\ gDetailTail' = (gDetailTail + n) % IndexModulus
        /\ UNCHANGED <<gDetailHead, gHead, gTail>>
    BY <1>5 DEF ReadDetails, eventRing
  <2> HIDE DEF n
  <2>3. Queued(gDetailHead', gDetailTail') = Queued(gDetailHead, gDetailTail) - n
    BY <1>a, <2>1, <2>2, QueuedTake
  <2> QED
    BY <1>b, <2>1, <2>2, <2>3, RingAssumption DEF RingBounded
<1>6. ASSUME UNCHANGED <<gHead, gTail, gDetailHead, gDetailTail>>
      PROVE  RingBounded'
  BY <1>6 DEF RingBounded
<1>7. ASSUME NEW t \in Threads,
             Admit(t) \/ Stamp(t) \/ CountCaptured(t) \/ FilterFault(t)
               \/ DecoderFault(t) \/ NoDetail(t)
      PROVE  UNCHANGED <<gHead, gTail, gDetailHead, gDetailTail>>
  BY <1>7 DEF Admit, Stamp, CountCaptured, FilterFault, DecoderFault, NoDetail,
              CountFault, eventRing, detailRing
<1>8. ASSUME \/ OpenDevice \/ NoCommand \/ CountDelivered \/ CloseDevice
             \/ \E capture, filtersChanged \in BOOLEAN :
                  SetConfig(capture, filtersChanged)
             \/ UNCHANGED vars
      PROVE  UNCHANGED <<gHead, gTail, gDetailHead, gDetailTail>>
  BY <1>8 DEF OpenDevice, NoCommand, CountDelivered, CloseDevice, SetConfig,
              vars, eventRing, detailRing
<1> QED
  BY <1>1, <1>2, <1>3, <1>4, <1>5, <1>6, <1>7, <1>8
     DEF Next, SyscallCallback, Collector

(* However pushes, reads, flushes and index wrap-around interleave, neither *)
(* ring of the driver ever claims more entries than its array has.         *)
THEOREM RingsStayBounded == Spec => []RingBounded
<1>1. Init => RingBounded
  <2> SUFFICES ASSUME Init PROVE RingBounded
    OBVIOUS
  <2>1. 0 \in Index
    BY RingAssumption DEF Index
  <2>2. Queued(0, 0) = 0
    BY <2>1, QueuedType
  <2> QED
    BY <2>2, RingAssumption DEF Init, RingBounded
<1> QED
  BY <1>1, TypeCorrect, NextRingBounded, PTL DEF Spec
-----------------------------------------------------------------------------
(* The ledger of events.  It is inductive together with RingBounded, which *)
(* tells a push into a full ring from any other, and with the fact that    *)
(* only a read in progress has copies the counter does not know yet.       *)

CopiedInFlight == collector # "countDelivered" => copied = 0

LedgerInv == TypeOK /\ RingBounded /\ CopiedInFlight /\ LossLedger

LEMMA PushedFinite ==
  /\ IsFiniteSet(PushedUncounted)
  /\ Cardinality(PushedUncounted) \in Nat
<1>1. PushedUncounted \subseteq Threads
  BY DEF PushedUncounted
<1> QED
  BY <1>1, ThreadsAssumption, FS_Subset, FS_CardinalityType

LEMMA NextCopied ==
  TypeOK /\ CopiedInFlight /\ [Next]_vars => CopiedInFlight'
<1> SUFFICES ASSUME TypeOK, CopiedInFlight, [Next]_vars
             PROVE  CopiedInFlight'
  OBVIOUS
<1>1. CASE \E t \in Threads : SyscallCallback(t)
  <2>1. UNCHANGED <<collector, copied>>
    BY <1>1 DEF SyscallCallback, Admit, Stamp, PushEvent, CountCaptured,
       FilterFault, DecoderFault, NoDetail, PushDetail, CountFault, reader
  <2> QED
    BY <2>1 DEF CopiedInFlight
<1>2. CASE Collector
  BY <1>2 DEF Collector, OpenDevice, FlushRings, NoCommand, SetConfig,
     ReadEvents, CountDelivered, ReadDetails, CloseDevice, CollectorStep,
     CopiedInFlight
<1>3. CASE UNCHANGED vars
  BY <1>3 DEF vars, reader, CopiedInFlight
<1> QED
  BY <1>1, <1>2, <1>3 DEF Next

LEMMA NextLossLedger == LedgerInv /\ [Next]_vars => LossLedger'
<1> SUFFICES ASSUME LedgerInv, [Next]_vars
             PROVE  LossLedger'
  OBVIOUS
<1>a. TypeOK /\ RingBounded /\ CopiedInFlight /\ LossLedger
  BY DEF LedgerInv
<1>b. /\ gHead \in Index /\ gTail \in Index /\ pc \in [Threads -> PCs]
      /\ gCaptured \in Nat /\ gDelivered \in Nat /\ gDropped \in Nat
      /\ copied \in Nat /\ discarded \in Nat
  BY <1>a DEF TypeOK
<1>c. Queued(gHead, gTail) \in Nat
  BY <1>b, QueuedType
<1> DEFINE pushed == Cardinality(PushedUncounted)
<1>d. /\ IsFiniteSet(PushedUncounted) /\ pushed \in Nat
  BY PushedFinite
<1>e. gCaptured + pushed
        = Queued(gHead, gTail) + gDropped + gDelivered + copied + discarded
  BY <1>a DEF LossLedger
(* Steps that touch neither the event ring nor what the ledger counts.     *)
<1>f. ASSUME UNCHANGED <<gHead, gTail, gCaptured, gDelivered, gDropped, copied,
                         discarded>>,
             PushedUncounted' = PushedUncounted
      PROVE  LossLedger'
  BY <1>a, <1>f DEF LossLedger
<1>1. ASSUME NEW t \in Threads, PushEvent(t) PROVE LossLedger'
  <2>1. PushedUncounted' = PushedUncounted \cup {t} /\ t \notin PushedUncounted
    BY <1>1, <1>b DEF PushEvent, Goto, PushedUncounted
  <2>2. Cardinality(PushedUncounted') = pushed + 1
    BY <2>1, <1>d, FS_AddElement
  <2>3. /\ gHead' = Next32(gHead)
        /\ gTail' = IF Queued(gHead, gTail) >= RingEntries
                    THEN Next32(gTail) ELSE gTail
        /\ gDropped' = IF Queued(gHead, gTail) >= RingEntries
                       THEN gDropped + 1 ELSE gDropped
        /\ UNCHANGED <<gCaptured, gDelivered, copied, discarded>>
    BY <1>1 DEF PushEvent, EventRingFull, reader, history
  <2>4. Queued(gHead', gTail') + gDropped' = Queued(gHead, gTail) + gDropped + 1
    <3>1. /\ Queued(gHead, gTail) >= RingEntries =>
               Queued(gHead', gTail') = Queued(gHead, gTail)
          /\ Queued(gHead, gTail) < RingEntries =>
               Queued(gHead', gTail') = Queued(gHead, gTail) + 1
      BY <1>a, <1>b, <2>3, PushBounded, RingAssumption DEF RingBounded
    <3> QED
      BY <1>b, <1>c, <2>3, <3>1, RingAssumption
  <2>5. Queued(gHead', gTail') \in Nat /\ gDropped' \in Nat
    <3>1. gHead' \in Index /\ gTail' \in Index
      BY <1>b, <2>3, Next32Type
    <3> QED
      BY <1>b, <2>3, <3>1, QueuedType
  <2> HIDE DEF pushed
  <2> QED
    BY <1>b, <1>c, <1>d, <1>e, <2>2, <2>3, <2>4, <2>5 DEF LossLedger
<1>2. ASSUME NEW t \in Threads, CountCaptured(t) PROVE LossLedger'
  <2>1. PushedUncounted' = PushedUncounted \ {t} /\ t \in PushedUncounted
    BY <1>2, <1>b DEF CountCaptured, Goto, PushedUncounted
  <2>2. Cardinality(PushedUncounted') = pushed - 1
    BY <2>1, <1>d, FS_RemoveElement
  <2>3. /\ gCaptured' = gCaptured + 1
        /\ UNCHANGED <<gHead, gTail, gDropped, gDelivered, copied, discarded>>
    BY <1>2 DEF CountCaptured, eventRing, reader, history
  <2> HIDE DEF pushed
  <2> QED
    BY <1>b, <1>c, <1>d, <1>e, <2>2, <2>3 DEF LossLedger
<1>3. ASSUME NEW t \in Threads,
             Admit(t) \/ Stamp(t) \/ FilterFault(t) \/ DecoderFault(t)
               \/ NoDetail(t) \/ PushDetail(t)
      PROVE  LossLedger'
  <2>1. UNCHANGED <<gHead, gTail, gCaptured, gDelivered, gDropped, copied,
                    discarded>>
    BY <1>3 DEF Admit, Stamp, FilterFault, DecoderFault, NoDetail, PushDetail,
       CountFault, eventRing, counters, reader, history
  <2>2. PushedUncounted' = PushedUncounted
    BY <1>3, <1>b DEF Admit, Stamp, FilterFault, DecoderFault, NoDetail,
       PushDetail, Return, Goto, callback, PushedUncounted
  <2> QED
    BY <1>f, <2>1, <2>2
<1>4. CASE FlushRings
  <2>1. /\ gTail' = gHead /\ gHead' = gHead
        /\ discarded' = discarded + Queued(gHead, gTail)
        /\ PushedUncounted' = PushedUncounted
        /\ UNCHANGED <<gCaptured, gDelivered, gDropped, copied>>
    BY <1>4 DEF FlushRings, counters, callback, PushedUncounted
  <2>2. Queued(gHead', gTail') = 0
    BY <1>b, <2>1, QueuedType
  <2> HIDE DEF pushed
  <2>3. Cardinality(PushedUncounted') = pushed
    BY <2>1 DEF pushed
  <2> QED
    BY <1>b, <1>c, <1>d, <1>e, <2>1, <2>2, <2>3 DEF LossLedger
<1>5. CASE ReadEvents
  <2> DEFINE n == BatchSize(gHead, gTail, EventBatch)
  <2>1. n \in 0..Queued(gHead, gTail)
    BY <1>b, BatchSizeType, BoundAssumption
  <2>2. /\ gTail' = (gTail + n) % IndexModulus /\ copied' = n
        /\ PushedUncounted' = PushedUncounted
        /\ UNCHANGED <<gHead, gCaptured, gDelivered, gDropped, discarded>>
    BY <1>5 DEF ReadEvents, counters, callback, history, PushedUncounted
  <2>3. copied = 0
    BY <1>5, <1>a DEF ReadEvents, CollectorStep, CopiedInFlight
  <2> HIDE DEF n, pushed
  <2>4. Queued(gHead', gTail') = Queued(gHead, gTail) - n
    BY <1>b, <2>1, <2>2, QueuedTake
  <2>5. Cardinality(PushedUncounted') = pushed
    BY <2>2 DEF pushed
  <2> QED
    BY <1>b, <1>c, <1>d, <1>e, <2>1, <2>2, <2>3, <2>4, <2>5 DEF LossLedger
<1>6. CASE CountDelivered
  <2>1. /\ gDelivered' = gDelivered + copied /\ copied' = 0
        /\ PushedUncounted' = PushedUncounted
        /\ UNCHANGED <<gHead, gTail, gCaptured, gDropped, discarded>>
    BY <1>6 DEF CountDelivered, eventRing, callback, history, PushedUncounted
  <2>2. Cardinality(PushedUncounted') = pushed
    BY <2>1
  <2> HIDE DEF pushed
  <2> QED
    BY <1>b, <1>c, <1>d, <1>e, <2>1, <2>2 DEF LossLedger
<1>7. CASE \/ OpenDevice \/ NoCommand \/ ReadDetails \/ CloseDevice
           \/ \E capture, filtersChanged \in BOOLEAN :
                SetConfig(capture, filtersChanged)
           \/ UNCHANGED vars
  <2>1. /\ UNCHANGED <<gHead, gTail, gCaptured, gDelivered, gDropped, copied,
                       discarded>>
        /\ UNCHANGED pc
    BY <1>7 DEF OpenDevice, NoCommand, ReadDetails, CloseDevice, SetConfig,
       vars, eventRing, counters, callback, reader, history
  <2> QED
    BY <1>f, <2>1 DEF PushedUncounted
<1> QED
  BY <1>1, <1>2, <1>3, <1>4, <1>5, <1>6, <1>7
     DEF Next, SyscallCallback, Collector

LEMMA InitLedger == Init => LedgerInv
<1> SUFFICES ASSUME Init PROVE LedgerInv
  OBVIOUS
<1>1. 0 \in Index
  BY RingAssumption DEF Index
<1>2. Queued(0, 0) = 0
  BY <1>1, QueuedType
<1>3. PushedUncounted = {}
  BY DEF Init, PushedUncounted
<1>4. Cardinality(PushedUncounted) = 0
  BY <1>3, FS_EmptySet
<1>5. RingBounded
  BY <1>2, RingAssumption DEF Init, RingBounded
<1>6. CopiedInFlight /\ LossLedger
  BY <1>2, <1>4 DEF Init, CopiedInFlight, LossLedger
<1> QED
  BY <1>5, <1>6, InitTypeOK DEF LedgerInv

LEMMA NextLedger == LedgerInv /\ [Next]_vars => LedgerInv'
BY NextTypeOK, NextRingBounded, NextCopied, NextLossLedger DEF LedgerInv

(* No event disappears without being counted: at every moment the events   *)
(* captured are those queued, dropped, delivered or flushed, but for the   *)
(* ones whose callback or read is between the ring and its counter.        *)
THEOREM NoSilentLoss == Spec => []LossLedger
<1>1. LedgerInv => LossLedger
  BY DEF LedgerInv
<1> QED
  BY <1>1, InitLedger, NextLedger, PTL DEF Spec
-----------------------------------------------------------------------------
(* A statistics block of GET_STATS adds up, by the ledger above.           *)

(* What holds of a block while its fields are filled in.                   *)
BlockInv ==
  /\ stats \in [Fields -> Nat \cup {Unread}]
  /\ Reading => collector = "commands"
  /\ Reading /\ stats["captured"] # Unread => stats["captured"] <= gCaptured
  /\ Reading /\ stats["delivered"] # Unread =>
       stats["captured"] # Unread /\ stats["delivered"] = gDelivered
  /\ stats["dropped"] # Unread =>
       /\ stats["captured"] # Unread /\ stats["delivered"] # Unread
       /\ stats["captured"]
            <= RingEntries + stats["delivered"] + stats["dropped"] + discarded

StatsInv == LedgerInv /\ BlockInv

(* What GET_STATS relies on at the moment it reads gDropped.               *)
LEMMA CapturedNow ==
  ASSUME LedgerInv, collector = "commands"
  PROVE  gCaptured <= RingEntries + gDelivered + gDropped + discarded
<1>1. copied = 0
  BY DEF LedgerInv, CopiedInFlight
<1>2. Cardinality(PushedUncounted) \in Nat
  BY PushedFinite
<1>3. Queued(gHead, gTail) \in Nat /\ Queued(gHead, gTail) <= RingEntries
  BY QueuedType, RingAssumption DEF LedgerInv, TypeOK, RingBounded
<1>4. /\ gCaptured \in Nat /\ gDelivered \in Nat /\ gDropped \in Nat
      /\ discarded \in Nat
  BY DEF LedgerInv, TypeOK
<1> QED
  BY <1>1, <1>2, <1>3, <1>4, RingAssumption DEF LedgerInv, LossLedger

(* Callbacks only raise gCaptured and leave the rest to the collector.     *)
LEMMA CallbackKeeps ==
  ASSUME LedgerInv, NEW t \in Threads, SyscallCallback(t)
  PROVE  /\ gCaptured' \in Nat /\ gCaptured <= gCaptured'
         /\ UNCHANGED <<collector, gDelivered, discarded>>
<1> USE DEF counters, reader, history, callback, eventRing, detailRing,
            CountFault, Return, Goto
<1>1. gCaptured \in Nat
  BY DEF LedgerInv, TypeOK
<1>2. CASE CountCaptured(t)
  BY <1>1, <1>2 DEF CountCaptured
<1>3. CASE Admit(t) \/ Stamp(t) \/ PushEvent(t) \/ NoDetail(t)
  BY <1>1, <1>3 DEF Admit, Stamp, PushEvent, NoDetail
<1>4. CASE FilterFault(t) \/ DecoderFault(t) \/ PushDetail(t)
  BY <1>1, <1>4 DEF FilterFault, DecoderFault, PushDetail
<1> QED
  BY <1>2, <1>3, <1>4 DEF SyscallCallback

(* The collector's own requests only add to what was flushed.              *)
LEMMA CollectorKeeps ==
  ASSUME LedgerInv, Collector
  PROVE  discarded' \in Nat /\ discarded <= discarded'
<1> USE DEF history
<1>1. discarded \in Nat /\ Queued(gHead, gTail) \in Nat
  BY QueuedType, RingAssumption DEF LedgerInv, TypeOK
<1>2. CASE FlushRings
  BY <1>1, <1>2 DEF FlushRings
<1>3. CASE OpenDevice \/ NoCommand \/ ReadEvents \/ CountDelivered
             \/ ReadDetails \/ CloseDevice
  BY <1>1, <1>3 DEF OpenDevice, NoCommand, ReadEvents, CountDelivered,
       ReadDetails, CloseDevice
<1>4. CASE \E capture, filtersChanged \in BOOLEAN : SetConfig(capture, filtersChanged)
  BY <1>1, <1>4 DEF SetConfig
<1> QED
  BY <1>2, <1>3, <1>4 DEF Collector

(* The order of the reads, field by field.                                 *)
LEMMA FieldOrder ==
  ASSUME NEW i \in DOMAIN ReadOrder, NEW field \in ReadOrder[i], ReadField(i, field)
  PROVE  /\ field \in Fields
         /\ field = "delivered" => stats["captured"] # Unread
         /\ field = "dropped" =>
              stats["captured"] # Unread /\ stats["delivered"] # Unread
<1>1. \A j \in 1..(i - 1) : \A earlier \in ReadOrder[j] : stats[earlier] # Unread
  BY DEF ReadField
<1>2. i \in 1..5
  BY DEF ReadOrder
<1>3. /\ ReadOrder[1] = {"head", "tail"} /\ ReadOrder[2] = {"captured"}
      /\ ReadOrder[3] = {"delivered"} /\ ReadOrder[4] = {"dropped"}
      /\ ReadOrder[5] = {"details_dropped"}
  BY DEF ReadOrder
<1>4. CASE i = 1 \/ i = 2
  BY <1>3, <1>4 DEF Fields
<1>5. CASE i = 3
  <2>1. stats["captured"] # Unread
    BY <1>1, <1>3, <1>5
  <2> QED
    BY <1>3, <1>5, <2>1 DEF Fields
<1>6. CASE i = 4
  <2>1. stats["captured"] # Unread /\ stats["delivered"] # Unread
    BY <1>1, <1>3, <1>6
  <2> QED
    BY <1>3, <1>6, <2>1 DEF Fields
<1>7. CASE i = 5
  BY <1>3, <1>7 DEF Fields
<1> QED
  BY <1>2, <1>4, <1>5, <1>6, <1>7

LEMMA VariableType ==
  ASSUME LedgerInv, NEW field \in Fields
  PROVE  Variable(field) \in Nat
BY RingAssumption DEF LedgerInv, TypeOK, Variable, Fields, Index

LEMMA ReadKeepsBlock ==
  ASSUME StatsInv, NEW i \in DOMAIN ReadOrder, NEW field \in ReadOrder[i],
         ReadField(i, field)
  PROVE  BlockInv'
<1>1. /\ stats[field] = Unread /\ stats' = [stats EXCEPT ![field] = Variable(field)]
      /\ UNCHANGED <<collector, gCaptured, gDelivered, discarded>>
  BY DEF ReadField, vars, counters, reader, history
<1>2. /\ field \in Fields
      /\ field = "delivered" => stats["captured"] # Unread
      /\ field = "dropped" =>
           stats["captured"] # Unread /\ stats["delivered"] # Unread
  BY FieldOrder
<1>3. Variable(field) \in Nat /\ Unread \notin Nat
  BY <1>2, VariableType, UnreadAssumption DEF StatsInv
<1>4. Reading /\ collector = "commands"
  BY <1>1, <1>2 DEF Reading, StatsInv, BlockInv
<1>5. stats \in [Fields -> Nat \cup {Unread}]
  BY DEF StatsInv, BlockInv
<1>6. /\ stats' \in [Fields -> Nat \cup {Unread}]
      /\ \A other \in Fields \ {field} : stats'[other] = stats[other]
      /\ stats'[field] = Variable(field)
  BY <1>1, <1>2, <1>3, <1>5
<1>7. stats'["captured"] # Unread => stats'["captured"] <= gCaptured
  <2>1. CASE field = "captured"
    <3>1. Variable(field) = gCaptured
      BY <2>1 DEF Variable
    <3> QED
      BY <1>3, <1>6, <2>1, <3>1
  <2>2. CASE field # "captured"
    BY <1>4, <1>6, <2>2 DEF StatsInv, BlockInv, Fields
  <2> QED
    BY <2>1, <2>2
<1>8. stats'["delivered"] # Unread =>
        stats'["captured"] # Unread /\ stats'["delivered"] = gDelivered
  <2>1. CASE field = "delivered"
    <3>1. Variable(field) = gDelivered
      BY <2>1 DEF Variable
    <3> QED
      BY <1>2, <1>6, <2>1, <3>1 DEF Fields
  <2>2. CASE field # "delivered"
    <3>1. stats'["delivered"] = stats["delivered"]
      BY <1>6, <2>2 DEF Fields
    <3>2. stats["captured"] # Unread => stats'["captured"] # Unread
      BY <1>3, <1>6 DEF Fields
    <3> QED
      BY <1>4, <3>1, <3>2 DEF StatsInv, BlockInv
  <2> QED
    BY <2>1, <2>2
<1>9. stats'["dropped"] # Unread =>
        /\ stats'["captured"] # Unread /\ stats'["delivered"] # Unread
        /\ stats'["captured"]
             <= RingEntries + stats'["delivered"] + stats'["dropped"] + discarded
  <2>1. CASE field = "dropped"
    <3>1. Variable(field) = gDropped
      BY <2>1 DEF Variable
    <3>2. /\ stats["captured"] \in Nat /\ stats["captured"] <= gCaptured
          /\ stats["delivered"] = gDelivered
      BY <1>2, <1>4, <1>5, <2>1 DEF StatsInv, BlockInv, Fields
    <3>3. gCaptured <= RingEntries + gDelivered + gDropped + discarded
      BY <1>4, CapturedNow DEF StatsInv
    <3>4. /\ stats'["captured"] = stats["captured"]
          /\ stats'["delivered"] = stats["delivered"] /\ stats'["dropped"] = gDropped
      BY <1>6, <2>1, <3>1 DEF Fields
    <3>5. /\ gCaptured \in Nat /\ gDelivered \in Nat /\ gDropped \in Nat
          /\ discarded \in Nat /\ RingEntries \in Nat
      BY RingAssumption DEF StatsInv, LedgerInv, TypeOK
    <3> QED
      BY <1>2, <2>1, <3>2, <3>3, <3>4, <3>5
  <2>2. CASE field # "dropped"
    <3>1. SUFFICES ASSUME stats'["dropped"] # Unread
                   PROVE  /\ stats'["captured"] # Unread /\ stats'["delivered"] # Unread
                          /\ stats'["captured"] <= RingEntries + stats'["delivered"]
                                + stats'["dropped"] + discarded
      OBVIOUS
    <3>2. stats'["dropped"] = stats["dropped"]
      BY <1>6, <2>2 DEF Fields
    <3>3. /\ stats["captured"] # Unread /\ stats["delivered"] # Unread
          /\ stats["captured"]
               <= RingEntries + stats["delivered"] + stats["dropped"] + discarded
      BY <3>1, <3>2 DEF StatsInv, BlockInv
    <3>4. field # "captured" /\ field # "delivered"
      BY <1>1, <3>3
    <3> QED
      BY <1>6, <3>2, <3>3, <3>4 DEF Fields
  <2> QED
    BY <2>1, <2>2
<1> QED
  BY <1>1, <1>4, <1>6, <1>7, <1>8, <1>9 DEF BlockInv

LEMMA NextBlockInv == StatsInv /\ [StatsNext]_<<vars, stats>> => BlockInv'
<1> SUFFICES ASSUME StatsInv, [StatsNext]_<<vars, stats>>
             PROVE  BlockInv'
  OBVIOUS
<1>a. LedgerInv /\ BlockInv
  BY DEF StatsInv
<1>b. /\ gCaptured \in Nat /\ discarded \in Nat /\ RingEntries \in Nat
      /\ Unread \notin Nat /\ stats \in [Fields -> Nat \cup {Unread}]
  BY <1>a, RingAssumption, UnreadAssumption DEF LedgerInv, TypeOK, BlockInv
<1>c. /\ stats["captured"] \in Nat \cup {Unread}
      /\ stats["delivered"] \in Nat \cup {Unread}
      /\ stats["dropped"] \in Nat \cup {Unread}
  BY <1>b DEF Fields
<1>1. CASE \E i \in DOMAIN ReadOrder : \E field \in ReadOrder[i] : ReadField(i, field)
  BY <1>1, ReadKeepsBlock
<1>2. CASE BeginStats
  <2>1. /\ stats' = [field \in Fields |-> Unread]
        /\ collector = "commands" /\ collector' = collector
    BY <1>2 DEF BeginStats, vars, reader
  <2> QED
    BY <2>1 DEF BlockInv, Fields
<1>3. CASE (\E t \in Threads : SyscallCallback(t)) /\ UNCHANGED stats
  <2>1. /\ gCaptured' \in Nat /\ gCaptured <= gCaptured'
        /\ UNCHANGED <<collector, gDelivered, discarded>>
    BY <1>a, <1>3, CallbackKeeps
  <2>2. stats' = stats /\ Reading' = Reading
    BY <1>3 DEF Reading
  <2> QED
    BY <1>a, <1>b, <1>c, <2>1, <2>2 DEF BlockInv
<1>4. CASE ~Reading /\ Collector /\ UNCHANGED stats
  <2>1. discarded' \in Nat /\ discarded <= discarded'
    BY <1>a, <1>4, CollectorKeeps
  <2>2. stats' = stats /\ ~Reading'
    BY <1>4 DEF Reading
  <2> QED
    BY <1>a, <1>b, <1>c, <2>1, <2>2 DEF BlockInv
<1>5. CASE UNCHANGED <<vars, stats>>
  BY <1>a, <1>5 DEF BlockInv, Reading, vars, counters, reader, history
<1> QED
  BY <1>1, <1>2, <1>3, <1>4, <1>5 DEF StatsNext, GetStats

(* Whatever is pushed, counted or lost between the reads of GET_STATS, the *)
(* block it returns accounts for every event it calls captured.            *)
THEOREM StatsAddUp == StatsSpec => []CapturedIsAccountedFor
<1>1. StatsInit => StatsInv
  <2> SUFFICES ASSUME StatsInit PROVE StatsInv
    OBVIOUS
  <2>1. LedgerInv
    BY InitLedger DEF StatsInit
  <2>2. BlockInv
    BY UnreadAssumption, RingAssumption
       DEF StatsInit, Init, BlockInv, Reading, Fields
  <2> QED
    BY <2>1, <2>2 DEF StatsInv
<1>2. StatsInv /\ [StatsNext]_<<vars, stats>> => StatsInv'
  <2>1. [StatsNext]_<<vars, stats>> => [Next]_vars
    BY DEF StatsNext, GetStats, BeginStats, ReadField, Next
  <2> QED
    BY <2>1, NextLedger, NextBlockInv DEF StatsInv
<1>3. StatsInv => CapturedIsAccountedFor
  BY DEF StatsInv, BlockInv, CapturedIsAccountedFor, Reading, Fields
<1> QED
  BY <1>1, <1>2, <1>3, PTL DEF StatsSpec
-----------------------------------------------------------------------------
(* Both rings implement LossyQueue, for every size of ring, index and      *)
(* batch: the arrays, the free-running indices and their wrap are          *)
(* invisible to whoever reads.  And what comes out of the rings comes out  *)
(* in order: each thread's events as it made the calls, and no detail      *)
(* before its event or twice.                                              *)

(* Slots: size stands for RingEntries or DetailEntries.                    *)
Contents(ring, h, t, size) ==
  [i \in 1..Queued(h, t) |-> ring[((t + i - 1) % IndexModulus) % size]]

FitsIndex(size) ==
  /\ size \in Nat \ {0} /\ size < IndexModulus
  /\ IndexModulus % size = 0

LEMMA Euclid ==
  ASSUME NEW x \in Int, NEW m \in Nat \ {0}
  PROVE  /\ x % m \in 0..(m - 1) /\ x \div m \in Int
         /\ x = m * (x \div m) + (x % m)
OBVIOUS

(* A remainder is the only one of its kind.                                *)
LEMMA RemainderUnique ==
  ASSUME NEW m \in Nat \ {0}, NEW q1 \in Int, NEW q2 \in Int,
         NEW r1 \in 0..(m - 1), NEW r2 \in 0..(m - 1),
         m * q1 + r1 = m * q2 + r2
  PROVE  q1 = q2 /\ r1 = r2
<1>1. m * (q1 - q2) = r2 - r1
  OBVIOUS
<1>2. ~(q1 - q2 >= 1)
  <2> SUFFICES ASSUME q1 - q2 >= 1 PROVE FALSE
    OBVIOUS
  <2>1. m * (q1 - q2) >= m
    OBVIOUS
  <2> QED
    BY <1>1, <2>1
<1>3. ~(q2 - q1 >= 1)
  <2> SUFFICES ASSUME q2 - q1 >= 1 PROVE FALSE
    OBVIOUS
  <2>1. m * (q2 - q1) >= m
    OBVIOUS
  <2>2. m * (q2 - q1) = r1 - r2
    OBVIOUS
  <2> QED
    BY <2>1, <2>2
<1>4. q1 = q2
  BY <1>2, <1>3
<1> QED
  BY <1>4

(* An index finds the same slot before and after it wraps.                 *)
LEMMA SlotOfIndex ==
  ASSUME NEW size, FitsIndex(size), NEW x \in Nat
  PROVE  (x % IndexModulus) % size = x % size
<1>1. IndexModulus \in Nat \ {0} /\ size \in Nat \ {0} /\ IndexModulus % size = 0
  BY RingAssumption DEF FitsIndex
<1> DEFINE y == x % IndexModulus
           p == x \div IndexModulus
           k == IndexModulus \div size
           a == y \div size
           b == x \div size
           u == y % size
           v == x % size
<1>2. y \in 0..(IndexModulus - 1) /\ p \in Int /\ x = IndexModulus * p + y
  <2>1. IndexModulus \in Nat \ {0} /\ x \in Int
    BY <1>1
  <2> QED
    BY <2>1, Euclid
<1>3. k \in Int /\ IndexModulus = size * k
  <2>1. IndexModulus = size * k + (IndexModulus % size)
    BY <1>1, Euclid
  <2>2. k \in Int
    BY <1>1, Euclid
  <2> HIDE DEF k
  <2> QED
    BY <1>1, <2>1, <2>2
<1> HIDE DEF y, p, k
<1>4. u \in 0..(size - 1) /\ a \in Int /\ y = size * a + u
  BY <1>1, <1>2, Euclid, SMTT(40)
<1>5. v \in 0..(size - 1) /\ b \in Int /\ x = size * b + v
  BY <1>1, Euclid, SMTT(40)
<1> HIDE DEF a, b, u, v
<1>6. size * (k * p + a) + u = size * b + v
  <2>1. IndexModulus * p = size * (k * p)
    BY <1>1, <1>2, <1>3
  <2>2. k * p \in Int
    BY <1>2, <1>3
  <2> DEFINE kp == k * p
  <2>3. kp \in Int /\ x = size * kp + (size * a + u)
    BY <1>2, <1>4, <2>1, <2>2
  <2> HIDE DEF kp
  <2>4. size * (kp + a) = size * kp + size * a
    BY <1>1, <1>4, <2>3
  <2>5. size * kp \in Int /\ size * a \in Int
    BY <1>1, <1>4, <2>3
  <2>6. size * (kp + a) + u = x
    BY <1>4, <2>3, <2>4, <2>5
  <2> QED
    BY <1>5, <2>6 DEF kp
<1>7. k * p + a \in Int
  BY <1>2, <1>3, <1>4
<1>8. u = v
  <2> DEFINE c == k * p + a
  <2>1. c \in Int /\ size * c + u = size * b + v
    BY <1>6, <1>7
  <2> HIDE DEF c
  <2> QED
    BY <1>1, <1>4, <1>5, <2>1, RemainderUnique
<1> QED
  BY <1>8 DEF u, v, y

(* Fewer than size entries apart, two entries have different slots.        *)
LEMMA SlotsDiffer ==
  ASSUME NEW size \in Nat \ {0}, NEW x \in Nat, NEW y \in Nat, x < y, y - x < size
  PROVE  x % size # y % size
<1> SUFFICES ASSUME x % size = y % size PROVE FALSE
  OBVIOUS
<1> DEFINE a == x \div size
           b == y \div size
           r == x % size
<1>1. x = size * a + r /\ a \in Int /\ r \in Int
  BY Euclid
<1>2. y = size * b + r /\ b \in Int
  BY Euclid
<1> HIDE DEF a, b, r
<1>5. size * (b - a) = y - x
  BY <1>1, <1>2
<1>6. b - a >= 1
  <2> SUFFICES ASSUME b - a <= 0 PROVE FALSE
    BY <1>1, <1>2
  <2>1. size * (b - a) <= 0
    BY <1>1, <1>2
  <2> QED
    BY <1>5, <2>1
<1>7. size * (b - a) >= size
  BY <1>1, <1>2, <1>6
<1> QED
  BY <1>5, <1>7
-----------------------------------------------------------------------------
(* What a ring holds, as a sequence.                                       *)

LEMMA IndexNat ==
  ASSUME NEW h \in Index, NEW t \in Index
  PROVE  h \in Nat /\ t \in Nat /\ Queued(h, t) \in Nat
<1>1. IndexModulus \in Nat
  BY RingAssumption
<1> QED
  BY <1>1, QueuedType DEF Index

LEMMA SlotInRing ==
  ASSUME NEW size \in Nat \ {0}, NEW x \in Nat
  PROVE  x % size \in 0..(size - 1)
<1>1. x \in Int
  OBVIOUS
<1> QED
  BY <1>1, Euclid, Zenon

IsContents(seq, S, ring, h, t, size) ==
  /\ seq \in Seq(S) /\ Len(seq) = Queued(h, t)
  /\ \A i \in 1..Queued(h, t) : seq[i] = ring[(t + i - 1) % size]

LEMMA ContentsType ==
  ASSUME NEW S, NEW size, FitsIndex(size), NEW h \in Index, NEW t \in Index,
         NEW ring \in [0..(size - 1) -> S]
  PROVE  IsContents(Contents(ring, h, t, size), S, ring, h, t, size)
<1>1. Queued(h, t) \in Nat /\ t \in Nat /\ size \in Nat \ {0}
  BY IndexNat DEF FitsIndex
<1>2. ASSUME NEW i \in 1..Queued(h, t)
      PROVE  /\ ((t + i - 1) % IndexModulus) % size = (t + i - 1) % size
             /\ ring[(t + i - 1) % size] \in S
  <2>1. t + i - 1 \in Nat
    BY <1>1
  <2>2. (t + i - 1) % size \in 0..(size - 1)
    BY <1>1, <2>1, SlotInRing, Zenon
  <2> QED
    BY <2>1, <2>2, SlotOfIndex
<1>3. Contents(ring, h, t, size) \in [1..Queued(h, t) -> S]
  BY <1>2 DEF Contents
<1> QED
  BY <1>1, <1>2, <1>3, FunctionIsSeq DEF Contents, IsContents

(* The head is where the queued entries end.                               *)
LEMMA HeadSlot ==
  ASSUME NEW size, FitsIndex(size), NEW h \in Index, NEW t \in Index
  PROVE  h % size = (t + Queued(h, t)) % size
<1>1. Queued(h, t) \in Nat /\ t \in Nat /\ h \in Nat
  BY IndexNat
<1>2. (t + Queued(h, t)) % IndexModulus = h
  <2>1. t + Queued(h, t) = h \/ t + Queued(h, t) = h + IndexModulus
    BY QueuedCases, RingAssumption DEF Index
  <2>2. h % IndexModulus = h /\ (h + IndexModulus) % IndexModulus = h
    BY RingAssumption DEF Index
  <2> QED
    BY <2>1, <2>2
<1> QED
  BY <1>1, <1>2, SlotOfIndex

(* A push into a ring with room appends.                                   *)
Pushed(ring, h, e, size) == [ring EXCEPT ![h % size] = e]

PutOf(ring, h, t, e, size) ==
  Contents(Pushed(ring, h, e, size), Next32(h), t, size)
    = Append(Contents(ring, h, t, size), e)

PutOverOf(ring, h, t, e, size) ==
  Contents(Pushed(ring, h, e, size), Next32(h), Next32(t), size)
    = Append(Tail(Contents(ring, h, t, size)), e)

LEMMA PushAppends ==
  ASSUME NEW S, NEW size, FitsIndex(size), NEW h \in Index, NEW t \in Index,
         NEW ring \in [0..(size - 1) -> S], NEW e \in S,
         Queued(h, t) < size
  PROVE  PutOf(ring, h, t, e, size)
<1> DEFINE q == Queued(h, t)
           after == [ring EXCEPT ![h % size] = e]
           old == Contents(ring, h, t, size)
           new == Contents(after, Next32(h), t, size)
<1>1. q \in Nat /\ t \in Nat /\ h \in Nat /\ size \in Nat \ {0}
  BY IndexNat DEF FitsIndex
<1>2. Next32(h) \in Index /\ Queued(Next32(h), t) = q + 1
  BY <1>1, Next32Type, QueuedPush, RingAssumption DEF FitsIndex
<1>3. after \in [0..(size - 1) -> S] /\ h % size \in 0..(size - 1)
  BY <1>1, SlotInRing
<1>4. /\ old \in Seq(S) /\ Len(old) = q
      /\ \A i \in 1..q : old[i] = ring[(t + i - 1) % size]
  <2>1. IsContents(old, S, ring, h, t, size)
    BY ContentsType
  <2> QED
    BY <2>1, Zenon DEF IsContents
<1>5. /\ new \in Seq(S) /\ Len(new) = q + 1
      /\ \A i \in 1..(q + 1) : new[i] = after[(t + i - 1) % size]
  <2>1. IsContents(new, S, after, Next32(h), t, size)
    BY <1>2, <1>3, ContentsType
  <2> QED
    BY <1>2, <2>1, Zenon DEF IsContents
<1>6. h % size = (t + q) % size
  BY HeadSlot
<1>7. ASSUME NEW i \in 1..q PROVE after[(t + i - 1) % size] = ring[(t + i - 1) % size]
  <2>1. /\ t + i - 1 \in Nat /\ t + q \in Nat
        /\ t + i - 1 < t + q /\ (t + q) - (t + i - 1) < size
    BY <1>1
  <2>2. (t + i - 1) % size # h % size
    BY <1>1, <1>6, <2>1, SlotsDiffer
  <2>3. (t + i - 1) % size \in 0..(size - 1)
    BY <1>1, <2>1, SlotInRing, Zenon
  <2> QED
    BY <2>2, <2>3
<1>8. after[(t + (q + 1) - 1) % size] = e
  <2>1. t + (q + 1) - 1 = t + q
    BY <1>1
  <2> QED
    BY <1>3, <1>6, <2>1
<1> HIDE DEF q, after, old, new
<1>9. \A i \in 1..q : new[i] = old[i]
  <2> SUFFICES ASSUME NEW i \in 1..q PROVE new[i] = old[i]
    OBVIOUS
  <2>1. i \in 1..(q + 1)
    BY <1>1
  <2> QED
    BY <1>4, <1>5, <1>7, <2>1, Zenon
<1>10. new[q + 1] = e
  BY <1>1, <1>5, <1>8
<1>11. /\ Append(old, e) \in Seq(S) /\ Len(Append(old, e)) = q + 1
       /\ \A i \in 1..q : Append(old, e)[i] = old[i]
       /\ Append(old, e)[q + 1] = e
  BY <1>4, AppendProperties
<1>12. \A i \in 1..Len(new) : new[i] = Append(old, e)[i]
  BY <1>1, <1>5, <1>9, <1>10, <1>11
<1>13. new = Append(old, e)
  BY <1>5, <1>11, <1>12, SeqEqual
<1> QED
  BY <1>13 DEF new, old, after, Pushed, PutOf

(* A push into a full ring appends and gives up the oldest entry.          *)
LEMMA PushOverAppends ==
  ASSUME NEW S, NEW size, FitsIndex(size), NEW h \in Index, NEW t \in Index,
         NEW ring \in [0..(size - 1) -> S], NEW e \in S,
         Queued(h, t) = size
  PROVE  PutOverOf(ring, h, t, e, size)
<1> DEFINE after == [ring EXCEPT ![h % size] = e]
           old == Contents(ring, h, t, size)
           new == Contents(after, Next32(h), Next32(t), size)
<1>1. t \in Nat /\ h \in Nat /\ size \in Nat \ {0}
  BY IndexNat DEF FitsIndex
<1>2. /\ Next32(h) \in Index /\ Next32(t) \in Index
      /\ Queued(Next32(h), Next32(t)) = size
  BY <1>1, Next32Type, QueuedPushOver
<1>3. after \in [0..(size - 1) -> S] /\ h % size \in 0..(size - 1)
  BY <1>1, SlotInRing
<1>4. /\ old \in Seq(S) /\ Len(old) = size
      /\ \A i \in 1..size : old[i] = ring[(t + i - 1) % size]
  <2>1. IsContents(old, S, ring, h, t, size)
    BY ContentsType
  <2> QED
    BY <2>1, Zenon DEF IsContents
<1>5. /\ new \in Seq(S) /\ Len(new) = size
      /\ \A i \in 1..size : new[i] = after[(Next32(t) + i - 1) % size]
  <2>1. IsContents(new, S, after, Next32(h), Next32(t), size)
    BY <1>2, <1>3, ContentsType
  <2> QED
    BY <1>2, <2>1, Zenon DEF IsContents
<1>6. h % size = (t + size) % size
  BY HeadSlot
<1>7. ASSUME NEW i \in 1..size
      PROVE  (Next32(t) + i - 1) % size = (t + i) % size
  <2>1. Next32(t) \in Nat /\ Next32(t) = (t + 1) % IndexModulus
    BY <1>2, RingAssumption DEF Index, Next32
  <2>2. (Next32(t) + i - 1) % IndexModulus = (t + i) % IndexModulus
    <3>1. CASE t + 1 = IndexModulus
      <4>1. Next32(t) = 0 /\ t + i = (i - 1) + IndexModulus
        BY <1>1, <3>1, Next32Cases, RingAssumption
      <4>2. i - 1 \in 0..(IndexModulus - 1)
        BY <1>1, RingAssumption DEF FitsIndex
      <4>3. ((i - 1) + IndexModulus) % IndexModulus = (i - 1) % IndexModulus
        BY <4>2, RingAssumption
      <4> QED
        BY <4>1, <4>3
    <3>2. CASE t + 1 # IndexModulus
      <4>1. Next32(t) = t + 1
        BY <3>2, Next32Cases
      <4>2. Next32(t) + i - 1 = t + i
        BY <1>1, <4>1
      <4> QED
        BY <4>2
    <3> QED
      BY <3>1, <3>2
  <2>3. Next32(t) + i - 1 \in Nat /\ t + i \in Nat
    BY <1>1, <2>1
  <2>4. /\ ((Next32(t) + i - 1) % IndexModulus) % size = (Next32(t) + i - 1) % size
        /\ ((t + i) % IndexModulus) % size = (t + i) % size
    BY <2>3, SlotOfIndex
  <2> QED
    BY <2>2, <2>4
<1>8. ASSUME NEW i \in 1..(size - 1)
      PROVE  new[i] = old[i + 1]
  <2>1. i \in 1..size /\ i + 1 \in 1..size /\ t + (i + 1) - 1 = t + i
    BY <1>1
  <2>2. new[i] = after[(t + i) % size] /\ old[i + 1] = ring[(t + i) % size]
    BY <1>4, <1>5, <1>7, <2>1
  <2>3. t + i \in Nat /\ t + size \in Nat /\ t + i < t + size /\ (t + size) - (t + i) < size
    BY <1>1
  <2>4. (t + i) % size # h % size
    BY <1>1, <1>6, <2>3, SlotsDiffer
  <2>5. (t + i) % size \in 0..(size - 1)
    BY <1>1, <2>3, SlotInRing, Zenon
  <2> QED
    BY <2>2, <2>4, <2>5
<1>9. new[size] = e
  <2>1. size \in 1..size
    BY <1>1
  <2>2. new[size] = after[(t + size) % size]
    BY <1>5, <1>7, <2>1
  <2> QED
    BY <1>3, <1>6, <2>2
<1> HIDE DEF after, old, new
<1>10. /\ Tail(old) \in Seq(S) /\ Len(Tail(old)) = size - 1
       /\ \A i \in 1..(size - 1) : Tail(old)[i] = old[i + 1]
  <2>1. old # << >>
    BY <1>1, <1>4, EmptySeq
  <2> QED
    BY <1>1, <1>4, <2>1, HeadTailProperties
<1>11. /\ Append(Tail(old), e) \in Seq(S) /\ Len(Append(Tail(old), e)) = size
       /\ \A i \in 1..(size - 1) : Append(Tail(old), e)[i] = Tail(old)[i]
       /\ Append(Tail(old), e)[size] = e
  <2>1. (size - 1) + 1 = size
    BY <1>1
  <2> QED
    BY <1>10, <2>1, AppendProperties
<1>12. \A i \in 1..Len(new) : new[i] = Append(Tail(old), e)[i]
  <2> SUFFICES ASSUME NEW i \in 1..size PROVE new[i] = Append(Tail(old), e)[i]
    BY <1>5
  <2>1. i = size \/ i \in 1..(size - 1)
    BY <1>1
  <2> QED
    BY <1>8, <1>9, <1>10, <1>11, <2>1, Zenon
<1>13. new = Append(Tail(old), e)
  BY <1>5, <1>11, <1>12, SeqEqual
<1> QED
  BY <1>13 DEF new, old, after, Pushed, PutOverOf

(* A whole turn of the index changes nothing.                              *)
LEMMA RemainderShift ==
  ASSUME NEW m \in Nat \ {0}, NEW x \in Nat
  PROVE  (x + m) % m = x % m
<1> DEFINE y == x + m
           p == x \div m
           q == y \div m
           u == x % m
           v == y % m
<1>1. x \in Int /\ y \in Int
  OBVIOUS
<1>2. p \in Int /\ u \in 0..(m - 1) /\ x = m * p + u
  BY <1>1, Euclid
<1> HIDE DEF y
<1>3. q \in Int /\ v \in 0..(m - 1) /\ y = m * q + v
  BY <1>1, Euclid
<1> HIDE DEF p, q, u, v
<1>4. m * (p + 1) + u = m * q + v
  <2>1. m * (p + 1) = m * p + m
    BY <1>2
  <2> QED
    BY <1>2, <1>3, <2>1 DEF y
<1>5. p + 1 \in Int
  BY <1>2
<1>6. u = v
  <2> DEFINE c == p + 1
  <2>1. c \in Int /\ m * c + u = m * q + v
    BY <1>4, <1>5
  <2> HIDE DEF c
  <2> QED
    BY <1>2, <1>3, <2>1, RemainderUnique
<1> QED
  BY <1>6 DEF u, v, y

LEMMA SlotAfterTake ==
  ASSUME NEW size, FitsIndex(size), NEW h \in Index, NEW t \in Index,
         NEW n \in 0..Queued(h, t), NEW k \in Nat
  PROVE  (((t + n) % IndexModulus) + k) % size = (t + n + k) % size
<1>1. /\ t \in Nat /\ n \in Nat /\ IndexModulus \in Nat \ {0}
      /\ t < IndexModulus /\ n < IndexModulus
  <2>1. Queued(h, t) \in 0..(IndexModulus - 1) /\ IndexModulus \in Nat \ {0}
    BY QueuedType, RingAssumption
  <2> QED
    BY <2>1 DEF Index
<1> DEFINE u == (t + n) % IndexModulus
<1>2. u = IF t + n < IndexModulus THEN t + n ELSE t + n - IndexModulus
  BY <1>1
<1> HIDE DEF u
<1>3. u + k \in Nat /\ t + n + k \in Nat
  BY <1>1, <1>2
<1>4. (u + k) % IndexModulus = (t + n + k) % IndexModulus
  <2>1. CASE t + n < IndexModulus
    BY <1>2, <2>1
  <2>2. CASE ~(t + n < IndexModulus)
    <3>1. t + n + k = (u + k) + IndexModulus
      BY <1>1, <1>2, <2>2
    <3>2. ((u + k) + IndexModulus) % IndexModulus = (u + k) % IndexModulus
      BY <1>1, <1>3, RemainderShift
    <3> QED
      BY <3>1, <3>2
  <2> QED
    BY <2>1, <2>2
<1>5. /\ ((u + k) % IndexModulus) % size = (u + k) % size
      /\ ((t + n + k) % IndexModulus) % size = (t + n + k) % size
  BY <1>3, SlotOfIndex
<1> QED
  BY <1>4, <1>5 DEF u

(* A read of n entries gives the first n and leaves the others.            *)
Copied(ring, t, n, size) == [i \in 1..n |-> ring[(t + i - 1) % size]]

FirstTaken(ring, h, t, n, size) ==
  LET old == Contents(ring, h, t, size) IN
  /\ Contents(ring, h, (t + n) % IndexModulus, size)
       = SubSeq(old, n + 1, Len(old))
  /\ Copied(ring, t, n, size) = SubSeq(old, 1, n)

LEMMA TakeTakes ==
  ASSUME NEW S, NEW size, FitsIndex(size), NEW h \in Index, NEW t \in Index,
         NEW ring \in [0..(size - 1) -> S], NEW n \in 0..Queued(h, t)
  PROVE  FirstTaken(ring, h, t, n, size)
<1> DEFINE q == Queued(h, t)
           u == (t + n) % IndexModulus
           old == Contents(ring, h, t, size)
           new == Contents(ring, h, u, size)
           batch == [i \in 1..n |-> ring[(t + i - 1) % size]]
           rest == SubSeq(old, n + 1, q)
           first == SubSeq(old, 1, n)
<1>1. q \in Nat /\ t \in Nat /\ n \in Nat /\ n <= q /\ size \in Nat \ {0}
  BY IndexNat DEF FitsIndex
<1>2. u \in Index /\ Queued(h, u) = q - n
  BY QueuedTake
<1>3. /\ old \in Seq(S) /\ Len(old) = q
      /\ \A i \in 1..q : old[i] = ring[(t + i - 1) % size]
  <2>1. IsContents(old, S, ring, h, t, size)
    BY ContentsType
  <2> QED
    BY <2>1, Zenon DEF IsContents
<1> HIDE DEF u
<1>4. /\ new \in Seq(S) /\ Len(new) = q - n
      /\ \A i \in 1..(q - n) : new[i] = ring[(u + i - 1) % size]
  <2>1. IsContents(new, S, ring, h, u, size)
    BY <1>2, ContentsType
  <2> QED
    BY <1>2, <2>1, Zenon DEF IsContents
<1> HIDE DEF old, new, q
<1>5. /\ rest \in Seq(S) /\ Len(rest) = q - n
      /\ \A i \in 1..(q - n) : rest[i] = old[n + i]
  <2>1. \A i \in (n + 1)..q : old[i] \in S
    BY <1>1, <1>3, ElementOfSeq
  <2>2. /\ rest \in Seq(S)
        /\ Len(rest) = IF n + 1 <= q THEN q - (n + 1) + 1 ELSE 0
        /\ \A i \in 1..(q - (n + 1) + 1) : rest[i] = old[(n + 1) + i - 1]
    BY <1>1, <2>1, SubSeqProperties
  <2>3. q - (n + 1) + 1 = q - n
    BY <1>1
  <2>4. \A i \in 1..(q - n) : rest[i] = old[n + i]
    <3> SUFFICES ASSUME NEW i \in 1..(q - n) PROVE rest[i] = old[n + i]
      OBVIOUS
    <3>1. (n + 1) + i - 1 = n + i
      BY <1>1
    <3> QED
      BY <2>2, <2>3, <3>1, Zenon
  <2>5. Len(rest) = q - n
    BY <1>1, <2>2
  <2> QED
    BY <2>2, <2>4, <2>5
<1>6. /\ first \in Seq(S) /\ Len(first) = n
      /\ \A i \in 1..n : first[i] = old[i]
  <2>1. \A i \in 1..n : old[i] \in S
    BY <1>1, <1>3, ElementOfSeq
  <2>2. /\ first \in Seq(S) /\ Len(first) = IF 1 <= n THEN n - 1 + 1 ELSE 0
        /\ \A i \in 1..(n - 1 + 1) : first[i] = old[1 + i - 1]
    BY <1>1, <2>1, SubSeqProperties
  <2>3. n - 1 + 1 = n /\ \A i \in 1..n : 1 + i - 1 = i
    BY <1>1
  <2>4. Len(first) = n
    BY <1>1, <2>2
  <2>5. \A i \in 1..n : first[i] = old[i]
    BY <2>2, <2>3, Zenon
  <2> QED
    BY <2>2, <2>4, <2>5
<1> HIDE DEF rest, first
<1>7. new = rest
  <2>1. ASSUME NEW i \in 1..(q - n) PROVE new[i] = rest[i]
    <3>1. n + i \in 1..q /\ i - 1 \in Nat
      BY <1>1
    <3>2. (u + (i - 1)) % size = (t + n + (i - 1)) % size
      BY <3>1, SlotAfterTake DEF u, q
    <3>3. u + i - 1 = u + (i - 1) /\ t + (n + i) - 1 = t + n + (i - 1)
      BY <1>1, <1>2, RingAssumption DEF Index
    <3>4. new[i] = ring[(u + i - 1) % size] /\ old[n + i] = ring[(t + (n + i) - 1) % size]
      BY <1>3, <1>4, <3>1, Zenon
    <3> QED
      BY <1>5, <3>2, <3>3, <3>4, Zenon
  <2> QED
    BY <1>4, <1>5, <2>1, SeqEqual
<1>8. batch = first
  <2>1. batch \in Seq(S) /\ Len(batch) = n
    <3>1. \A i \in 1..n : ring[(t + i - 1) % size] \in S
      <4> SUFFICES ASSUME NEW i \in 1..n PROVE ring[(t + i - 1) % size] \in S
        OBVIOUS
      <4>1. t + i - 1 \in Nat
        BY <1>1
      <4>2. (t + i - 1) % size \in 0..(size - 1)
        BY <1>1, <4>1, SlotInRing, Zenon
      <4> QED
        BY <4>2
    <3>2. batch \in [1..n -> S]
      BY <3>1
    <3> HIDE DEF batch
    <3> QED
      BY <1>1, <3>2, FunctionIsSeq
  <2>2. ASSUME NEW i \in 1..n PROVE batch[i] = first[i]
    <3>1. i \in 1..q
      BY <1>1
    <3>2. batch[i] = ring[(t + i - 1) % size]
      OBVIOUS
    <3> QED
      BY <1>3, <1>6, <3>1, <3>2, Zenon
  <2> HIDE DEF batch
  <2> QED
    BY <1>6, <2>1, <2>2, SeqEqual
<1> QED
  BY <1>3, <1>7, <1>8 DEF new, rest, first, batch, old, u, q, FirstTaken, Copied
-----------------------------------------------------------------------------
(* The two rings.  HoldsEvent is what a push needs to know of the thread   *)
(* that pushes: its stack holds a stamped event until it returns.          *)

HoldsEvent ==
  \A t \in Threads :
    pc[t] \in {"stamped", "pushed", "captured"} => event[t] \in Event

QueueInv == TypeOK /\ RingBounded /\ HoldsEvent

LEMMA RingsFit == FitsIndex(RingEntries) /\ FitsIndex(DetailEntries)
BY RingAssumption DEF FitsIndex

LEMMA RingsAreContents ==
  /\ QueuedEvents = Contents(gRing, gHead, gTail, RingEntries)
  /\ QueuedDetails = Contents(gDetailRing, gDetailHead, gDetailTail, DetailEntries)
BY DEF QueuedEvents, QueuedDetails, Contents, EventSlot, DetailSlot

LEMMA NothingQueued ==
  ASSUME NEW S, NEW size, FitsIndex(size), NEW h \in Index,
         NEW ring \in [0..(size - 1) -> S]
  PROVE  Contents(ring, h, h, size) = << >>
<1>1. Queued(h, h) = 0
  BY QueuedType
<1>2. IsContents(Contents(ring, h, h, size), S, ring, h, h, size)
  BY ContentsType
<1> QED
  BY <1>1, <1>2, EmptySeq DEF IsContents

LEMMA InitQueueInv == Init => QueueInv
<1> SUFFICES ASSUME Init PROVE QueueInv
  OBVIOUS
<1>1. Queued(0, 0) = 0
  BY QueuedType, RingAssumption DEF Index
<1>2. RingBounded
  BY <1>1, RingAssumption DEF Init, RingBounded
<1>3. HoldsEvent
  BY DEF Init, HoldsEvent
<1> QED
  BY <1>2, <1>3, InitTypeOK DEF QueueInv

LEMMA NextQueueInv == QueueInv /\ [Next]_vars => QueueInv'
<1> SUFFICES ASSUME QueueInv, [Next]_vars PROVE QueueInv'
  OBVIOUS
<1>1. TypeOK /\ RingBounded /\ HoldsEvent
  BY DEF QueueInv
<1>2. TypeOK' /\ RingBounded'
  BY <1>1, NextTypeOK, NextRingBounded
<1>3. pc \in [Threads -> PCs] /\ event \in [Threads -> Event \cup {NoEvent}]
  BY <1>1 DEF TypeOK
<1>4. ASSUME NEW t \in Threads, Stamp(t) PROVE HoldsEvent'
  <2>1. gSequence + 1 \in 1..MaxSequence
    BY <1>1, <1>4, BoundAssumption DEF Stamp, TypeOK
  <2>2. [sequence |-> gSequence + 1, tid |-> t] \in Event
    BY <2>1 DEF Event
  <2> QED
    BY <1>1, <1>3, <1>4, <2>2 DEF Stamp, Goto, HoldsEvent
<1>5. ASSUME NEW t \in Threads,
             Admit(t) \/ PushEvent(t) \/ CountCaptured(t) \/ FilterFault(t)
      PROVE  HoldsEvent'
  <2>1. /\ event' = event
        /\ \A u \in Threads :
             pc'[u] \in {"stamped", "pushed", "captured"}
               => pc[u] \in {"stamped", "pushed", "captured"}
    BY <1>3, <1>5 DEF Admit, PushEvent, CountCaptured, FilterFault, CountFault,
       callback, Goto
  <2> QED
    BY <1>1, <2>1 DEF HoldsEvent
<1>6. ASSUME NEW t \in Threads, DecoderFault(t) \/ NoDetail(t) \/ PushDetail(t)
      PROVE  HoldsEvent'
  <2>1. Return(t)
    BY <1>6 DEF DecoderFault, NoDetail, PushDetail
  <2> QED
    BY <1>1, <1>3, <2>1 DEF Return, Goto, HoldsEvent
<1>7. ASSUME Collector \/ UNCHANGED vars PROVE HoldsEvent'
  <2>1. pc' = pc /\ event' = event
    BY <1>7 DEF Collector, OpenDevice, FlushRings, NoCommand, SetConfig,
       ReadEvents, CountDelivered, ReadDetails, CloseDevice, vars, callback
  <2> QED
    BY <1>1, <2>1 DEF HoldsEvent
<1>8. HoldsEvent'
  <2>1. (\E t \in Threads : SyscallCallback(t)) \/ Collector \/ UNCHANGED vars
    BY DEF Next
  <2> QED
    BY <1>4, <1>5, <1>6, <1>7, <2>1 DEF SyscallCallback
<1> QED
  BY <1>2, <1>8 DEF QueueInv

(* A read of a ring is a Take of the queue, or nothing when it is empty.   *)
ReadOf(ring, h, t, n, size, out) ==
  LET old == Contents(ring, h, t, size)
      new == Contents(ring, h, (t + n) % IndexModulus, size)
      batch == Copied(ring, t, n, size)
  IN \/ new = old /\ out \o batch = out
     \/ /\ n \in 1..Len(old)
        /\ new = SubSeq(old, n + 1, Len(old))
        /\ out \o batch = out \o SubSeq(old, 1, n)

LEMMA ReadIsTake ==
  ASSUME NEW S, NEW size, FitsIndex(size), NEW h \in Index, NEW t \in Index,
         NEW ring \in [0..(size - 1) -> S], NEW n \in 0..Queued(h, t),
         NEW out \in Seq(S)
  PROVE  ReadOf(ring, h, t, n, size, out)
<1> DEFINE old == Contents(ring, h, t, size)
           new == Contents(ring, h, (t + n) % IndexModulus, size)
           batch == Copied(ring, t, n, size)
<1>1. Queued(h, t) \in Nat /\ n \in Nat /\ n <= Queued(h, t)
  BY IndexNat
<1>2. Len(old) = Queued(h, t)
  BY ContentsType DEF IsContents
<1>3. new = SubSeq(old, n + 1, Len(old)) /\ batch = SubSeq(old, 1, n)
  <2>1. FirstTaken(ring, h, t, n, size)
    BY TakeTakes, Zenon
  <2> QED
    BY <2>1 DEF FirstTaken
<1>4. n = 0 => new = old /\ out \o batch = out
  <2> SUFFICES ASSUME n = 0 PROVE new = old /\ out \o batch = out
    OBVIOUS
  <2>1. (t + n) % IndexModulus = t
    BY RingAssumption DEF Index
  <2>2. batch = << >>
    BY DEF Copied
  <2>3. out \o << >> = out
    BY ConcatEmptySeq
  <2> QED
    BY <2>1, <2>2, <2>3
<1>5. n = 0 \/ n \in 1..Len(old)
  BY <1>1, <1>2
<1> HIDE DEF old, new, batch
<1>6. \/ new = old /\ out \o batch = out
      \/ /\ n \in 1..Len(old)
         /\ new = SubSeq(old, n + 1, Len(old))
         /\ out \o batch = out \o SubSeq(old, 1, n)
  BY <1>3, <1>4, <1>5
<1> QED
  BY <1>6 DEF old, new, batch, ReadOf
-----------------------------------------------------------------------------
(* The refinements: one lemma for each kind of step of each ring.          *)

EventTypes ==
  /\ gHead \in Index /\ gTail \in Index
  /\ gRing \in [0..(RingEntries - 1) -> Event \cup {NoEvent}]
  /\ received \in Seq(Event \cup {NoEvent})
  /\ Queued(gHead, gTail) \in Nat /\ Queued(gHead, gTail) <= RingEntries

LEMMA QueueTypes ==
  ASSUME QueueInv
  PROVE  /\ EventTypes
         /\ QueuedEvents \in Seq(Event \cup {NoEvent})
         /\ Len(QueuedEvents) = Queued(gHead, gTail)
<1>1. EventTypes
  BY QueuedType DEF QueueInv, TypeOK, RingBounded, EventTypes
<1>2. IsContents(Contents(gRing, gHead, gTail, RingEntries),
                 Event \cup {NoEvent}, gRing, gHead, gTail, RingEntries)
  BY <1>1, RingsFit, ContentsType, Zenon DEF EventTypes
<1> QED
  BY <1>1, <1>2, RingsAreContents DEF IsContents

LEMMA EventsUntouched ==
  ASSUME UNCHANGED <<gRing, gHead, gTail, received, gDropped>>
  PROVE  UNCHANGED EventQueue!qvars
BY DEF EventQueue!qvars, QueuedEvents

LEMMA PushIsPut ==
  ASSUME QueueInv, NEW t \in Threads, PushEvent(t)
  PROVE  EventQueue!PutWithRoom(event[t]) \/ EventQueue!PutOverOldest(event[t])
<1>1. EventTypes /\ Len(QueuedEvents) = Queued(gHead, gTail)
  BY QueueTypes
<1>2. event[t] \in Event \cup {NoEvent}
  BY DEF QueueInv, TypeOK
<1>3. /\ gRing' = Pushed(gRing, gHead, event[t], RingEntries)
      /\ gHead' = Next32(gHead) /\ received' = received
  BY DEF PushEvent, EventSlot, reader, Pushed
<1>4. /\ QueuedEvents = Contents(gRing, gHead, gTail, RingEntries)
      /\ QueuedEvents' = Contents(gRing', gHead', gTail', RingEntries)
  BY RingsAreContents DEF QueuedEvents, Contents, EventSlot
<1>5. CASE EventRingFull
  <2>1. Queued(gHead, gTail) = RingEntries
    BY <1>1, <1>5, RingAssumption DEF EventTypes, EventRingFull
  <2>2. gTail' = Next32(gTail) /\ gDropped' = gDropped + 1
    BY <1>5 DEF PushEvent
  <2>3. PutOverOf(gRing, gHead, gTail, event[t], RingEntries)
    BY <1>1, <1>2, <2>1, RingsFit, PushOverAppends, Zenon DEF EventTypes
  <2>4. QueuedEvents' = Append(Tail(QueuedEvents), event[t])
    BY <1>3, <1>4, <2>2, <2>3, Zenon DEF PutOverOf
  <2> QED
    BY <1>1, <1>3, <2>1, <2>2, <2>4 DEF EventQueue!PutOverOldest
<1>6. CASE ~EventRingFull
  <2>1. Queued(gHead, gTail) < RingEntries
    BY <1>1, <1>6, RingAssumption DEF EventTypes, EventRingFull
  <2>2. gTail' = gTail /\ gDropped' = gDropped
    BY <1>6 DEF PushEvent
  <2>3. PutOf(gRing, gHead, gTail, event[t], RingEntries)
    BY <1>1, <1>2, <2>1, RingsFit, PushAppends, Zenon DEF EventTypes
  <2>4. QueuedEvents' = Append(QueuedEvents, event[t])
    BY <1>3, <1>4, <2>2, <2>3, Zenon DEF PutOf
  <2> QED
    BY <1>1, <1>3, <2>1, <2>2, <2>4 DEF EventQueue!PutWithRoom
<1> QED
  BY <1>5, <1>6

LEMMA ReadEventsIsTake ==
  ASSUME QueueInv, ReadEvents
  PROVE  \/ UNCHANGED EventQueue!qvars
         \/ \E n \in 1..Len(QueuedEvents) : EventQueue!Take(n)
<1> DEFINE n == BatchSize(gHead, gTail, EventBatch)
<1>1. EventTypes
  BY QueueTypes
<1>2. n \in 0..Queued(gHead, gTail)
  BY <1>1, BatchSizeType, BoundAssumption DEF EventTypes
<1>3. /\ received' = received \o Copied(gRing, gTail, n, RingEntries)
      /\ gTail' = (gTail + n) % IndexModulus
      /\ UNCHANGED <<gRing, gHead, gDropped>>
  BY DEF ReadEvents, Copied, EventSlot, counters
<1> HIDE DEF n
<1>4. /\ QueuedEvents = Contents(gRing, gHead, gTail, RingEntries)
      /\ QueuedEvents' = Contents(gRing', gHead', gTail', RingEntries)
  BY RingsAreContents DEF QueuedEvents, Contents, EventSlot
<1>5. ReadOf(gRing, gHead, gTail, n, RingEntries, received)
  BY <1>1, <1>2, RingsFit, ReadIsTake, Zenon DEF EventTypes
<1>6. QueuedEvents' = Contents(gRing, gHead, (gTail + n) % IndexModulus, RingEntries)
  BY <1>3, <1>4
<1>7. \/ QueuedEvents' = QueuedEvents /\ received' = received
      \/ /\ n \in 1..Len(QueuedEvents)
         /\ QueuedEvents' = SubSeq(QueuedEvents, n + 1, Len(QueuedEvents))
         /\ received' = received \o SubSeq(QueuedEvents, 1, n)
  BY <1>3, <1>4, <1>5, <1>6 DEF ReadOf
<1> QED
  BY <1>3, <1>7 DEF EventQueue!qvars, EventQueue!Take

LEMMA FlushIsDiscard ==
  ASSUME QueueInv, FlushRings
  PROVE  EventQueue!Discard
<1>1. EventTypes
  BY QueueTypes
<1>2. /\ gRing' = gRing /\ gHead' = gHead /\ gTail' = gHead
      /\ UNCHANGED <<received, gDropped>>
  BY DEF FlushRings, counters
<1>3. QueuedEvents' = Contents(gRing, gHead, gHead, RingEntries)
  BY <1>2 DEF QueuedEvents, Contents, EventSlot
<1>4. Contents(gRing, gHead, gHead, RingEntries) = << >>
  BY <1>1, RingsFit, NothingQueued, Zenon DEF EventTypes
<1> QED
  BY <1>2, <1>3, <1>4 DEF EventQueue!Discard

LEMMA OtherStepsLeaveEvents ==
  ASSUME [Next]_vars, ~ReadEvents, ~FlushRings, \A t \in Threads : ~PushEvent(t)
  PROVE  UNCHANGED EventQueue!qvars
<1>1. ASSUME NEW t \in Threads,
             \/ Admit(t) \/ Stamp(t) \/ CountCaptured(t) \/ FilterFault(t)
             \/ DecoderFault(t) \/ NoDetail(t) \/ PushDetail(t)
      PROVE  UNCHANGED EventQueue!qvars
  <2>1. UNCHANGED <<gRing, gHead, gTail, received, gDropped>>
    BY <1>1 DEF Admit, Stamp, CountCaptured, FilterFault, DecoderFault,
       NoDetail, PushDetail, CountFault, eventRing, counters, reader
  <2> QED
    BY <2>1, EventsUntouched
<1>2. ASSUME \/ OpenDevice \/ NoCommand \/ CountDelivered \/ ReadDetails
             \/ CloseDevice \/ UNCHANGED vars
             \/ \E capture, filtersChanged \in BOOLEAN :
                  SetConfig(capture, filtersChanged)
      PROVE  UNCHANGED EventQueue!qvars
  <2>1. UNCHANGED <<gRing, gHead, gTail, received, gDropped>>
    BY <1>2 DEF OpenDevice, NoCommand, CountDelivered, ReadDetails,
       CloseDevice, SetConfig, vars, eventRing, counters, reader
  <2> QED
    BY <2>1, EventsUntouched
<1>3. (\E t \in Threads : SyscallCallback(t)) \/ Collector \/ UNCHANGED vars
  BY DEF Next
<1> QED
  BY <1>1, <1>2, <1>3 DEF SyscallCallback, Collector

LEMMA NextEventQueue ==
  QueueInv /\ [Next]_vars => [EventQueue!Next]_(EventQueue!qvars)
<1> SUFFICES ASSUME QueueInv, [Next]_vars
             PROVE  [EventQueue!Next]_(EventQueue!qvars)
  OBVIOUS
<1>1. ASSUME NEW t \in Threads, PushEvent(t) PROVE EventQueue!Next
  <2>1. event[t] \in Event
    BY <1>1 DEF QueueInv, HoldsEvent, PushEvent, Goto
  <2> QED
    BY <1>1, <2>1, PushIsPut DEF EventQueue!Next
<1>2. CASE ReadEvents
  BY <1>2, ReadEventsIsTake DEF EventQueue!Next
<1>3. CASE FlushRings
  BY <1>3, FlushIsDiscard DEF EventQueue!Next
<1>4. CASE /\ ~ReadEvents /\ ~FlushRings
           /\ \A t \in Threads : ~PushEvent(t)
  BY <1>4, OtherStepsLeaveEvents
<1> QED
  BY <1>1, <1>2, <1>3, <1>4

LEMMA InitEventQueue == Init => EventQueue!Init
<1> SUFFICES ASSUME Init PROVE EventQueue!Init
  OBVIOUS
<1>1. EventTypes /\ gHead = gTail
  BY InitQueueInv, QueueTypes DEF Init
<1>2. QueuedEvents = << >>
  BY <1>1, RingsAreContents, RingsFit, NothingQueued DEF EventTypes
<1> QED
  BY <1>2 DEF Init, EventQueue!Init

(* The event ring is a first-in first-out queue that loses only its oldest *)
(* event and counts every loss, for every ring size, batch size and index  *)
(* width, across every wrap of the free-running indices.                   *)
THEOREM EventRingImplementsQueue == Spec => EventRingIsLossyQueue
BY InitQueueInv, NextQueueInv, InitEventQueue, NextEventQueue, PTL
   DEF Spec, EventRingIsLossyQueue, EventQueue!Spec
-----------------------------------------------------------------------------
(* The detail ring.  Its losses are what gDetailsDropped counts beyond the *)
(* faults of SyscallCallback, which the same counter holds.                *)

DetailTypes ==
  /\ gDetailHead \in Index /\ gDetailTail \in Index
  /\ gDetailRing \in [0..(DetailEntries - 1) -> 0..MaxSequence]
  /\ receivedDetails \in Seq(0..MaxSequence)
  /\ Queued(gDetailHead, gDetailTail) \in Nat
  /\ Queued(gDetailHead, gDetailTail) <= DetailEntries
  /\ gDetailsDropped \in Nat /\ faulted \in Int

LEMMA DetailQueueTypes ==
  ASSUME QueueInv
  PROVE  /\ DetailTypes
         /\ QueuedDetails \in Seq(0..MaxSequence)
         /\ Len(QueuedDetails) = Queued(gDetailHead, gDetailTail)
<1>1. DetailTypes
  BY QueuedType DEF QueueInv, TypeOK, RingBounded, DetailTypes
<1>2. IsContents(Contents(gDetailRing, gDetailHead, gDetailTail, DetailEntries),
                 0..MaxSequence, gDetailRing, gDetailHead, gDetailTail,
                 DetailEntries)
  BY <1>1, RingsFit, ContentsType, Zenon DEF DetailTypes
<1> QED
  BY <1>1, <1>2, RingsAreContents DEF IsContents

LEMMA DetailsUntouched ==
  ASSUME UNCHANGED <<gDetailRing, gDetailHead, gDetailTail, receivedDetails>>,
         gDetailsDropped' - faulted' = gDetailsDropped - faulted
  PROVE  UNCHANGED DetailQueue!qvars
BY DEF DetailQueue!qvars, QueuedDetails

LEMMA PushDetailIsPut ==
  ASSUME QueueInv, NEW t \in Threads, PushDetail(t)
  PROVE  \/ DetailQueue!PutWithRoom(event[t].sequence)
         \/ DetailQueue!PutOverOldest(event[t].sequence)
<1> DEFINE s == event[t].sequence
<1>1. DetailTypes /\ Len(QueuedDetails) = Queued(gDetailHead, gDetailTail)
  BY DetailQueueTypes
<1>2. s \in 0..MaxSequence
  BY BoundAssumption DEF QueueInv, TypeOK, Event, NoEvent
<1>3. /\ gDetailRing' = Pushed(gDetailRing, gDetailHead, s, DetailEntries)
      /\ gDetailHead' = Next32(gDetailHead)
      /\ receivedDetails' = receivedDetails /\ faulted' = faulted
  BY DEF PushDetail, DetailSlot, reader, history, Pushed
<1>4. /\ QueuedDetails
           = Contents(gDetailRing, gDetailHead, gDetailTail, DetailEntries)
      /\ QueuedDetails'
           = Contents(gDetailRing', gDetailHead', gDetailTail', DetailEntries)
  BY RingsAreContents DEF QueuedDetails, Contents, DetailSlot
<1> HIDE DEF s
<1>5. CASE DetailRingFull
  <2>1. Queued(gDetailHead, gDetailTail) = DetailEntries
    BY <1>1, <1>5, RingAssumption DEF DetailTypes, DetailRingFull
  <2>2. /\ gDetailTail' = Next32(gDetailTail)
        /\ gDetailsDropped' = gDetailsDropped + 1
    BY <1>5 DEF PushDetail
  <2>3. PutOverOf(gDetailRing, gDetailHead, gDetailTail, s, DetailEntries)
    BY <1>1, <1>2, <2>1, RingsFit, PushOverAppends, Zenon DEF DetailTypes
  <2>4. QueuedDetails' = Append(Tail(QueuedDetails), s)
    BY <1>3, <1>4, <2>2, <2>3, Zenon DEF PutOverOf
  <2>5. gDetailsDropped' - faulted' = (gDetailsDropped - faulted) + 1
    BY <1>1, <1>3, <2>2 DEF DetailTypes
  <2> QED
    BY <1>1, <1>3, <2>1, <2>4, <2>5 DEF DetailQueue!PutOverOldest, s
<1>6. CASE ~DetailRingFull
  <2>1. Queued(gDetailHead, gDetailTail) < DetailEntries
    BY <1>1, <1>6, RingAssumption DEF DetailTypes, DetailRingFull
  <2>2. gDetailTail' = gDetailTail /\ gDetailsDropped' = gDetailsDropped
    BY <1>6 DEF PushDetail
  <2>3. PutOf(gDetailRing, gDetailHead, gDetailTail, s, DetailEntries)
    BY <1>1, <1>2, <2>1, RingsFit, PushAppends, Zenon DEF DetailTypes
  <2>4. QueuedDetails' = Append(QueuedDetails, s)
    BY <1>3, <1>4, <2>2, <2>3, Zenon DEF PutOf
  <2> QED
    BY <1>1, <1>3, <2>1, <2>2, <2>4 DEF DetailQueue!PutWithRoom, s
<1> QED
  BY <1>5, <1>6

LEMMA ReadDetailsIsTake ==
  ASSUME QueueInv, ReadDetails
  PROVE  \/ UNCHANGED DetailQueue!qvars
         \/ \E n \in 1..Len(QueuedDetails) : DetailQueue!Take(n)
<1> DEFINE n == BatchSize(gDetailHead, gDetailTail, DetailBatch)
<1>1. DetailTypes
  BY DetailQueueTypes
<1>2. n \in 0..Queued(gDetailHead, gDetailTail)
  BY <1>1, BatchSizeType, BoundAssumption DEF DetailTypes
<1>3. /\ receivedDetails' = receivedDetails
                              \o Copied(gDetailRing, gDetailTail, n, DetailEntries)
      /\ gDetailTail' = (gDetailTail + n) % IndexModulus
      /\ UNCHANGED <<gDetailRing, gDetailHead, gDetailsDropped, faulted>>
  BY DEF ReadDetails, Copied, DetailSlot, counters, history
<1> HIDE DEF n
<1>4. /\ QueuedDetails
           = Contents(gDetailRing, gDetailHead, gDetailTail, DetailEntries)
      /\ QueuedDetails'
           = Contents(gDetailRing', gDetailHead', gDetailTail', DetailEntries)
  BY RingsAreContents DEF QueuedDetails, Contents, DetailSlot
<1>5. ReadOf(gDetailRing, gDetailHead, gDetailTail, n, DetailEntries,
             receivedDetails)
  BY <1>1, <1>2, RingsFit, ReadIsTake, Zenon DEF DetailTypes
<1>6. QueuedDetails' = Contents(gDetailRing, gDetailHead,
                                (gDetailTail + n) % IndexModulus, DetailEntries)
  BY <1>3, <1>4
<1>7. \/ QueuedDetails' = QueuedDetails /\ receivedDetails' = receivedDetails
      \/ /\ n \in 1..Len(QueuedDetails)
         /\ QueuedDetails' = SubSeq(QueuedDetails, n + 1, Len(QueuedDetails))
         /\ receivedDetails' = receivedDetails \o SubSeq(QueuedDetails, 1, n)
  BY <1>3, <1>4, <1>5, <1>6 DEF ReadOf
<1> QED
  BY <1>3, <1>7 DEF DetailQueue!qvars, DetailQueue!Take

LEMMA FlushIsDetailDiscard ==
  ASSUME QueueInv, FlushRings
  PROVE  DetailQueue!Discard
<1>1. DetailTypes
  BY DetailQueueTypes
<1>2. /\ gDetailRing' = gDetailRing /\ gDetailHead' = gDetailHead
      /\ gDetailTail' = gDetailHead
      /\ UNCHANGED <<receivedDetails, gDetailsDropped, faulted>>
  BY DEF FlushRings, counters
<1>3. QueuedDetails' = Contents(gDetailRing, gDetailHead, gDetailHead, DetailEntries)
  BY <1>2 DEF QueuedDetails, Contents, DetailSlot
<1>4. Contents(gDetailRing, gDetailHead, gDetailHead, DetailEntries) = << >>
  BY <1>1, RingsFit, NothingQueued, Zenon DEF DetailTypes
<1> QED
  BY <1>2, <1>3, <1>4 DEF DetailQueue!Discard

LEMMA OtherStepsLeaveDetails ==
  ASSUME QueueInv, [Next]_vars, ~ReadDetails, ~FlushRings,
         \A t \in Threads : ~PushDetail(t)
  PROVE  UNCHANGED DetailQueue!qvars
<1>1. ASSUME NEW t \in Threads, FilterFault(t) \/ DecoderFault(t)
      PROVE  UNCHANGED DetailQueue!qvars
  <2>1. /\ UNCHANGED <<gDetailRing, gDetailHead, gDetailTail, receivedDetails>>
        /\ gDetailsDropped' = gDetailsDropped + 1 /\ faulted' = faulted + 1
    BY <1>1 DEF FilterFault, DecoderFault, CountFault, detailRing, reader
  <2>2. gDetailsDropped \in Nat /\ faulted \in Int
    BY DetailQueueTypes DEF DetailTypes
  <2>3. gDetailsDropped' - faulted' = gDetailsDropped - faulted
    BY <2>1, <2>2
  <2> QED
    BY <2>1, <2>3, DetailsUntouched
<1>2. ASSUME NEW t \in Threads,
             \/ Admit(t) \/ Stamp(t) \/ PushEvent(t) \/ CountCaptured(t)
             \/ NoDetail(t)
      PROVE  UNCHANGED DetailQueue!qvars
  <2>1. UNCHANGED <<gDetailRing, gDetailHead, gDetailTail, receivedDetails,
                    gDetailsDropped, faulted>>
    BY <1>2 DEF Admit, Stamp, PushEvent, CountCaptured, NoDetail, detailRing,
       counters, reader, history
  <2> QED
    BY <2>1, DetailsUntouched
<1>3. ASSUME \/ OpenDevice \/ NoCommand \/ ReadEvents \/ CountDelivered
             \/ CloseDevice \/ UNCHANGED vars
             \/ \E capture, filtersChanged \in BOOLEAN :
                  SetConfig(capture, filtersChanged)
      PROVE  UNCHANGED DetailQueue!qvars
  <2>1. UNCHANGED <<gDetailRing, gDetailHead, gDetailTail, receivedDetails,
                    gDetailsDropped, faulted>>
    BY <1>3 DEF OpenDevice, NoCommand, ReadEvents, CountDelivered,
       CloseDevice, SetConfig, vars, detailRing, counters, reader, history
  <2> QED
    BY <2>1, DetailsUntouched
<1>4. (\E t \in Threads : SyscallCallback(t)) \/ Collector \/ UNCHANGED vars
  BY DEF Next
<1> QED
  BY <1>1, <1>2, <1>3, <1>4 DEF SyscallCallback, Collector

LEMMA NextDetailQueue ==
  QueueInv /\ [Next]_vars => [DetailQueue!Next]_(DetailQueue!qvars)
<1> SUFFICES ASSUME QueueInv, [Next]_vars
             PROVE  [DetailQueue!Next]_(DetailQueue!qvars)
  OBVIOUS
<1>1. ASSUME NEW t \in Threads, PushDetail(t) PROVE DetailQueue!Next
  <2>1. event[t] \in Event
    BY <1>1 DEF QueueInv, HoldsEvent, PushDetail, Return, Goto
  <2>2. event[t].sequence \in 1..MaxSequence
    BY <2>1 DEF Event
  <2> QED
    BY <1>1, <2>2, PushDetailIsPut DEF DetailQueue!Next
<1>2. CASE ReadDetails
  BY <1>2, ReadDetailsIsTake DEF DetailQueue!Next
<1>3. CASE FlushRings
  BY <1>3, FlushIsDetailDiscard DEF DetailQueue!Next
<1>4. CASE /\ ~ReadDetails /\ ~FlushRings
           /\ \A t \in Threads : ~PushDetail(t)
  BY <1>4, OtherStepsLeaveDetails
<1> QED
  BY <1>1, <1>2, <1>3, <1>4

LEMMA InitDetailQueue == Init => DetailQueue!Init
<1> SUFFICES ASSUME Init PROVE DetailQueue!Init
  OBVIOUS
<1>1. DetailTypes /\ gDetailHead = gDetailTail
  BY InitQueueInv, DetailQueueTypes DEF Init
<1>2. QueuedDetails = << >>
  BY <1>1, RingsAreContents, RingsFit, NothingQueued DEF DetailTypes
<1> QED
  BY <1>2 DEF Init, DetailQueue!Init

(* The detail ring is such a queue as well: details leave in the order     *)
(* they were decoded, only the oldest is ever lost, and each such loss is  *)
(* counted in gDetailsDropped.                                             *)
THEOREM DetailRingImplementsQueue == Spec => DetailRingIsLossyQueue
BY InitQueueInv, NextQueueInv, InitDetailQueue, NextDetailQueue, PTL
   DEF Spec, DetailRingIsLossyQueue, DetailQueue!Spec
-----------------------------------------------------------------------------
(* Order.  From here on the rings are used only as those queues.           *)


(* new is what remains of old when some of its entries are taken out.      *)
Within(new, old) ==
  \E f \in [1..Len(new) -> 1..Len(old)] :
    /\ \A i, j \in 1..Len(new) : i < j => f[i] < f[j]
    /\ \A i \in 1..Len(new) : new[i] = old[f[i]]

LEMMA WithinItself ==
  ASSUME NEW S, NEW s \in Seq(S)
  PROVE  Within(s, s)
<1> DEFINE f == [i \in 1..Len(s) |-> i]
<1>1. f \in [1..Len(s) -> 1..Len(s)]
  OBVIOUS
<1>2. /\ \A i, j \in 1..Len(s) : i < j => f[i] < f[j]
      /\ \A i \in 1..Len(s) : s[i] = s[f[i]]
  OBVIOUS
<1> QED
  BY <1>1, <1>2 DEF Within

(* A flush leaves what was read already.                                   *)
LEMMA FrontWithin ==
  ASSUME NEW S, NEW r \in Seq(S), NEW q \in Seq(S)
  PROVE  Within(r \o << >>, r \o q)
<1>1. r \o << >> = r
  BY ConcatEmptySeq
<1>2. /\ Len(r \o q) = Len(r) + Len(q) /\ Len(r) \in Nat /\ Len(q) \in Nat
      /\ \A i \in 1..Len(r) + Len(q) :
           (r \o q)[i] = IF i <= Len(r) THEN r[i] ELSE q[i - Len(r)]
  BY ConcatProperties, LenProperties
<1> DEFINE f == [i \in 1..Len(r) |-> i]
<1>3. f \in [1..Len(r) -> 1..Len(r \o q)]
  BY <1>2
<1>4. /\ \A i, j \in 1..Len(r) : i < j => f[i] < f[j]
      /\ \A i \in 1..Len(r) : r[i] = (r \o q)[f[i]]
  BY <1>2
<1> HIDE DEF f
<1>5. Within(r, r \o q)
  BY <1>3, <1>4 DEF Within
<1> QED
  BY <1>1, <1>5

(* A full ring gives up its oldest entry.                                  *)
LEMMA TailWithin ==
  ASSUME NEW S, NEW r \in Seq(S), NEW q \in Seq(S), q # << >>
  PROVE  Within(r \o Tail(q), r \o q)
<1> DEFINE new == r \o Tail(q)
           old == r \o q
           f == [i \in 1..Len(new) |-> IF i <= Len(r) THEN i ELSE i + 1]
<1>1. /\ Tail(q) \in Seq(S) /\ Len(Tail(q)) = Len(q) - 1
      /\ \A i \in 1..Len(Tail(q)) : Tail(q)[i] = q[i + 1]
  BY HeadTailProperties
<1>2. Len(r) \in Nat /\ Len(q) \in Nat /\ Len(q) # 0
  BY LenProperties, EmptySeq
<1>3. /\ Len(old) = Len(r) + Len(q)
      /\ \A i \in 1..Len(r) + Len(q) :
           old[i] = IF i <= Len(r) THEN r[i] ELSE q[i - Len(r)]
  BY ConcatProperties
<1>4. /\ Len(new) = Len(r) + Len(Tail(q))
      /\ \A i \in 1..Len(r) + Len(Tail(q)) :
           new[i] = IF i <= Len(r) THEN r[i] ELSE Tail(q)[i - Len(r)]
  BY <1>1, ConcatProperties
<1> HIDE DEF new, old
<1>5. f \in [1..Len(new) -> 1..Len(old)]
  BY <1>1, <1>2, <1>3, <1>4
<1>6. \A i, j \in 1..Len(new) : i < j => f[i] < f[j]
  BY <1>2
<1>7. ASSUME NEW i \in 1..Len(new) PROVE new[i] = old[f[i]]
  <2>1. CASE i <= Len(r)
    <3>1. f[i] = i /\ i \in 1..Len(r) + Len(q) /\ i \in 1..Len(r) + Len(Tail(q))
      BY <1>1, <1>2, <1>4, <2>1
    <3> QED
      BY <1>3, <1>4, <2>1, <3>1
  <2>2. CASE ~(i <= Len(r))
    <3>1. /\ f[i] = i + 1 /\ i + 1 \in 1..Len(r) + Len(q)
          /\ i \in 1..Len(r) + Len(Tail(q))
          /\ i - Len(r) \in 1..Len(Tail(q))
          /\ ~(i + 1 <= Len(r)) /\ (i + 1) - Len(r) = (i - Len(r)) + 1
      BY <1>1, <1>2, <1>4, <2>2
    <3>2. new[i] = Tail(q)[i - Len(r)] /\ old[i + 1] = q[(i + 1) - Len(r)]
      BY <1>3, <1>4, <2>2, <3>1
    <3> QED
      BY <1>1, <3>1, <3>2
  <2> QED
    BY <2>1, <2>2
<1> HIDE DEF f
<1>8. Within(new, old)
  BY <1>5, <1>6, <1>7 DEF Within
<1> QED
  BY <1>8 DEF new, old

Joins(r, a, b, q) == a \o b = q => (r \o a) \o b = r \o q

LEMMA ThreeParts ==
  ASSUME NEW S, NEW r \in Seq(S), NEW a \in Seq(S), NEW b \in Seq(S),
         NEW q \in Seq(S)
  PROVE  Joins(r, a, b, q)
<1> SUFFICES ASSUME a \o b = q PROVE (r \o a) \o b = r \o q
  BY DEF Joins
<1> DEFINE ra == r \o a
           left == ra \o b
           right == r \o q
<1>1. Len(r) \in Nat /\ Len(a) \in Nat /\ Len(b) \in Nat
  BY LenProperties
<1>2. /\ ra \in Seq(S) /\ Len(ra) = Len(r) + Len(a)
      /\ \A i \in 1..Len(r) + Len(a) :
           ra[i] = IF i <= Len(r) THEN r[i] ELSE a[i - Len(r)]
  BY ConcatProperties
<1>3. /\ Len(q) = Len(a) + Len(b)
      /\ \A i \in 1..Len(a) + Len(b) :
           q[i] = IF i <= Len(a) THEN a[i] ELSE b[i - Len(a)]
  BY ConcatProperties
<1>4. /\ right \in Seq(S) /\ Len(right) = Len(r) + Len(q)
      /\ \A i \in 1..Len(r) + Len(q) :
           right[i] = IF i <= Len(r) THEN r[i] ELSE q[i - Len(r)]
  BY ConcatProperties
<1> HIDE DEF ra
<1>5. /\ left \in Seq(S) /\ Len(left) = Len(ra) + Len(b)
      /\ \A i \in 1..Len(ra) + Len(b) :
           left[i] = IF i <= Len(ra) THEN ra[i] ELSE b[i - Len(ra)]
  BY <1>2, ConcatProperties
<1> HIDE DEF left, right
<1>6. ASSUME NEW i \in 1..Len(left) PROVE left[i] = right[i]
  <2>1. CASE i <= Len(r)
    <3>1. left[i] = r[i]
      BY <1>1, <1>2, <1>5, <2>1
    <3>2. right[i] = r[i]
      BY <1>1, <1>3, <1>4, <2>1
    <3> QED
      BY <3>1, <3>2
  <2>2. CASE Len(r) < i /\ i <= Len(ra)
    <3>1. left[i] = a[i - Len(r)]
      BY <1>1, <1>2, <1>5, <2>2
    <3>2. i - Len(r) \in 1..Len(a) + Len(b) /\ i - Len(r) <= Len(a)
      BY <1>1, <1>2, <2>2
    <3>3. right[i] = q[i - Len(r)]
      BY <1>1, <1>2, <1>3, <1>4, <1>5, <2>2
    <3> QED
      BY <1>3, <3>1, <3>2, <3>3
  <2>3. CASE Len(ra) < i
    <3>1. left[i] = b[i - Len(ra)]
      BY <1>1, <1>2, <1>5, <2>3
    <3>2. /\ i - Len(r) \in 1..Len(a) + Len(b) /\ ~(i - Len(r) <= Len(a))
          /\ (i - Len(r)) - Len(a) = i - Len(ra)
      BY <1>1, <1>2, <1>5, <2>3
    <3>3. right[i] = q[i - Len(r)]
      BY <1>1, <1>2, <1>3, <1>4, <1>5, <2>3
    <3> QED
      BY <1>3, <3>1, <3>2, <3>3
  <2> QED
    BY <1>1, <1>2, <2>1, <2>2, <2>3
<1>7. Len(left) = Len(right)
  BY <1>1, <1>2, <1>3, <1>4, <1>5
<1>8. left = right
  BY <1>4, <1>5, <1>6, <1>7, SeqEqual
<1> QED
  BY <1>8 DEF left, right, ra

(* A read moves the boundary and nothing else.                             *)
LEMMA TakeKeeps ==
  ASSUME NEW S, NEW r \in Seq(S), NEW q \in Seq(S), NEW n \in 1..Len(q)
  PROVE  (r \o SubSeq(q, 1, n)) \o SubSeq(q, n + 1, Len(q)) = r \o q
<1>1. Len(q) \in Nat /\ \A i \in 1..Len(q) : q[i] \in S
  BY LenProperties, ElementOfSeq
<1>2. SubSeq(q, 1, n) \in Seq(S) /\ SubSeq(q, n + 1, Len(q)) \in Seq(S)
  BY <1>1, SubSeqProperties
<1>3. SubSeq(q, 1, n) \o SubSeq(q, n + 1, Len(q)) = SubSeq(q, 1, Len(q))
  <2>1. 1 \in 1..Len(q) + 1 /\ n \in 1 - 1..Len(q) /\ Len(q) \in n..Len(q)
    BY <1>1
  <2> QED
    BY <2>1, ConcatAdjacentSubSeq
<1>4. SubSeq(q, 1, Len(q)) = q
  BY SubSeqFull
<1> DEFINE a == SubSeq(q, 1, n)
           b == SubSeq(q, n + 1, Len(q))
<1>5. a \in Seq(S) /\ b \in Seq(S) /\ a \o b = q
  BY <1>2, <1>3, <1>4
<1> HIDE DEF a, b
<1>6. (r \o a) \o b = r \o q
  <2>1. Joins(r, a, b, q)
    BY <1>5, ThreeParts, Zenon
  <2> QED
    BY <1>5, <2>1 DEF Joins
<1> QED
  BY <1>6 DEF a, b

LEMMA PutAtEnd ==
  ASSUME NEW S, NEW r \in Seq(S), NEW q \in Seq(S), NEW e \in S
  PROVE  r \o Append(q, e) = Append(r \o q, e) /\ r \o q \in Seq(S)
<1>1. Append(q, e) = q \o <<e>> /\ <<e>> \in Seq(S)
  BY AppendIsConcat
<1>2. r \o q \in Seq(S)
  BY ConcatProperties
<1>3. Append(r \o q, e) = (r \o q) \o <<e>>
  BY <1>2, AppendIsConcat
<1> QED
  BY <1>1, <1>2, <1>3, ConcatAssociative

(* One step of a ring as the stream of everything read or queued sees it.  *)
Thins(new, old) == new = old \/ Within(new, old)

PutInto(S, new, old, e) ==
  \E kept \in Seq(S) : Within(kept, old) /\ new = Append(kept, e)

LEMMA PutGrows ==
  ASSUME NEW S, NEW r \in Seq(S), NEW q \in Seq(S), NEW e \in S
  PROVE  /\ PutInto(S, r \o Append(q, e), r \o q, e)
         /\ q # << >> => PutInto(S, r \o Append(Tail(q), e), r \o q, e)
<1>1. PutInto(S, r \o Append(q, e), r \o q, e)
  <2>1. r \o q \in Seq(S) /\ r \o Append(q, e) = Append(r \o q, e)
    BY PutAtEnd
  <2>2. Within(r \o q, r \o q)
    BY <2>1, WithinItself
  <2> QED
    BY <2>1, <2>2 DEF PutInto
<1>2. ASSUME q # << >> PROVE PutInto(S, r \o Append(Tail(q), e), r \o q, e)
  <2>1. Tail(q) \in Seq(S)
    BY <1>2, HeadTailProperties
  <2>2. /\ r \o Tail(q) \in Seq(S)
        /\ r \o Append(Tail(q), e) = Append(r \o Tail(q), e)
    BY <2>1, PutAtEnd
  <2>3. Within(r \o Tail(q), r \o q)
    BY <1>2, TailWithin
  <2> QED
    BY <2>2, <2>3 DEF PutInto
<1> QED
  BY <1>1, <1>2
-----------------------------------------------------------------------------
(* The order of one thread's events.                                       *)

Ordered(s) ==
  \A i, j \in 1..Len(s) :
    i < j /\ s[i].tid = s[j].tid => s[i].sequence < s[j].sequence

Newer(s, e) ==
  \A i \in 1..Len(s) : s[i].tid = e.tid => s[i].sequence < e.sequence

Numbered(s, last) == \A i \in 1..Len(s) : s[i].sequence \in 0..last

LEMMA ThinsKeeps ==
  ASSUME NEW new, NEW old, Thins(new, old)
  PROVE  /\ Ordered(old) => Ordered(new)
         /\ \A e : Newer(old, e) => Newer(new, e)
         /\ \A last : Numbered(old, last) => Numbered(new, last)
<1>1. CASE new = old
  BY <1>1
<1>2. CASE Within(new, old)
  <2>1. PICK f \in [1..Len(new) -> 1..Len(old)] :
          /\ \A i, j \in 1..Len(new) : i < j => f[i] < f[j]
          /\ \A i \in 1..Len(new) : new[i] = old[f[i]]
    BY <1>2 DEF Within
  <2>2. \A i \in 1..Len(new) : f[i] \in 1..Len(old)
    BY <2>1
  <2>3. ASSUME Ordered(old)
        PROVE  Ordered(new)
    <3> SUFFICES ASSUME NEW i \in 1..Len(new), NEW j \in 1..Len(new),
                        i < j, new[i].tid = new[j].tid
                 PROVE  new[i].sequence < new[j].sequence
      BY DEF Ordered
    <3>1. /\ f[i] < f[j]
          /\ old[f[i]].tid = old[f[j]].tid
      BY <2>1
    <3>2. old[f[i]].sequence < old[f[j]].sequence
      BY <2>2, <2>3, <3>1 DEF Ordered
    <3> QED
      BY <2>1, <3>2
  <2>4. ASSUME NEW e, Newer(old, e)
        PROVE  Newer(new, e)
    BY <2>1, <2>2, <2>4 DEF Newer
  <2>5. ASSUME NEW last, Numbered(old, last)
        PROVE  Numbered(new, last)
    BY <2>1, <2>2, <2>5 DEF Numbered
  <2> QED
    BY <2>3, <2>4, <2>5
<1> QED
  BY <1>1, <1>2 DEF Thins

LEMMA AppendKeeps ==
  ASSUME NEW S, NEW s \in Seq(S), NEW e \in S
  PROVE  /\ Ordered(s) /\ Newer(s, e) => Ordered(Append(s, e))
         /\ \A other : Newer(s, other) /\ e.tid # other.tid
              => Newer(Append(s, e), other)
         /\ \A last : Numbered(s, last) /\ e.sequence \in 0..last
              => Numbered(Append(s, e), last)
<1> DEFINE t == Append(s, e)
<1>1. /\ Len(s) \in Nat /\ Len(t) = Len(s) + 1
      /\ \A i \in 1..Len(s) : t[i] = s[i]
      /\ t[Len(s) + 1] = e
  BY AppendProperties, LenProperties
<1> HIDE DEF t
<1>2. \A i \in 1..Len(t) : i \in 1..Len(s) \/ i = Len(s) + 1
  BY <1>1
<1>3. ASSUME Ordered(s), Newer(s, e) PROVE Ordered(t)
  <2> SUFFICES ASSUME NEW i \in 1..Len(t), NEW j \in 1..Len(t),
                      i < j, t[i].tid = t[j].tid
               PROVE  t[i].sequence < t[j].sequence
    BY DEF Ordered
  <2>1. i \in 1..Len(s)
    BY <1>1, <1>2
  <2>2. CASE j \in 1..Len(s)
    BY <1>1, <1>3, <2>1, <2>2 DEF Ordered
  <2>3. CASE j = Len(s) + 1
    BY <1>1, <1>3, <2>1, <2>3 DEF Newer
  <2> QED
    BY <1>2, <2>2, <2>3
<1>4. ASSUME NEW other, Newer(s, other), e.tid # other.tid PROVE Newer(t, other)
  BY <1>1, <1>2, <1>4 DEF Newer
<1>5. ASSUME NEW last, Numbered(s, last), e.sequence \in 0..last
      PROVE  Numbered(t, last)
  BY <1>1, <1>2, <1>5 DEF Numbered
<1> QED
  BY <1>3, <1>4, <1>5 DEF t

(* Everything a step may do to the stream of events.                       *)
Stream == received \o QueuedEvents

Entries == Event \cup {NoEvent}

LEMMA StreamSteps ==
  ASSUME QueueInv, [Next]_vars
  PROVE  \/ Thins(Stream', Stream) /\ \A t \in Threads : ~PushEvent(t)
         \/ \E t \in Threads :
              PushEvent(t) /\ PutInto(Entries, Stream', Stream, event[t])
<1>1. /\ received \in Seq(Entries) /\ QueuedEvents \in Seq(Entries)
      /\ Len(QueuedEvents) = Queued(gHead, gTail)
  BY QueueTypes DEF EventTypes, Entries
<1>2. ASSUME NEW t \in Threads, PushEvent(t)
      PROVE  PutInto(Entries, Stream', Stream, event[t])
  <2>1. event[t] \in Entries
    BY DEF QueueInv, TypeOK, Entries
  <2>2. CASE EventQueue!PutWithRoom(event[t])
    <3>1. received' = received /\ QueuedEvents' = Append(QueuedEvents, event[t])
      BY <2>2 DEF EventQueue!PutWithRoom
    <3> QED
      BY <1>1, <2>1, <3>1, PutGrows DEF Stream
  <2>3. CASE EventQueue!PutOverOldest(event[t])
    <3>1. /\ received' = received
          /\ QueuedEvents' = Append(Tail(QueuedEvents), event[t])
          /\ Len(QueuedEvents) = RingEntries
      BY <2>3 DEF EventQueue!PutOverOldest
    <3>2. QueuedEvents # << >>
      BY <1>1, <3>1, EmptySeq, RingAssumption
    <3> QED
      BY <1>1, <2>1, <3>1, <3>2, PutGrows DEF Stream
  <2> QED
    BY <1>2, <2>2, <2>3, PushIsPut
<1>3. ASSUME \A t \in Threads : ~PushEvent(t) PROVE Thins(Stream', Stream)
  <2>1. CASE UNCHANGED EventQueue!qvars
    BY <2>1 DEF EventQueue!qvars, Stream, Thins
  <2>2. CASE FlushRings
    <3>1. received' = received /\ QueuedEvents' = << >>
      BY <2>2, FlushIsDiscard DEF EventQueue!Discard
    <3>2. Within(received \o << >>, received \o QueuedEvents)
      BY <1>1, FrontWithin
    <3> QED
      BY <3>1, <3>2 DEF Stream, Thins
  <2>3. ASSUME NEW n \in 1..Len(QueuedEvents), EventQueue!Take(n)
        PROVE  Thins(Stream', Stream)
    <3>1. /\ received' = received \o SubSeq(QueuedEvents, 1, n)
          /\ QueuedEvents' = SubSeq(QueuedEvents, n + 1, Len(QueuedEvents))
      BY <2>3 DEF EventQueue!Take
    <3>2. (received \o SubSeq(QueuedEvents, 1, n))
             \o SubSeq(QueuedEvents, n + 1, Len(QueuedEvents))
            = received \o QueuedEvents
      BY <1>1, TakeKeeps
    <3> QED
      BY <3>1, <3>2 DEF Stream, Thins
  <2>4. CASE ReadEvents
    BY <2>1, <2>3, <2>4, ReadEventsIsTake
  <2>5. CASE ~FlushRings /\ ~ReadEvents
    BY <1>3, <2>1, <2>5, OtherStepsLeaveEvents
  <2> QED
    BY <2>2, <2>4, <2>5
<1> QED
  BY <1>2, <1>3
-----------------------------------------------------------------------------
(* The invariant: numbers are given out once, and a stamped event that has *)
(* still to be pushed is newer than all its thread has in the stream.      *)

StampedIsNewest ==
  /\ Numbered(Stream, gSequence)
  /\ \A t \in Threads :
       pc[t] = "stamped" => /\ event[t].tid = t
                            /\ event[t].sequence \in 0..gSequence
                            /\ Newer(Stream, event[t])

OrderInv == QueueInv /\ Ordered(Stream) /\ StampedIsNewest

LEMMA InitOrderInv == Init => OrderInv
<1> SUFFICES ASSUME Init PROVE OrderInv
  OBVIOUS
<1>1. QueuedEvents = << >> /\ received = << >>
  BY InitEventQueue DEF EventQueue!Init
<1>2. Len(Stream) = 0
  <2>1. << >> \o << >> = << >> /\ Len(<< >>) = 0
    BY EmptySeq, ConcatEmptySeq
  <2> QED
    BY <1>1, <2>1 DEF Stream
<1>3. Ordered(Stream) /\ Numbered(Stream, gSequence)
  BY <1>2 DEF Ordered, Numbered
<1>4. \A t \in Threads : pc[t] # "stamped"
  BY DEF Init
<1> QED
  BY <1>3, <1>4, InitQueueInv DEF OrderInv, StampedIsNewest

(* A push: the newest event of its thread goes to the end of the stream.   *)
LEMMA PushKeepsOrder ==
  ASSUME OrderInv, NEW t \in Threads, PushEvent(t),
         PutInto(Entries, Stream', Stream, event[t])
  PROVE  Ordered(Stream') /\ StampedIsNewest'
<1>1. PICK kept \in Seq(Entries) :
        Within(kept, Stream) /\ Stream' = Append(kept, event[t])
  BY DEF PutInto
<1>2. /\ pc[t] = "stamped" /\ event' = event /\ gSequence' = gSequence
      /\ \A u \in Threads : pc'[u] = "stamped" => pc[u] = "stamped" /\ u # t
  BY DEF PushEvent, Goto, OrderInv, QueueInv, TypeOK
<1>3. Thins(kept, Stream)
  BY <1>1 DEF Thins
<1>4. Ordered(kept) /\ Numbered(kept, gSequence)
  BY <1>3, ThinsKeeps DEF OrderInv, StampedIsNewest
<1>5. \A u \in Threads : pc[u] = "stamped" =>
        /\ Newer(kept, event[u]) /\ event[u].tid = u
        /\ event[u].sequence \in 0..gSequence
  BY <1>3, ThinsKeeps DEF OrderInv, StampedIsNewest
<1>6. event[t] \in Entries
  BY DEF OrderInv, QueueInv, TypeOK, Entries
<1>7. Ordered(Stream') /\ Numbered(Stream', gSequence)
  BY <1>1, <1>2, <1>4, <1>5, <1>6, AppendKeeps
<1>8. ASSUME NEW u \in Threads, pc'[u] = "stamped" PROVE Newer(Stream', event[u])
  <2>1. pc[u] = "stamped" /\ u # t
    BY <1>2, <1>8
  <2>2. Newer(kept, event[u]) /\ event[t].tid # event[u].tid
    BY <1>2, <1>5, <2>1
  <2> QED
    BY <1>1, <1>6, <2>2, AppendKeeps
<1> QED
  BY <1>2, <1>5, <1>7, <1>8 DEF StampedIsNewest

(* A stamp: the number is above everything the stream holds.               *)
LEMMA StampKeepsOrder ==
  ASSUME OrderInv, NEW t \in Threads, Stamp(t), Thins(Stream', Stream)
  PROVE  Ordered(Stream') /\ StampedIsNewest'
<1>1. /\ gSequence \in Nat /\ gSequence' = gSequence + 1
      /\ event' = [event EXCEPT ![t] = [sequence |-> gSequence + 1, tid |-> t]]
      /\ \A u \in Threads : pc'[u] = "stamped" => u = t \/ pc[u] = "stamped"
      /\ event \in [Threads -> Event \cup {NoEvent}]
  BY DEF OrderInv, QueueInv, TypeOK, Stamp, Goto
<1>2. Ordered(Stream') /\ Numbered(Stream', gSequence)
  BY ThinsKeeps DEF OrderInv, StampedIsNewest
<1>3. Numbered(Stream', gSequence + 1)
  BY <1>1, <1>2 DEF Numbered
<1>4. ASSUME NEW u \in Threads, pc'[u] = "stamped"
      PROVE  /\ event'[u].tid = u /\ event'[u].sequence \in 0..gSequence'
             /\ Newer(Stream', event'[u])
  <2>1. CASE u = t
    <3>1. event'[u] = [sequence |-> gSequence + 1, tid |-> t]
      BY <1>1, <2>1
    <3> QED
      BY <1>1, <1>2, <2>1, <3>1 DEF Newer, Numbered
  <2>2. CASE u # t
    <3>1. event'[u] = event[u] /\ pc[u] = "stamped"
      BY <1>1, <1>4, <2>2
    <3>2. /\ event[u].tid = u /\ event[u].sequence \in 0..gSequence
          /\ Newer(Stream, event[u])
      BY <3>1 DEF OrderInv, StampedIsNewest
    <3>3. Newer(Stream', event[u])
      BY <3>2, ThinsKeeps
    <3> QED
      BY <1>1, <3>1, <3>2, <3>3
  <2> QED
    BY <2>1, <2>2
<1> QED
  BY <1>1, <1>2, <1>3, <1>4 DEF StampedIsNewest

(* Any other step changes no stamped event and at most thins the stream.   *)
LEMMA OthersKeepOrder ==
  ASSUME OrderInv, Thins(Stream', Stream), gSequence' = gSequence,
         \A u \in Threads :
           pc'[u] = "stamped" => pc[u] = "stamped" /\ event'[u] = event[u]
  PROVE  Ordered(Stream') /\ StampedIsNewest'
<1>1. Ordered(Stream') /\ Numbered(Stream', gSequence)
  BY ThinsKeeps DEF OrderInv, StampedIsNewest
<1>2. ASSUME NEW u \in Threads, pc'[u] = "stamped"
      PROVE  /\ event'[u].tid = u /\ event'[u].sequence \in 0..gSequence
             /\ Newer(Stream', event'[u])
  <2>1. pc[u] = "stamped" /\ event'[u] = event[u]
    BY <1>2
  <2>2. /\ event[u].tid = u /\ event[u].sequence \in 0..gSequence
        /\ Newer(Stream, event[u])
    BY <2>1 DEF OrderInv, StampedIsNewest
  <2>3. Newer(Stream', event[u])
    BY <2>2, ThinsKeeps
  <2> QED
    BY <2>1, <2>2, <2>3
<1> QED
  BY <1>1, <1>2 DEF StampedIsNewest

LEMMA OthersKeepStamps ==
  ASSUME QueueInv, [Next]_vars, \A t \in Threads : ~Stamp(t)
  PROVE  /\ gSequence' = gSequence
         /\ \A u \in Threads :
              pc'[u] = "stamped" => pc[u] = "stamped" /\ event'[u] = event[u]
<1>1. pc \in [Threads -> PCs] /\ event \in [Threads -> Event \cup {NoEvent}]
  BY DEF QueueInv, TypeOK
<1>2. CASE \E t \in Threads : SyscallCallback(t)
  <2>1. PICK t \in Threads : SyscallCallback(t)
    BY <1>2
  <2>2. CASE \/ Admit(t) \/ PushEvent(t) \/ CountCaptured(t) \/ FilterFault(t)
    BY <1>1, <2>2 DEF Admit, PushEvent, CountCaptured, FilterFault, CountFault,
       callback, counters, Goto
  <2>3. CASE \/ DecoderFault(t) \/ NoDetail(t) \/ PushDetail(t)
    BY <1>1, <2>3 DEF DecoderFault, NoDetail, PushDetail, Return, CountFault,
       counters, Goto
  <2> QED
    BY <2>1, <2>2, <2>3 DEF SyscallCallback
<1>3. CASE Collector \/ UNCHANGED vars
  BY <1>3 DEF Collector, OpenDevice, FlushRings, NoCommand, SetConfig,
     ReadEvents, CountDelivered, ReadDetails, CloseDevice, vars, callback,
     counters
<1> QED
  BY <1>2, <1>3 DEF Next

LEMMA NextOrderInv == OrderInv /\ [Next]_vars => OrderInv'
<1> SUFFICES ASSUME OrderInv, [Next]_vars PROVE OrderInv'
  OBVIOUS
<1>1. QueueInv /\ QueueInv'
  BY NextQueueInv DEF OrderInv
<1>2. Ordered(Stream') /\ StampedIsNewest'
  <2>1. CASE \E t \in Threads :
               PushEvent(t) /\ PutInto(Entries, Stream', Stream, event[t])
    BY <2>1, PushKeepsOrder
  <2>2. CASE Thins(Stream', Stream)
    <3>1. CASE \E t \in Threads : Stamp(t)
      BY <2>2, <3>1, StampKeepsOrder
    <3>2. CASE \A t \in Threads : ~Stamp(t)
      BY <1>1, <2>2, <3>2, OthersKeepStamps, OthersKeepOrder
    <3> QED
      BY <3>1, <3>2
  <2> QED
    BY <1>1, <2>1, <2>2, StreamSteps
<1> QED
  BY <1>1, <1>2 DEF OrderInv, Ordered, Stream

(* The calls of each thread reach the collector in the order the thread    *)
(* made them, each at most once, whatever is dropped or flushed between    *)
(* them, although the number is taken outside the lock of the ring.        *)
THEOREM ThreadsStayInOrder == Spec => []PerThreadOrder
<1>1. OrderInv => PerThreadOrder
  BY DEF OrderInv, Ordered, Stream, PerThreadOrder
<1> QED
  BY <1>1, InitOrderInv, NextOrderInv, PTL DEF Spec
-----------------------------------------------------------------------------
(* The details.  A thread holds the number of its event from the stamp to  *)
(* its return, and no other thread and no detail has that number yet.      *)

DetailStream == receivedDetails \o QueuedDetails

Once(s) == \A i, j \in 1..Len(s) : i # j => s[i] # s[j]

Has(s, n) == \E i \in 1..Len(s) : s[i] = n

Holding(t) == pc[t] \in {"stamped", "pushed", "captured"}

HeldIsFresh ==
  /\ \A n : Has(DetailStream, n) => n \in 1..gSequence
  /\ \A t \in Threads :
       Holding(t) => /\ event[t].sequence \in 1..gSequence
                     /\ ~Has(DetailStream, event[t].sequence)
  /\ \A t, u \in Threads :
       Holding(t) /\ Holding(u) /\ t # u => event[t].sequence # event[u].sequence

DetailInv == QueueInv /\ Once(DetailStream) /\ HeldIsFresh

LEMMA ThinsKeepsOnce ==
  ASSUME NEW new, NEW old, Thins(new, old)
  PROVE  /\ Once(old) => Once(new)
         /\ \A n : Has(new, n) => Has(old, n)
<1>1. CASE new = old
  BY <1>1
<1>2. CASE Within(new, old)
  <2>1. PICK f \in [1..Len(new) -> 1..Len(old)] :
          /\ \A i, j \in 1..Len(new) : i < j => f[i] < f[j]
          /\ \A i \in 1..Len(new) : new[i] = old[f[i]]
    BY <1>2 DEF Within
  <2>2. \A i \in 1..Len(new) : f[i] \in 1..Len(old)
    BY <2>1
  <2>3. \A i, j \in 1..Len(new) : i # j => f[i] # f[j]
    <3> SUFFICES ASSUME NEW i \in 1..Len(new), NEW j \in 1..Len(new), i # j
                 PROVE  f[i] # f[j]
      OBVIOUS
    <3>1. i < j \/ j < i
      OBVIOUS
    <3>2. f[i] < f[j] \/ f[j] < f[i]
      BY <2>1, <3>1
    <3> QED
      BY <2>2, <3>2
  <2>4. ASSUME Once(old)
        PROVE  Once(new)
    <3> SUFFICES ASSUME NEW i \in 1..Len(new), NEW j \in 1..Len(new), i # j
                 PROVE  new[i] # new[j]
      BY DEF Once
    <3>1. old[f[i]] # old[f[j]]
      BY <2>2, <2>3, <2>4 DEF Once
    <3> QED
      BY <2>1, <3>1
  <2>5. ASSUME NEW n, Has(new, n)
        PROVE  Has(old, n)
    <3>1. PICK i \in 1..Len(new) : new[i] = n
      BY <2>5 DEF Has
    <3>2. f[i] \in 1..Len(old) /\ old[f[i]] = n
      BY <2>1, <2>2, <3>1
    <3> QED
      BY <3>2 DEF Has
  <2> QED
    BY <2>4, <2>5
<1> QED
  BY <1>1, <1>2 DEF Thins

LEMMA AppendKeepsOnce ==
  ASSUME NEW S, NEW s \in Seq(S), NEW e \in S
  PROVE  /\ Once(s) /\ ~Has(s, e) => Once(Append(s, e))
         /\ \A n : Has(Append(s, e), n) => Has(s, n) \/ n = e
<1> DEFINE t == Append(s, e)
<1>1. /\ Len(s) \in Nat /\ Len(t) = Len(s) + 1
      /\ \A i \in 1..Len(s) : t[i] = s[i]
      /\ t[Len(s) + 1] = e
  BY AppendProperties, LenProperties
<1> HIDE DEF t
<1>2. \A i \in 1..Len(t) : i \in 1..Len(s) \/ i = Len(s) + 1
  BY <1>1
<1>3. Once(s) /\ ~Has(s, e) => Once(t)
  BY <1>1, <1>2 DEF Once, Has
<1>4. \A n : Has(t, n) => Has(s, n) \/ n = e
  BY <1>1, <1>2 DEF Has
<1> QED
  BY <1>3, <1>4 DEF t

LEMMA DetailSteps ==
  ASSUME QueueInv, [Next]_vars
  PROVE  \/ Thins(DetailStream', DetailStream)
         \/ \E t \in Threads :
              /\ PushDetail(t)
              /\ PutInto(0..MaxSequence, DetailStream', DetailStream,
                         event[t].sequence)
<1>1. /\ receivedDetails \in Seq(0..MaxSequence)
      /\ QueuedDetails \in Seq(0..MaxSequence)
      /\ Len(QueuedDetails) = Queued(gDetailHead, gDetailTail)
  BY DetailQueueTypes DEF DetailTypes
<1>2. ASSUME NEW t \in Threads, PushDetail(t)
      PROVE  PutInto(0..MaxSequence, DetailStream', DetailStream,
                     event[t].sequence)
  <2> DEFINE e == event[t].sequence
  <2>1. e \in 0..MaxSequence
    BY BoundAssumption DEF QueueInv, TypeOK, Event, NoEvent
  <2> HIDE DEF e
  <2>2. CASE DetailQueue!PutWithRoom(e)
    <3>1. /\ receivedDetails' = receivedDetails
          /\ QueuedDetails' = Append(QueuedDetails, e)
      BY <2>2 DEF DetailQueue!PutWithRoom
    <3> QED
      BY <1>1, <2>1, <3>1, PutGrows DEF DetailStream, e
  <2>3. CASE DetailQueue!PutOverOldest(e)
    <3>1. /\ receivedDetails' = receivedDetails
          /\ QueuedDetails' = Append(Tail(QueuedDetails), e)
          /\ Len(QueuedDetails) = DetailEntries
      BY <2>3 DEF DetailQueue!PutOverOldest
    <3>2. QueuedDetails # << >>
      BY <1>1, <3>1, EmptySeq, RingAssumption
    <3> QED
      BY <1>1, <2>1, <3>1, <3>2, PutGrows DEF DetailStream, e
  <2> QED
    BY <1>2, <2>2, <2>3, PushDetailIsPut DEF e
<1>3. ASSUME \A t \in Threads : ~PushDetail(t)
      PROVE  Thins(DetailStream', DetailStream)
  <2>1. CASE UNCHANGED DetailQueue!qvars
    BY <2>1 DEF DetailQueue!qvars, DetailStream, Thins
  <2>2. CASE FlushRings
    <3>1. receivedDetails' = receivedDetails /\ QueuedDetails' = << >>
      BY <2>2, FlushIsDetailDiscard DEF DetailQueue!Discard
    <3>2. Within(receivedDetails \o << >>, receivedDetails \o QueuedDetails)
      BY <1>1, FrontWithin
    <3> QED
      BY <3>1, <3>2 DEF DetailStream, Thins
  <2>3. ASSUME NEW n \in 1..Len(QueuedDetails), DetailQueue!Take(n)
        PROVE  Thins(DetailStream', DetailStream)
    <3>1. /\ receivedDetails' = receivedDetails \o SubSeq(QueuedDetails, 1, n)
          /\ QueuedDetails' = SubSeq(QueuedDetails, n + 1, Len(QueuedDetails))
      BY <2>3 DEF DetailQueue!Take
    <3>2. (receivedDetails \o SubSeq(QueuedDetails, 1, n))
             \o SubSeq(QueuedDetails, n + 1, Len(QueuedDetails))
            = receivedDetails \o QueuedDetails
      BY <1>1, TakeKeeps
    <3> QED
      BY <3>1, <3>2 DEF DetailStream, Thins
  <2>4. CASE ReadDetails
    BY <2>1, <2>3, <2>4, ReadDetailsIsTake
  <2>5. CASE ~FlushRings /\ ~ReadDetails
    BY <1>3, <2>1, <2>5, OtherStepsLeaveDetails
  <2> QED
    BY <2>2, <2>4, <2>5
<1> QED
  BY <1>2, <1>3

LEMMA InitDetailInv == Init => DetailInv
<1> SUFFICES ASSUME Init PROVE DetailInv
  OBVIOUS
<1>1. QueuedDetails = << >> /\ receivedDetails = << >>
  BY InitDetailQueue DEF DetailQueue!Init
<1>2. Len(DetailStream) = 0
  <2>1. << >> \o << >> = << >> /\ Len(<< >>) = 0
    BY EmptySeq, ConcatEmptySeq
  <2> QED
    BY <1>1, <2>1 DEF DetailStream
<1>3. Once(DetailStream) /\ \A n : ~Has(DetailStream, n)
  BY <1>2 DEF Once, Has
<1>4. \A t \in Threads : ~Holding(t)
  BY DEF Init, Holding
<1> QED
  BY <1>3, <1>4, InitQueueInv DEF DetailInv, HeldIsFresh

LEMMA OthersKeepHeld ==
  ASSUME QueueInv, [Next]_vars, \A t \in Threads : ~Stamp(t)
  PROVE  /\ gSequence' = gSequence
         /\ \A u \in Threads :
              Holding(u)' => Holding(u) /\ event'[u] = event[u]
         /\ \A u \in Threads : PushDetail(u) => ~Holding(u)'
<1>1. pc \in [Threads -> PCs] /\ event \in [Threads -> Event \cup {NoEvent}]
  BY DEF QueueInv, TypeOK
<1>2. ASSUME NEW t \in Threads, PushDetail(t) PROVE pc'[t] = "user"
  BY <1>1, <1>2 DEF PushDetail, Return, Goto
<1>3. CASE \E t \in Threads : SyscallCallback(t)
  <2>1. PICK t \in Threads : SyscallCallback(t)
    BY <1>3
  <2>2. CASE \/ Admit(t) \/ PushEvent(t) \/ CountCaptured(t) \/ FilterFault(t)
    <3>1. /\ event' = event /\ gSequence' = gSequence
          /\ \A u \in Threads : Holding(u)' => Holding(u)
      BY <1>1, <2>2 DEF Admit, PushEvent, CountCaptured, FilterFault,
         CountFault, callback, counters, Goto, Holding
    <3> QED
      BY <1>2, <3>1 DEF Holding
  <2>3. CASE \/ DecoderFault(t) \/ NoDetail(t) \/ PushDetail(t)
    <3>1. Return(t) /\ gSequence' = gSequence
      BY <2>3 DEF DecoderFault, NoDetail, PushDetail, CountFault, counters
    <3>2. \A u \in Threads :
            Holding(u)' => Holding(u) /\ event'[u] = event[u]
      BY <1>1, <3>1 DEF Return, Goto, Holding
    <3> QED
      BY <1>2, <3>1, <3>2 DEF Holding
  <2> QED
    BY <2>1, <2>2, <2>3 DEF SyscallCallback
<1>4. CASE Collector \/ UNCHANGED vars
  <2>1. pc' = pc /\ event' = event /\ gSequence' = gSequence
    BY <1>4 DEF Collector, OpenDevice, FlushRings, NoCommand, SetConfig,
       ReadEvents, CountDelivered, ReadDetails, CloseDevice, vars, callback,
       counters
  <2> QED
    BY <1>2, <2>1 DEF Holding
<1> QED
  BY <1>3, <1>4 DEF Next

LEMMA PushKeepsDetails ==
  ASSUME DetailInv, [Next]_vars, NEW t \in Threads, PushDetail(t),
         PutInto(0..MaxSequence, DetailStream', DetailStream, event[t].sequence)
  PROVE  Once(DetailStream') /\ HeldIsFresh'
<1> DEFINE e == event[t].sequence
<1>1. PICK kept \in Seq(0..MaxSequence) :
        Within(kept, DetailStream) /\ DetailStream' = Append(kept, e)
  BY DEF PutInto
<1>2. Thins(kept, DetailStream)
  BY <1>1 DEF Thins
<1>3. Holding(t) /\ \A u \in Threads : ~Stamp(u)
  <2>1. gSequence \in Nat
    BY DEF DetailInv, QueueInv, TypeOK
  <2>2. Holding(t) /\ gSequence' = gSequence
    BY DEF PushDetail, Return, Goto, Holding
  <2> QED
    BY <2>1, <2>2 DEF Stamp
<1>4. e \in 0..MaxSequence /\ e \in 1..gSequence /\ ~Has(DetailStream, e)
  BY <1>3, BoundAssumption
     DEF DetailInv, HeldIsFresh, QueueInv, TypeOK, Event, NoEvent
<1>5. Once(kept) /\ \A n : Has(kept, n) => Has(DetailStream, n)
  BY <1>2, ThinsKeepsOnce DEF DetailInv
<1>6. Once(DetailStream')
  BY <1>1, <1>4, <1>5, AppendKeepsOnce
<1>7. \A n : Has(DetailStream', n) => Has(DetailStream, n) \/ n = e
  BY <1>1, <1>4, <1>5, AppendKeepsOnce
<1>8. /\ gSequence' = gSequence
      /\ \A u \in Threads :
           Holding(u)' => Holding(u) /\ event'[u] = event[u] /\ u # t
  BY <1>3, OthersKeepHeld DEF DetailInv
<1> HIDE DEF e
<1>9. \A n : Has(DetailStream', n) => n \in 1..gSequence'
  BY <1>4, <1>7, <1>8 DEF DetailInv, HeldIsFresh
<1>10. ASSUME NEW u \in Threads, Holding(u)'
       PROVE  /\ event'[u].sequence \in 1..gSequence'
              /\ ~Has(DetailStream', event'[u].sequence)
  <2>1. Holding(u) /\ event'[u] = event[u] /\ u # t
    BY <1>8, <1>10
  <2>2. /\ event[u].sequence # e /\ event[u].sequence \in 1..gSequence
        /\ ~Has(DetailStream, event[u].sequence)
    BY <1>3, <2>1 DEF DetailInv, HeldIsFresh, e
  <2> QED
    BY <1>7, <1>8, <2>1, <2>2
<1>11. \A u, v \in Threads : Holding(u)' /\ Holding(v)' /\ u # v
         => event'[u].sequence # event'[v].sequence
  BY <1>8 DEF DetailInv, HeldIsFresh
<1> QED
  BY <1>6, <1>9, <1>10, <1>11 DEF HeldIsFresh

LEMMA StampKeepsDetails ==
  ASSUME DetailInv, NEW t \in Threads, Stamp(t), Thins(DetailStream', DetailStream)
  PROVE  Once(DetailStream') /\ HeldIsFresh'
<1>1. /\ gSequence \in Nat /\ gSequence' = gSequence + 1
      /\ event' = [event EXCEPT ![t] = [sequence |-> gSequence + 1, tid |-> t]]
      /\ \A u \in Threads : Holding(u)' => u = t \/ Holding(u)
      /\ event \in [Threads -> Event \cup {NoEvent}]
  BY DEF DetailInv, QueueInv, TypeOK, Stamp, Goto, Holding
<1>2. Once(DetailStream') /\ \A n : Has(DetailStream', n) => Has(DetailStream, n)
  BY ThinsKeepsOnce DEF DetailInv
<1>3. \A n : Has(DetailStream', n) => n \in 1..gSequence
  BY <1>2 DEF DetailInv, HeldIsFresh
<1>4. event'[t].sequence = gSequence + 1
  BY <1>1
<1>5. \A u \in Threads : u # t /\ Holding(u)' =>
        /\ event'[u] = event[u] /\ Holding(u)
        /\ event[u].sequence \in 1..gSequence
        /\ ~Has(DetailStream, event[u].sequence)
  BY <1>1 DEF DetailInv, HeldIsFresh
<1>6. ASSUME NEW u \in Threads, Holding(u)'
      PROVE  /\ event'[u].sequence \in 1..gSequence'
             /\ ~Has(DetailStream', event'[u].sequence)
  <2>1. CASE u = t
    <3>1. gSequence + 1 \in 1..gSequence' /\ gSequence + 1 \notin 1..gSequence
      BY <1>1
    <3> QED
      BY <1>3, <1>4, <2>1, <3>1
  <2>2. CASE u # t
    <3>1. /\ event'[u] = event[u] /\ event[u].sequence \in 1..gSequence
          /\ ~Has(DetailStream', event[u].sequence)
      BY <1>2, <1>5, <1>6, <2>2
    <3> QED
      BY <1>1, <3>1
  <2> QED
    BY <2>1, <2>2
<1>7. ASSUME NEW u \in Threads, NEW v \in Threads, Holding(u)', Holding(v)', u # v
      PROVE  event'[u].sequence # event'[v].sequence
  <2>1. CASE u = t
    <3>1. event'[v].sequence \in 1..gSequence
      BY <1>5, <1>7, <2>1
    <3> QED
      BY <1>1, <1>4, <2>1, <3>1
  <2>2. CASE v = t
    <3>1. event'[u].sequence \in 1..gSequence
      BY <1>5, <1>7, <2>2
    <3> QED
      BY <1>1, <1>4, <2>2, <3>1
  <2>3. CASE u # t /\ v # t
    <3>1. /\ event'[u] = event[u] /\ Holding(u)
          /\ event'[v] = event[v] /\ Holding(v)
      BY <1>5, <1>7, <2>3
    <3> QED
      BY <1>7, <3>1 DEF DetailInv, HeldIsFresh
  <2> QED
    BY <2>1, <2>2, <2>3
<1>8. \A n : Has(DetailStream', n) => n \in 1..gSequence'
  BY <1>1, <1>3
<1> QED
  BY <1>2, <1>6, <1>7, <1>8 DEF HeldIsFresh

LEMMA NextDetailInv == DetailInv /\ [Next]_vars => DetailInv'
<1> SUFFICES ASSUME DetailInv, [Next]_vars PROVE DetailInv'
  OBVIOUS
<1>1. QueueInv /\ QueueInv'
  BY NextQueueInv DEF DetailInv
<1>2. Once(DetailStream') /\ HeldIsFresh'
  <2>1. CASE \E t \in Threads :
               /\ PushDetail(t)
               /\ PutInto(0..MaxSequence, DetailStream', DetailStream,
                          event[t].sequence)
    BY <2>1, PushKeepsDetails
  <2>2. CASE Thins(DetailStream', DetailStream)
    <3>1. CASE \E t \in Threads : Stamp(t)
      BY <2>2, <3>1, StampKeepsDetails
    <3>2. CASE \A t \in Threads : ~Stamp(t)
      <4>1. /\ Once(DetailStream')
            /\ \A n : Has(DetailStream', n) => Has(DetailStream, n)
        BY <2>2, ThinsKeepsOnce DEF DetailInv
      <4>2. /\ gSequence' = gSequence
            /\ \A u \in Threads : Holding(u)' => Holding(u) /\ event'[u] = event[u]
        BY <1>1, <3>2, OthersKeepHeld
      <4> QED
        BY <4>1, <4>2 DEF DetailInv, HeldIsFresh
    <3> QED
      BY <3>1, <3>2
  <2> QED
    BY <1>1, <2>1, <2>2, DetailSteps
<1> QED
  BY <1>1, <1>2 DEF DetailInv, Once, DetailStream

(* A detail is never in the driver's ring, nor handed out, before its      *)
(* event has been pushed, and it is never handed out twice.                *)
THEOREM DetailsFollowEvents == Spec => []DetailAfterEvent
<1>1. DetailInv => DetailAfterEvent
  <2> SUFFICES ASSUME DetailInv PROVE DetailAfterEvent
    OBVIOUS
  <2>1. ASSUME NEW i \in 1..Len(DetailStream)
        PROVE  /\ DetailStream[i] \in 1..gSequence
               /\ \A t \in Threads :
                    pc[t] = "stamped" => event[t].sequence # DetailStream[i]
    <3>1. Has(DetailStream, DetailStream[i])
      BY DEF Has
    <3> QED
      BY <3>1 DEF DetailInv, HeldIsFresh, Holding
  <2> QED
    BY <2>1 DEF DetailInv, Once, DetailStream, DetailAfterEvent
<1> QED
  BY <1>1, InitDetailInv, NextDetailInv, PTL DEF Spec
=============================================================================
