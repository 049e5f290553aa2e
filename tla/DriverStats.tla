----------------------------- MODULE DriverStats -----------------------------
(***************************************************************************)
(* SCALL_IOCTL_GET_STATS beside the rings: it takes no lock and reads one  *)
(* variable after the other while callbacks push and count.  The collector *)
(* thread asks, so its own requests wait (module CaptureRing).             *)
(***************************************************************************)
EXTENDS CaptureRing

CONSTANT Unread

ASSUME UnreadAssumption == Unread \notin Nat

VARIABLE stats   (* the fields of SCALL_STATS, Unread until they are read    *)

Fields == {"head", "tail", "captured", "delivered", "dropped", "details_dropped"}

Reading == \E field \in Fields : stats[field] = Unread

Variable(field) ==
  CASE field = "head"      -> gHead
    [] field = "tail"      -> gTail
    [] field = "captured"  -> gCaptured
    [] field = "delivered" -> gDelivered
    [] field = "dropped"   -> gDropped
    [] field = "details_dropped" -> gDetailsDropped

(* Mutant of ReadOrder: losses first.                                      *)
LossesFirst ==
  <<{"head", "tail"}, {"dropped"}, {"details_dropped"}, {"captured"}, {"delivered"}>>

(* C++ leaves open which operand of gHead - gTail is read first.           *)
ReadOrder ==
  <<{"head", "tail"}, {"captured"}, {"delivered"}, {"dropped"}, {"details_dropped"}>>

BeginStats ==
  /\ collector = "commands" /\ ~Reading
  /\ stats' = [field \in Fields |-> Unread]
  /\ UNCHANGED vars

ReadField(i, field) ==
  /\ stats[field] = Unread
  /\ \A j \in 1..(i - 1) : \A earlier \in ReadOrder[j] : stats[earlier] # Unread
  /\ stats' = [stats EXCEPT ![field] = Variable(field)]
  /\ UNCHANGED vars

GetStats ==
  BeginStats \/ \E i \in DOMAIN ReadOrder : \E field \in ReadOrder[i] : ReadField(i, field)

StatsInit == Init /\ stats = [field \in Fields |-> 0]

StatsNext ==
  \/ GetStats
  \/ (\E t \in Threads : SyscallCallback(t)) /\ UNCHANGED stats
  \/ ~Reading /\ Collector /\ UNCHANGED stats

StatsSpec == StatsInit /\ [][StatsNext]_<<vars, stats>>

(* A running thread leaves EnqueueEvent, an IOCTL returns, and the loop of *)
(* the collector goes on.  NoCommand is strong: the GUI sends at most one  *)
(* configuration per frame, so the channel is found empty again and again, *)
(* but it need not stay empty.                                             *)
FairStatsSpec ==
  /\ StatsSpec
  /\ WF_<<vars, stats>>(Reading /\ GetStats)
  /\ \A t \in Threads : WF_vars(Stamp(t)) /\ WF_vars(PushEvent(t))
  /\ WF_vars(~Reading /\ FlushRings) /\ SF_vars(~Reading /\ NoCommand)
  /\ WF_vars(ReadEvents) /\ WF_vars(CountDelivered) /\ WF_vars(ReadDetails)
-----------------------------------------------------------------------------
(* One statistics block adds up, though it is no snapshot: what it calls   *)
(* captured is delivered or dropped in the same block, was flushed, or     *)
(* fits the ring.  The losses have to be read after the captured events.   *)
CapturedIsAccountedFor ==
  ~Reading =>
    stats["captured"] <= RingEntries + stats["delivered"] + stats["dropped"] + discarded

(* README.md: "Bounded kernel queues": the queue the window shows is no    *)
(* longer than the ring.                                                   *)
KernelQueueBounded ==
  ~Reading => Queued(stats["head"], stats["tail"]) <= RingEntries
=============================================================================
