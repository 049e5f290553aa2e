----------------------------- MODULE LossyQueue -----------------------------
(***************************************************************************)
(* What either kernel ring of swatcher.sys promises: a first-in first-out  *)
(* queue of at most Capacity entries.  A producer never waits; when the    *)
(* queue is full the oldest entry makes room and is counted as lost.  The  *)
(* reader takes entries from the front, and nothing that was taken or lost *)
(* ever comes back.  CaptureRing implements this queue twice.              *)
(***************************************************************************)
EXTENDS Naturals, Sequences

CONSTANTS Capacity,   (* the most entries the queue holds, > 0 *)
          Entry       (* the set of things that can be queued  *)

VARIABLES queue,      (* the entries waiting for the reader, oldest first *)
          taken,      (* everything the reader has been given, in order   *)
          lost        (* how many entries were dropped to make room       *)

qvars == <<queue, taken, lost>>

Init == queue = << >> /\ taken = << >> /\ lost = 0

PutWithRoom(e) ==
  /\ Len(queue) < Capacity
  /\ queue' = Append(queue, e)
  /\ UNCHANGED <<taken, lost>>

PutOverOldest(e) ==
  /\ Len(queue) = Capacity
  /\ queue' = Append(Tail(queue), e)
  /\ lost' = lost + 1
  /\ UNCHANGED taken

Take(n) ==
  /\ taken' = taken \o SubSeq(queue, 1, n)
  /\ queue' = SubSeq(queue, n + 1, Len(queue))
  /\ UNCHANGED lost

Discard ==
  /\ queue' = << >>
  /\ UNCHANGED <<taken, lost>>

Next ==
  \/ \E e \in Entry : PutWithRoom(e) \/ PutOverOldest(e)
  \/ \E n \in 1..Len(queue) : Take(n)
  \/ Discard

Spec == Init /\ [][Next]_qvars
=============================================================================
