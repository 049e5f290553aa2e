------------------------------ MODULE EventTime ------------------------------
(***************************************************************************)
(* How a tick count of the driver becomes a time of day                    *)
(* (convert_qpc_to_local_seconds): the collector reads the counter, then   *)
(* the clock, and counts back from there in whole milliseconds.            *)
(***************************************************************************)
EXTENDS Integers, Sequences

CONSTANTS
  Frequency,      (* ticks per second                                        *)
  Millis,         (* 1000: milliseconds per second                           *)
  Day,            (* 86400: seconds per day                                  *)
  Offsets,        (* times of day, in milliseconds, at tick 0                *)
  MaxTicks,       (* bound on the counter                                    *)
  MaxGap,         (* bound on the ticks between the two readings             *)
  MaxEvents       (* bound on the events of a batch                          *)

TimeAssumption == {Frequency, Millis, Day} \subseteq Nat \ {0} /\ Offsets \subseteq Nat

VARIABLES
  at, ticks, offset,
  queued,         (* ticks of the events in the ring                         *)
  now_qpc, gap,
  events          (* what SourceMessage::Events carries: seconds of the day  *)

vars == <<at, ticks, offset, queued, now_qpc, gap, events>>

Init ==
  /\ at = "capture" /\ ticks = 0 /\ offset \in Offsets
  /\ queued = << >> /\ now_qpc = 0 /\ gap = 0 /\ events = << >>

(* Mutant of Quotient: div_euclid here, too.                               *)
QuotientDown(a, b) == a \div b

(* Rust divides towards zero; TLA+ rounds down.                            *)
Quotient(a, b) == IF a < 0 THEN -((-a) \div b) ELSE a \div b

(* The clock of the machine: GetLocalTime at a tick.                       *)
LocalMillis(t) == (offset + ((t * Millis) \div Frequency)) % (Day * Millis)

Converted(qpc, now_millisecond) ==
  ((now_millisecond + Quotient((qpc - now_qpc) * Millis, Frequency)) \div Millis) % Day
-----------------------------------------------------------------------------
Tick ==
  /\ at = "capture" /\ ticks < MaxTicks
  /\ ticks' = ticks + 1
  /\ UNCHANGED <<at, offset, queued, now_qpc, gap, events>>

Capture ==
  /\ at = "capture" /\ Len(queued) < MaxEvents
  /\ queued' = Append(queued, ticks)
  /\ UNCHANGED <<at, ticks, offset, now_qpc, gap, events>>

QueryPerformanceCounter ==
  /\ at = "capture" /\ queued # << >> /\ at' = "clock"
  /\ now_qpc' = ticks /\ gap' = 0
  /\ UNCHANGED <<ticks, offset, queued, events>>

(* The thread may be preempted here.                                       *)
Wait ==
  /\ at = "clock" /\ gap < MaxGap
  /\ ticks' = ticks + 1 /\ gap' = gap + 1
  /\ UNCHANGED <<at, offset, queued, now_qpc, events>>

(* GetLocalTime and the loop over the events.                              *)
GetLocalTime ==
  /\ at = "clock" /\ at' = "sent"
  /\ events' = [i \in DOMAIN queued |-> Converted(queued[i], LocalMillis(ticks))]
  /\ UNCHANGED <<ticks, offset, queued, now_qpc, gap>>

Next == Tick \/ Capture \/ QueryPerformanceCounter \/ Wait \/ GetLocalTime

Spec == Init /\ [][Next]_vars
-----------------------------------------------------------------------------
Second(millisecond) == (millisecond \div Millis) % Day

(* A time is never early, and late by no more than the time between the    *)
(* two readings and two milliseconds of rounding: counting back rounds     *)
(* towards the present.                                                    *)
TimesAreClose ==
  LET slack == ((gap * Millis) \div Frequency) + 2 IN
  \A i \in DOMAIN events :
    \E late \in 0..slack :
      events[i] = Second(LocalMillis(queued[i]) + late)
=============================================================================
