------------------------- MODULE WindowPartsProofs -------------------------
(***************************************************************************)
(* Proofs about the sequential parts of the window, for any value of their *)
(* constants.                                                              *)
(***************************************************************************)
EXTENDS WindowParts, Iterations, SequenceTheorems, FiniteSetTheorems, TLAPS
-----------------------------------------------------------------------------
(* The icons.  What a load holds at each of its calls, and what the bitmap *)
(* and the image show.                                                     *)

AfterIcon   == {"CreateCompatibleDC", "CreateDIBSection", "refused", "SelectObject",
                "DrawIconEx", "copy", "deselect", "release"}
AfterDC     == AfterIcon \ {"CreateCompatibleDC"}
AfterBitmap == AfterDC \ {"CreateDIBSection", "refused"}
Selected    == {"DrawIconEx", "copy", "deselect"}

Held(kind, places) == held[kind] = IF icon_at \in places THEN 1 ELSE 0

IconInv ==
  /\ icon_at \in {"idle", "SHGetFileInfoW"} \cup AfterIcon
  /\ held \in [L!Kinds -> Nat]
  /\ Held("icon", AfterIcon) /\ Held("dc", AfterDC) /\ Held("bitmap", AfterBitmap)
  /\ selected \in BOOLEAN /\ (selected <=> icon_at \in Selected)
  /\ drawn \in BOOLEAN
  /\ icon_at = "copy" /\ drawn
        => canvas = "icon"
  /\ icon_at \in {"deselect", "release"} /\ drawn
        => image = "icon"
  /\ icon_at = "idle" => image # "blank"
  /\ misused \in BOOLEAN /\ ~misused

LEMMA IconInit == Init => IconInv
<1> SUFFICES ASSUME L!Init
             PROVE  IconInv
  BY DEF Init
<1>1. /\ held \in [L!Kinds -> Nat]
      /\ \A k \in L!Kinds : held[k] = 0
  BY DEF L!Init
<1>2. Held("icon", AfterIcon) /\ Held("dc", AfterDC) /\ Held("bitmap", AfterBitmap)
  BY <1>1 DEF L!Init, L!Kinds, Held, AfterIcon, AfterDC, AfterBitmap
<1> QED
  BY <1>1, <1>2 DEF L!Init, IconInv, Selected

LEMMA IconStep == BitmapsHaveBits /\ IconInv /\ L!Next => IconInv'
<1> USE DEF IconInv, L!Kinds, Held, AfterIcon, AfterDC, AfterBitmap, Selected
<1> SUFFICES ASSUME BitmapsHaveBits, IconInv, L!Next
             PROVE  IconInv'
  OBVIOUS
<1>1. CASE L!Load
  BY <1>1 DEF L!Load
<1>2. CASE L!GotIcon
  BY <1>2 DEF L!GotIcon, L!Step, L!Gain
<1>3. CASE L!NoIcon
  BY <1>3 DEF L!NoIcon, L!Step, L!None
<1>4. CASE L!GotDC
  BY <1>4 DEF L!GotDC, L!Step, L!Gain
<1>5. CASE L!NoDC
  BY <1>5 DEF L!NoDC, L!Step, L!Release, L!None
<1>6. CASE L!GotBitmap
  BY <1>6 DEF L!GotBitmap, L!Step, L!Gain, L!Uses
<1>7. CASE L!NoBitmap
  BY <1>7 DEF L!NoBitmap, L!Step, L!Release, L!None
<1>8. CASE L!Select
  BY <1>8 DEF L!Select, L!Step, L!Uses
<1>9. ASSUME NEW success \in BOOLEAN, L!Draw(success)
      PROVE  IconInv'
  BY <1>9 DEF L!Draw, L!Step, L!Uses
<1>10. CASE L!CopyPixels
  BY <1>10 DEF L!CopyPixels, L!Step, L!Uses
<1>11. CASE L!Deselect
  <2>1. icon_at = "deselect" /\ icon_at' = "release" /\ selected' = FALSE
    BY <1>11 DEF L!Deselect, L!Step
  <2>2. held' = held /\ drawn' = drawn /\ image' = image
    BY <1>11 DEF L!Deselect
  <2>3. misused' = FALSE
    BY <1>11, <2>1 DEF L!Deselect, L!Uses
  <2> QED
    BY <2>1, <2>2, <2>3
<1>12. CASE L!Finish
  BY <1>12 DEF L!Finish, L!Step, L!Release
<1>13. ASSUME NEW bitmap \in BOOLEAN, L!NoBits(bitmap)
       PROVE  IconInv'
  BY <1>13 DEF L!NoBits, L!Step, L!Uses
<1> QED
  BY <1>1, <1>2, <1>3, <1>4, <1>5, <1>6, <1>7, <1>8, <1>9, <1>10, <1>11, <1>12, <1>13
     DEF L!Next

LEMMA OthersKeepIcons ==
  ASSUME IconInv, UNCHANGED iconVars
  PROVE  IconInv'
  BY DEF IconInv, Held, iconVars

(* Whatever the system refuses, a load of an icon gives back what it got,  *)
(* in order, and never shows a bitmap into which nothing was drawn, for    *)
(* any number of loads, if bitmaps have bits.                              *)
THEOREM IconsNeverLeak == BitmapsHaveBits => (Spec => []IconLoadsAreClean)
<1> SUFFICES ASSUME BitmapsHaveBits
             PROVE  Spec => []IconLoadsAreClean
  OBVIOUS
<1>1. IconInv /\ [Next]_<<part, filterVars, targetVars, exportVars, timeVars, iconVars>> => IconInv'
  <2> SUFFICES ASSUME IconInv, [Next]_<<part, filterVars, targetVars, exportVars, timeVars, iconVars>>
               PROVE  IconInv'
    OBVIOUS
  <2>1. L!Next \/ UNCHANGED iconVars
    BY DEF Next, RulesStep, TargetsStep, ExportStep, TimesStep, IconsStep
  <2> QED
    BY <2>1, IconStep, OthersKeepIcons
<1>2. IconInv => IconLoadsAreClean
  BY DEF IconInv, IconLoadsAreClean, L!NothingStaysHeld, L!ObjectsInOrder, L!NoBlankImages,
         L!Kinds, Held, AfterIcon, AfterDC, AfterBitmap
<1> QED
  BY IconInit, <1>1, <1>2, PTL DEF Spec
-----------------------------------------------------------------------------
(* The times of events.                                                    *)

LEMMA Division ==
  ASSUME NEW a \in Int, NEW m \in Nat \ {0}
  PROVE  /\ a % m \in 0..(m - 1) /\ a \div m \in Int
         /\ a = m * (a \div m) + (a % m)
  OBVIOUS

LEMMA DivisionIsUnique ==
  ASSUME NEW m \in Nat \ {0}, NEW p \in Int, NEW q \in Int,
         NEW u \in 0..m - 1, NEW v \in 0..m - 1, m * p + u = m * q + v
  PROVE  p = q /\ u = v
<1>1. m * (p - q) = v - u
  OBVIOUS
<1>2. ASSUME p - q >= 1 PROVE FALSE
  <2>1. m * (p - q) >= m
    BY <1>2
  <2> QED
    BY <1>1, <2>1
<1>3. ASSUME q - p >= 1 PROVE FALSE
  <2>1. m * (q - p) >= m
    BY <1>3
  <2>2. m * (q - p) = u - v
    OBVIOUS
  <2> QED
    BY <2>1, <2>2
<1>4. p = q
  BY <1>2, <1>3
<1> QED
  BY <1>4

(* Whole multiples of the divisor come out of a division.                  *)
LEMMA DivideShifted ==
  ASSUME NEW x \in Int, NEW k \in Int, NEW m \in Nat \ {0}
  PROVE  (x + m * k) \div m = (x \div m) + k /\ (x + m * k) % m = x % m
<1> DEFINE y == x + m * k
           p == y \div m
           u == y % m
           q == x \div m
           v == x % m
<1>1. y \in Int
  OBVIOUS
<1>2. p \in Int /\ u \in 0..m - 1 /\ y = m * p + u
  BY <1>1, Division
<1>3. q \in Int /\ v \in 0..m - 1 /\ x = m * q + v
  BY Division
<1> HIDE DEF p, u, q, v
<1>4. m * (q + k) = m * q + m * k
  BY <1>3
<1>5. m * p + u = m * (q + k) + v
  BY <1>2, <1>3, <1>4
<1>6. q + k \in Int
  BY <1>3
<1>7. p = q + k /\ u = v
  BY <1>2, <1>3, <1>5, <1>6, DivisionIsUnique
<1> QED
  BY <1>7 DEF p, u, q, v

LEMMA ShiftedRemainder ==
  ASSUME NEW d \in Nat \ {0}
  PROVE  \A s, t \in Int : (s + d * t) % d = s % d
<1> TAKE s, t \in Int
<1>1. (s + d * t) \div d = (s \div d) + t /\ (s + d * t) % d = s % d
  BY DivideShifted
<1> QED
  BY <1>1

(* Rounding three parts down loses at most two against rounding their sum. *)
LEMMA RoundedParts ==
  ASSUME NEW x \in Nat, NEW y \in Nat, NEW z \in Nat, NEW m \in Nat \ {0}
  PROVE  ((x + y + z) \div m) - (x \div m) - (y \div m) \in
           (z \div m)..((z \div m) + 2)
<1> DEFINE s == x + y + z
           a == s \div m
           b == x \div m
           c == y \div m
           d == z \div m
           r(number) == number % m
<1>1. /\ a \in Int /\ r(s) \in 0..(m - 1) /\ s = m * a + r(s)
      /\ b \in Int /\ r(x) \in 0..(m - 1) /\ x = m * b + r(x)
      /\ c \in Int /\ r(y) \in 0..(m - 1) /\ y = m * c + r(y)
      /\ d \in Int /\ r(z) \in 0..(m - 1) /\ z = m * d + r(z)
  <2>1. s \in Int
    OBVIOUS
  <2>2. a \in Int /\ r(s) \in 0..(m - 1) /\ s = m * a + r(s)
    BY <2>1, Division
  <2> QED
    BY <2>2, Division
<1> HIDE DEF a, b, c, d, r
<1> DEFINE n == a - b - c - d
<1>2. m * n = (m * a) - (m * b) - (m * c) - (m * d)
  BY <1>1
<1>3. m * n >= 1 - m /\ m * n <= 3 * m - 3
  BY <1>1, <1>2
<1>4. ASSUME n <= -1 PROVE FALSE
  <2>1. m * n <= m * (-1)
    BY <1>1, <1>4
  <2> QED
    BY <1>1, <1>3, <2>1
<1>5. ASSUME n >= 3 PROVE FALSE
  <2>1. m * n >= m * 3
    BY <1>1, <1>5
  <2> QED
    BY <1>1, <1>3, <2>1
<1>6. n \in 0..2
  BY <1>1, <1>4, <1>5
<1> QED
  BY <1>1, <1>6 DEF a, b, c, d

(* Counting back c from one time of day, or forward from another.          *)
LEMMA SameTimeOfDay ==
  ASSUME NEW m \in Nat \ {0}, NEW d \in Nat \ {0},
         NEW x \in Int, NEW y \in Int, NEW n \in Int, NEW c \in Int, x = y + n + c
  PROVE  (((x % (d * m)) - c) \div m) % d = (((y % (d * m)) + n) \div m) % d
<1>1. d * m \in Nat \ {0}
  <2>1. d * m \in Nat /\ d * m >= 1 * m
    OBVIOUS
  <2> QED
    BY <2>1
<1>2. PICK a \in Int, u \in Int : x % (d * m) = u /\ x = ((d * m) * a) + u
  <2>1. /\ x \div (d * m) \in Int /\ x % (d * m) \in 0..((d * m) - 1)
        /\ x = (d * m) * (x \div (d * m)) + (x % (d * m))
    BY <1>1, Division
  <2>2. x % (d * m) \in Int
    BY <1>1, <2>1
  <2> QED
    BY <2>1, <2>2
<1>3. PICK b \in Int, v \in Int : y % (d * m) = v /\ y = ((d * m) * b) + v
  <2>1. /\ y \div (d * m) \in Int /\ y % (d * m) \in 0..((d * m) - 1)
        /\ y = (d * m) * (y \div (d * m)) + (y % (d * m))
    BY <1>1, Division
  <2>2. y % (d * m) \in Int
    BY <1>1, <2>1
  <2> QED
    BY <2>1, <2>2
<1> DEFINE k == d * (b - a)
<1>4. k \in Int /\ m * k = ((d * m) * b) - ((d * m) * a)
  OBVIOUS
<1>5. u - c = (v + n) + m * k
  <2> HIDE DEF k
  <2> QED
    BY <1>1, <1>2, <1>3, <1>4
<1>6. v + n \in Int
  OBVIOUS
<1>7. (u - c) \div m = ((v + n) \div m) + k
  <2> HIDE DEF k
  <2>1. ((v + n) + m * k) \div m = ((v + n) \div m) + k
    BY <1>4, <1>6, DivideShifted
  <2> QED
    BY <1>5, <2>1
<1>8. (v + n) \div m \in Int
  BY <1>6, Division
<1>9. (((v + n) \div m) + d * (b - a)) % d = ((v + n) \div m) % d
  <2> DEFINE q == (v + n) \div m
             h == b - a
  <2>1. h \in Int
    OBVIOUS
  <2>2. q \in Int
    BY <1>8
  <2> HIDE DEF q, h
  <2>3. \A s, t \in Int : (s + d * t) % d = s % d
    BY ShiftedRemainder, Zenon
  <2>4. (q + d * h) % d = q % d
    BY <2>1, <2>2, <2>3, Zenon
  <2> QED
    BY <2>4 DEF q, h
<1> QED
  BY <1>2, <1>3, <1>7, <1>9

(* An event counted back from a reading of the clock: rounding twice, and  *)
(* the ticks between the two readings, make it late and never early.       *)
LEMMA CountedBack ==
  ASSUME offset \in Nat, now_qpc \in Nat, gap \in Nat,
         NEW qpc \in Nat, qpc <= now_qpc
  PROVE  \E late \in 0..((gap * Millis) \div Frequency) + 2 :
           E!Converted(qpc, E!LocalMillis(now_qpc + gap))
             = E!Second(E!LocalMillis(qpc) + late)
<1> DEFINE back  == (now_qpc - qpc) * Millis
           whole == ((now_qpc + gap) * Millis) \div Frequency
           start == (qpc * Millis) \div Frequency
           count == back \div Frequency
           wait  == (gap * Millis) \div Frequency
           late  == whole - start - count
<1>1. Frequency \in Nat \ {0} /\ Millis \in Nat \ {0} /\ Day \in Nat \ {0}
  BY PartsAssumption DEF E!TimeAssumption
<1>2. back \in Nat /\ qpc * Millis \in Nat /\ gap * Millis \in Nat
  BY <1>1
<1>3. (now_qpc + gap) * Millis = (qpc * Millis) + back + (gap * Millis)
  BY <1>1
<1>4. late \in wait..(wait + 2)
  BY <1>1, <1>2, <1>3, RoundedParts
<1>5. wait \in Nat /\ start \in Int /\ count \in Int /\ whole \in Int
  BY <1>1, <1>2, <1>3, Division
<1>6. E!Quotient((qpc - now_qpc) * Millis, Frequency) = -count
  <2>1. (qpc - now_qpc) * Millis = -back /\ -(-back) = back
    BY <1>1
  <2>2. CASE -back < 0
    BY <2>1, <2>2 DEF E!Quotient
  <2>3. CASE ~(-back < 0)
    <3>1. back = 0
      BY <1>2, <2>3
    <3>2. 0 \div Frequency = 0
      BY <1>1
    <3> QED
      BY <2>1, <3>1, <3>2 DEF E!Quotient
  <2> QED
    BY <2>2, <2>3
<1>7. /\ E!LocalMillis(now_qpc + gap) = (offset + whole) % (Day * Millis)
      /\ E!LocalMillis(qpc) = (offset + start) % (Day * Millis)
  BY DEF E!LocalMillis
<1> HIDE DEF back, whole, start, count, wait
<1>8. E!Converted(qpc, E!LocalMillis(now_qpc + gap))
        = ((((offset + whole) % (Day * Millis)) + (-count)) \div Millis) % Day
  BY <1>6, <1>7 DEF E!Converted
<1> DEFINE x == offset + whole
           y == offset + start
           then == x % (Day * Millis)
<1>9. x \in Int /\ y \in Int /\ late \in Int /\ x = y + late + count
  BY <1>5
<1>10. then \in Int
  <2>1. Day * Millis \in Nat /\ Day * Millis >= 1 * Millis
    BY <1>1
  <2>2. Day * Millis \in Nat \ {0}
    BY <1>1, <2>1
  <2> HIDE DEF x
  <2> QED
    BY <1>9, <2>2, Division
<1>11. then + (-count) = then - count
  <2> HIDE DEF then
  <2> QED
    BY <1>5, <1>10
<1> HIDE DEF x, y, late
<1>12. ((then - count) \div Millis) % Day = (((y % (Day * Millis)) + late) \div Millis) % Day
  <2>1. /\ Millis \in Nat \ {0} /\ Day \in Nat \ {0}
        /\ x \in Int /\ y \in Int /\ late \in Int /\ count \in Int
        /\ x = y + late + count
    BY <1>1, <1>5, <1>9
  <2>2. \A a, b, n, c \in Int :
          a = b + n + c
            => (((a % (Day * Millis)) - c) \div Millis) % Day
                 = (((b % (Day * Millis)) + n) \div Millis) % Day
    <3> HIDE DEF then
    <3> QED
      BY <2>1, SameTimeOfDay
  <2>3. \A n, c \in Int :
          x = y + n + c
            => (((x % (Day * Millis)) - c) \div Millis) % Day
                 = (((y % (Day * Millis)) + n) \div Millis) % Day
    BY <2>1, <2>2, Zenon
  <2> QED
    BY <2>1, <2>3, Zenon
<1>13. E!Converted(qpc, E!LocalMillis(now_qpc + gap)) = E!Second(E!LocalMillis(qpc) + late)
  BY <1>7, <1>8, <1>11, <1>12 DEF E!Second, x, y
<1>14. late \in 0..wait + 2
  BY <1>4, <1>5, <1>9
<1> QED
  BY <1>13, <1>14 DEF wait

TimeInv ==
  /\ time_at \in {"capture", "clock", "sent"}
  /\ ticks \in Nat /\ offset \in Nat /\ now_qpc \in Nat /\ gap \in Nat
  /\ queued \in Seq(Nat)
  /\ \A i \in 1..Len(queued) : queued[i] <= ticks
  /\ time_at = "clock" =>
       ticks = now_qpc + gap /\ \A i \in 1..Len(queued) : queued[i] <= now_qpc
  /\ time_at # "sent" => events = << >>
  /\ TimesAreClose

LEMMA TimeInit == Init => TimeInv
<1> SUFFICES ASSUME E!Init
             PROVE  TimeInv
  BY DEF Init
<1>1. offset \in Nat
  BY PartsAssumption DEF E!TimeAssumption, E!Init
<1>2. queued = << >> /\ events = << >>
  BY DEF E!Init
<1>3. TimesAreClose
  BY <1>2 DEF TimesAreClose, E!TimesAreClose
<1>4. queued \in Seq(Nat) /\ Len(queued) = 0
  BY <1>2
<1> QED
  BY <1>1, <1>2, <1>3, <1>4 DEF E!Init, TimeInv

LEMMA TimeStep ==
  ASSUME TimeInv, E!Next
  PROVE  TimeInv'
<1> USE DEF TimeInv
<1>1. CASE E!Tick
  <2>1. /\ time_at = "capture" /\ time_at' = "capture" /\ ticks' = ticks + 1
        /\ UNCHANGED <<offset, queued, now_qpc, gap, events>>
    BY <1>1 DEF E!Tick
  <2>2. TimesAreClose'
    BY <2>1 DEF TimesAreClose, E!TimesAreClose
  <2> QED
    BY <2>1, <2>2
<1>2. CASE E!Capture
  <2>1. /\ time_at = "capture" /\ time_at' = "capture" /\ queued' = Append(queued, ticks)
        /\ UNCHANGED <<ticks, offset, now_qpc, gap, events>>
    BY <1>2 DEF E!Capture
  <2>2. /\ queued' \in Seq(Nat) /\ Len(queued') = Len(queued) + 1
        /\ \A i \in 1..Len(queued) : queued'[i] = queued[i]
        /\ queued'[Len(queued) + 1] = ticks
    BY <2>1, AppendProperties
  <2>3. \A i \in 1..Len(queued') : i \in 1..Len(queued) \/ i = Len(queued) + 1
    BY <2>2, LenProperties
  <2>4. TimesAreClose'
    BY <2>1 DEF TimesAreClose, E!TimesAreClose
  <2> QED
    BY <2>1, <2>2, <2>3, <2>4
<1>3. CASE E!QueryPerformanceCounter
  <2>1. /\ time_at = "capture" /\ time_at' = "clock" /\ now_qpc' = ticks /\ gap' = 0
        /\ UNCHANGED <<ticks, offset, queued, events>>
    BY <1>3 DEF E!QueryPerformanceCounter
  <2>2. TimesAreClose'
    BY <2>1 DEF TimesAreClose, E!TimesAreClose
  <2> QED
    BY <2>1, <2>2
<1>4. CASE E!Wait
  <2>1. /\ time_at = "clock" /\ time_at' = "clock" /\ ticks' = ticks + 1 /\ gap' = gap + 1
        /\ UNCHANGED <<offset, queued, now_qpc, events>>
    BY <1>4 DEF E!Wait
  <2>2. TimesAreClose'
    BY <2>1 DEF TimesAreClose, E!TimesAreClose
  <2> QED
    BY <2>1, <2>2
<1>5. CASE E!GetLocalTime
  <2>1. /\ time_at = "clock" /\ time_at' = "sent"
        /\ events' = [i \in DOMAIN queued |-> E!Converted(queued[i], E!LocalMillis(ticks))]
        /\ UNCHANGED <<ticks, offset, queued, now_qpc, gap>>
    BY <1>5 DEF E!GetLocalTime
  <2>2. ASSUME NEW i \in DOMAIN events'
        PROVE  \E late \in 0..((gap * Millis) \div Frequency) + 2 :
                 events'[i] = E!Second(E!LocalMillis(queued[i]) + late)
    <3>1. i \in 1..Len(queued)
      BY <2>1, <2>2, LenProperties
    <3>2. queued[i] \in Nat /\ queued[i] <= now_qpc
      BY <2>1, <3>1, ElementOfSeq
    <3>3. events'[i] = E!Converted(queued[i], E!LocalMillis(now_qpc + gap))
      BY <2>1, <2>2
    <3> QED
      BY <3>2, <3>3, CountedBack
  <2>3. TimesAreClose'
    BY <2>1, <2>2 DEF TimesAreClose, E!TimesAreClose, E!Second, E!LocalMillis
  <2> QED
    BY <2>1, <2>3
<1> QED
  BY <1>1, <1>2, <1>3, <1>4, <1>5 DEF E!Next

(* The time shown for an event is never early, and late by no more than    *)
(* the pause between the two readings and two milliseconds of rounding,    *)
(* over midnight as well, for every frequency of the counter.              *)
THEOREM TimesStayClose == Spec => []TimesAreClose
<1> DEFINE vars == <<part, filterVars, targetVars, exportVars, timeVars, iconVars>>
<1>1. TimeInv /\ [Next]_vars => TimeInv'
  <2> SUFFICES ASSUME TimeInv, [Next]_vars
               PROVE  TimeInv'
    OBVIOUS
  <2>1. E!Next \/ UNCHANGED timeVars
    BY DEF Next, RulesStep, TargetsStep, ExportStep, TimesStep, IconsStep
  <2>2. CASE UNCHANGED timeVars
    BY <2>2 DEF timeVars, TimeInv, TimesAreClose, E!TimesAreClose, E!Second, E!LocalMillis
  <2> QED
    BY <2>1, <2>2, TimeStep
<1>2. TimeInv => TimesAreClose
  BY DEF TimeInv
<1> QED
  BY TimeInit, <1>1, <1>2, PTL DEF Spec
-----------------------------------------------------------------------------
(* The filter rules: what the parser lets through.                         *)

(* Of the instance and of the library: the same definition.                *)
LEMMA SameCardinality == \A S : F!Cardinality(S) = Cardinality(S)
  BY DEF F!Cardinality, Cardinality

LEMMA OrdinalType == \A key \in DOMAIN F!Ordinal : F!Ordinal[key] \in 1..4
  BY DEF F!Ordinal, F!Spellings

LEMMA AscendingMeans ==
  ASSUME NEW keys, NEW s, NEW n, Cardinality(keys) = n
  PROVE  s \in F!Ascending(keys) <=>
           /\ s \in [1..n -> keys]
           /\ \A i, j \in 1..n :
                i < j => s[i] # s[j] /\ F!Ordinal[s[i]] <= F!Ordinal[s[j]]
<1>1. s \in F!Ascending(keys) <=>
        /\ s \in [1..Cardinality(keys) -> keys]
        /\ \A i, j \in DOMAIN s :
             i < j => s[i] # s[j] /\ F!Ordinal[s[i]] <= F!Ordinal[s[j]]
  <2>1. F!Cardinality(keys) = Cardinality(keys)
    BY SameCardinality
  <2> QED
    BY <2>1, Zenon DEF F!Ascending
<1>2. s \in [1..n -> keys] => DOMAIN s = 1..n
  OBVIOUS
<1> QED
  BY <1>1, <1>2, Zenon

(* The keys of a map can be put in the order of the arguments.             *)
LEMMA AscendingExists ==
  ASSUME NEW keys \in SUBSET DOMAIN F!Ordinal, IsFiniteSet(keys)
  PROVE  F!Ascending(keys) # {}
<1> DEFINE Fails(n) == \E S \in SUBSET DOMAIN F!Ordinal :
                         IsFiniteSet(S) /\ Cardinality(S) = n /\ F!Ascending(S) = {}
           Numbers == {n \in Nat : Fails(n)}
<1>1. SUFFICES ASSUME Numbers # {} PROVE FALSE
  <2>1. Cardinality(keys) \in Nat
    BY FS_CardinalityType
  <2> QED
    BY <1>1, <2>1
<1>2. PICK n \in Numbers : \A m \in Numbers : n <= m
  BY <1>1, Least
<1>3. PICK S \in SUBSET DOMAIN F!Ordinal :
        IsFiniteSet(S) /\ Cardinality(S) = n /\ F!Ascending(S) = {}
  BY <1>2
<1>4. n \in Nat
  BY <1>2
<1>5. S # {}
  <2> SUFFICES ASSUME S = {} PROVE FALSE
    OBVIOUS
  <2>1. Cardinality(S) = 0
    BY FS_EmptySet
  <2>2. PICK s : s \in [1..0 -> S]
    <3>1. [i \in 1..0 |-> i] \in [1..0 -> S]
      OBVIOUS
    <3> QED
      BY <3>1
  <2>3. \A i, j \in 1..0 : i < j => s[i] # s[j] /\ F!Ordinal[s[i]] <= F!Ordinal[s[j]]
    OBVIOUS
  <2>4. s \in F!Ascending(S)
    BY <2>1, <2>2, <2>3, AscendingMeans
  <2> QED
    BY <1>3, <2>4
<1>6. PICK e \in S : \A key \in S : F!Ordinal[key] <= F!Ordinal[e]
  <2> DEFINE U == {4 - F!Ordinal[key] : key \in S}
  <2>1. U \in SUBSET Nat /\ U # {}
    BY <1>5, OrdinalType
  <2>2. PICK x \in U : \A y \in U : x <= y
    <3> HIDE DEF U
    <3> QED
      BY <2>1, Least
  <2>3. PICK e \in S : x = 4 - F!Ordinal[e]
    BY <2>2
  <2> QED
    BY <2>2, <2>3, OrdinalType
<1> DEFINE rest == S \ {e}
<1>7. IsFiniteSet(rest) /\ Cardinality(rest) = n - 1 /\ n - 1 \in Nat
  <2>1. IsFiniteSet(rest) /\ Cardinality(rest) = n - 1
    BY <1>3, FS_RemoveElement
  <2> QED
    BY <2>1, FS_CardinalityType
<1>8. F!Ascending(rest) # {}
  <2> SUFFICES ASSUME F!Ascending(rest) = {} PROVE FALSE
    OBVIOUS
  <2>1. n - 1 \in Numbers
    BY <1>7
  <2> QED
    BY <1>2, <1>4, <2>1
<1>9. PICK s : s \in F!Ascending(rest)
  BY <1>8
<1>10. /\ s \in [1..(n - 1) -> rest]
       /\ \A i, j \in 1..(n - 1) : i < j => s[i] # s[j] /\ F!Ordinal[s[i]] <= F!Ordinal[s[j]]
  BY <1>7, <1>9, AscendingMeans
<1> DEFINE t == [i \in 1..n |-> IF i = n THEN e ELSE s[i]]
<1>11. t \in [1..n -> S]
  BY <1>4, <1>10
<1>12. ASSUME NEW i \in 1..n, NEW j \in 1..n, i < j
       PROVE  t[i] # t[j] /\ F!Ordinal[t[i]] <= F!Ordinal[t[j]]
  <2>1. i \in 1..(n - 1) /\ t[i] = s[i]
    BY <1>4, <1>12
  <2>2. CASE j = n
    BY <1>6, <1>10, <2>1, <2>2
  <2>3. CASE j # n
    <3>1. j \in 1..(n - 1) /\ t[j] = s[j]
      BY <1>4, <2>3
    <3> QED
      BY <1>10, <1>12, <2>1, <3>1
  <2> QED
    BY <2>2, <2>3
<1>13. t \in F!Ascending(S)
  <2> HIDE DEF t
  <2> QED
    BY <1>3, <1>11, <1>12, AscendingMeans
<1> QED
  BY <1>3, <1>13

LEMMA FourAreFinite == ASSUME NEW a, NEW b, NEW c, NEW d PROVE IsFiniteSet({a, b, c, d})
<1>1. IsFiniteSet({a})
  BY FS_Singleton
<1>2. IsFiniteSet({a} \cup {b})
  BY <1>1, FS_AddElement
<1>3. IsFiniteSet(({a} \cup {b}) \cup {c})
  BY <1>2, FS_AddElement
<1>4. IsFiniteSet((({a} \cup {b}) \cup {c}) \cup {d})
  BY <1>3, FS_AddElement
<1>5. (({a} \cup {b}) \cup {c}) \cup {d} = {a, b, c, d}
  OBVIOUS
<1> QED
  BY <1>4, <1>5

LEMMA FiniteOrdinals == IsFiniteSet(DOMAIN F!Ordinal)
<1>1. IsFiniteSet(F!Spellings[1]) /\ IsFiniteSet(F!Spellings[2])
      /\ IsFiniteSet(F!Spellings[3]) /\ IsFiniteSet(F!Spellings[4])
  BY FourAreFinite DEF F!Spellings
<1>2. DOMAIN F!Ordinal =
        F!Spellings[1] \cup F!Spellings[2] \cup F!Spellings[3] \cup F!Spellings[4]
  BY DEF F!Ordinal, F!Spellings
<1> QED
  BY <1>1, <1>2, FS_Union

(* A rule as the window keeps it.                                          *)
Conditions == [argument_index : 0..3, value : 0..MaxU64]

Rule ==
  {r \in [operation : F!Names, kind : {"skip", "only"}, conditions : Seq(Conditions)] :
     Len(r.conditions) \in 1..4}

LEMMA ConditionType ==
  ASSUME NEW argument, NEW v,
         F!Condition(argument, v).argument_index # Err, F!Condition(argument, v).value # Err
  PROVE  F!Condition(argument, v) \in Conditions
<1>1. F!parse_argument_index(argument) \in 0..3
  <2>1. F!parse_argument_index(argument) # Err
    BY DEF F!Condition
  <2>2. F!OneBased(argument) \in 1..4
    BY <2>1 DEF F!parse_argument_index, F!MAX_RULE_CONDITIONS
  <2> QED
    BY <2>2 DEF F!parse_argument_index, F!MAX_RULE_CONDITIONS
<1>2. F!parse_u64_value(v) \in 0..MaxU64
  <2>1. F!parse_u64_value(v) # Err
    BY DEF F!Condition
  <2> QED
    BY <2>1 DEF F!parse_u64_value
<1> QED
  BY <1>1, <1>2 DEF F!Condition, Conditions

LEMMA OperationType ==
  ASSUME NEW object, NEW key, F!Operation(object, key) # Err
  PROVE  F!Operation(object, key) \in F!Names
<1>1. F!Operation(object, key) = F!canonical_operation(F!Text(object, key))
  BY DEF F!Operation
<1>2. F!Operation(object, key) \in F!KnownNames
  BY <1>1 DEF F!canonical_operation
<1> QED
  BY <1>2 DEF F!KnownNames

(* Conditions listed in the order of a sequence of places.                 *)
LEMMA ConditionsType ==
  ASSUME NEW n \in 0..4, NEW c, c = [i \in 1..n |-> c[i]], c # << >>,
         \A i \in 1..n : c[i] \in Conditions
  PROVE  c \in Seq(Conditions) /\ Len(c) \in 1..4
<1>1. c \in [1..n -> Conditions]
  OBVIOUS
<1>2. c \in Seq(Conditions) /\ Len(c) = n
  BY <1>1, SeqDef, LenProperties
<1>3. n # 0
  BY <1>2, EmptySeq
<1> QED
  BY <1>2, <1>3

LEMMA CompactRuleType ==
  ASSUME NEW object, F!Readable(F!CompactRule(object))
  PROVE  F!CompactRule(object) \in Rule
<1> DEFINE rule  == F!CompactRule(object)
           kinds == {"skip", "only"} \cap DOMAIN object.value
           kind  == IF F!Cardinality(kinds) = 1 THEN CHOOSE k \in kinds : TRUE ELSE Err
           map   == IF kind = Err \/ object.value[kind].type # "object" THEN << >>
                    ELSE object.value[kind].value
           keys  == IF /\ F!Cardinality(DOMAIN map) <= F!MAX_RULE_CONDITIONS
                       /\ DOMAIN map \subseteq DOMAIN F!Ordinal
                    THEN CHOOSE s \in F!Ascending(DOMAIN map) : TRUE
                    ELSE << >>
           conditions == [i \in DOMAIN keys |->
             F!Condition([type |-> "string", value |-> keys[i]], map[keys[i]])]
<1>1. rule = [operation |-> F!Operation(object, "op"), kind |-> kind, conditions |-> conditions]
  BY Zenon DEF F!CompactRule
<1>2. /\ rule.operation = F!Operation(object, "op") /\ rule.kind = kind
      /\ rule.conditions = conditions
  <2> HIDE DEF kind, conditions, rule
  <2> QED
    BY <1>1
<1>3. kind \in {"skip", "only"}
  <2>1. kind # Err
    BY <1>2 DEF F!Readable
  <2>2. F!Cardinality(kinds) = 1
    BY <2>1
  <2>3. kinds # {}
    BY <2>2, SameCardinality, FS_EmptySet
  <2> QED
    BY <2>2, <2>3
<1>4. PICK n \in 0..4 : DOMAIN keys = 1..n
  <2>1. CASE /\ F!Cardinality(DOMAIN map) <= 4
             /\ DOMAIN map \subseteq DOMAIN F!Ordinal
    <3> DEFINE D == DOMAIN map
    <3>1. IsFiniteSet(D)
      BY <2>1, FiniteOrdinals, FS_Subset
    <3>2. Cardinality(D) \in Nat /\ Cardinality(D) = F!Cardinality(D)
      BY <3>1, SameCardinality, FS_CardinalityType
    <3>3. F!Ascending(D) # {}
      BY <2>1, <3>1, AscendingExists
    <3>4. keys = CHOOSE s \in F!Ascending(D) : TRUE
      BY <2>1 DEF F!MAX_RULE_CONDITIONS
    <3>5. keys \in F!Ascending(D)
      <4> HIDE DEF D, keys
      <4> QED
        BY <3>3, <3>4
    <3>6. keys \in [1..Cardinality(D) -> D]
      <4> HIDE DEF D, keys
      <4> QED
        BY <3>5, AscendingMeans
    <3>7. F!Cardinality(D) <= 4
      BY <2>1
    <3> DEFINE n == Cardinality(D)
    <3>8. n \in 0..4 /\ DOMAIN keys = 1..n
      <4> HIDE DEF D, keys
      <4> QED
        BY <3>2, <3>6, <3>7
    <3> HIDE DEF n, keys
    <3> QED
      BY <3>8
  <2>2. CASE ~(/\ F!Cardinality(DOMAIN map) <= 4
               /\ DOMAIN map \subseteq DOMAIN F!Ordinal)
    <3>1. keys = << >>
      BY <2>2 DEF F!MAX_RULE_CONDITIONS
    <3> HIDE DEF keys
    <3> QED
      BY <3>1
  <2> QED
    BY <2>1, <2>2
<1>5. \A i \in 1..n : conditions[i] \in Conditions
  <2> SUFFICES ASSUME NEW i \in 1..n
               PROVE  conditions[i] \in Conditions
    OBVIOUS
  <2> DEFINE argument == [type |-> "string", value |-> keys[i]]
             v == map[keys[i]]
  <2>1. conditions[i] = F!Condition(argument, v) /\ i \in DOMAIN conditions
    BY <1>4
  <2>2. conditions[i].argument_index # Err /\ conditions[i].value # Err
    BY <1>2, <2>1 DEF F!Readable
  <2> HIDE DEF argument, v, conditions
  <2> QED
    BY <2>1, <2>2, ConditionType
<1>6. conditions # << >>
  BY <1>2 DEF F!Readable
<1>7. conditions = [i \in 1..n |-> conditions[i]]
  <2> HIDE DEF keys, map
  <2> QED
    BY <1>4
<1>8. F!Operation(object, "op") # Err
  BY <1>2 DEF F!Readable
<1> HIDE DEF conditions, kind
<1>9. conditions \in Seq(Conditions) /\ Len(conditions) \in 1..4
  BY <1>5, <1>6, <1>7, ConditionsType
<1>10. F!Operation(object, "op") \in F!Names
  BY <1>8, OperationType
<1> QED
  BY <1>1, <1>3, <1>9, <1>10 DEF Rule

LEMMA VerboseRuleType ==
  ASSUME NEW object, F!Readable(F!VerboseRule(object)),
         \A key \in DOMAIN object.value : F!IsList(object.value[key])
  PROVE  F!VerboseRule(object) \in Rule
<1> DEFINE rule == F!VerboseRule(object)
           type == F!Text(object, "type")
           kind == CASE type = "arguments_except" -> "skip"
                     [] type = "arguments_only"   -> "only"
                     [] OTHER                     -> Err
           given == /\ "conditions" \in DOMAIN object.value
                    /\ object.value.conditions.type = "array"
                    /\ \A i \in DOMAIN object.value.conditions.value :
                         LET c == object.value.conditions.value[i] IN
                           c.type = "object" /\ {"argument", "equals"} \subseteq DOMAIN c.value
           list == IF given THEN object.value.conditions.value ELSE << >>
           conditions ==
             IF Len(list) > F!MAX_RULE_CONDITIONS THEN << >>
             ELSE [i \in DOMAIN list |-> F!Condition(list[i].value.argument, list[i].value.equals)]
<1>1. rule = [operation |-> F!Operation(object, "operation"), kind |-> kind,
              conditions |-> conditions]
  BY Zenon DEF F!VerboseRule
<1>2. /\ rule.operation = F!Operation(object, "operation") /\ rule.kind = kind
      /\ rule.conditions = conditions
  <2> HIDE DEF kind, conditions, rule
  <2> QED
    BY <1>1
<1>3. kind \in {"skip", "only"}
  <2>1. kind # Err
    BY <1>2 DEF F!Readable
  <2> QED
    BY <2>1
<1>4. \E S : list \in Seq(S)
  <2>1. CASE given
    <3>1. F!IsList(object.value["conditions"]) /\ object.value.conditions.type = "array"
      BY <2>1
    <3>2. list = object.value.conditions.value
      BY <2>1
    <3> HIDE DEF list, given
    <3> QED
      BY <3>1, <3>2 DEF F!IsList
  <2>2. CASE ~given
    <3>1. list = << >>
      BY <2>2
    <3> HIDE DEF list
    <3> QED
      BY <3>1
  <2> QED
    BY <2>1, <2>2
<1>5. Len(list) \in Nat /\ DOMAIN list = 1..Len(list)
  <2> HIDE DEF list
  <2> QED
    BY <1>4, LenProperties
<1>6. conditions # << >>
  BY <1>2 DEF F!Readable
<1>7. Len(list) \in 0..4
  <2> HIDE DEF list
  <2>1. ~(Len(list) > F!MAX_RULE_CONDITIONS)
    BY <1>6
  <2> QED
    BY <1>5, <2>1 DEF F!MAX_RULE_CONDITIONS
<1>8. conditions = [i \in 1..Len(list) |->
                      F!Condition(list[i].value.argument, list[i].value.equals)]
  <2> HIDE DEF list
  <2> QED
    BY <1>5, <1>6
<1>9. \A i \in 1..Len(list) : conditions[i] \in Conditions
  <2> SUFFICES ASSUME NEW i \in 1..Len(list)
               PROVE  conditions[i] \in Conditions
    OBVIOUS
  <2> DEFINE argument == list[i].value.argument
             v == list[i].value.equals
  <2> HIDE DEF list, conditions
  <2>1. conditions[i] = F!Condition(argument, v) /\ i \in DOMAIN conditions
    BY <1>8
  <2>2. conditions[i].argument_index # Err /\ conditions[i].value # Err
    BY <1>2, <2>1 DEF F!Readable
  <2> HIDE DEF argument, v
  <2> QED
    BY <2>1, <2>2, ConditionType
<1> HIDE DEF conditions, kind, list
<1>10. conditions \in Seq(Conditions) /\ Len(conditions) \in 1..4
  BY <1>6, <1>7, <1>8, <1>9, ConditionsType
<1>11. F!Operation(object, "operation") \in F!Names
  <2>1. F!Operation(object, "operation") # Err
    BY <1>2 DEF F!Readable
  <2> QED
    BY <2>1, OperationType
<1> QED
  BY <1>1, <1>3, <1>10, <1>11 DEF Rule
-----------------------------------------------------------------------------
(* The rules of the window are rules, and the driver has the last ones.    *)

RulesInv ==
  /\ syscall_names \in BOOLEAN
  /\ argument_rules \in Seq(Rule) /\ Len(argument_rules) <= MaxArgumentRules
  /\ sent = F!Config

LEMMA LoadedRules ==
  ASSUME NEW json \in Files, F!parse_filter_config(json)
  PROVE  F!Rules(json) \in Seq(Rule) /\ Len(F!Rules(json)) <= MaxArgumentRules
<1> DEFINE entries == F!Entries(json, "rules")
           rules == F!Rules(json)
<1>1. entries # Err /\ Len(entries) <= MaxArgumentRules /\ json.type = "object"
  BY DEF F!parse_filter_config
<1>2. \A i \in DOMAIN entries : entries[i].type = "object" /\ F!Readable(rules[i])
  BY DEF F!parse_filter_config
<1>3. F!IsJson(json)
  BY PartsAssumption DEF F!FilterAssumption
<1>4. CASE "rules" \notin DOMAIN json.value
  <2>1. entries = << >>
    BY <1>4 DEF F!Entries
  <2> HIDE DEF entries
  <2>2. rules = [i \in DOMAIN entries |-> F!parse_argument_rule(entries[i])]
    BY DEF F!Rules, entries
  <2>3. DOMAIN entries = {}
    BY <2>1
  <2> HIDE DEF rules
  <2>4. rules = << >>
    BY <2>2, <2>3
  <2> QED
    BY <2>4, PartsAssumption DEF F!FilterAssumption, rules
<1>5. CASE "rules" \in DOMAIN json.value
  <2> DEFINE v == json.value["rules"]
  <2>1. v.type = "array" /\ entries = v.value
    BY <1>1, <1>5 DEF F!Entries
  <2>2. /\ F!IsList(v)
        /\ \A i \in DOMAIN entries : entries[i].type = "object" =>
             \A key \in DOMAIN entries[i].value : F!IsList(entries[i].value[key])
    BY <1>1, <1>3, <1>5, <2>1 DEF F!IsJson
  <2>3. PICK S : entries \in Seq(S)
    <3> HIDE DEF entries, v
    <3> QED
      BY <2>1, <2>2 DEF F!IsList
  <2>4. rules = [i \in DOMAIN entries |-> F!parse_argument_rule(entries[i])]
    BY DEF F!Rules
  <2> HIDE DEF entries, rules
  <2>5. ASSUME NEW i \in DOMAIN entries
        PROVE  rules[i] \in Rule
    <3> DEFINE object == entries[i]
    <3>1. \A key \in DOMAIN object.value : F!IsList(object.value[key])
      BY <1>2, <2>2
    <3>2. F!Readable(rules[i]) /\ rules[i] = F!parse_argument_rule(object)
      BY <1>2, <2>4
    <3> HIDE DEF object
    <3>3. CASE "op" \in DOMAIN object.value
      BY <3>2, <3>3, CompactRuleType DEF F!parse_argument_rule
    <3>4. CASE "op" \notin DOMAIN object.value
      BY <3>1, <3>2, <3>4, VerboseRuleType DEF F!parse_argument_rule
    <3> QED
      BY <3>3, <3>4
  <2>6. Len(entries) \in Nat /\ DOMAIN entries = 1..Len(entries)
    BY <2>3, LenProperties
  <2>7. rules \in [1..Len(entries) -> Rule]
    BY <2>4, <2>5, <2>6
  <2>8. rules \in Seq(Rule) /\ Len(rules) = Len(entries)
    BY <2>6, <2>7, SeqDef, LenProperties
  <2> QED
    BY <1>1, <2>8 DEF rules
<1> QED
  BY <1>4, <1>5

LEMMA RemovedRule ==
  ASSUME argument_rules \in Seq(Rule), NEW i \in DOMAIN argument_rules
  PROVE  /\ F!RemoveAt(argument_rules, i) \in Seq(Rule)
         /\ Len(F!RemoveAt(argument_rules, i)) <= Len(argument_rules)
<1> DEFINE n == Len(argument_rules)
<1>1. n \in Nat /\ i \in 1..n
  BY LenProperties
<1>2. /\ SubSeq(argument_rules, 1, i - 1) \in Seq(Rule)
      /\ Len(SubSeq(argument_rules, 1, i - 1)) = i - 1
  <2>1. \A k \in 1..(i - 1) : argument_rules[k] \in Rule
    BY <1>1, ElementOfSeq
  <2>2. 1 \in Nat /\ i - 1 \in Nat
    BY <1>1
  <2> QED
    BY <1>1, <2>1, <2>2, SubSeqProperties
<1>3. /\ SubSeq(argument_rules, i + 1, n) \in Seq(Rule)
      /\ Len(SubSeq(argument_rules, i + 1, n)) = n - i
  <2>1. \A k \in (i + 1)..n : argument_rules[k] \in Rule
    BY <1>1, ElementOfSeq
  <2> QED
    BY <1>1, <2>1, SubSeqProperties
<1> QED
  BY <1>1, <1>2, <1>3, ConcatProperties DEF F!RemoveAt

LEMMA NoRules == << >> \in Seq(Rule) /\ Len(<< >>) <= MaxArgumentRules
<1>1. MaxArgumentRules \in Nat
  BY PartsAssumption DEF F!FilterAssumption
<1> QED
  BY <1>1

LEMMA RulesInit == Init => RulesInv
<1> SUFFICES ASSUME F!Init
             PROVE  RulesInv
  BY DEF Init
<1> QED
  BY NoRules DEF F!Init, RulesInv

LEMMA RulesNext ==
  ASSUME RulesInv, F!Next
  PROVE  RulesInv'
<1> USE DEF RulesInv, F!send_config
<1>1. CASE F!TakeTable
  BY <1>1 DEF F!TakeTable, F!filters
<1>2. CASE F!RemoveArgumentRule
  <2>1. PICK i \in DOMAIN argument_rules : argument_rules' = F!RemoveAt(argument_rules, i)
    BY <1>2 DEF F!RemoveArgumentRule
  <2>2. argument_rules' \in Seq(Rule) /\ Len(argument_rules') <= Len(argument_rules)
    BY <2>1, RemovedRule
  <2>3. Len(argument_rules') \in Nat /\ Len(argument_rules) \in Nat /\ MaxArgumentRules \in Nat
    BY <2>2, PartsAssumption DEF F!FilterAssumption
  <2>4. Len(argument_rules') <= MaxArgumentRules
    BY <2>2, <2>3
  <2> QED
    BY <1>2, <2>2, <2>4 DEF F!RemoveArgumentRule
<1>3. CASE F!ClearAll \/ F!ResetFilters
  BY <1>3, NoRules DEF F!ClearAll, F!ResetFilters
<1>4. ASSUME NEW json \in Files, F!load_filter_config(json)
      PROVE  RulesInv'
  BY <1>4, LoadedRules DEF F!load_filter_config
<1>5. ASSUME NEW name \in F!Names \cup {"Unknown"}, NEW include \in BOOLEAN,
             F!SetOperation(name, include)
      PROVE  RulesInv'
  BY <1>5 DEF F!SetOperation
<1>6. ASSUME NEW name, F!RemoveOperationRule(name)
      PROVE  RulesInv'
  BY <1>6 DEF F!RemoveOperationRule
<1> QED
  BY <1>1, <1>2, <1>3, <1>4, <1>5, <1>6 DEF F!Next
-----------------------------------------------------------------------------
(* Every rule of the window has its own in the driver.                     *)
LEMMA RuleForRule ==
  ASSUME RulesInv, syscall_names
  PROVE  F!DriverRules = [k \in 1..Len(argument_rules) |-> F!DriverRule(argument_rules[k])]
<1> DEFINE n == Len(argument_rules)
<1>1. n \in Nat /\ n <= MaxArgumentRules /\ MaxArgumentRules \in Nat
      /\ DOMAIN argument_rules = 1..n
  BY PartsAssumption, LenProperties DEF RulesInv, F!FilterAssumption
<1>2. \A i \in 1..n : argument_rules[i].operation \in F!KnownNames
  <2>1. \A i \in 1..n : argument_rules[i] \in Rule
    BY ElementOfSeq DEF RulesInv
  <2> QED
    BY <2>1 DEF Rule, F!KnownNames
<1> HIDE DEF n
<1>3. F!WithId = 1..n
  BY <1>1, <1>2 DEF F!WithId
<1>4. \A k \in 0..n : F!Cardinality(1..k) = k
  <2>1. \A k \in 0..n : Cardinality(1..k) = k
    BY <1>1, FS_Interval
  <2> QED
    BY <2>1, SameCardinality
<1>5. ASSUME NEW k \in 1..n
      PROVE  F!RuleWithId(k) = argument_rules[k]
  <2>1. \A i \in 1..n : {j \in 1..n : j <= i} = 1..i
    BY <1>1
  <2>2. ASSUME NEW i \in 1..n
        PROVE  F!Cardinality({j \in F!WithId : j <= i}) = i
    <3>1. {j \in F!WithId : j <= i} = 1..i
      BY <1>3, <2>1
    <3>2. i \in 0..n
      BY <1>1
    <3> QED
      BY <1>4, <3>1, <3>2
  <2>3. k = CHOOSE i \in F!WithId : F!Cardinality({j \in F!WithId : j <= i}) = k
    BY <1>3, <2>2
  <2> QED
    BY <2>3 DEF F!RuleWithId
<1>6. F!Cardinality(F!WithId) = n
  BY <1>1, <1>3, <1>4
<1> QED
  BY <1>5, <1>6 DEF F!DriverRules, n

LEMMA SameDecision ==
  ASSUME RulesInv, syscall_names, NEW call \in F!Calls
  PROVE  F!DriverAllows(call) <=> F!event_enabled(call)
<1> DEFINE rules == argument_rules
           given == sent.rules
           name  == NameOf[call.id]
<1>1. call.id \in Ids
  BY DEF F!Calls
<1>2. /\ sent.operations = F!operation_mask
      /\ given = [k \in 1..Len(rules) |-> F!DriverRule(rules[k])]
  BY RuleForRule DEF RulesInv, F!Config
<1>3. /\ Len(rules) \in Nat /\ DOMAIN rules = 1..Len(rules)
      /\ \A i \in 1..Len(rules) : rules[i] \in Rule
  BY LenProperties, ElementOfSeq DEF RulesInv
<1> HIDE DEF rules, given
<1>4. call.id \in sent.operations <=> F!operation_enabled(name)
  BY <1>1, <1>2 DEF F!operation_mask
<1>5. ASSUME NEW i \in 1..Len(rules)
      PROVE  /\ F!ValidRule(given[i])
             /\ given[i].syscall_id = call.id <=> rules[i].operation = name
             /\ given[i].action = rules[i].kind
             /\ F!Matches(given[i], call) <=> F!Matches(rules[i], call)
  <2> DEFINE rule == rules[i]
             Named(id) == /\ NameOf[id] = rule.operation
                          /\ \A o \in Ids : NameOf[o] = rule.operation => id <= o
             id == CHOOSE x \in Ids : Named(x)
  <2>1. given[i] = [syscall_id |-> id, action |-> rule.kind, conditions |-> rule.conditions]
    <3>1. given[i] = F!DriverRule(rules[i])
      BY <1>2, <1>5
    <3> QED
      BY <3>1, Zenon DEF F!DriverRule
  <2>2. rule \in Rule
    BY <1>3, <1>5
  <2>3. PICK x \in Ids : NameOf[x] = rule.operation
    BY <2>2 DEF Rule, F!Names
  <2>4. Ids \subseteq Nat /\ \A a, b \in Ids : NameOf[a] = NameOf[b] => a = b
    BY PartsAssumption DEF F!FilterAssumption
  <2>5. Named(x) /\ \A y \in Ids : Named(y) => y = x
    BY <2>3, <2>4
  <2>6. id = x
    <3> HIDE DEF Named
    <3> QED
      BY <2>5
  <2> HIDE DEF rule, id, Named
  <2>7. /\ given[i].syscall_id = x /\ given[i].action = rule.kind
        /\ given[i].conditions = rule.conditions
    BY <2>1, <2>6
  <2>8. x = call.id <=> rule.operation = name
    BY <1>1, <2>3, <2>4
  <2>9. /\ Len(rule.conditions) \in 1..4 /\ rule.conditions \in Seq(Conditions)
    BY <2>2 DEF Rule
  <2>10. \A k \in DOMAIN rule.conditions : rule.conditions[k] \in Conditions
    BY <2>9, ElementOfSeq, LenProperties
  <2>11. F!ValidRule(given[i])
    BY <2>7, <2>9, <2>10 DEF F!ValidRule, F!MAX_RULE_CONDITIONS, Conditions
  <2>12. F!Matches(given[i], call) <=> F!Matches(rule, call)
    BY <2>7 DEF F!Matches
  <2> QED
    BY <2>7, <2>8, <2>11, <2>12 DEF rule
<1> DEFINE own  == {i \in DOMAIN rules : rules[i].operation = name}
           only == {i \in own : rules[i].kind = "only"}
<1>6. DOMAIN given = 1..Len(rules)
  BY <1>2
<1>7. /\ {i \in DOMAIN given : F!ValidRule(given[i]) /\ given[i].syscall_id = call.id} = own
      /\ {i \in own : given[i].action = "only"} = only
      /\ \A i \in own : F!Matches(given[i], call) <=> F!Matches(rules[i], call)
  BY <1>3, <1>5, <1>6
<1>8. F!DriverAllows(call) <=>
        /\ call.id \in sent.operations
        /\ \A i \in own \ only : ~F!Matches(rules[i], call)
        /\ only # {} => \E i \in only : F!Matches(rules[i], call)
  <2>1. F!DriverAllows(call) <=>
          LET o == {i \in DOMAIN given : F!ValidRule(given[i]) /\ given[i].syscall_id = call.id}
              y == {i \in o : given[i].action = "only"}
          IN /\ call.id \in sent.operations
             /\ \A i \in o \ y : ~F!Matches(given[i], call)
             /\ y # {} => \E i \in y : F!Matches(given[i], call)
    BY Zenon DEF F!DriverAllows, given
  <2> QED
    BY <1>7, <2>1
<1>9. F!event_enabled(call) <=>
        /\ F!operation_enabled(name)
        /\ \A i \in own \ only : ~F!Matches(rules[i], call)
        /\ only = {} \/ \E i \in only : F!Matches(rules[i], call)
  BY DEF F!event_enabled, F!argument_rules_allow, rules
<1> QED
  BY <1>4, <1>8, <1>9

(* Whatever files were loaded and rules removed, with the table there the  *)
(* driver queues a call if and only if the window shows it, for any table  *)
(* and any number of rules that the window takes.                          *)
THEOREM DriverAndWindowAgree == Spec => []DriverDecidesAsWindow
<1> DEFINE vars == <<part, filterVars, targetVars, exportVars, timeVars, iconVars>>
<1>1. RulesInv /\ [Next]_vars => RulesInv'
  <2> SUFFICES ASSUME RulesInv, [Next]_vars
               PROVE  RulesInv'
    OBVIOUS
  <2>1. F!Next \/ UNCHANGED filterVars
    BY DEF Next, RulesStep, TargetsStep, ExportStep, TimesStep, IconsStep
  <2>2. CASE UNCHANGED filterVars
    BY <2>2 DEF filterVars, RulesInv, F!Config, F!operation_mask, F!operation_enabled,
       F!DriverRules, F!DriverRule, F!RuleWithId, F!WithId, F!KnownNames
  <2> QED
    BY <2>1, <2>2, RulesNext
<1>2. RulesInv => DriverDecidesAsWindow
  BY SameDecision DEF DriverDecidesAsWindow, F!DriverDecidesAsWindow
<1> QED
  BY RulesInit, <1>1, <1>2, PTL DEF Spec
-----------------------------------------------------------------------------
(* Rules loaded from a file.  What a rule of the file wants of an argument, *)
(* and when a rule of the window says the same as one of the file.         *)

Wanted(w) == [argument_index |-> F!OneBased(w[1]) - 1, value |-> F!parse_u64_value(w[2])]

SameConditions(conditions, wants) ==
  /\ \A i \in DOMAIN conditions : \E w \in wants : conditions[i] = Wanted(w)
  /\ \A w \in wants : \E i \in DOMAIN conditions : conditions[i] = Wanted(w)

Says(rule, operation, skips, wants) ==
  /\ rule.operation = Spelled[operation]
  /\ rule.kind = IF skips THEN "skip" ELSE "only"
  /\ SameConditions(rule.conditions, wants)

LEMMA ConditionWanted ==
  ASSUME NEW argument, NEW v,
         F!Condition(argument, v).argument_index # Err
  PROVE  F!Condition(argument, v) = Wanted(<<argument, v>>)
<1>1. F!Condition(argument, v).argument_index = F!parse_argument_index(argument)
  BY DEF F!Condition
<1>2. F!parse_argument_index(argument) = F!OneBased(argument) - 1
  BY <1>1 DEF F!parse_argument_index
<1> QED
  BY <1>2 DEF F!Condition, Wanted

LEMMA OperationSpelled ==
  ASSUME NEW object, NEW key, F!Operation(object, key) # Err
  PROVE  F!Operation(object, key) = Spelled[object.value[key].value]
<1> DEFINE name == F!Text(object, key)
<1>1. name # Err /\ F!Operation(object, key) = F!canonical_operation(name)
  BY DEF F!Operation
<1>2. name = object.value[key].value
  BY <1>1 DEF F!Text
<1>3. F!canonical_operation(name) = Spelled[name]
  <2> HIDE DEF name
  <2> QED
    BY <1>1 DEF F!canonical_operation
<1> QED
  BY <1>1, <1>2, <1>3

(* In the order of the arguments no key of a map is missing.               *)
LEMMA AscendingHasAll ==
  ASSUME NEW keys, IsFiniteSet(keys), NEW s \in F!Ascending(keys), NEW key \in keys
  PROVE  \E i \in DOMAIN s : s[i] = key
<1> DEFINE n == Cardinality(keys)
           places == 1..n
<1>1. n \in Nat
  BY FS_CardinalityType
<1>2. /\ s \in [1..n -> keys]
      /\ \A i, j \in 1..n : i < j => s[i] # s[j]
  BY AscendingMeans
<1>3. IsFiniteSet(places) /\ Cardinality(places) = n
  BY <1>1, FS_Interval
<1>4. s \in Injection(places, keys)
  <2>1. \A i, j \in places : i < j \/ j < i \/ i = j
    BY <1>1
  <2>2. \A i, j \in places : s[i] = s[j] => i = j
    BY <1>2, <2>1
  <2> QED
    BY <1>2, <2>2 DEF Injection, IsInjective
<1>5. s \in Surjection(places, keys)
  <2> HIDE DEF n, places
  <2>1. Cardinality(places) = Cardinality(keys)
    BY <1>3 DEF n
  <2> QED
    BY <1>4, <2>1, FS_Injection
<1> QED
  BY <1>2, <1>5 DEF Surjection

LEMMA CompactRuleSays ==
  ASSUME NEW object, "op" \in DOMAIN object.value, F!Readable(F!CompactRule(object))
  PROVE  LET listed == F!Listed(object) IN
         Says(F!CompactRule(object), listed.operation, listed.skips, listed.wants)
<1> DEFINE rule  == F!CompactRule(object)
           kinds == {"skip", "only"} \cap DOMAIN object.value
           kind  == IF F!Cardinality(kinds) = 1 THEN CHOOSE k \in kinds : TRUE ELSE Err
           map   == IF kind = Err \/ object.value[kind].type # "object" THEN << >>
                    ELSE object.value[kind].value
           keys  == IF /\ F!Cardinality(DOMAIN map) <= F!MAX_RULE_CONDITIONS
                       /\ DOMAIN map \subseteq DOMAIN F!Ordinal
                    THEN CHOOSE s \in F!Ascending(DOMAIN map) : TRUE
                    ELSE << >>
           argument(a) == [type |-> "string", value |-> a]
           conditions == [i \in DOMAIN keys |-> F!Condition(argument(keys[i]), map[keys[i]])]
           skips == "skip" \in DOMAIN object.value
           listed == object.value[IF skips THEN "skip" ELSE "only"].value
           wants  == {<<argument(a), listed[a]>> : a \in DOMAIN listed}
<1>1. rule = [operation |-> F!Operation(object, "op"), kind |-> kind, conditions |-> conditions]
  BY Zenon DEF F!CompactRule
<1>2. /\ rule.operation = F!Operation(object, "op") /\ rule.kind = kind
      /\ rule.conditions = conditions
  <2> HIDE DEF kind, conditions, rule
  <2> QED
    BY <1>1
<1>3. kind = IF skips THEN "skip" ELSE "only"
  <2>1. kind # Err
    BY <1>2 DEF F!Readable
  <2>2. F!Cardinality(kinds) = 1
    BY <2>1
  <2>3. PICK only : kinds = {only}
    <3> HIDE DEF kinds
    <3>1. Cardinality(kinds) = 1
      BY <2>2, SameCardinality
    <3>2. IsFiniteSet({"skip", "only"})
      <4>1. IsFiniteSet({"skip"})
        BY FS_Singleton
      <4>2. IsFiniteSet({"skip"} \cup {"only"})
        BY <4>1, FS_AddElement
      <4>3. {"skip"} \cup {"only"} = {"skip", "only"}
        OBVIOUS
      <4> QED
        BY <4>2, <4>3
    <3>3. IsFiniteSet(kinds)
      BY <3>2, FS_Subset DEF kinds
    <3> QED
      BY <3>1, <3>3, FS_Singleton
  <2>4. kind = only
    <3>1. kind = CHOOSE k \in kinds : TRUE
      BY <2>2
    <3> HIDE DEF kind, kinds
    <3> QED
      BY <2>3, <3>1
  <2> QED
    BY <2>3, <2>4
<1>4. conditions # << >>
  BY <1>2 DEF F!Readable
<1>5. map = listed
  <2>1. CASE object.value[kind].type # "object"
    <3>1. map = << >>
      BY <2>1
    <3>2. DOMAIN map = {}
      <4> HIDE DEF map
      <4> QED
        BY <3>1
    <3>3. DOMAIN keys = {}
      <4> HIDE DEF map
      <4>1. CASE F!Cardinality(DOMAIN map) <= F!MAX_RULE_CONDITIONS /\ DOMAIN map \subseteq DOMAIN F!Ordinal
        <5>1. F!Ascending({}) # {}
          BY FS_EmptySet, AscendingExists
        <5>2. keys = CHOOSE s \in F!Ascending({}) : TRUE
          BY <3>2, <4>1
        <5>3. keys \in F!Ascending({})
          <6> HIDE DEF keys
          <6> QED
            BY <5>1, <5>2
        <5> HIDE DEF keys
        <5>4. Cardinality({}) = 0
          BY FS_EmptySet
        <5>5. keys \in [1..0 -> {}]
          BY <5>3, <5>4, AscendingMeans
        <5> QED
          BY <5>5
      <4>2. CASE ~(F!Cardinality(DOMAIN map) <= F!MAX_RULE_CONDITIONS /\ DOMAIN map \subseteq DOMAIN F!Ordinal)
        <5>1. keys = << >>
          BY <4>2
        <5> HIDE DEF keys
        <5> QED
          BY <5>1
      <4> QED
        BY <4>1, <4>2
    <3>4. conditions = << >>
      <4> HIDE DEF keys, map
      <4> QED
        BY <3>3
    <3> QED
      BY <1>4, <3>4
  <2>2. CASE object.value[kind].type = "object"
    <3>1. kind # Err
      BY <1>2 DEF F!Readable
    <3>2. map = object.value[kind].value
      BY <2>2, <3>1
    <3> HIDE DEF map, kind
    <3> QED
      BY <1>3, <3>2
  <2> QED
    BY <2>1, <2>2
<1>6. /\ IsFiniteSet(DOMAIN map) /\ keys \in F!Ascending(DOMAIN map)
  <2> DEFINE D == DOMAIN map
  <2>1. CASE F!Cardinality(DOMAIN map) <= F!MAX_RULE_CONDITIONS /\ DOMAIN map \subseteq DOMAIN F!Ordinal
    <3>1. IsFiniteSet(D)
      BY <2>1, FiniteOrdinals, FS_Subset
    <3>2. F!Ascending(D) # {}
      BY <2>1, <3>1, AscendingExists
    <3>3. keys = CHOOSE s \in F!Ascending(D) : TRUE
      BY <2>1
    <3>4. keys \in F!Ascending(D)
      <4> HIDE DEF D, keys
      <4> QED
        BY <3>2, <3>3
    <3> HIDE DEF keys
    <3> QED
      BY <3>1, <3>4
  <2>2. CASE ~(F!Cardinality(DOMAIN map) <= F!MAX_RULE_CONDITIONS /\ DOMAIN map \subseteq DOMAIN F!Ordinal)
    <3>1. keys = << >>
      BY <2>2
    <3>2. DOMAIN keys = {}
      <4> HIDE DEF keys
      <4> QED
        BY <3>1
    <3>3. conditions = << >>
      <4> HIDE DEF keys, map
      <4> QED
        BY <3>2
    <3> QED
      BY <1>4, <3>3
  <2> QED
    BY <2>1, <2>2
<1>7. keys \in [DOMAIN keys -> DOMAIN map]
  <2> DEFINE D == DOMAIN map
  <2>1. keys \in F!Ascending(D)
    <3> HIDE DEF keys, map
    <3> QED
      BY <1>6
  <2>2. keys \in [1..Cardinality(D) -> D]
    <3> HIDE DEF keys, D
    <3> QED
      BY <2>1, AscendingMeans
  <2> HIDE DEF keys
  <2> QED
    BY <2>2
<1>8. \A key \in DOMAIN map : \E i \in DOMAIN keys : keys[i] = key
  <2> HIDE DEF keys, map
  <2> QED
    BY <1>6, AscendingHasAll
<1>9. \A i \in DOMAIN keys : conditions[i] = Wanted(<<argument(keys[i]), map[keys[i]]>>)
  <2> SUFFICES ASSUME NEW i \in DOMAIN keys
               PROVE  conditions[i] = Wanted(<<argument(keys[i]), map[keys[i]]>>)
    OBVIOUS
  <2> DEFINE a == argument(keys[i])
             v == map[keys[i]]
  <2>1. conditions[i] = F!Condition(a, v) /\ i \in DOMAIN conditions
    OBVIOUS
  <2>2. conditions[i].argument_index # Err
    BY <1>2, <2>1 DEF F!Readable
  <2> HIDE DEF a, v, conditions
  <2>3. conditions[i] = Wanted(<<a, v>>)
    BY <2>1, <2>2, ConditionWanted
  <2> QED
    BY <2>3 DEF a, v
<1>10. SameConditions(conditions, wants)
  <2>1. DOMAIN conditions = DOMAIN keys
    OBVIOUS
  <2> HIDE DEF conditions, keys, map, listed, argument
  <2>2. ASSUME NEW i \in DOMAIN conditions
        PROVE  \E w \in wants : conditions[i] = Wanted(w)
    BY <1>5, <1>7, <1>9, <2>1, <2>2
  <2>3. ASSUME NEW w \in wants
        PROVE  \E i \in DOMAIN conditions : conditions[i] = Wanted(w)
    <3>1. PICK a \in DOMAIN listed : w = <<argument(a), listed[a]>>
      BY <2>3
    <3>2. PICK i \in DOMAIN keys : keys[i] = a
      BY <1>5, <1>8, <3>1
    <3> QED
      BY <1>5, <1>9, <2>1, <3>1, <3>2
  <2> HIDE DEF wants
  <2> QED
    BY <2>2, <2>3 DEF SameConditions
<1>11. F!Operation(object, "op") = Spelled[object.value.op.value]
  <2>1. F!Operation(object, "op") # Err
    BY <1>2 DEF F!Readable
  <2> QED
    BY <2>1, OperationSpelled
<1>12. F!Listed(object) = [operation |-> object.value.op.value, skips |-> skips, wants |-> wants]
  BY Zenon DEF F!Listed
<1>13. /\ F!Listed(object).operation = object.value.op.value
       /\ F!Listed(object).skips = skips /\ F!Listed(object).wants = wants
  <2> HIDE DEF skips, wants
  <2> QED
    BY <1>12
<1> HIDE DEF rule, kind, conditions, skips, wants
<1> QED
  BY <1>2, <1>3, <1>10, <1>11, <1>13 DEF Says, rule

LEMMA VerboseRuleSays ==
  ASSUME NEW object, "op" \notin DOMAIN object.value, F!Readable(F!VerboseRule(object))
  PROVE  LET listed == F!Listed(object) IN
         Says(F!VerboseRule(object), listed.operation, listed.skips, listed.wants)
<1> DEFINE rule == F!VerboseRule(object)
           type == F!Text(object, "type")
           kind == CASE type = "arguments_except" -> "skip"
                     [] type = "arguments_only"   -> "only"
                     [] OTHER                     -> Err
           given == /\ "conditions" \in DOMAIN object.value
                    /\ object.value.conditions.type = "array"
                    /\ \A i \in DOMAIN object.value.conditions.value :
                         LET c == object.value.conditions.value[i] IN
                           c.type = "object" /\ {"argument", "equals"} \subseteq DOMAIN c.value
           list == IF given THEN object.value.conditions.value ELSE << >>
           conditions ==
             IF Len(list) > F!MAX_RULE_CONDITIONS THEN << >>
             ELSE [i \in DOMAIN list |-> F!Condition(list[i].value.argument, list[i].value.equals)]
           skips == object.value.type.value = "arguments_except"
           wants == {<<c.value.argument, c.value.equals>> : c \in F!Range(object.value.conditions.value)}
<1>1. rule = [operation |-> F!Operation(object, "operation"), kind |-> kind,
              conditions |-> conditions]
  BY Zenon DEF F!VerboseRule
<1>2. /\ rule.operation = F!Operation(object, "operation") /\ rule.kind = kind
      /\ rule.conditions = conditions
  <2> HIDE DEF kind, conditions, rule
  <2> QED
    BY <1>1
<1>3. kind = IF skips THEN "skip" ELSE "only"
  <2>1. type \in {"arguments_except", "arguments_only"}
    <3>1. kind # Err
      BY <1>2 DEF F!Readable
    <3> QED
      BY <3>1
  <2>2. type # Err
    BY <2>1, PartsAssumption DEF F!FilterAssumption
  <2>3. type = object.value["type"].value
    BY <2>2 DEF F!Text
  <2> QED
    BY <2>1, <2>3
<1>4. conditions # << >>
  BY <1>2 DEF F!Readable
<1>5. conditions = [i \in DOMAIN list |-> F!Condition(list[i].value.argument, list[i].value.equals)]
  BY <1>4
<1>6. list = object.value.conditions.value
  <2>1. CASE given
    BY <2>1
  <2>2. CASE ~given
    <3>1. list = << >>
      BY <2>2
    <3> HIDE DEF list, conditions
    <3>2. conditions = << >>
      BY <1>5, <3>1
    <3> QED
      BY <1>4, <3>2
  <2> QED
    BY <2>1, <2>2
<1> HIDE DEF list
<1>7. \A i \in DOMAIN list :
        conditions[i] = Wanted(<<list[i].value.argument, list[i].value.equals>>)
  <2> SUFFICES ASSUME NEW i \in DOMAIN list
               PROVE  conditions[i] = Wanted(<<list[i].value.argument, list[i].value.equals>>)
    OBVIOUS
  <2> DEFINE a == list[i].value.argument
             v == list[i].value.equals
  <2> HIDE DEF conditions
  <2>1. conditions[i] = F!Condition(a, v) /\ i \in DOMAIN conditions
    BY <1>5
  <2>2. conditions[i].argument_index # Err
    BY <1>2, <2>1 DEF F!Readable
  <2> HIDE DEF a, v
  <2>3. conditions[i] = Wanted(<<a, v>>)
    BY <2>1, <2>2, ConditionWanted
  <2> QED
    BY <2>3 DEF a, v
<1>8. wants = {<<list[i].value.argument, list[i].value.equals>> : i \in DOMAIN list}
  BY <1>6 DEF F!Range
<1>9. SameConditions(conditions, wants)
  <2>1. DOMAIN conditions = DOMAIN list
    <3> HIDE DEF conditions
    <3> QED
      BY <1>5
  <2> HIDE DEF conditions, wants
  <2>2. ASSUME NEW i \in DOMAIN conditions
        PROVE  \E w \in wants : conditions[i] = Wanted(w)
    BY <1>7, <1>8, <2>1, <2>2
  <2>3. ASSUME NEW w \in wants
        PROVE  \E i \in DOMAIN conditions : conditions[i] = Wanted(w)
    <3>1. PICK i \in DOMAIN list : w = <<list[i].value.argument, list[i].value.equals>>
      BY <1>8, <2>3
    <3> QED
      BY <1>7, <2>1, <3>1
  <2> QED
    BY <2>2, <2>3 DEF SameConditions
<1>10. F!Operation(object, "operation") = Spelled[object.value.operation.value]
  <2>1. F!Operation(object, "operation") # Err
    BY <1>2 DEF F!Readable
  <2> QED
    BY <2>1, OperationSpelled
<1>11. F!Listed(object) = [operation |-> object.value.operation.value, skips |-> skips,
                           wants |-> wants]
  BY Zenon DEF F!Listed
<1>12. /\ F!Listed(object).operation = object.value.operation.value
       /\ F!Listed(object).skips = skips /\ F!Listed(object).wants = wants
  <2> HIDE DEF skips, wants
  <2> QED
    BY <1>11
<1> HIDE DEF rule, kind, conditions, skips, wants
<1> QED
  BY <1>2, <1>3, <1>9, <1>10, <1>12 DEF Says, rule

(* The rules say what the file says, place by place.                       *)
Faithful(rules, json) ==
  LET entries == F!Entries(json, "rules") IN
  /\ DOMAIN rules = DOMAIN entries
  /\ \A i \in DOMAIN entries :
       Says(rules[i], F!Listed(entries[i]).operation, F!Listed(entries[i]).skips,
            F!Listed(entries[i]).wants)

LoadedInv == loaded # NoFile => Faithful(argument_rules, loaded)

LEMMA LoadedIsFaithful ==
  ASSUME NEW json, F!parse_filter_config(json)
  PROVE  Faithful(F!Rules(json), json)
<1> DEFINE entries == F!Entries(json, "rules")
           rules == F!Rules(json)
<1>1. \A i \in DOMAIN entries : F!Readable(rules[i])
  BY DEF F!parse_filter_config
<1>2. rules = [i \in DOMAIN entries |-> F!parse_argument_rule(entries[i])]
  BY DEF F!Rules
<1> HIDE DEF entries, rules
<1>3. ASSUME NEW i \in DOMAIN entries
      PROVE  Says(rules[i], F!Listed(entries[i]).operation, F!Listed(entries[i]).skips,
                  F!Listed(entries[i]).wants)
  <2> DEFINE object == entries[i]
  <2>1. F!Readable(rules[i]) /\ rules[i] = F!parse_argument_rule(object)
    BY <1>1, <1>2
  <2> HIDE DEF object
  <2>2. CASE "op" \in DOMAIN object.value
    BY <2>1, <2>2, CompactRuleSays DEF F!parse_argument_rule, object
  <2>3. CASE "op" \notin DOMAIN object.value
    BY <2>1, <2>3, VerboseRuleSays DEF F!parse_argument_rule, object
  <2> QED
    BY <2>2, <2>3
<1> QED
  BY <1>2, <1>3 DEF Faithful, entries, rules

LEMMA LoadedStep ==
  ASSUME LoadedInv, F!Next
  PROVE  LoadedInv'
<1> USE DEF LoadedInv
<1>1. CASE F!TakeTable
  BY <1>1 DEF F!TakeTable, F!filters, Faithful, F!Entries
<1>2. CASE F!RemoveArgumentRule \/ F!ClearAll \/ F!ResetFilters
  BY <1>2 DEF F!RemoveArgumentRule, F!ClearAll, F!ResetFilters
<1>3. ASSUME NEW json \in Files, F!load_filter_config(json)
      PROVE  LoadedInv'
  <2>1. argument_rules' = F!Rules(json) /\ loaded' = json
    BY <1>3 DEF F!load_filter_config
  <2>2. Faithful(F!Rules(json), json)
    BY <1>3, LoadedIsFaithful DEF F!load_filter_config
  <2> QED
    BY <2>1, <2>2
<1>4. ASSUME NEW name, NEW include, F!SetOperation(name, include)
      PROVE  LoadedInv'
  BY <1>4 DEF F!SetOperation
<1>5. ASSUME NEW name, F!RemoveOperationRule(name)
      PROVE  LoadedInv'
  BY <1>5 DEF F!RemoveOperationRule
<1> QED
  BY <1>1, <1>2, <1>3, <1>4, <1>5 DEF F!Next

(* What the property says of a call and a rule of the file.                *)
MeetsRule(call, rule) ==
  call.valid /\ \A w \in rule.wants :
    call.arguments[F!OneBased(w[1]) - 1] = F!parse_u64_value(w[2])

LEMMA SaysMatches ==
  ASSUME NEW call, NEW rule, NEW said, Says(rule, said.operation, said.skips, said.wants)
  PROVE  /\ rule.operation = Spelled[said.operation]
         /\ rule.kind = "only" <=> ~said.skips
         /\ F!Matches(rule, call) <=> MeetsRule(call, said)
<1>1. /\ rule.operation = Spelled[said.operation]
      /\ rule.kind = IF said.skips THEN "skip" ELSE "only"
      /\ SameConditions(rule.conditions, said.wants)
  BY DEF Says
<1>2. \A w : Wanted(w).argument_index = F!OneBased(w[1]) - 1 /\ Wanted(w).value = F!parse_u64_value(w[2])
  BY DEF Wanted
<1>3. F!Matches(rule, call) <=> MeetsRule(call, said)
  BY <1>1, <1>2 DEF F!Matches, MeetsRule, SameConditions
<1> QED
  BY <1>1, <1>3

LEMMA FaithfulDecides ==
  ASSUME NEW json, NEW rules, Faithful(rules, json), NEW call
  PROVE  LET said == {F!Listed(object) : object \in F!Range(F!Entries(json, "rules"))}
             own  == {r \in said : Spelled[r.operation] = NameOf[call.id]}
         IN F!argument_rules_allow(rules, call, NameOf[call.id]) <=>
              /\ ~\E r \in own : r.skips /\ MeetsRule(call, r)
              /\ (\E r \in own : ~r.skips) => \E r \in own : ~r.skips /\ MeetsRule(call, r)
<1> DEFINE entries == F!Entries(json, "rules")
           listed(i) == F!Listed(entries[i])
           name == NameOf[call.id]
           said == {F!Listed(object) : object \in F!Range(entries)}
           own  == {r \in said : Spelled[r.operation] = name}
           mine == {i \in DOMAIN rules : rules[i].operation = name}
           only == {i \in mine : rules[i].kind = "only"}
<1>1. /\ DOMAIN rules = DOMAIN entries
      /\ \A i \in DOMAIN entries :
           Says(rules[i], listed(i).operation, listed(i).skips, listed(i).wants)
  BY DEF Faithful
<1>2. said = {listed(i) : i \in DOMAIN entries}
  BY DEF F!Range
<1>3. \A i \in DOMAIN rules :
        /\ rules[i].operation = Spelled[listed(i).operation]
        /\ rules[i].kind = "only" <=> ~listed(i).skips
        /\ F!Matches(rules[i], call) <=> MeetsRule(call, listed(i))
  <2> HIDE DEF entries, listed
  <2> QED
    BY <1>1, SaysMatches
<1> HIDE DEF entries, listed, said, name
<1>4. F!argument_rules_allow(rules, call, name) <=>
        /\ \A i \in mine \ only : ~F!Matches(rules[i], call)
        /\ only = {} \/ \E i \in only : F!Matches(rules[i], call)
  BY DEF F!argument_rules_allow
<1>5. \A i \in mine : listed(i) \in own
  BY <1>1, <1>2, <1>3
<1>6. \A r \in own : \E i \in mine : r = listed(i)
  BY <1>1, <1>2, <1>3
<1> HIDE DEF own
<1>7. (\A i \in mine \ only : ~F!Matches(rules[i], call))
        <=> ~\E r \in own : r.skips /\ MeetsRule(call, r)
  BY <1>3, <1>5, <1>6
<1>8. only = {} <=> ~\E r \in own : ~r.skips
  BY <1>3, <1>5, <1>6
<1>9. (\E i \in only : F!Matches(rules[i], call))
        <=> \E r \in own : ~r.skips /\ MeetsRule(call, r)
  BY <1>3, <1>5, <1>6
<1> QED
  BY <1>4, <1>7, <1>8, <1>9 DEF own, said, entries, name

(* Rules that were loaded from a file, in either syntax, decide every call *)
(* as the README says of the text of the file, for any file, table and     *)
(* number of rules, as long as no rule was removed since.                  *)
THEOREM LoadedRulesDecideAsFile == Spec => []LoadedRulesMeanFile
<1> DEFINE vars == <<part, filterVars, targetVars, exportVars, timeVars, iconVars>>
<1>1. Init => LoadedInv
  BY DEF Init, F!Init, LoadedInv
<1>2. LoadedInv /\ [Next]_vars => LoadedInv'
  <2> SUFFICES ASSUME LoadedInv, [Next]_vars
               PROVE  LoadedInv'
    OBVIOUS
  <2>1. F!Next \/ UNCHANGED filterVars
    BY DEF Next, RulesStep, TargetsStep, ExportStep, TimesStep, IconsStep
  <2>2. CASE UNCHANGED filterVars
    BY <2>2 DEF filterVars, LoadedInv
  <2> QED
    BY <2>1, <2>2, LoadedStep
<1>3. LoadedInv => LoadedRulesMeanFile
  <2> SUFFICES ASSUME Faithful(argument_rules, loaded), NEW call \in F!Calls
               PROVE  LET said == {F!Listed(object) : object \in F!Range(F!Entries(loaded, "rules"))}
                          own  == {r \in said : Spelled[r.operation] = NameOf[call.id]}
                      IN F!argument_rules_allow(argument_rules, call, NameOf[call.id]) <=>
                           /\ ~\E r \in own : r.skips /\ MeetsRule(call, r)
                           /\ (\E r \in own : ~r.skips)
                                => \E r \in own : ~r.skips /\ MeetsRule(call, r)
    BY DEF LoadedInv, LoadedRulesMeanFile, F!LoadedRulesMeanFile, MeetsRule
  <2> QED
    BY FaithfulDecides
<1> QED
  BY <1>1, <1>2, <1>3, PTL DEF Spec
-----------------------------------------------------------------------------
(* The export.  Texts are put together from texts.                         *)

LEMMA SeqIsText ==
  ASSUME NEW S, NEW s \in Seq(S)
  PROVE  X!IsText(s)
<1>1. Len(s) \in Nat /\ s \in [1..Len(s) -> S]
  BY LenProperties
<1> DEFINE own == {s[i] : i \in DOMAIN s}
<1>2. s \in [1..Len(s) -> own]
  BY <1>1
<1>3. s \in Seq(own)
  BY <1>1, <1>2, SeqDef
<1> QED
  BY <1>3 DEF X!IsText

LEMMA TextConcat ==
  ASSUME NEW s, NEW t, X!IsText(s), X!IsText(t)
  PROVE  X!IsText(s \o t)
<1> DEFINE S == {s[i] : i \in DOMAIN s} \cup {t[i] : i \in DOMAIN t}
<1>1. s \in Seq(S) /\ t \in Seq(S)
  <2>1. s \in Seq({s[i] : i \in DOMAIN s}) /\ t \in Seq({t[i] : i \in DOMAIN t})
    BY DEF X!IsText
  <2> QED
    BY <2>1
<1> HIDE DEF S
<1>2. s \o t \in Seq(S)
  BY <1>1, ConcatProperties
<1> QED
  BY <1>2, SeqIsText

LEMMA OneCharacter == ASSUME NEW c PROVE X!IsText(<<c>>)
<1>1. <<c>> \in Seq({c})
  OBVIOUS
<1> QED
  BY <1>1, SeqIsText

Begins(S, beginning, all) == \E rest \in Seq(S) : beginning \o rest = all

Regrouped(a, b, c) == (a \o b) \o c = a \o (b \o c)

LEMMA Regroup ==
  ASSUME NEW S, NEW a \in Seq(S), NEW b \in Seq(S), NEW c \in Seq(S)
  PROVE  Regrouped(a, b, c)
BY ConcatAssociative DEF Regrouped

(* Pieces put together one by one: FlattenSeq is the last of the sums.     *)
Sums(S, pieces, f) ==
  /\ f \in [0..Len(pieces) -> Seq(S)]
  /\ f[0] = << >>
  /\ \A i \in 1..Len(pieces) : f[i] = f[i - 1] \o pieces[i]

LEMMA SumsExist ==
  ASSUME NEW S, NEW pieces \in Seq(Seq(S))
  PROVE  \E f : Sums(S, pieces, f)
<1> DEFINE n == Len(pieces)
           Upto(m, f) == /\ f \in [0..m -> Seq(S)]
                         /\ f[0] = << >>
                         /\ \A i \in 1..m : f[i] = f[i - 1] \o pieces[i]
           A == {m \in Nat : \E f : Upto(m, f)}
<1>1. n \in Nat
  BY LenProperties
<1>2. 0 \in A
  <2> DEFINE f == [i \in 0..0 |-> << >>]
  <2>1. f \in [0..0 -> Seq(S)] /\ f[0] = << >>
    OBVIOUS
  <2>2. Upto(0, f)
    <3> HIDE DEF f
    <3> QED
      BY <2>1
  <2> HIDE DEF Upto
  <2> QED
    BY <2>2
<1>3. ASSUME NEW m \in 0..(n - 1), m \in A
      PROVE  m + 1 \in A
  <2>1. PICK f : Upto(m, f)
    BY <1>3
  <2> DEFINE g == [i \in 0..(m + 1) |-> IF i = m + 1 THEN f[m] \o pieces[m + 1] ELSE f[i]]
  <2>2. m \in Nat /\ m + 1 \in 1..n
    BY <1>1
  <2>3. f[m] \in Seq(S) /\ pieces[m + 1] \in Seq(S)
    BY <2>1, <2>2, ElementOfSeq
  <2>4. f[m] \o pieces[m + 1] \in Seq(S)
    BY <2>3, ConcatProperties
  <2>5. g \in [0..(m + 1) -> Seq(S)]
    BY <2>1, <2>2, <2>4
  <2>6. g[0] = << >>
    BY <2>1, <2>2
  <2>7. ASSUME NEW i \in 1..(m + 1)
        PROVE  g[i] = g[i - 1] \o pieces[i]
    <3>1. i - 1 \in 0..m /\ g[i - 1] = f[i - 1]
      BY <2>2
    <3>2. CASE i = m + 1
      <4>1. i - 1 = m /\ i \in 0..(m + 1)
        BY <2>2, <3>2
      <4>2. g[i] = f[m] \o pieces[m + 1]
        BY <3>2, <4>1, Zenon
      <4> HIDE DEF g
      <4> QED
        BY <3>1, <3>2, <4>1, <4>2
    <3>3. CASE i # m + 1
      <4>1. i \in 1..m /\ i \in 0..(m + 1)
        BY <2>2, <3>3
      <4>2. g[i] = f[i]
        BY <3>3, <4>1
      <4>3. f[i] = f[i - 1] \o pieces[i]
        BY <2>1, <4>1
      <4> HIDE DEF g
      <4> QED
        BY <3>1, <4>2, <4>3
    <3> QED
      BY <3>2, <3>3
  <2>8. Upto(m + 1, g)
    <3> HIDE DEF g
    <3> QED
      BY <2>5, <2>6, <2>7
  <2> HIDE DEF Upto, g
  <2> QED
    BY <2>2, <2>8
<1>4. n \in A
  <2> HIDE DEF A
  <2>1. \A k \in 0..n : k \in A
    BY <1>1, <1>2, <1>3, UpTo
  <2> QED
    BY <1>1, <2>1
<1> QED
  BY <1>4 DEF Sums

LEMMA FlattenIsSum ==
  ASSUME NEW S, NEW pieces \in Seq(Seq(S))
  PROVE  \E f : Sums(S, pieces, f) /\ X!FlattenSeq(pieces) = f[Len(pieces)]
<1> DEFINE n == Len(pieces)
           Unfolded(g) == [i \in 1..n |-> IF i = 1 THEN pieces[i] ELSE g[i - 1] \o pieces[i]]
           flatten == CHOOSE g : g = Unfolded(g)
<1>1. n \in Nat
  BY LenProperties
<1>2. PICK f : Sums(S, pieces, f)
  BY SumsExist
<1>3. CASE n = 0
  <2>1. X!FlattenSeq(pieces) = pieces /\ pieces = << >>
    BY <1>3, EmptySeq DEF X!FlattenSeq
  <2> QED
    BY <1>2, <1>3, <2>1 DEF Sums
<1>4. CASE n # 0
  <2>1. X!FlattenSeq(pieces) = flatten[n]
    BY <1>4, Zenon DEF X!FlattenSeq
  <2>2. flatten = Unfolded(flatten)
    <3> DEFINE g == [i \in 1..n |-> f[i]]
    <3>1. ASSUME NEW i \in 1..n
          PROVE  g[i] = IF i = 1 THEN pieces[i] ELSE g[i - 1] \o pieces[i]
      <4>1. pieces[i] \in Seq(S)
        BY ElementOfSeq
      <4>2. CASE i = 1
        <5>1. f[1] = << >> \o pieces[1]
          <6>1. f[1] = f[1 - 1] \o pieces[1] /\ f[0] = << >>
            BY <1>2, <4>2 DEF Sums
          <6>2. 1 - 1 = 0
            OBVIOUS
          <6> QED
            BY <6>1, <6>2, Zenon
        <5>2. f[1] = pieces[1]
          BY <4>1, <4>2, <5>1, ConcatEmptySeq
        <5> QED
          BY <4>2, <5>2
      <4>3. CASE i # 1
        <5>1. i - 1 \in 1..n
          BY <1>1, <4>3
        <5>2. g[i - 1] = f[i - 1] /\ g[i] = f[i]
          BY <5>1
        <5>3. f[i] = f[i - 1] \o pieces[i]
          BY <1>2 DEF Sums
        <5> HIDE DEF g
        <5> QED
          BY <4>3, <5>2, <5>3
      <4> QED
        BY <4>2, <4>3
    <3>2. g = Unfolded(g)
      <4>1. g = [i \in 1..n |-> g[i]]
        OBVIOUS
      <4> HIDE DEF g
      <4> QED
        BY <3>1, <4>1
    <3> HIDE DEF Unfolded, g
    <3> QED
      BY <3>2
  <2>3. \A i \in 1..n : flatten[i] = IF i = 1 THEN pieces[i] ELSE flatten[i - 1] \o pieces[i]
    <3> HIDE DEF flatten
    <3> QED
      BY <2>2
  <2> DEFINE A == {m \in Nat : m = 0 \/ flatten[m] = f[m]}
  <2>4. ASSUME NEW m \in 0..(n - 1), m \in A
        PROVE  m + 1 \in A
    <3> HIDE DEF flatten
    <3>1. m + 1 \in 1..n /\ m \in Nat /\ m + 1 \in Nat
      BY <1>1
    <3>2. f[m + 1] = f[m] \o pieces[m + 1] /\ f[0] = << >>
      <4>1. f[m + 1] = f[(m + 1) - 1] \o pieces[m + 1] /\ f[0] = << >>
        BY <1>2, <3>1 DEF Sums
      <4>2. (m + 1) - 1 = m
        BY <3>1
      <4> QED
        BY <4>1, <4>2
    <3>3. ASSUME m = 0
          PROVE  flatten[m + 1] = f[m + 1]
      <4>1. pieces[1] \in Seq(S)
        BY <3>1, <3>3, ElementOfSeq
      <4>2. flatten[1] = pieces[1]
        <5>1. 1 \in 1..n
          BY <3>1, <3>3
        <5> QED
          BY <2>3, <5>1, Zenon
      <4>3. m + 1 = 1
        BY <3>3
      <4>4. f[1] = f[0] \o pieces[1] /\ f[0] = << >>
        BY <3>2, <3>3, <4>3, Zenon
      <4>5. f[1] = pieces[1]
        BY <4>1, <4>4, ConcatEmptySeq
      <4> QED
        BY <4>2, <4>3, <4>5, Zenon
    <3>4. ASSUME m # 0
          PROVE  flatten[m + 1] = f[m + 1]
      <4>1. flatten[m] = f[m]
        <5>1. m = 0 \/ flatten[m] = f[m]
          BY <2>4, Zenon
        <5> QED
          BY <3>4, <5>1
      <4>2. flatten[m + 1] = flatten[(m + 1) - 1] \o pieces[m + 1] /\ (m + 1) - 1 = m
        <5>1. (m + 1) - 1 = m /\ m + 1 # 1
          BY <3>1, <3>4
        <5>2. flatten[m + 1] = flatten[(m + 1) - 1] \o pieces[m + 1]
          BY <2>3, <3>1, <5>1, Zenon
        <5> QED
          BY <5>1, <5>2
      <4> QED
        BY <3>2, <4>1, <4>2
    <3>5. flatten[m + 1] = f[m + 1]
      BY <3>3, <3>4
    <3> QED
      BY <3>1, <3>5, Zenon
  <2>5. flatten[n] = f[n]
    <3>1. 0 \in A
      OBVIOUS
    <3>2. \A k \in 0..n : k \in A
      <4> HIDE DEF A
      <4> QED
        BY <1>1, <2>4, <3>1, UpTo
    <3>3. n \in A
      <4> HIDE DEF A
      <4> QED
        BY <1>1, <3>2
    <3> HIDE DEF flatten
    <3>4. n = 0 \/ flatten[n] = f[n]
      BY <3>3, Zenon
    <3> QED
      BY <1>4, <3>4
  <2> QED
    BY <1>2, <2>1, <2>5
<1> QED
  BY <1>3, <1>4
-----------------------------------------------------------------------------
(* The lines of an export are texts.                                       *)

LEMMA EscapedIsText ==
  ASSUME NEW t, X!IsText(t), NEW by
  PROVE  X!IsText(X!Escaped(t, by))
<1> DEFINE own == {t[i] : i \in DOMAIN t}
           S == own \cup {by[c] : c \in DOMAIN by}
           n == Len(t)
           pieces == [i \in DOMAIN t |->
                        IF t[i] \in DOMAIN by THEN <<by[t[i]], t[i]>> ELSE <<t[i]>>]
<1>1. t \in Seq(own)
  BY DEF X!IsText
<1>2. n \in Nat /\ DOMAIN t = 1..n
  <2> HIDE DEF own
  <2> QED
    BY <1>1, LenProperties
<1>3. ASSUME NEW i \in 1..n
      PROVE  (IF t[i] \in DOMAIN by THEN <<by[t[i]], t[i]>> ELSE <<t[i]>>) \in Seq(S)
  <2>1. t[i] \in S
    BY <1>2
  <2>2. CASE t[i] \in DOMAIN by
    <3>1. by[t[i]] \in S
      BY <2>2
    <3> HIDE DEF S
    <3> QED
      BY <2>1, <2>2, <3>1
  <2>3. CASE t[i] \notin DOMAIN by
    <3> HIDE DEF S
    <3> QED
      BY <2>1, <2>3
  <2> QED
    BY <2>2, <2>3
<1>4. pieces \in [1..n -> Seq(S)]
  <2> HIDE DEF S
  <2> QED
    BY <1>2, <1>3
<1>5. pieces \in Seq(Seq(S))
  <2> HIDE DEF S, pieces
  <2> QED
    BY <1>2, <1>4, SeqDef
<1>6. X!FlattenSeq(pieces) \in Seq(S)
  <2> HIDE DEF S, pieces
  <2>1. PICK f : Sums(S, pieces, f) /\ X!FlattenSeq(pieces) = f[Len(pieces)]
    BY <1>5, FlattenIsSum
  <2>2. Len(pieces) \in 0..Len(pieces)
    BY <1>5, LenProperties
  <2> QED
    BY <2>1, <2>2 DEF Sums
<1>7. X!Escaped(t, by) = X!FlattenSeq(pieces)
  BY Zenon DEF X!Escaped
<1> HIDE DEF pieces, S
<1> QED
  BY <1>6, <1>7, SeqIsText

LEMMA QuotedIsText ==
  ASSUME NEW t, X!IsText(t)
  PROVE  X!IsText(X!Quoted(t))
<1>1. X!IsText(<<X!Quote>>)
  BY OneCharacter
<1>2. X!IsText(<<X!Quote>> \o t)
  BY <1>1, TextConcat
<1>3. X!IsText((<<X!Quote>> \o t) \o <<X!Quote>>)
  BY <1>1, <1>2, TextConcat
<1> QED
  BY <1>3 DEF X!Quoted

LEMMA RowIsText ==
  ASSUME NEW e, X!IsText(e.name)
  PROVE  /\ X!IsText(X!ExportRow(e)[1]) /\ X!IsText(X!ExportRow(e)[2])
         /\ X!IsText(X!ExportRow(e)[3]) /\ X!IsText(X!ExportRow(e)[4])
<1>1. /\ \A pid \in DOMAIN Rows : X!IsText(Rows[pid])
      /\ \A number \in DOMAIN Details : X!IsText(Details[number])
  BY PartsAssumption DEF X!ExportAssumption
<1>2. X!IsText(X!process_name(e))
  <2>1. X!IsText(<<"Unknown">>)
    BY OneCharacter
  <2> QED
    BY <1>1, <2>1 DEF X!process_name, X!Known
<1>3. X!IsText(X!Known(Details, e.sequence, X!display_arguments(e)))
  <2>1. X!IsText(<<"raw">>) /\ X!IsText(<<"unavailable">>)
    BY OneCharacter
  <2> QED
    BY <1>1, <2>1 DEF X!Known, X!display_arguments
<1>4. X!IsText(<<e.pid>>) /\ X!IsText(<<e.operation>>)
  BY OneCharacter
<1> QED
  BY <1>2, <1>3, <1>4 DEF X!ExportRow

LEMMA LineIsText ==
  ASSUME NEW e, X!IsText(e.name)
  PROVE  X!IsText(X!Line(e))
<1> DEFINE row == X!ExportRow(e)
           escape(t) == X!Quoted(IF format = "csv" THEN X!csv_escape(t) ELSE X!json_escape(t))
           comma == <<X!Comma>>
           end == <<X!Newline>>
           p1 == row[1] \o comma
           p2 == p1 \o escape(row[2])
           p3 == p2 \o comma
           p4 == p3 \o escape(row[3])
           p5 == p4 \o comma
           p6 == p5 \o escape(row[4])
           p7 == p6 \o end
           q1 == row[2] \o row[1]
           q2 == q1 \o row[3]
           q3 == q2 \o row[4]
           q4 == q3 \o end
<1>1. X!Line(e) = IF format = "txt" THEN q4 ELSE p7
  BY Zenon DEF X!Line
<1>2. ASSUME NEW t, X!IsText(t)
      PROVE  X!IsText(escape(t))
  <2>1. X!IsText(X!csv_escape(t)) /\ X!IsText(X!json_escape(t))
    BY <1>2, EscapedIsText DEF X!csv_escape, X!json_escape
  <2>2. CASE format = "csv"
    BY <2>1, <2>2, QuotedIsText
  <2>3. CASE format # "csv"
    BY <2>1, <2>3, QuotedIsText
  <2> QED
    BY <2>2, <2>3
<1>3. /\ X!IsText(row[1]) /\ X!IsText(row[2]) /\ X!IsText(row[3]) /\ X!IsText(row[4])
      /\ X!IsText(escape(row[2])) /\ X!IsText(escape(row[3])) /\ X!IsText(escape(row[4]))
  <2>1. X!IsText(row[1]) /\ X!IsText(row[2]) /\ X!IsText(row[3]) /\ X!IsText(row[4])
    BY RowIsText
  <2> HIDE DEF row, escape
  <2> QED
    BY <1>2, <2>1
<1>4. X!IsText(comma) /\ X!IsText(end)
  BY OneCharacter
<1> HIDE DEF row, escape, comma, end
<1>5. X!IsText(p7)
  <2>1. X!IsText(p1)
    BY <1>3, <1>4, TextConcat
  <2>2. X!IsText(p2)
    <3> HIDE DEF p1
    <3> QED
      BY <1>3, <2>1, TextConcat
  <2>3. X!IsText(p3)
    <3> HIDE DEF p2
    <3> QED
      BY <1>4, <2>2, TextConcat
  <2>4. X!IsText(p4)
    <3> HIDE DEF p3
    <3> QED
      BY <1>3, <2>3, TextConcat
  <2>5. X!IsText(p5)
    <3> HIDE DEF p4
    <3> QED
      BY <1>4, <2>4, TextConcat
  <2>6. X!IsText(p6)
    <3> HIDE DEF p5
    <3> QED
      BY <1>3, <2>5, TextConcat
  <2> HIDE DEF p6
  <2> QED
    BY <1>4, <2>6, TextConcat
<1>6. X!IsText(q4)
  <2>1. X!IsText(q1)
    BY <1>3, TextConcat
  <2>2. X!IsText(q2)
    <3> HIDE DEF q1
    <3> QED
      BY <1>3, <2>1, TextConcat
  <2>3. X!IsText(q3)
    <3> HIDE DEF q2
    <3> QED
      BY <1>3, <2>2, TextConcat
  <2> HIDE DEF q3
  <2> QED
    BY <1>4, <2>3, TextConcat
<1> HIDE DEF p7, q4
<1> QED
  BY <1>1, <1>5, <1>6
-----------------------------------------------------------------------------
(* What is in the file and in the buffer.                                  *)

Lines == [i \in DOMAIN visible |-> X!Line(history[visible[i]])]

Characters ==
  {"header", X!Newline}
  \cup UNION {{Lines[i][k] : k \in DOMAIN Lines[i]} : i \in DOMAIN Lines}

All == X!Header \o X!FlattenSeq(Lines)

(* The file can be completed to what was asked for.                        *)
Begun(beginning) == Begins(Characters, beginning, All)

ExportInv ==
  /\ \A i \in DOMAIN history : X!IsText(history[i].name)
  /\ visible \in Seq(DOMAIN history)
  /\ file \in Seq(Characters) /\ buffer \in Seq(Characters)
  /\ next \in 0..(Len(visible) + 1)
  /\ next = 0 => file = << >>
  /\ next # 0 /\ status = ""
        => \E f : /\ Sums(Characters, Lines, f) /\ X!FlattenSeq(Lines) = f[Len(Lines)]
                  /\ file \o buffer = X!Header \o f[next - 1]
  /\ Begun(file)

LEMMA LinesTyped ==
  ASSUME \A i \in DOMAIN history : X!IsText(history[i].name), visible \in Seq(DOMAIN history)
  PROVE  /\ Len(visible) \in Nat /\ DOMAIN visible = 1..Len(visible)
         /\ Lines \in Seq(Seq(Characters)) /\ Len(Lines) = Len(visible)
         /\ \A i \in 1..Len(visible) : Lines[i] = X!Line(history[visible[i]])
         /\ X!Header \in Seq(Characters)
<1>1. Len(visible) \in Nat /\ DOMAIN visible = 1..Len(visible)
  BY LenProperties
<1>2. \A i \in 1..Len(visible) : Lines[i] = X!Line(history[visible[i]])
  BY <1>1 DEF Lines
<1>3. DOMAIN Lines = 1..Len(visible)
  BY <1>1 DEF Lines
<1>4. ASSUME NEW i \in 1..Len(visible)
      PROVE  Lines[i] \in Seq(Characters)
  <2>1. visible[i] \in DOMAIN history
    BY <1>4, ElementOfSeq
  <2>2. X!IsText(Lines[i])
    BY <1>2, <2>1, LineIsText
  <2>3. {Lines[i][k] : k \in DOMAIN Lines[i]} \subseteq Characters
    BY <1>3 DEF Characters
  <2> HIDE DEF Characters, Lines
  <2>4. Lines[i] \in Seq({Lines[i][k] : k \in DOMAIN Lines[i]})
    BY <2>2 DEF X!IsText
  <2> QED
    BY <2>3, <2>4
<1>5. Lines = [i \in 1..Len(visible) |-> Lines[i]]
  BY <1>1 DEF Lines
<1>6. Lines \in [1..Len(visible) -> Seq(Characters)]
  <2> HIDE DEF Characters, Lines
  <2> QED
    BY <1>4, <1>5
<1>7. Lines \in Seq(Seq(Characters)) /\ Len(Lines) = Len(visible)
  <2> HIDE DEF Characters, Lines
  <2> QED
    BY <1>1, <1>6, SeqDef, LenProperties
<1>8. X!Header \in Seq(Characters)
  <2>1. "header" \in Characters /\ X!Newline \in Characters
    BY DEF Characters
  <2> HIDE DEF Characters
  <2> QED
    BY <2>1 DEF X!Header
<1> QED
  BY <1>1, <1>2, <1>7, <1>8

(* A sum of the first pieces is the beginning of all of them.              *)
LEMMA SumIsBeginning ==
  ASSUME NEW S, NEW pieces \in Seq(Seq(S)), NEW f, Sums(S, pieces, f),
         NEW k \in 0..Len(pieces)
  PROVE  Begins(S, f[k], f[Len(pieces)])
<1> DEFINE n == Len(pieces)
           A == {d \in Nat : k + d <= n => \E rest \in Seq(S) : f[k] \o rest = f[k + d]}
<1>1. n \in Nat /\ k \in Nat /\ k <= n
  BY LenProperties
<1>2. f \in [0..n -> Seq(S)] /\ \A i \in 1..n : f[i] = f[i - 1] \o pieces[i]
  BY DEF Sums
<1>3. f[k] \in Seq(S)
  BY <1>2
<1> HIDE DEF n
<1>4. 0 \in A
  <2>1. << >> \in Seq(S) /\ f[k] \o << >> = f[k] /\ k + 0 = k
    BY <1>1, <1>3, ConcatEmptySeq
  <2>2. \E rest \in Seq(S) : f[k] \o rest = f[k + 0]
    BY <2>1
  <2> QED
    BY <2>2
<1>5. ASSUME NEW d \in 0..((n - k) - 1), d \in A
      PROVE  d + 1 \in A
  <2>1. d \in Nat /\ d + 1 \in Nat /\ k + d <= n /\ (k + d) + 1 \in 1..n
    BY <1>1, <1>5
  <2>2. PICK rest \in Seq(S) : f[k] \o rest = f[k + d]
    BY <1>5, <2>1
  <2>3. pieces[(k + d) + 1] \in Seq(S)
    BY <2>1, ElementOfSeq DEF n
  <2>4. f[(k + d) + 1] = f[k + d] \o pieces[(k + d) + 1]
    <3>1. ((k + d) + 1) - 1 = k + d
      BY <1>1, <2>1
    <3>2. f[(k + d) + 1] = f[((k + d) + 1) - 1] \o pieces[(k + d) + 1]
      BY <1>2, <2>1, Zenon
    <3> QED
      BY <3>1, <3>2, Zenon
  <2> DEFINE longer == rest \o pieces[(k + d) + 1]
  <2>5. longer \in Seq(S)
    BY <2>3, ConcatProperties
  <2>6. (f[k] \o rest) \o pieces[(k + d) + 1] = f[k] \o longer
    <3> DEFINE a == f[k]
               c == pieces[(k + d) + 1]
    <3>1. a \in Seq(S) /\ c \in Seq(S)
      BY <1>3, <2>3
    <3> HIDE DEF a, c
    <3>2. Regrouped(a, rest, c)
      BY <3>1, Regroup, Zenon
    <3> QED
      BY <3>2, Zenon DEF a, c, Regrouped
  <2>7. k + (d + 1) = (k + d) + 1
    BY <1>1, <2>1
  <2>8. f[k] \o longer = f[k + (d + 1)]
    <3> HIDE DEF longer
    <3> QED
      BY <2>2, <2>4, <2>6, <2>7, Zenon
  <2>9. \E r \in Seq(S) : f[k] \o r = f[k + (d + 1)]
    <3> HIDE DEF longer
    <3> QED
      BY <2>5, <2>8
  <2> QED
    BY <2>1, <2>9
<1>6. n - k \in Nat /\ k + (n - k) = n
  BY <1>1
<1>7. n - k \in A
  <2> HIDE DEF A
  <2>1. \A d \in 0..(n - k) : d \in A
    BY <1>4, <1>5, <1>6, UpTo
  <2> QED
    BY <1>6, <2>1
<1>8. \A d \in A : k + d = n => \E rest \in Seq(S) : f[k] \o rest = f[n]
  <2> SUFFICES ASSUME NEW d \in A, k + d = n
               PROVE  \E rest \in Seq(S) : f[k] \o rest = f[n]
    OBVIOUS
  <2>1. k + d <= n
    BY <1>1
  <2>2. \E rest \in Seq(S) : f[k] \o rest = f[k + d]
    BY <2>1, Zenon
  <2> QED
    BY <2>2, Zenon
<1> HIDE DEF A
<1>9. \E rest \in Seq(S) : f[k] \o rest = f[n]
  BY <1>6, <1>7, <1>8, Zenon
<1> QED
  BY <1>9, Zenon DEF n, Begins

(* A flush moves any part of what is ready into the file.                  *)
Moved(S, old, ready, flushed, kept) ==
  flushed \in Seq(S) /\ kept \in Seq(S) /\ flushed \o kept = old \o ready

LEMMA FlushMoves ==
  ASSUME NEW S, NEW old \in Seq(S), NEW ready \in Seq(S), NEW m \in 0..Len(ready)
  PROVE  Moved(S, old, ready, old \o SubSeq(ready, 1, m), SubSeq(ready, m + 1, Len(ready)))
<1> DEFINE first == SubSeq(ready, 1, m)
           kept == SubSeq(ready, m + 1, Len(ready))
           flushed == old \o first
<1>1. Len(ready) \in Nat /\ m \in Nat /\ m <= Len(ready)
  BY LenProperties
<1>2. first \in Seq(S) /\ kept \in Seq(S)
  <2>1. \A i \in 1..m : ready[i] \in S
    BY <1>1, ElementOfSeq
  <2>2. \A i \in (m + 1)..Len(ready) : ready[i] \in S
    BY <1>1, ElementOfSeq
  <2> QED
    BY <1>1, <2>1, <2>2, SubSeqProperties
<1>3. first \o kept = ready
  <2>1. SubSeq(ready, 1, m) \o SubSeq(ready, m + 1, Len(ready)) = SubSeq(ready, 1, Len(ready))
    <3>1. 1 \in 1..Len(ready) + 1 /\ m \in 1 - 1..Len(ready) /\ Len(ready) \in m..Len(ready)
      BY <1>1
    <3> QED
      BY <3>1, ConcatAdjacentSubSeq
  <2>2. SubSeq(ready, 1, Len(ready)) = ready
    BY SubSeqFull
  <2> QED
    BY <2>1, <2>2
<1> HIDE DEF first, kept
<1>4. flushed \in Seq(S)
  BY <1>2, ConcatProperties
<1> HIDE DEF flushed
<1>5. flushed \o kept = old \o ready
  <2>1. Regrouped(old, first, kept)
    BY <1>2, Regroup, Zenon
  <2> QED
    BY <1>3, <2>1, Zenon DEF Regrouped, flushed
<1> QED
  BY <1>2, <1>4, <1>5, Zenon DEF Moved, first, kept, flushed

(* What was a beginning of the rows with all that is ready is one with a   *)
(* part of it.                                                             *)
LEMMA FlushBegins ==
  ASSUME NEW S, NEW all, NEW old \in Seq(S), NEW ready \in Seq(S), NEW m \in 0..Len(ready),
         Begins(S, old \o ready, all)
  PROVE  Begins(S, old \o SubSeq(ready, 1, m), all)
<1> DEFINE kept == SubSeq(ready, m + 1, Len(ready))
           flushed == old \o SubSeq(ready, 1, m)
<1>1. Moved(S, old, ready, flushed, kept)
  BY FlushMoves, Zenon
<1>2. PICK rest \in Seq(S) : (old \o ready) \o rest = all
  BY DEF Begins
<1> HIDE DEF kept, flushed
<1>3. flushed \in Seq(S) /\ kept \in Seq(S) /\ flushed \o kept = old \o ready
  BY <1>1, Zenon DEF Moved
<1>4. Regrouped(flushed, kept, rest)
  BY <1>3, Regroup, Zenon
<1>5. kept \o rest \in Seq(S)
  BY <1>3, ConcatProperties, Zenon
<1>6. flushed \o (kept \o rest) = all
  BY <1>2, <1>3, <1>4, Zenon DEF Regrouped
<1>7. Begins(S, flushed, all)
  BY <1>5, <1>6, Zenon DEF Begins
<1> QED
  BY <1>7, Zenon DEF flushed

(* IsPrefix compares the first Len(s) characters.                          *)
LEMMA BeginningIsPrefix ==
  ASSUME NEW S, NEW s \in Seq(S), NEW t \in Seq(S)
  PROVE  Len(s) <= Len(s \o t) /\ SubSeq(s, 1, Len(s)) = SubSeq(s \o t, 1, Len(s))
<1>1. Len(s) \in Nat /\ Len(t) \in Nat /\ Len(s \o t) = Len(s) + Len(t)
  BY LenProperties, ConcatProperties
<1>2. SubSeq(s \o t, 1, Len(s)) = SubSeq(s, 1, Len(s))
  BY <1>1, SubSeqOfConcat1
<1> QED
  BY <1>1, <1>2

LEMMA ExportInit == Init => ExportInv
<1> SUFFICES ASSUME X!Init
             PROVE  ExportInv
  BY DEF Init
<1>1. history \in Histories /\ file = << >> /\ buffer = << >> /\ next = 0
  BY DEF X!Init
<1>2. \A i \in DOMAIN history : X!IsText(history[i].name)
  BY <1>1, PartsAssumption DEF X!ExportAssumption
<1>3. visible \in Seq(DOMAIN history) /\ Len(visible) \in Nat
  <2>1. PICK n \in 0..Len(history) : visible \in [1..n -> DOMAIN history]
    BY DEF X!Init
  <2>2. n \in Nat
    BY <2>1
  <2>3. visible \in Seq(DOMAIN history)
    BY <2>1, <2>2, SeqDef
  <2> QED
    BY <2>3, LenProperties
<1>4. All \in Seq(Characters)
  <2>1. /\ Len(visible) \in Nat /\ DOMAIN visible = 1..Len(visible)
        /\ Lines \in Seq(Seq(Characters)) /\ Len(Lines) = Len(visible)
        /\ X!Header \in Seq(Characters)
    BY <1>2, <1>3, LinesTyped
  <2>2. PICK f : Sums(Characters, Lines, f) /\ X!FlattenSeq(Lines) = f[Len(Lines)]
    BY <2>1, FlattenIsSum
  <2>3. X!FlattenSeq(Lines) \in Seq(Characters)
    BY <2>1, <2>2 DEF Sums
  <2> QED
    BY <2>1, <2>3, ConcatProperties DEF All
<1>5. Begun(file)
  <2>1. << >> \o All = All
    BY <1>4, ConcatEmptySeq
  <2> QED
    BY <1>1, <1>4, <2>1 DEF Begun, Begins
<1>6. next \in 0..(Len(visible) + 1)
  BY <1>1, <1>3
<1>7. file \in Seq(Characters) /\ buffer \in Seq(Characters)
  BY <1>1
<1> QED
  BY <1>1, <1>2, <1>3, <1>5, <1>6, <1>7 DEF ExportInv

LEMMA SameLines ==
  ASSUME UNCHANGED <<history, visible, format>>
  PROVE  Lines' = Lines /\ Characters' = Characters /\ X!Header' = X!Header /\ All' = All
<1>1. \A e : X!Line(e)' = X!Line(e)
  BY DEF X!Line
<1>2. Lines' = Lines
  BY <1>1 DEF Lines
<1>3. Characters' = Characters
  BY <1>2 DEF Characters
<1>4. X!Header' = X!Header
  BY DEF X!Header
<1> QED
  BY <1>2, <1>3, <1>4 DEF All

LEMMA ExportStays ==
  ASSUME ExportInv, UNCHANGED exportVars
  PROVE  ExportInv'
<1>1. Lines' = Lines /\ Characters' = Characters /\ X!Header' = X!Header /\ All' = All
  BY SameLines DEF exportVars
<1> QED
  BY <1>1 DEF ExportInv, exportVars, Begun

LEMMA ExportKeeps ==
  ASSUME ExportInv, X!Next
  PROVE  ExportInv'
<1>1. UNCHANGED <<history, visible, format>>
  BY DEF X!Next, X!Create, X!WriteRow, X!WriteFails, X!Finish, X!chosen
<1>2. Lines' = Lines /\ Characters' = Characters /\ X!Header' = X!Header /\ All' = All
  BY <1>1, SameLines
<1>3. /\ Len(visible) \in Nat /\ DOMAIN visible = 1..Len(visible)
      /\ Lines \in Seq(Seq(Characters)) /\ Len(Lines) = Len(visible)
      /\ \A i \in 1..Len(visible) : Lines[i] = X!Line(history[visible[i]])
      /\ X!Header \in Seq(Characters)
  BY LinesTyped DEF ExportInv
<1>4. /\ file \in Seq(Characters) /\ buffer \in Seq(Characters)
      /\ next \in 0..(Len(visible) + 1) /\ Begun(file)
  BY DEF ExportInv
<1>5. Len(visible) \in Nat /\ DOMAIN visible = 1..Len(visible)
  BY <1>3
<1>6. next \in 0..(Len(visible) + 1)
  BY <1>4
<1>7. Len(Lines) = Len(visible) /\ Lines \in Seq(Seq(Characters))
  BY <1>3
<1> DEFINE Ready(f) == /\ Sums(Characters, Lines, f) /\ X!FlattenSeq(Lines) = f[Len(Lines)]
                       /\ file \o buffer = X!Header \o f[next - 1]
(* To show that a step keeps the invariant.                                *)
<1>8. ASSUME /\ file' \in Seq(Characters) /\ buffer' \in Seq(Characters)
             /\ next' \in 0..(Len(visible) + 1)
             /\ next' = 0
                  => file' = << >>
             /\ Begins(Characters, file', All)
             /\ next' # 0 /\ status' = ""
                  => \E f : /\ Sums(Characters, Lines, f) /\ X!FlattenSeq(Lines) = f[Len(Lines)]
                            /\ file' \o buffer' = X!Header \o f[next' - 1]
      PROVE  ExportInv'
  <2>1. X!FlattenSeq(Lines)' = X!FlattenSeq(Lines)
    BY <1>2 DEF All
  <2> QED
    BY <1>1, <1>2, <1>8, <2>1 DEF ExportInv, Begun
(* What a flush of the line or the buffer leaves.                          *)
<1>9. ASSUME NEW f, Sums(Characters, Lines, f), X!FlattenSeq(Lines) = f[Len(Lines)],
             NEW k \in 0..Len(visible), NEW ready \in Seq(Characters),
             file \o ready = X!Header \o f[k], NEW m \in 0..Len(ready)
      PROVE  /\ file \o SubSeq(ready, 1, m) \in Seq(Characters)
             /\ SubSeq(ready, m + 1, Len(ready)) \in Seq(Characters)
             /\ (file \o SubSeq(ready, 1, m)) \o SubSeq(ready, m + 1, Len(ready))
                  = X!Header \o f[k]
             /\ Begun(file \o SubSeq(ready, 1, m))
  <2>1. k \in 0..Len(Lines)
    BY <1>3
  <2>8. Begins(Characters, f[k], f[Len(Lines)])
    BY <1>7, <1>9, <2>1, SumIsBeginning, Zenon
  <2>2. PICK rest \in Seq(Characters) : f[k] \o rest = f[Len(Lines)]
    BY <2>8, Zenon DEF Begins
  <2>3. f[k] \in Seq(Characters)
    BY <1>9, <2>1 DEF Sums
  <2>4. (X!Header \o f[k]) \o rest = All
    <3> DEFINE head == X!Header
               sum == f[k]
    <3>1. head \in Seq(Characters) /\ sum \in Seq(Characters)
      BY <1>3, <2>3
    <3> HIDE DEF head, sum
    <3>3. Regrouped(head, sum, rest)
      BY <3>1, Regroup, Zenon
    <3>2. (head \o sum) \o rest = head \o (sum \o rest)
      BY <3>3, Zenon DEF Regrouped
    <3> QED
      BY <1>9, <2>2, <3>2 DEF head, sum, All
  <2>5. /\ file \o SubSeq(ready, 1, m) \in Seq(Characters)
        /\ SubSeq(ready, m + 1, Len(ready)) \in Seq(Characters)
        /\ (file \o SubSeq(ready, 1, m)) \o SubSeq(ready, m + 1, Len(ready)) = file \o ready
    <3>1. ready \in Seq(Characters) /\ m \in 0..Len(ready)
      BY <1>9
    <3>2. Moved(Characters, file, ready, file \o SubSeq(ready, 1, m),
                SubSeq(ready, m + 1, Len(ready)))
      BY <1>4, <3>1, FlushMoves, Zenon
    <3> QED
      BY <3>2, Zenon DEF Moved
  <2>6. Begins(Characters, file \o ready, All)
    BY <1>9, <2>2, <2>4 DEF Begins
  <2>7. Begun(file \o SubSeq(ready, 1, m))
    BY <1>4, <1>9, <2>6, FlushBegins, Zenon DEF Begun
  <2> QED
    BY <1>9, <2>5, <2>7
(* The line that is written next.                                          *)
<1>10. ASSUME next \in DOMAIN visible, status = ""
      PROVE  \E f : /\ Sums(Characters, Lines, f) /\ X!FlattenSeq(Lines) = f[Len(Lines)]
                    /\ buffer \o X!Line(history[visible[next]]) \in Seq(Characters)
                    /\ file \o (buffer \o X!Line(history[visible[next]])) = X!Header \o f[next]
                    /\ next \in 0..Len(visible)
  <2>11. next \in DOMAIN visible
    BY <1>10, Zenon
  <2>1. next \in 1..Len(visible) /\ next # 0
    BY <1>5, <2>11
  <2>2. PICK f : Ready(f)
    BY <1>10, <2>1 DEF ExportInv
  <2> DEFINE line == Lines[next]
             sum == f[next - 1]
             head == X!Header
  <2>3. line = X!Line(history[visible[next]]) /\ line \in Seq(Characters)
    BY <1>3, <2>1, ElementOfSeq
  <2>4. sum \in Seq(Characters) /\ f[next] = sum \o line
    <3>1. next \in 1..Len(Lines) /\ next - 1 \in 0..Len(Lines)
      BY <1>5, <1>7, <2>1
    <3> QED
      BY <2>2, <3>1 DEF Sums
  <2>5. head \in Seq(Characters) /\ file \o buffer = head \o sum
    BY <1>3, <2>2
  <2> HIDE DEF line, sum, head
  <2>6. buffer \o line \in Seq(Characters)
    BY <1>4, <2>3, ConcatProperties
  <2>7. Regrouped(file, buffer, line)
    BY <1>4, <2>3, Regroup, Zenon
  <2>8. Regrouped(head, sum, line)
    BY <2>3, <2>4, <2>5, Regroup, Zenon
  <2>9. file \o (buffer \o line) = head \o f[next]
    BY <2>4, <2>5, <2>7, <2>8, Zenon DEF Regrouped
  <2> QED
    BY <2>1, <2>2, <2>3, <2>6, <2>9, SMTT(60) DEF head
<1> HIDE DEF Ready
<1>11. CASE X!Create
  <2>1. next = 0 /\ file = << >> /\ file' = file
    BY <1>11 DEF X!Create, ExportInv
  <2>2. CASE status = "" /\ next' = 1 /\ buffer' = X!Header /\ UNCHANGED status
    <3>6. next' = 1
      BY <2>2, Zenon
    <3>1. PICK f : Sums(Characters, Lines, f) /\ X!FlattenSeq(Lines) = f[Len(Lines)]
      BY <1>3, FlattenIsSum
    <3>2. f[next' - 1] = << >>
      <4>1. next' - 1 = 0
        BY <3>6
      <4>2. f[0] = << >>
        BY <3>1 DEF Sums
      <4> QED
        BY <4>1, <4>2
    <3>3. file' \o buffer' = X!Header \o f[next' - 1]
      <4>1. << >> \o X!Header = X!Header /\ X!Header \o << >> = X!Header
        BY <1>3, ConcatEmptySeq
      <4> QED
        BY <2>1, <2>2, <3>2, <4>1
    <3>4. \E g : /\ Sums(Characters, Lines, g) /\ X!FlattenSeq(Lines) = g[Len(Lines)]
                 /\ file' \o buffer' = X!Header \o g[next' - 1]
      BY <3>1, <3>3
    <3>5. next' \in 0..(Len(visible) + 1) /\ buffer' \in Seq(Characters)
      <4>1. buffer' \in Seq(Characters)
        BY <1>3, <2>2
      <4>2. next' \in 0..(Len(visible) + 1)
        BY <1>5, <3>6
      <4> QED
        BY <4>1, <4>2
    <3> QED
      BY <1>4, <1>8, <2>1, <3>4, <3>5 DEF Begun
  <2>3. CASE status' = "failed" /\ UNCHANGED <<next, buffer>>
    BY <1>4, <1>8, <2>1, <2>3 DEF Begun
  <2> QED
    BY <1>11, <2>2, <2>3 DEF X!Create
<1>12. CASE X!WriteRow
  <2> DEFINE ready == buffer \o X!Line(history[visible[next]])
  <2>1. next \in DOMAIN visible /\ status = "" /\ next' = next + 1 /\ status' = ""
    BY <1>12 DEF X!WriteRow
  <2>2. PICK m \in 0..Len(ready) :
          file' = file \o SubSeq(ready, 1, m) /\ buffer' = SubSeq(ready, m + 1, Len(ready))
    BY <1>12 DEF X!WriteRow, X!Write
  <2>3. PICK f : /\ Sums(Characters, Lines, f) /\ X!FlattenSeq(Lines) = f[Len(Lines)]
                 /\ ready \in Seq(Characters) /\ file \o ready = X!Header \o f[next]
                 /\ next \in 0..Len(visible)
    BY <1>10, <2>1
  <2> HIDE DEF ready
  <2>4. /\ file' \in Seq(Characters) /\ buffer' \in Seq(Characters)
        /\ file' \o buffer' = X!Header \o f[next]
        /\ Begins(Characters, file', All)
    BY <1>9, <2>2, <2>3 DEF Begun
  <2>7. next' = next + 1 /\ next \in 0..Len(visible)
    BY <2>1, <2>3, Zenon
  <2>5. next' - 1 = next /\ next' \in 0..(Len(visible) + 1) /\ next' # 0
    BY <1>5, <2>7
  <2>6. \E g : /\ Sums(Characters, Lines, g) /\ X!FlattenSeq(Lines) = g[Len(Lines)]
               /\ file' \o buffer' = X!Header \o g[next' - 1]
    BY <2>3, <2>4, <2>5
  <2> QED
    BY <1>8, <2>4, <2>5, <2>6
<1>13. CASE X!WriteFails
  <2> DEFINE ready == buffer \o X!Line(history[visible[next]])
  <2>1. /\ next \in DOMAIN visible /\ status = "" /\ next' = next /\ status' = "failed"
        /\ buffer' = << >>
    BY <1>13 DEF X!WriteFails
  <2>2. PICK m \in 0..Len(ready) - 1 : file' = file \o SubSeq(ready, 1, m)
    BY <1>13 DEF X!WriteFails
  <2>3. PICK f : /\ Sums(Characters, Lines, f) /\ X!FlattenSeq(Lines) = f[Len(Lines)]
                 /\ ready \in Seq(Characters) /\ file \o ready = X!Header \o f[next]
                 /\ next \in 0..Len(visible)
    BY <1>10, <2>1
  <2> HIDE DEF ready
  <2>4. m \in 0..Len(ready)
    BY <2>2, <2>3, LenProperties
  <2>5. file' \in Seq(Characters) /\ Begins(Characters, file', All)
    BY <1>9, <2>2, <2>3, <2>4 DEF Begun
  <2>6. next' # 0 /\ next' \in 0..(Len(visible) + 1) /\ buffer' \in Seq(Characters)
    <3>1. << >> \in Seq(Characters)
      OBVIOUS
    <3>3. next' = next /\ next \in DOMAIN visible
      BY <2>1, Zenon
    <3>2. next' # 0 /\ next' \in 0..(Len(visible) + 1)
      BY <1>5, <3>3
    <3> QED
      BY <2>1, <3>1, <3>2
  <2> QED
    BY <1>8, <2>1, <2>5, <2>6
<1>14. CASE X!Finish
  <2>1. /\ next = Len(visible) + 1 /\ status = "" /\ next' = next /\ status' = "saved"
        /\ buffer' = << >>
    BY <1>14 DEF X!Finish
  <2>2. PICK m \in 0..Len(buffer) : file' = file \o SubSeq(buffer, 1, m)
    BY <1>14 DEF X!Finish
  <2>7. next = Len(visible) + 1
    BY <2>1, Zenon
  <2>4. next - 1 \in 0..Len(visible) /\ next # 0
    BY <1>5, <2>7
  <2>3. PICK f : Ready(f)
    BY <2>1, <2>4 DEF ExportInv, Ready
  <2>5. file' \in Seq(Characters) /\ Begins(Characters, file', All)
    BY <1>4, <1>9, <2>2, <2>3, <2>4 DEF Ready, Begun
  <2>6. next' \in 0..(Len(visible) + 1) /\ buffer' \in Seq(Characters)
    <3>1. << >> \in Seq(Characters)
      OBVIOUS
    <3> QED
      BY <1>6, <2>1, <3>1
  <2> QED
    BY <1>8, <2>1, <2>4, <2>5, <2>6
<1> QED
  BY <1>11, <1>12, <1>13, <1>14 DEF X!Next

(* Whatever the disk refuses and whenever the buffer is flushed, the file  *)
(* is a beginning of the rows in the order of the view, for any histories, *)
(* texts and size of the buffer.                                           *)
THEOREM ExportNeverGarbles == Spec => []FileIsPrefix
<1> DEFINE vars == <<part, filterVars, targetVars, exportVars, timeVars, iconVars>>
<1>1. ExportInv /\ [Next]_vars => ExportInv'
  <2> SUFFICES ASSUME ExportInv, [Next]_vars
               PROVE  ExportInv'
    OBVIOUS
  <2>1. X!Next \/ UNCHANGED exportVars
    BY DEF Next, RulesStep, TargetsStep, ExportStep, TimesStep, IconsStep
  <2> QED
    BY <2>1, ExportKeeps, ExportStays
<1>2. ExportInv => FileIsPrefix
  <2> SUFFICES ASSUME ExportInv
               PROVE  FileIsPrefix
    OBVIOUS
  <2>1. PICK rest \in Seq(Characters) : file \o rest = All
    BY DEF ExportInv, Begun, Begins
  <2>2. file \in Seq(Characters)
    BY DEF ExportInv
  <2>3. Len(file) <= Len(All) /\ SubSeq(file, 1, Len(file)) = SubSeq(All, 1, Len(file))
    BY <2>1, <2>2, BeginningIsPrefix
  <2> QED
    BY <2>3 DEF FileIsPrefix, X!FileIsPrefix, X!IsPrefix, All, Lines
<1> QED
  BY ExportInit, <1>1, <1>2, PTL DEF Spec
-----------------------------------------------------------------------------
(* What a reader makes of a file.  It reads a text character by character, *)
(* from one state to another, and one text after the other.                *)

Consumes(r, t, s) ==
  \E f : f[0] = r /\ f[Len(t)] = s /\ \A i \in 1..Len(t) : f[i] = X!ReadNext(f[i - 1], t[i])

LEMMA ConsumesNothing == ASSUME NEW r PROVE Consumes(r, << >>, r)
<1> DEFINE f == [i \in 0..0 |-> r]
<1>1. f[0] = r
  OBVIOUS
<1>2. Len(<< >>) = 0 /\ 1..0 = {}
  OBVIOUS
<1> HIDE DEF f
<1> QED
  BY <1>1, <1>2 DEF Consumes

LEMMA ConsumesOne == ASSUME NEW r, NEW c PROVE Consumes(r, <<c>>, X!ReadNext(r, c))
<1> DEFINE s == X!ReadNext(r, c)
           f == [i \in 0..1 |-> IF i = 0 THEN r ELSE s]
<1> HIDE DEF s
<1>1. f[0] = r /\ f[1] = s
  OBVIOUS
<1>2. Len(<<c>>) = 1 /\ <<c>>[1] = c /\ 1..1 = {1} /\ 1 - 1 = 0
  OBVIOUS
<1> HIDE DEF f
<1>3. \A i \in 1..1 : f[i] = X!ReadNext(f[i - 1], <<c>>[i])
  <2>1. f[1] = X!ReadNext(f[1 - 1], <<c>>[1])
    BY <1>1, <1>2 DEF s
  <2> QED
    BY <1>2, <2>1
<1> QED
  BY <1>1, <1>2, <1>3 DEF Consumes, s

LEMMA ConsumesBoth ==
  ASSUME NEW s, NEW t, X!IsText(s), X!IsText(t), NEW r, NEW q, NEW z,
         Consumes(r, s, q), Consumes(q, t, z)
  PROVE  Consumes(r, s \o t, z)
<1> DEFINE m == Len(s)
           n == Len(t)
           both == s \o t
<1>1. m \in Nat /\ n \in Nat /\ Len(both) = m + n
      /\ \A i \in 1..(m + n) : both[i] = IF i <= m THEN s[i] ELSE t[i - m]
  <2> DEFINE S == {s[i] : i \in DOMAIN s} \cup {t[i] : i \in DOMAIN t}
  <2>1. s \in Seq(S) /\ t \in Seq(S)
    <3>1. s \in Seq({s[i] : i \in DOMAIN s}) /\ t \in Seq({t[i] : i \in DOMAIN t})
      BY DEF X!IsText
    <3> QED
      BY <3>1
  <2> HIDE DEF S
  <2> QED
    BY <2>1, ConcatProperties, LenProperties
<1> HIDE DEF m, n, both
<1>2. PICK f : f[0] = r /\ f[m] = q /\ \A i \in 1..m : f[i] = X!ReadNext(f[i - 1], s[i])
  BY Zenon DEF Consumes, m
<1>3. PICK g : g[0] = q /\ g[n] = z /\ \A i \in 1..n : g[i] = X!ReadNext(g[i - 1], t[i])
  BY Zenon DEF Consumes, n
<1> DEFINE h == [i \in 0..(m + n) |-> IF i <= m THEN f[i] ELSE g[i - m]]
<1>4. h[0] = r
  BY <1>1, <1>2
<1>5. h[m + n] = z
  <2>1. m + n \in 0..(m + n) /\ (m + n) - m = n
    BY <1>1
  <2>2. CASE n = 0
    BY <1>1, <1>2, <1>3, <2>1, <2>2
  <2>3. CASE n # 0
    BY <1>1, <1>3, <2>1, <2>3
  <2> QED
    BY <2>2, <2>3
<1>6. ASSUME NEW i \in 1..(m + n)
      PROVE  h[i] = X!ReadNext(h[i - 1], both[i])
  <2>1. i \in 0..(m + n) /\ i - 1 \in 0..(m + n)
    BY <1>1
  <2>2. CASE i <= m
    <3>1. i \in 1..m /\ h[i] = f[i] /\ h[i - 1] = f[i - 1] /\ both[i] = s[i]
      BY <1>1, <2>1, <2>2
    <3> HIDE DEF h
    <3> QED
      BY <1>2, <3>1
  <2>3. CASE i = m + 1
    <3>1. /\ i - 1 = m /\ i - m = 1 /\ (i - m) - 1 = 0 /\ ~(i <= m) /\ m <= m
          /\ m \in 0..(m + n) /\ 1 \in 1..n
      BY <1>1, <2>3
    <3>2. h[i] = g[1] /\ h[i - 1] = f[m] /\ both[i] = t[1]
      BY <1>1, <2>1, <3>1
    <3>3. g[1] = X!ReadNext(g[0], t[1])
      <4>1. g[1] = X!ReadNext(g[1 - 1], t[1]) /\ 1 - 1 = 0
        BY <1>3, <3>1
      <4> QED
        BY <4>1
    <3> HIDE DEF h
    <3> QED
      BY <1>2, <1>3, <3>2, <3>3
  <2>4. CASE i > m + 1
    <3>1. /\ i - m \in 1..n /\ (i - 1) - m = (i - m) - 1 /\ ~(i <= m) /\ ~(i - 1 <= m)
      BY <1>1, <2>4
    <3>2. h[i] = g[i - m] /\ h[i - 1] = g[(i - 1) - m] /\ both[i] = t[i - m]
      BY <1>1, <2>1, <3>1
    <3> HIDE DEF h
    <3> QED
      BY <1>3, <3>1, <3>2
  <2> QED
    BY <1>1, <2>2, <2>3, <2>4
<1> HIDE DEF h
<1>7. Consumes(r, both, z)
  BY <1>1, <1>4, <1>5, <1>6 DEF Consumes
<1> QED
  BY <1>7 DEF both

LEMMA ConsumedDecides ==
  ASSUME Len(file) \in Nat, NEW s, Consumes(X!Nothing, file, s)
  PROVE  X!Records = s.records
<1> DEFINE n == Len(file)
           Unfolded(g) == [i \in 0..n |-> IF i = 0 THEN X!Nothing
                                          ELSE X!ReadNext(g[i - 1], file[i])]
           after == CHOOSE g : g = Unfolded(g)
<1>1. X!Records = after[n].records
  BY Zenon DEF X!Records
<1>2. n \in Nat
  OBVIOUS
<1>3. PICK f : f[0] = X!Nothing /\ f[n] = s
               /\ \A i \in 1..n : f[i] = X!ReadNext(f[i - 1], file[i])
  BY Zenon DEF Consumes
<1> HIDE DEF n
<1>4. after = Unfolded(after)
  <2> DEFINE g == [i \in 0..n |-> f[i]]
  <2>1. \A i \in 0..n : g[i] = IF i = 0 THEN X!Nothing ELSE X!ReadNext(g[i - 1], file[i])
    <3> SUFFICES ASSUME NEW i \in 0..n
                 PROVE  g[i] = IF i = 0 THEN X!Nothing ELSE X!ReadNext(g[i - 1], file[i])
      OBVIOUS
    <3>1. CASE i = 0
      BY <1>3, <3>1
    <3>2. CASE i # 0
      <4>1. i \in 1..n /\ i - 1 \in 0..n
        BY <1>2, <3>2
      <4>2. g[i] = f[i] /\ g[i - 1] = f[i - 1]
        BY <4>1
      <4> HIDE DEF g
      <4> QED
        BY <1>3, <3>2, <4>1, <4>2
    <3> QED
      BY <3>1, <3>2
  <2>2. g = [i \in 0..n |-> g[i]]
    OBVIOUS
  <2> HIDE DEF g
  <2>3. g = Unfolded(g)
    BY <2>1, <2>2
  <2> QED
    BY <2>3, Zenon
<1> HIDE DEF after
<1> DEFINE A == {i \in 0..n : after[i] = f[i]}
<1>5. 0 \in A
  BY <1>2, <1>3, <1>4
<1>6. ASSUME NEW i \in 0..(n - 1), i \in A
      PROVE  i + 1 \in A
  <2>1. i + 1 \in 1..n /\ (i + 1) - 1 = i /\ i + 1 # 0 /\ i + 1 \in 0..n
    BY <1>2
  <2>2. after[i + 1] = X!ReadNext(after[i], file[i + 1])
    BY <1>4, <2>1
  <2>3. f[i + 1] = X!ReadNext(f[i], file[i + 1])
    <3>1. f[i + 1] = X!ReadNext(f[(i + 1) - 1], file[i + 1])
      BY <1>3, <2>1
    <3> QED
      BY <2>1, <3>1
  <2> QED
    BY <1>6, <2>1, <2>2, <2>3
<1> HIDE DEF A
<1>7. \A i \in 0..n : i \in A
  BY <1>2, <1>5, <1>6, UpTo
<1>8. after[n] = s
  BY <1>2, <1>3, <1>7 DEF A
<1> QED
  BY <1>1, <1>8
-----------------------------------------------------------------------------
(* The readers step by step.  Closed is where a field in quotes ends.      *)

At(place, field, record, records) ==
  [at |-> place, field |-> field, record |-> record, records |-> records]

Closed == IF format = "csv" THEN "quote" ELSE "plain"

Special == {X!Quote, X!Escape, X!Comma, X!Newline}

Marks == IF format = "csv" THEN [c \in {X!Quote} |-> X!Quote]
         ELSE [c \in {X!Quote, X!Escape} |-> X!Escape]

Piece(c) == IF c \in DOMAIN Marks THEN <<Marks[c], c>> ELSE <<c>>

LEMMA PlainSteps ==
  ASSUME NEW f, NEW rec, NEW recs, NEW place \in {"plain", Closed}
  PROVE  /\ \A c : c \notin Special =>
               X!ReadNext(At("plain", f, rec, recs), c) = At("plain", Append(f, c), rec, recs)
         /\ X!ReadNext(At("plain", f, rec, recs), X!Quote) = At("quoted", f, rec, recs)
         /\ X!ReadNext(At(place, f, rec, recs), X!Comma) = At("plain", << >>, Append(rec, f), recs)
         /\ X!ReadNext(At(place, f, rec, recs), X!Newline)
              = At("plain", << >>, << >>, Append(recs, Append(rec, f)))
<1> USE DEF At, Closed, Special, X!ReadNext, X!CsvRead, X!JsonRead,
            X!Quote, X!Escape, X!Comma, X!Newline
<1>1. ASSUME NEW c, c \notin Special
      PROVE  X!ReadNext(At("plain", f, rec, recs), c) = At("plain", Append(f, c), rec, recs)
  BY <1>1
<1>2. X!ReadNext(At("plain", f, rec, recs), X!Quote) = At("quoted", f, rec, recs)
  OBVIOUS
<1>3. X!ReadNext(At(place, f, rec, recs), X!Comma) = At("plain", << >>, Append(rec, f), recs)
  OBVIOUS
<1>4. X!ReadNext(At(place, f, rec, recs), X!Newline)
        = At("plain", << >>, << >>, Append(recs, Append(rec, f)))
  OBVIOUS
<1> QED
  BY <1>1, <1>2, <1>3, <1>4

LEMMA QuotedSteps ==
  ASSUME NEW f, NEW rec, NEW recs
  PROVE  /\ X!ReadNext(At("quoted", f, rec, recs), X!Quote) = At(Closed, f, rec, recs)
         /\ \A c : c \notin DOMAIN Marks /\ (format # "csv" => c \notin Controls) =>
               X!ReadNext(At("quoted", f, rec, recs), c) = At("quoted", Append(f, c), rec, recs)
         /\ \A c \in DOMAIN Marks :
               X!ReadNext(X!ReadNext(At("quoted", f, rec, recs), Marks[c]), c)
                 = At("quoted", Append(f, c), rec, recs)
<1> DEFINE In(place) == At(place, f, rec, recs)
           Added(c) == At("quoted", Append(f, c), rec, recs)
(* What the readers change of what they have.                              *)
<1>1. ASSUME NEW place
      PROVE  /\ In(place).at = place /\ In(place).field = f
             /\ \A other : [In(place) EXCEPT !.at = other] = In(other)
  BY DEF At
<1>2. ASSUME NEW c
      PROVE  [In("quoted") EXCEPT !.field = Append(f, c)] = Added(c)
  <2>1. \A g : [In("quoted") EXCEPT !.field = g] = At("quoted", g, rec, recs)
    BY DEF At
  <2> QED
    BY <2>1, Zenon
<1>3. X!Escape # X!Quote
  BY DEF X!Escape, X!Quote
<1> HIDE DEF In, Added
<1>4. ASSUME NEW place, NEW c
      PROVE  [In(place) EXCEPT !.at = "quoted", !.field = Append(@, c)] = Added(c)
  <2>1. [In(place) EXCEPT !.at = "quoted"] = In("quoted")
    BY <1>1, Zenon
  <2>2. In(place).field = f
    BY <1>1, Zenon
  <2> QED
    BY <1>2, <2>1, <2>2, Zenon
(* One character inside quotes, and one after a mark.                      *)
<1>5. ASSUME NEW c
      PROVE  X!CsvRead(In("quoted"), c) = IF c = X!Quote THEN In("quote") ELSE Added(c)
  BY <1>1, <1>2 DEF X!CsvRead
<1>6. X!CsvRead(In("quote"), X!Quote) = Added(X!Quote)
  <2>1. X!CsvRead(In("quote"), X!Quote)
          = [In("quote") EXCEPT !.at = "quoted", !.field = Append(@, X!Quote)]
    <3> DEFINE r == In("quote")
    <3>1. r.at = "quote"
      BY <1>1
    <3> HIDE DEF r
    <3>2. X!CsvRead(r, X!Quote) = [r EXCEPT !.at = "quoted", !.field = Append(@, X!Quote)]
      BY <3>1 DEF X!CsvRead, X!Quote, X!Comma, X!Newline
    <3> QED
      BY <3>2, Zenon DEF r
  <2> QED
    BY <1>4, <2>1
<1>7. ASSUME NEW c
      PROVE  X!JsonRead(In("quoted"), c) =
               IF c = X!Escape THEN In("escaped")
               ELSE IF c = X!Quote THEN In("plain")
               ELSE IF c \in Controls THEN In("invalid")
               ELSE Added(c)
  BY <1>1, <1>2 DEF X!JsonRead
<1>8. ASSUME NEW c
      PROVE  X!JsonRead(In("escaped"), c) = Added(c)
  BY <1>1, <1>4 DEF X!JsonRead
<1>9. CASE format = "csv"
  <2>1. \A r, c : X!ReadNext(r, c) = X!CsvRead(r, c)
    BY <1>9 DEF X!ReadNext
  <2>2. Closed = "quote" /\ DOMAIN Marks = {X!Quote} /\ Marks[X!Quote] = X!Quote
    BY <1>9 DEF Closed, Marks
  <2>3. ASSUME NEW c, c \notin DOMAIN Marks
        PROVE  X!ReadNext(In("quoted"), c) = Added(c)
    BY <1>5, <2>1, <2>2, <2>3
  <2>4. ASSUME NEW c \in DOMAIN Marks
        PROVE  X!ReadNext(X!ReadNext(In("quoted"), Marks[c]), c) = Added(c)
    BY <1>5, <1>6, <2>1, <2>2
  <2>5. X!ReadNext(In("quoted"), X!Quote) = In(Closed)
    BY <1>5, <2>1, <2>2
  <2> QED
    BY <2>3, <2>4, <2>5, Zenon DEF In, Added
<1>10. CASE format # "csv"
  <2>1. \A r, c : X!ReadNext(r, c) = X!JsonRead(r, c)
    BY <1>10 DEF X!ReadNext
  <2>2. /\ Closed = "plain" /\ DOMAIN Marks = {X!Quote, X!Escape}
        /\ \A c \in DOMAIN Marks : Marks[c] = X!Escape
    BY <1>10 DEF Closed, Marks
  <2>3. ASSUME NEW c, c \notin DOMAIN Marks, format # "csv" => c \notin Controls
        PROVE  X!ReadNext(In("quoted"), c) = Added(c)
    BY <1>7, <1>10, <2>1, <2>2, <2>3
  <2>4. ASSUME NEW c \in DOMAIN Marks
        PROVE  X!ReadNext(X!ReadNext(In("quoted"), Marks[c]), c) = Added(c)
    BY <1>7, <1>8, <2>1, <2>2
  <2>5. X!ReadNext(In("quoted"), X!Quote) = In(Closed)
    BY <1>3, <1>7, <2>1, <2>2
  <2> QED
    BY <2>3, <2>4, <2>5, Zenon DEF In, Added
<1> QED
  BY <1>9, <1>10

LEMMA TwoCharacters == ASSUME NEW c, NEW d PROVE <<c>> \o <<d>> = <<c, d>>
<1> DEFINE S == {c, d}
           both == <<c>> \o <<d>>
<1>1. <<c>> \in Seq(S) /\ <<d>> \in Seq(S) /\ <<c, d>> \in Seq(S)
  OBVIOUS
<1>2. Len(<<c>>) = 1 /\ Len(<<d>>) = 1 /\ <<c>>[1] = c /\ <<d>>[1] = d
  OBVIOUS
<1> HIDE DEF S
<1>3. /\ both \in Seq(S) /\ Len(both) = 2
      /\ \A i \in 1..2 : both[i] = IF i <= 1 THEN <<c>>[i] ELSE <<d>>[i - 1]
  BY <1>1, <1>2, ConcatProperties
<1>4. both[1] = c /\ both[2] = d
  BY <1>2, <1>3
<1>5. Len(<<c, d>>) = 2 /\ <<c, d>>[1] = c /\ <<c, d>>[2] = d
  OBVIOUS
<1> HIDE DEF both
<1>6. \A i \in 1..Len(both) : both[i] = <<c, d>>[i]
  BY <1>3, <1>4, <1>5
<1>7. both = <<c, d>>
  BY <1>1, <1>3, <1>5, <1>6, SeqEqual
<1> QED
  BY <1>7 DEF both

LEMMA PieceRead ==
  ASSUME NEW f, NEW rec, NEW recs, NEW c, format # "csv" => c \notin Controls
  PROVE  Consumes(At("quoted", f, rec, recs), Piece(c), At("quoted", Append(f, c), rec, recs))
<1> DEFINE r == At("quoted", f, rec, recs)
           z == At("quoted", Append(f, c), rec, recs)
<1>1. CASE c \notin DOMAIN Marks
  <2>1. Piece(c) = <<c>>
    BY <1>1 DEF Piece
  <2>2. X!ReadNext(r, c) = z
    BY <1>1, QuotedSteps
  <2> HIDE DEF r, z
  <2>3. Consumes(r, Piece(c), z)
    BY <2>1, <2>2, ConsumesOne
  <2> QED
    BY <2>3 DEF r, z
<1>2. CASE c \in DOMAIN Marks
  <2> DEFINE m == Marks[c]
  <2>1. Piece(c) = <<m, c>>
    BY <1>2 DEF Piece
  <2>6. X!ReadNext(X!ReadNext(r, m), c) = z
    BY <1>2, QuotedSteps
  <2> HIDE DEF r, z, m
  <2>2. Consumes(r, <<m>>, X!ReadNext(r, m)) /\ Consumes(X!ReadNext(r, m), <<c>>, z)
    BY <2>6, ConsumesOne
  <2>3. X!IsText(<<m>>) /\ X!IsText(<<c>>)
    BY OneCharacter
  <2>4. Consumes(r, <<m>> \o <<c>>, z)
    BY <2>2, <2>3, ConsumesBoth
  <2>5. <<m>> \o <<c>> = <<m, c>>
    BY TwoCharacters
  <2>7. Consumes(r, Piece(c), z)
    BY <2>1, <2>4, <2>5
  <2> QED
    BY <2>7 DEF r, z
<1> QED
  BY <1>1, <1>2
-----------------------------------------------------------------------------
(* Fields, lines and the whole file.                                       *)

LEMMA PrefixGrows ==
  ASSUME NEW S, NEW s \in Seq(S)
  PROVE  /\ SubSeq(s, 1, 0) = << >> /\ SubSeq(s, 1, Len(s)) = s
         /\ \A k \in 0..(Len(s) - 1) : Append(SubSeq(s, 1, k), s[k + 1]) = SubSeq(s, 1, k + 1)
<1>1. Len(s) \in Nat /\ \A i \in 1..Len(s) : s[i] \in S
  BY LenProperties, ElementOfSeq
<1>2. SubSeq(s, 1, 0) = << >> /\ SubSeq(s, 1, Len(s)) = s
  BY SubSeqEmpty, SubSeqFull
<1>3. ASSUME NEW k \in 0..(Len(s) - 1)
      PROVE  Append(SubSeq(s, 1, k), s[k + 1]) = SubSeq(s, 1, k + 1)
  <2>1. k \in Nat /\ 1 \in 1..Len(s) /\ k + 1 \in 1..Len(s) /\ (k + 1) - 1 = k
    BY <1>1
  <2>2. SubSeq(s, 1, k + 1) = SubSeq(s, 1, (k + 1) - 1) \o <<s[k + 1]>>
    BY <2>1, SubSeqRecursiveSecond
  <2>3. SubSeq(s, 1, k) \in Seq(S) /\ s[k + 1] \in S
    BY <1>1, <2>1, SubSeqProperties
  <2>4. Append(SubSeq(s, 1, k), s[k + 1]) = SubSeq(s, 1, k) \o <<s[k + 1]>>
    BY <2>3, AppendIsConcat
  <2> QED
    BY <2>1, <2>2, <2>4
<1> QED
  BY <1>2, <1>3

Escape(t) == IF format = "csv" THEN X!csv_escape(t) ELSE X!json_escape(t)

(* No control character, or a format that bears them.                      *)
Plain(t) == format # "csv" => \A i \in DOMAIN t : t[i] \notin Controls

LEMMA TextOfPieces ==
  ASSUME NEW t, X!IsText(t)
  PROVE  \E S, pieces :
           /\ pieces \in Seq(Seq(S)) /\ Len(pieces) = Len(t)
           /\ \A i \in 1..Len(t) : pieces[i] = Piece(t[i])
           /\ Escape(t) = X!FlattenSeq(pieces)
<1> DEFINE own == {t[i] : i \in DOMAIN t}
           S == own \cup {Marks[c] : c \in DOMAIN Marks}
           n == Len(t)
           pieces == [i \in DOMAIN t |-> Piece(t[i])]
<1>1. t \in Seq(own)
  BY DEF X!IsText
<1>2. n \in Nat /\ DOMAIN t = 1..n
  <2> HIDE DEF own
  <2> QED
    BY <1>1, LenProperties
<1>3. ASSUME NEW i \in 1..n
      PROVE  Piece(t[i]) \in Seq(S)
  <2>1. t[i] \in S
    BY <1>2
  <2>2. CASE t[i] \in DOMAIN Marks
    <3>1. Marks[t[i]] \in S
      BY <2>2
    <3> HIDE DEF S
    <3> QED
      BY <2>1, <2>2, <3>1 DEF Piece
  <2>3. CASE t[i] \notin DOMAIN Marks
    <3> HIDE DEF S
    <3> QED
      BY <2>1, <2>3 DEF Piece
  <2> QED
    BY <2>2, <2>3
<1>4. pieces \in [1..n -> Seq(S)] /\ \A i \in 1..n : pieces[i] = Piece(t[i])
  <2> HIDE DEF S
  <2> QED
    BY <1>2, <1>3
<1>5. pieces \in Seq(Seq(S)) /\ Len(pieces) = n
  <2> HIDE DEF S, pieces
  <2> QED
    BY <1>2, <1>4, SeqDef, LenProperties
<1>6. Escape(t) = X!FlattenSeq(pieces)
  <2>1. CASE format = "csv"
    <3>1. Escape(t) = X!Escaped(t, Marks)
      BY <2>1 DEF Escape, Marks, X!csv_escape
    <3> QED
      BY <3>1, Zenon DEF X!Escaped, Piece
  <2>2. CASE format # "csv"
    <3>1. Escape(t) = X!Escaped(t, Marks)
      BY <2>2 DEF Escape, Marks, X!json_escape
    <3> QED
      BY <3>1, Zenon DEF X!Escaped, Piece
  <2> QED
    BY <2>1, <2>2
<1> HIDE DEF pieces, S, n
<1> QED
  BY <1>4, <1>5, <1>6 DEF n

LEMMA FieldRead ==
  ASSUME NEW t, X!IsText(t), Plain(t), NEW rec, NEW recs
  PROVE  /\ X!IsText(Escape(t))
         /\ Consumes(At("quoted", << >>, rec, recs), Escape(t), At("quoted", t, rec, recs))
<1> DEFINE n == Len(t)
           own == {t[i] : i \in DOMAIN t}
           after(k) == At("quoted", SubSeq(t, 1, k), rec, recs)
<1>1. t \in Seq(own)
  BY DEF X!IsText
<1> HIDE DEF own
<1>2. n \in Nat /\ DOMAIN t = 1..n
  BY <1>1, LenProperties
<1>3. PICK S, pieces :
        /\ pieces \in Seq(Seq(S)) /\ Len(pieces) = n
        /\ \A i \in 1..n : pieces[i] = Piece(t[i])
        /\ Escape(t) = X!FlattenSeq(pieces)
  BY TextOfPieces
<1>4. PICK f : Sums(S, pieces, f) /\ Escape(t) = f[n]
  BY <1>3, FlattenIsSum
<1> HIDE DEF n
<1>5. /\ f \in [0..n -> Seq(S)] /\ f[0] = << >>
      /\ \A i \in 1..n : f[i] = f[i - 1] \o pieces[i]
  BY <1>3, <1>4 DEF Sums
<1>6. /\ after(0) = At("quoted", << >>, rec, recs) /\ after(n) = At("quoted", t, rec, recs)
      /\ \A k \in 0..(n - 1) :
           after(k + 1) = At("quoted", Append(SubSeq(t, 1, k), t[k + 1]), rec, recs)
  BY <1>1, PrefixGrows DEF n
<1> HIDE DEF after
<1> DEFINE A == {k \in 0..n : Consumes(after(0), f[k], after(k))}
<1>7. 0 \in A
  BY <1>2, <1>5, ConsumesNothing
<1>8. ASSUME NEW k \in 0..(n - 1), k \in A
      PROVE  k + 1 \in A
  <2>1. k \in 0..n /\ k + 1 \in 1..n /\ k + 1 \in 0..n /\ (k + 1) - 1 = k
    BY <1>2
  <2>2. f[k + 1] = f[k] \o pieces[k + 1]
    <3>1. f[k + 1] = f[(k + 1) - 1] \o pieces[k + 1]
      BY <1>5, <2>1
    <3> QED
      BY <2>1, <3>1
  <2>3. X!IsText(f[k]) /\ X!IsText(pieces[k + 1])
    <3>1. f[k] \in Seq(S) /\ pieces[k + 1] \in Seq(S)
      BY <1>3, <1>5, <2>1, ElementOfSeq
    <3> QED
      BY <3>1, SeqIsText
  <2>4. Consumes(after(k), pieces[k + 1], after(k + 1))
    <3>1. format # "csv" => t[k + 1] \notin Controls
      BY <1>2, <2>1 DEF Plain
    <3>2. Consumes(At("quoted", SubSeq(t, 1, k), rec, recs), Piece(t[k + 1]),
                   At("quoted", Append(SubSeq(t, 1, k), t[k + 1]), rec, recs))
      BY <3>1, PieceRead
    <3> QED
      BY <1>3, <1>6, <2>1, <3>2 DEF after
  <2>5. Consumes(after(0), f[k] \o pieces[k + 1], after(k + 1))
    BY <1>8, <2>3, <2>4, ConsumesBoth
  <2> QED
    BY <2>1, <2>2, <2>5
<1> HIDE DEF A
<1>9. \A k \in 0..n : k \in A
  BY <1>2, <1>7, <1>8, UpTo
<1>10. Consumes(after(0), f[n], after(n))
  BY <1>2, <1>9 DEF A
<1>11. X!IsText(f[n])
  BY <1>2, <1>5, SeqIsText
<1> QED
  BY <1>4, <1>6, <1>10, <1>11

LEMMA QuotedRead ==
  ASSUME NEW t, X!IsText(t), Plain(t), NEW rec, NEW recs
  PROVE  /\ X!IsText(X!Quoted(Escape(t)))
         /\ Consumes(At("plain", << >>, rec, recs), X!Quoted(Escape(t)), At(Closed, t, rec, recs))
<1> DEFINE e == Escape(t)
           q == <<X!Quote>>
           r0 == At("plain", << >>, rec, recs)
           r1 == At("quoted", << >>, rec, recs)
           r2 == At("quoted", t, rec, recs)
           r3 == At(Closed, t, rec, recs)
<1>1. X!ReadNext(r0, X!Quote) = r1 /\ X!ReadNext(r2, X!Quote) = r3
  BY PlainSteps, QuotedSteps
<1>2. X!IsText(e) /\ Consumes(r1, e, r2)
  BY FieldRead
<1>3. X!Quoted(e) = (q \o e) \o q
  BY DEF X!Quoted
<1> HIDE DEF e, r0, r1, r2, r3
<1>4. Consumes(r0, q, r1) /\ Consumes(r2, q, r3)
  BY <1>1, ConsumesOne
<1>5. X!IsText(q)
  BY OneCharacter
<1> HIDE DEF q
<1>6. Consumes(r0, q \o e, r2) /\ X!IsText(q \o e)
  BY <1>2, <1>4, <1>5, ConsumesBoth, TextConcat
<1>7. Consumes(r0, (q \o e) \o q, r3) /\ X!IsText((q \o e) \o q)
  BY <1>4, <1>5, <1>6, ConsumesBoth, TextConcat
<1> QED
  BY <1>3, <1>7 DEF e, r0, r3

LEMMA FourFields ==
  ASSUME NEW a, NEW b, NEW c, NEW d
  PROVE  Append(Append(Append(Append(<< >>, a), b), c), d) = <<a, b, c, d>>
<1> DEFINE S == {a, b, c, d}
           s1 == <<a>>
           t == <<a, b, c, d>>
<1>1. s1 \in Seq(S) /\ t \in Seq(S) /\ Append(<< >>, a) = s1
  OBVIOUS
<1>2. Len(s1) = 1 /\ s1[1] = a /\ Len(t) = 4 /\ t[1] = a /\ t[2] = b /\ t[3] = c /\ t[4] = d
  OBVIOUS
<1>3. a \in S /\ b \in S /\ c \in S /\ d \in S
  OBVIOUS
<1> HIDE DEF S, s1, t
<1> DEFINE s2 == Append(s1, b)
<1>4. s2 \in Seq(S) /\ Len(s2) = 2 /\ s2[1] = a /\ s2[2] = b
  <2>1. /\ s2 \in Seq(S) /\ Len(s2) = Len(s1) + 1
        /\ \A i \in 1..Len(s1) : s2[i] = s1[i]
        /\ s2[Len(s1) + 1] = b
    <3>1. s1 \in Seq(S) /\ b \in S
      BY <1>1, <1>2, <1>3
    <3> QED
      BY <3>1, AppendProperties
  <2>2. Len(s1) = 1 /\ 1 + 1 = 2 /\ 1 \in Nat
    BY <1>1, <1>2, <1>3
  <2> HIDE DEF s2
  <2> QED
    BY <1>1, <1>2, <1>3, <2>1, <2>2
<1> HIDE DEF s2
<1> DEFINE s3 == Append(s2, c)
<1>5. s3 \in Seq(S) /\ Len(s3) = 3 /\ s3[1] = a /\ s3[2] = b /\ s3[3] = c
  <2>1. /\ s3 \in Seq(S) /\ Len(s3) = Len(s2) + 1
        /\ \A i \in 1..Len(s2) : s3[i] = s2[i]
        /\ s3[Len(s2) + 1] = c
    <3>1. s2 \in Seq(S) /\ c \in S
      BY <1>3, <1>4
    <3> QED
      BY <3>1, AppendProperties
  <2>2. Len(s2) = 2 /\ 2 + 1 = 3 /\ 2 \in Nat
    BY <1>3, <1>4
  <2> HIDE DEF s3
  <2> QED
    BY <1>3, <1>4, <2>1, <2>2
<1> HIDE DEF s3
<1> DEFINE s4 == Append(s3, d)
<1>6. s4 \in Seq(S) /\ Len(s4) = 4 /\ s4[1] = a /\ s4[2] = b /\ s4[3] = c /\ s4[4] = d
  <2>1. /\ s4 \in Seq(S) /\ Len(s4) = Len(s3) + 1
        /\ \A i \in 1..Len(s3) : s4[i] = s3[i]
        /\ s4[Len(s3) + 1] = d
    <3>1. s3 \in Seq(S) /\ d \in S
      BY <1>3, <1>5
    <3> QED
      BY <3>1, AppendProperties
  <2>2. Len(s3) = 3 /\ 3 + 1 = 4 /\ 3 \in Nat
    BY <1>3, <1>5
  <2> HIDE DEF s4
  <2> QED
    BY <1>3, <1>5, <2>1, <2>2
<1> HIDE DEF s4
<1>7. \A i \in 1..Len(s4) : s4[i] = t[i]
  BY <1>2, <1>6
<1>8. s4 = t
  BY <1>1, <1>2, <1>6, <1>7, SeqEqual
<1> USE DEF s2, s3, s4, t
<1> QED
  BY <1>1, <1>8 DEF s2, s3, s4, t

LEMMA CommaRead ==
  ASSUME NEW f, NEW rec, NEW recs, NEW place \in {"plain", Closed}
  PROVE  Consumes(At(place, f, rec, recs), <<X!Comma>>, At("plain", << >>, Append(rec, f), recs))
<1>1. X!ReadNext(At(place, f, rec, recs), X!Comma) = At("plain", << >>, Append(rec, f), recs)
  BY PlainSteps
<1> DEFINE r == At(place, f, rec, recs)
           q == At("plain", << >>, Append(rec, f), recs)
           c == X!Comma
<1> HIDE DEF r, q, c
<1>2. Consumes(r, <<c>>, q)
  BY <1>1, ConsumesOne DEF r, q, c
<1> QED
  BY <1>2 DEF r, q, c

LEMMA EndRead ==
  ASSUME NEW f, NEW rec, NEW recs, NEW place \in {"plain", Closed}
  PROVE  Consumes(At(place, f, rec, recs), <<X!Newline>>,
                  At("plain", << >>, << >>, Append(recs, Append(rec, f))))
<1>1. X!ReadNext(At(place, f, rec, recs), X!Newline)
        = At("plain", << >>, << >>, Append(recs, Append(rec, f)))
  BY PlainSteps
<1> QED
  BY <1>1, ConsumesOne

LEMMA WordRead ==
  ASSUME NEW c, c \notin Special, NEW rec, NEW recs
  PROVE  Consumes(At("plain", << >>, rec, recs), <<c>>, At("plain", <<c>>, rec, recs))
<1>1. \A f : X!ReadNext(At("plain", f, rec, recs), c) = At("plain", Append(f, c), rec, recs)
  BY PlainSteps
<1>2. Append(<< >>, c) = <<c>>
  OBVIOUS
<1>3. X!ReadNext(At("plain", << >>, rec, recs), c) = At("plain", <<c>>, rec, recs)
  BY <1>1, <1>2, Zenon
<1> QED
  BY <1>3, ConsumesOne

LEMMA LineRead ==
  ASSUME format \in {"csv", "jsonl"}, NEW e, X!IsText(e.name), e.pid \notin Special,
         \A k \in 1..4 : Plain(X!ExportRow(e)[k]), NEW recs
  PROVE  Consumes(At("plain", << >>, << >>, recs), X!Line(e),
                  At("plain", << >>, << >>, Append(recs, X!ExportRow(e))))
<1> DEFINE row == X!ExportRow(e)
           field(k) == X!Quoted(Escape(row[k]))
           comma == <<X!Comma>>
           end == <<X!Newline>>
           p1 == row[1] \o comma
           p2 == p1 \o field(2)
           p3 == p2 \o comma
           p4 == p3 \o field(3)
           p5 == p4 \o comma
           p6 == p5 \o field(4)
           p7 == p6 \o end
           r0 == At("plain", << >>, << >>, recs)
           s1 == Append(<< >>, row[1])
           s2 == Append(s1, row[2])
           s3 == Append(s2, row[3])
           s4 == Append(s3, row[4])
<1>1. X!Line(e) = p7
  <2>1. format # "txt"
    OBVIOUS
  <2>2. X!Line(e) = IF format = "txt" THEN row[2] \o row[1] \o row[3] \o row[4] \o <<X!Newline>>
                    ELSE p7
    BY Zenon DEF X!Line, Escape
  <2> HIDE DEF p7
  <2> QED
    BY <2>1, <2>2
<1>2. /\ X!IsText(row[1]) /\ X!IsText(row[2]) /\ X!IsText(row[3]) /\ X!IsText(row[4])
      /\ X!IsText(comma) /\ X!IsText(end)
  BY RowIsText, OneCharacter
<1>3. row = <<row[1], row[2], row[3], row[4]>> /\ row[1] = <<e.pid>>
  BY DEF X!ExportRow
<1>4. \A k \in 1..4 : Plain(row[k])
  OBVIOUS
<1> HIDE DEF row
<1>5. ASSUME NEW k \in {2, 3, 4}, NEW rec
      PROVE  /\ X!IsText(field(k))
             /\ Consumes(At("plain", << >>, rec, recs), field(k), At(Closed, row[k], rec, recs))
  <2>1. X!IsText(row[k]) /\ Plain(row[k])
    BY <1>2, <1>4
  <2> QED
    BY <2>1, QuotedRead
<1>6. ASSUME NEW k \in {2, 3, 4}, NEW rec
      PROVE  Consumes(At(Closed, row[k], rec, recs), comma, At("plain", << >>, Append(rec, row[k]), recs))
  BY CommaRead
<1>7. Consumes(r0, row[1], At("plain", row[1], << >>, recs))
  BY <1>3, WordRead
<1>8. Consumes(At("plain", row[1], << >>, recs), comma, At("plain", << >>, s1, recs))
  BY CommaRead, Zenon
<1>9. Consumes(At(Closed, row[4], s3, recs), end, At("plain", << >>, << >>, Append(recs, s4)))
  <2> HIDE DEF s3
  <2> QED
    BY EndRead
<1>10. s4 = row
  BY <1>3, FourFields
<1> HIDE DEF field, comma, end, r0, s1, s2, s3, s4
<1>11. Consumes(r0, p1, At("plain", << >>, s1, recs)) /\ X!IsText(p1)
  BY <1>2, <1>7, <1>8, ConsumesBoth, TextConcat
<1> HIDE DEF p1
<1>12. Consumes(r0, p2, At(Closed, row[2], s1, recs)) /\ X!IsText(p2)
  BY <1>5, <1>11, ConsumesBoth, TextConcat
<1> HIDE DEF p2
<1>13. Consumes(r0, p3, At("plain", << >>, s2, recs)) /\ X!IsText(p3)
  BY <1>2, <1>6, <1>12, ConsumesBoth, TextConcat DEF s2
<1> HIDE DEF p3
<1>14. Consumes(r0, p4, At(Closed, row[3], s2, recs)) /\ X!IsText(p4)
  BY <1>5, <1>13, ConsumesBoth, TextConcat
<1> HIDE DEF p4
<1>15. Consumes(r0, p5, At("plain", << >>, s3, recs)) /\ X!IsText(p5)
  BY <1>2, <1>6, <1>14, ConsumesBoth, TextConcat DEF s3
<1> HIDE DEF p5
<1>16. Consumes(r0, p6, At(Closed, row[4], s3, recs)) /\ X!IsText(p6)
  BY <1>5, <1>15, ConsumesBoth, TextConcat
<1> HIDE DEF p6
<1>17. Consumes(r0, p7, At("plain", << >>, << >>, Append(recs, s4)))
  BY <1>2, <1>9, <1>16, ConsumesBoth
<1> QED
  BY <1>1, <1>10, <1>17 DEF r0, row

ShownRows == [i \in DOMAIN visible |-> X!Shown(i)]

HeaderRow == IF format = "csv" THEN <<<<<<"header">>>>>> ELSE << >>

LEMMA HeaderRead ==
  ASSUME format \in {"csv", "jsonl"}
  PROVE  Consumes(X!Nothing, X!Header, At("plain", << >>, << >>, HeaderRow))
<1>1. X!Nothing = At("plain", << >>, << >>, << >>)
  BY DEF X!Nothing, At
<1>2. CASE format = "csv"
  <2> DEFINE w == "header"
             r0 == At("plain", << >>, << >>, << >>)
             r1 == At("plain", <<w>>, << >>, << >>)
             r2 == At("plain", << >>, << >>, Append(<< >>, Append(<< >>, <<w>>)))
             end == <<X!Newline>>
  <2>1. X!Header = <<w>> \o end
    <3>1. X!Header = <<w, X!Newline>>
      BY <1>2 DEF X!Header
    <3> HIDE DEF w
    <3> QED
      BY <3>1, TwoCharacters
  <2>2. w \notin Special
    BY DEF Special, X!Quote, X!Escape, X!Comma, X!Newline
  <2>3. At("plain", << >>, << >>, HeaderRow) = r2
    BY <1>2 DEF HeaderRow
  <2> HIDE DEF w
  <2>4. Consumes(r0, <<w>>, r1) /\ X!IsText(<<w>>)
    BY <2>2, WordRead, OneCharacter
  <2>5. Consumes(r1, end, r2) /\ X!IsText(end)
    <3>1. "plain" \in {"plain", Closed}
      OBVIOUS
    <3>2. Consumes(r1, end, r2)
      BY <3>1, EndRead, Zenon
    <3> QED
      BY <3>2, OneCharacter
  <2> HIDE DEF r0, r1, r2, end
  <2>6. Consumes(r0, <<w>> \o end, r2)
    BY <2>4, <2>5, ConsumesBoth
  <2> QED
    BY <1>1, <2>1, <2>3, <2>6 DEF r0
<1>3. CASE format # "csv"
  <2>1. X!Header = << >> /\ HeaderRow = << >>
    BY <1>3 DEF X!Header, HeaderRow
  <2> QED
    BY <1>1, <2>1, ConsumesNothing
<1> QED
  BY <1>2, <1>3

LEMMA ShownIsRow ==
  ASSUME NEW i \in DOMAIN visible
  PROVE  X!Shown(i) = X!ExportRow(history[visible[i]])
BY DEF X!Shown, X!ExportRow, X!event_process_name, X!process_name, X!argument_text, X!Known

LEMMA RowsTyped ==
  ASSUME visible \in Seq(DOMAIN history)
  PROVE  \E U : /\ HeaderRow \in Seq(U) /\ ShownRows \in Seq(U)
                /\ Len(ShownRows) = Len(visible)
                /\ \A i \in 1..Len(visible) : ShownRows[i] = X!Shown(i)
<1> DEFINE n == Len(visible)
           U == {<<<<"header">>>>} \cup {X!Shown(i) : i \in DOMAIN visible}
<1>1. n \in Nat /\ DOMAIN visible = 1..n
  BY LenProperties
<1>2. HeaderRow \in Seq(U)
  <2>1. <<<<"header">>>> \in U
    OBVIOUS
  <2> HIDE DEF U
  <2>2. CASE format = "csv"
    BY <2>1, <2>2 DEF HeaderRow
  <2>3. CASE format # "csv"
    BY <2>3 DEF HeaderRow
  <2> QED
    BY <2>2, <2>3
<1>3. ShownRows \in [1..n -> U] /\ \A i \in 1..n : ShownRows[i] = X!Shown(i)
  BY <1>1 DEF ShownRows
<1> HIDE DEF U, n
<1>4. ShownRows \in Seq(U) /\ Len(ShownRows) = n
  BY <1>1, <1>3, SeqDef, LenProperties
<1> QED
  BY <1>2, <1>3, <1>4 DEF n

LEMMA RowReadable ==
  ASSUME history \in Histories, visible \in Seq(DOMAIN history), NEW i \in 1..Len(visible),
         format = "jsonl" => X!Printable, format \in {"csv", "jsonl"}
  PROVE  LET e == history[visible[i]] IN
           /\ X!IsText(e.name) /\ e.pid \notin Special
           /\ \A k \in 1..4 : Plain(X!ExportRow(e)[k])
<1> DEFINE e == history[visible[i]]
<1>1. visible[i] \in DOMAIN history /\ i \in DOMAIN visible
  BY ElementOfSeq, LenProperties
<1>2. X!IsText(e.name) /\ e.pid \notin {X!Quote, X!Escape, X!Comma, X!Newline}
  BY <1>1, PartsAssumption, Zenon DEF X!ExportAssumption
<1>3. X!Shown(i) = X!ExportRow(e)
  BY <1>1, ShownIsRow
<1>4. DOMAIN X!Shown(i) = 1..4
  BY DEF X!Shown
<1> HIDE DEF e
<1>5. \A k \in 1..4 : Plain(X!ExportRow(e)[k])
  <2> SUFFICES ASSUME NEW k \in 1..4, format # "csv", NEW j \in DOMAIN X!ExportRow(e)[k]
               PROVE  X!ExportRow(e)[k][j] \notin Controls
    BY DEF Plain
  <2>1. X!ToSet(X!Shown(i)[k]) \cap Controls = {}
    BY <1>1, <1>4, Zenon DEF X!Printable
  <2> QED
    BY <1>3, <2>1 DEF X!ToSet
<1> QED
  BY <1>2, <1>5 DEF Special, e

LEMMA FileRead ==
  ASSUME history \in Histories, visible \in Seq(DOMAIN history),
         format = "jsonl" => X!Printable, format \in {"csv", "jsonl"}
  PROVE  /\ Consumes(X!Nothing, All, At("plain", << >>, << >>, HeaderRow \o ShownRows))
         /\ X!IsText(All)
<1> DEFINE n == Len(visible)
<1>1. PICK U : /\ HeaderRow \in Seq(U) /\ ShownRows \in Seq(U)
               /\ Len(ShownRows) = n
               /\ \A i \in 1..n : ShownRows[i] = X!Shown(i)
  BY RowsTyped
<1>2. \A i \in DOMAIN history : X!IsText(history[i].name)
  BY PartsAssumption, Zenon DEF X!ExportAssumption
<1>3. /\ n \in Nat /\ DOMAIN visible = 1..n
      /\ Lines \in Seq(Seq(Characters)) /\ Len(Lines) = n
      /\ \A i \in 1..n : Lines[i] = X!Line(history[visible[i]])
      /\ X!Header \in Seq(Characters)
  BY <1>2, LinesTyped
<1> HIDE DEF n
<1>4. PICK f : Sums(Characters, Lines, f) /\ X!FlattenSeq(Lines) = f[n]
  BY <1>3, FlattenIsSum
<1>5. /\ f \in [0..n -> Seq(Characters)] /\ f[0] = << >>
      /\ \A i \in 1..n : f[i] = f[i - 1] \o Lines[i]
  BY <1>3, <1>4 DEF Sums
<1> DEFINE final == HeaderRow \o ShownRows
           h == Len(HeaderRow)
           after(k) == At("plain", << >>, << >>, SubSeq(final, 1, h + k))
<1>6. /\ h \in Nat /\ final \in Seq(U) /\ Len(final) = h + n
      /\ \A i \in 1..n : final[h + i] = X!Shown(i)
  <2>1. h \in Nat
    BY <1>1, LenProperties
  <2>2. /\ final \in Seq(U) /\ Len(final) = h + n
        /\ \A i \in 1..(h + n) : final[i] = IF i <= h THEN HeaderRow[i] ELSE ShownRows[i - h]
    BY <1>1, ConcatProperties
  <2> HIDE DEF final, h
  <2>3. ASSUME NEW i \in 1..n
        PROVE  final[h + i] = X!Shown(i)
    <3>1. h + i \in 1..(h + n) /\ ~(h + i <= h) /\ (h + i) - h = i
      BY <1>3, <2>1
    <3> QED
      BY <1>1, <2>2, <3>1
  <2> QED
    BY <2>1, <2>2, <2>3
<1>7. SubSeq(final, 1, h) = HeaderRow
  <2>1. CASE h = 0
    <3>1. HeaderRow = << >>
      BY <1>1, <2>1, EmptySeq
    <3>2. SubSeq(final, 1, 0) = << >>
      BY <1>6, PrefixGrows
    <3> QED
      BY <2>1, <3>1, <3>2
  <2>2. CASE h # 0
    <3>1. 1 \in 1..h /\ h \in 1..h
      BY <1>6, <2>2
    <3>2. SubSeq(final, 1, h) = SubSeq(HeaderRow, 1, h)
      BY <1>1, <3>1, SubSeqOfConcat1
    <3> QED
      BY <1>1, <3>2, SubSeqFull
  <2> QED
    BY <2>1, <2>2
<1> HIDE DEF final, h
<1>8. /\ after(0) = At("plain", << >>, << >>, HeaderRow)
      /\ after(n) = At("plain", << >>, << >>, final)
      /\ \A k \in 0..(n - 1) :
           after(k + 1) = At("plain", << >>, << >>, Append(SubSeq(final, 1, h + k), X!Shown(k + 1)))
  <2>1. h + 0 = h /\ SubSeq(final, 1, h + n) = final
    BY <1>6, PrefixGrows
  <2>2. ASSUME NEW k \in 0..(n - 1)
        PROVE  SubSeq(final, 1, h + (k + 1)) = Append(SubSeq(final, 1, h + k), X!Shown(k + 1))
    <3>1. /\ h + k \in 0..(Len(final) - 1) /\ (h + k) + 1 = h + (k + 1)
          /\ k + 1 \in 1..n
      BY <1>3, <1>6
    <3>2. Append(SubSeq(final, 1, h + k), final[(h + k) + 1]) = SubSeq(final, 1, (h + k) + 1)
      BY <1>6, <3>1, PrefixGrows
    <3>3. final[h + (k + 1)] = X!Shown(k + 1)
      BY <1>6, <3>1
    <3> QED
      BY <3>1, <3>2, <3>3
  <2> QED
    BY <1>7, <2>1, <2>2
<1> HIDE DEF after
<1> DEFINE A == {k \in 0..n : Consumes(X!Nothing, X!Header \o f[k], after(k))}
<1>9. 0 \in A
  <2>1. X!Header \o f[0] = X!Header
    BY <1>3, <1>5, ConcatEmptySeq
  <2>2. Consumes(X!Nothing, X!Header \o f[0], after(0))
    BY <1>8, <2>1, HeaderRead
  <2>3. 0 \in 0..n
    BY <1>3
  <2> QED
    BY <2>2, <2>3
<1>10. ASSUME NEW k \in 0..(n - 1), k \in A
       PROVE  k + 1 \in A
  <2>1. k \in 0..n /\ k + 1 \in 1..n /\ k + 1 \in 0..n /\ (k + 1) - 1 = k
    BY <1>3
  <2>2. f[k] \in Seq(Characters) /\ Lines[k + 1] \in Seq(Characters)
    BY <1>3, <1>5, <2>1, ElementOfSeq
  <2>3. X!Header \o f[k + 1] = (X!Header \o f[k]) \o Lines[k + 1]
    <3>1. f[k + 1] = f[(k + 1) - 1] \o Lines[k + 1]
      BY <1>5, <2>1
    <3>2. Regrouped(X!Header, f[k], Lines[k + 1])
      BY <1>3, <2>2, Regroup
    <3> QED
      BY <2>1, <3>1, <3>2 DEF Regrouped
  <2>4. X!IsText(X!Header \o f[k]) /\ X!IsText(Lines[k + 1])
    BY <1>3, <2>2, SeqIsText, TextConcat
  <2> DEFINE e == history[visible[k + 1]]
             recs == SubSeq(final, 1, h + k)
  <2>5. Consumes(after(k), Lines[k + 1], after(k + 1))
    <3>1. /\ X!IsText(e.name) /\ e.pid \notin Special
          /\ \A j \in 1..4 : Plain(X!ExportRow(e)[j])
      BY <2>1, RowReadable DEF n
    <3>2. X!Shown(k + 1) = X!ExportRow(e) /\ Lines[k + 1] = X!Line(e)
      BY <1>3, <2>1, ShownIsRow
    <3> HIDE DEF e, recs
    <3>3. Consumes(At("plain", << >>, << >>, recs), X!Line(e),
                   At("plain", << >>, << >>, Append(recs, X!ExportRow(e))))
      BY <3>1, LineRead
    <3>4. after(k) = At("plain", << >>, << >>, recs)
      BY DEF after, recs
    <3>5. after(k + 1) = At("plain", << >>, << >>, Append(recs, X!Shown(k + 1)))
      BY <1>8 DEF recs
    <3> QED
      BY <3>2, <3>3, <3>4, <3>5
  <2>6. Consumes(X!Nothing, (X!Header \o f[k]) \o Lines[k + 1], after(k + 1))
    BY <1>10, <2>4, <2>5, ConsumesBoth
  <2> QED
    BY <2>1, <2>3, <2>6
<1> HIDE DEF A
<1>11. \A k \in 0..n : k \in A
  BY <1>3, <1>9, <1>10, UpTo
<1>12. Consumes(X!Nothing, X!Header \o f[n], after(n))
  BY <1>3, <1>11 DEF A
<1>13. X!IsText(X!Header \o f[n])
  BY <1>3, <1>5, SeqIsText, TextConcat
<1> QED
  BY <1>4, <1>8, <1>12, <1>13 DEF All, final

(* What was saved, and not cut off by a full disk, is all of the rows.     *)
SavedInv ==
  /\ history \in Histories /\ format \in X!Formats
  /\ status = "saved" /\ ~full => file = All

LEMMA SavedInit == Init => SavedInv
BY DEF Init, X!Init, SavedInv

LEMMA SavedKeeps ==
  ASSUME SavedInv, ExportInv, X!Next
  PROVE  SavedInv'
<1>1. UNCHANGED <<history, visible, format>> /\ status = ""
  BY DEF X!Next, X!Create, X!WriteRow, X!WriteFails, X!Finish, X!chosen
<1>2. All' = All
  BY <1>1, SameLines
<1>3. CASE X!Finish
  <2>1. /\ next = Len(visible) + 1 /\ status = ""
        /\ \E m \in 0..Len(buffer) :
             file' = file \o SubSeq(buffer, 1, m) /\ full' = (m < Len(buffer))
    BY <1>3 DEF X!Finish
  <2>2. PICK m \in 0..Len(buffer) :
          file' = file \o SubSeq(buffer, 1, m) /\ full' = (m < Len(buffer))
    BY <2>1, Zenon
  <2>3. /\ visible \in Seq(DOMAIN history) /\ buffer \in Seq(Characters)
        /\ \A i \in DOMAIN history : X!IsText(history[i].name)
    BY DEF ExportInv
  <2>4. Len(visible) \in Nat /\ Len(Lines) = Len(visible) /\ Len(buffer) \in Nat
    BY <2>3, LinesTyped, LenProperties
  <2>5. next = Len(visible) + 1
    BY <2>1, Zenon
  <2>6. next # 0 /\ next - 1 = Len(Lines)
    BY <2>4, <2>5
  <2>7. PICK f : /\ X!FlattenSeq(Lines) = f[Len(Lines)]
                 /\ file \o buffer = X!Header \o f[next - 1]
    BY <2>1, <2>6 DEF ExportInv
  <2>8. file \o buffer = All
    BY <2>6, <2>7 DEF All
  <2>9. ASSUME ~full'
        PROVE  file' = All
    <3>1. ~(m < Len(buffer))
      BY <2>2, <2>9, Zenon
    <3>2. m = Len(buffer)
      BY <2>2, <2>4, <3>1
    <3>3. SubSeq(buffer, 1, Len(buffer)) = buffer
      BY <2>3, SubSeqFull
    <3> QED
      BY <2>2, <2>8, <3>2, <3>3
  <2> QED
    BY <1>1, <1>2, <2>9 DEF SavedInv
<1>4. CASE ~X!Finish
  <2>1. status' \in {"", "failed"}
    BY <1>1, <1>4 DEF X!Next, X!Create, X!WriteRow, X!WriteFails
  <2> QED
    BY <1>1, <2>1 DEF SavedInv
<1> QED
  BY <1>3, <1>4

LEMMA SavedStays ==
  ASSUME SavedInv, UNCHANGED exportVars
  PROVE  SavedInv'
<1>1. All' = All
  BY SameLines DEF exportVars
<1> QED
  BY <1>1 DEF SavedInv, exportVars

(* What a reader finds in a file is what it has when it has consumed it.   *)
LEMMA RecordsRead ==
  ASSUME SavedInv, ExportInv, X!Written, format \in {"csv", "jsonl"},
         format = "jsonl" => X!Printable
  PROVE  X!Records = HeaderRow \o ShownRows
<1>1. history \in Histories /\ file = All
  BY DEF SavedInv, X!Written
<1>2. visible \in Seq(DOMAIN history) /\ file \in Seq(Characters)
  BY DEF ExportInv
<1>3. Len(file) \in Nat
  BY <1>2, LenProperties
<1> DEFINE end == At("plain", << >>, << >>, HeaderRow \o ShownRows)
<1>4. Consumes(X!Nothing, file, end)
  BY <1>1, <1>2, FileRead
<1>5. end.records = HeaderRow \o ShownRows
  BY DEF At
<1> HIDE DEF end
<1>6. X!Records = end.records
  BY <1>3, <1>4, ConsumedDecides
<1> QED
  BY <1>5, <1>6

(* For any histories, tables of names and arguments and size of the        *)
(* buffer: a reader of a CSV or JSONL file that was written to its end     *)
(* finds the rows of the view, each with the words that the view shows,    *)
(* whatever quotes, commas, backslashes and line ends are in them (for     *)
(* JSONL: no control character).                                           *)
THEOREM SavedFileSaysWhatIsShown == Spec => []FileSaysWhatIsShown
<1> DEFINE vars == <<part, filterVars, targetVars, exportVars, timeVars, iconVars>>
<1>1. ExportInv /\ [Next]_vars => ExportInv'
  <2> SUFFICES ASSUME ExportInv, [Next]_vars
               PROVE  ExportInv'
    OBVIOUS
  <2>1. X!Next \/ UNCHANGED exportVars
    BY DEF Next, RulesStep, TargetsStep, ExportStep, TimesStep, IconsStep
  <2> QED
    BY <2>1, ExportKeeps, ExportStays
<1>2. SavedInv /\ ExportInv /\ [Next]_vars => SavedInv'
  <2> SUFFICES ASSUME SavedInv, ExportInv, [Next]_vars
               PROVE  SavedInv'
    OBVIOUS
  <2>1. X!Next \/ UNCHANGED exportVars
    BY DEF Next, RulesStep, TargetsStep, ExportStep, TimesStep, IconsStep
  <2> QED
    BY <2>1, SavedKeeps, SavedStays
<1>3. SavedInv /\ ExportInv => FileSaysWhatIsShown
  <2> SUFFICES ASSUME SavedInv, ExportInv, X!Written
               PROVE  FileSaysWhatIsShown
    BY DEF FileSaysWhatIsShown, X!CsvSaysWhatIsShown, X!JsonSaysWhatIsShown
  <2>1. CASE format = "csv"
    <3>1. X!Records = HeaderRow \o ShownRows
      BY <2>1, RecordsRead
    <3> QED
      BY <2>1, <3>1 DEF HeaderRow, ShownRows, FileSaysWhatIsShown,
                        X!CsvSaysWhatIsShown, X!JsonSaysWhatIsShown
  <2>2. CASE format = "jsonl"
    <3> SUFFICES ASSUME X!Printable
                 PROVE  X!Records = ShownRows
      BY <2>2 DEF ShownRows, FileSaysWhatIsShown,
                  X!CsvSaysWhatIsShown, X!JsonSaysWhatIsShown
    <3>1. X!Records = HeaderRow \o ShownRows
      BY <2>2, RecordsRead
    <3>2. HeaderRow = << >>
      BY <2>2 DEF HeaderRow
    <3>3. visible \in Seq(DOMAIN history)
      BY DEF ExportInv
    <3>4. PICK U : ShownRows \in Seq(U)
      BY <3>3, RowsTyped
    <3> QED
      BY <3>1, <3>2, <3>4, ConcatEmptySeq
  <2>3. CASE format \notin {"csv", "jsonl"}
    BY <2>3 DEF FileSaysWhatIsShown, X!CsvSaysWhatIsShown, X!JsonSaysWhatIsShown
  <2> QED
    BY <2>1, <2>2, <2>3
<1>4. Spec => []ExportInv
  BY ExportInit, <1>1, PTL DEF Spec
<1>5. Spec => [](ExportInv /\ SavedInv)
  BY SavedInit, <1>2, <1>4, PTL DEF Spec
<1> QED
  BY <1>3, <1>5, PTL
-----------------------------------------------------------------------------
(* The capture targets.  Names.                                            *)

LEMMA NameType ==
  ASSUME NEW name, T!IsName(name)
  PROVE  /\ Len(name) \in Nat /\ DOMAIN name = 1..Len(name)
         /\ \E S : name \in Seq(S)
         /\ \A i \in 1..Len(name) : name[i] # T!NUL
<1> DEFINE S == {name[i] : i \in DOMAIN name} \ {T!NUL}
<1>1. name \in Seq(S)
  BY DEF T!IsName
<1>2. \A i \in 1..Len(name) : name[i] \in S
  <2> HIDE DEF S
  <2> QED
    BY <1>1, ElementOfSeq
<1>3. Len(name) \in Nat /\ DOMAIN name = 1..Len(name)
  <2> HIDE DEF S
  <2> QED
    BY <1>1, LenProperties
<1> QED
  BY <1>1, <1>2, <1>3

(* The first n elements, and when two beginnings are the same.             *)
LEMMA Cuts ==
  ASSUME NEW S, NEW s \in Seq(S), NEW n \in 0..Len(s)
  PROVE  /\ SubSeq(s, 1, n) \in Seq(S) /\ Len(SubSeq(s, 1, n)) = n
         /\ \A i \in 1..n : SubSeq(s, 1, n)[i] = s[i]
<1>1. n \in Nat /\ \A i \in 1..n : s[i] \in S
  <2>1. Len(s) \in Nat
    BY LenProperties
  <2>2. n \in Nat /\ \A i \in 1..n : i \in 1..Len(s)
    BY <2>1
  <2> QED
    BY <2>2, ElementOfSeq
<1>2. /\ SubSeq(s, 1, n) \in Seq(S)
      /\ Len(SubSeq(s, 1, n)) = IF 1 <= n THEN n - 1 + 1 ELSE 0
      /\ \A i \in 1..(n - 1 + 1) : SubSeq(s, 1, n)[i] = s[1 + i - 1]
  BY <1>1, SubSeqProperties
<1>3. n - 1 + 1 = n /\ \A i \in 1..n : 1 + i - 1 = i
  BY <1>1
<1> QED
  BY <1>1, <1>2, <1>3

LEMMA SameBeginning ==
  ASSUME NEW S, NEW s \in Seq(S), NEW R, NEW t \in Seq(R), NEW n \in Nat,
         n <= Len(s), n <= Len(t)
  PROVE  SubSeq(s, 1, n) = SubSeq(t, 1, n) <=> \A i \in 1..n : s[i] = t[i]
<1> DEFINE a == SubSeq(s, 1, n)
           b == SubSeq(t, 1, n)
<1>1. n \in 0..Len(s) /\ n \in 0..Len(t)
  BY LenProperties
<1>2. /\ a \in Seq(S) /\ Len(a) = n /\ \A i \in 1..n : a[i] = s[i]
      /\ b \in Seq(R) /\ Len(b) = n /\ \A i \in 1..n : b[i] = t[i]
  BY <1>1, Cuts
<1> HIDE DEF a, b
<1>3. a = [i \in 1..n |-> a[i]] /\ b = [i \in 1..n |-> b[i]]
  BY <1>2, LenProperties
<1>4. a = b <=> \A i \in 1..n : a[i] = b[i]
  BY <1>3
<1> QED
  BY <1>2, <1>4 DEF a, b

EndsInExe(name, n) ==
  /\ n >= 4
  /\ name[n - 3] = "." /\ name[n - 2] = "e" /\ name[n - 1] = "x" /\ name[n] = "e"

LEMMA SuffixMeans ==
  ASSUME NEW S, NEW name \in Seq(S)
  PROVE  T!IsSuffix(T!Exe, name) <=> EndsInExe(name, Len(name))
<1> DEFINE n == Len(name)
           back == T!Reverse(name)
           exe == T!Reverse(T!Exe)
<1>1. n \in Nat
  BY LenProperties
<1>2. /\ back = [i \in 1..n |-> name[(n - i) + 1]]
      /\ back \in [1..n -> S]
  <2>1. back = [i \in 1..n |-> name[(n - i) + 1]]
    BY DEF T!Reverse
  <2>2. \A i \in 1..n : (n - i) + 1 \in 1..n
    BY <1>1
  <2>3. \A i \in 1..n : name[i] \in S
    BY ElementOfSeq
  <2> QED
    BY <2>1, <2>2, <2>3
<1>3. back \in Seq(S) /\ Len(back) = n
  BY <1>1, <1>2, SeqDef, LenProperties
<1>4. exe = <<"e", "x", "e", ".">>
  BY DEF T!Reverse, T!Exe
<1> HIDE DEF back, exe
<1>5. Len(exe) = 4 /\ exe[1] = "e" /\ exe[2] = "x" /\ exe[3] = "e" /\ exe[4] = "."
  BY <1>4
<1>6. T!IsSuffix(T!Exe, name) <=> 4 <= n /\ SubSeq(exe, 1, 4) = SubSeq(back, 1, 4)
  BY <1>3, <1>5 DEF T!IsSuffix, T!IsPrefix, back, exe
<1>7. ASSUME n >= 4
      PROVE  SubSeq(exe, 1, 4) = SubSeq(back, 1, 4)
               <=> back[1] = "e" /\ back[2] = "x" /\ back[3] = "e" /\ back[4] = "."
  <2>1. exe \in Seq({"e", "x", "."})
    BY <1>4
  <2>2. SubSeq(exe, 1, 4) = SubSeq(back, 1, 4) <=> \A i \in 1..4 : exe[i] = back[i]
    BY <1>3, <1>5, <1>7, <2>1, SameBeginning
  <2> QED
    BY <1>5, <2>2
<1>8. ASSUME n >= 4
      PROVE  /\ back[1] = name[n] /\ back[2] = name[n - 1]
             /\ back[3] = name[n - 2] /\ back[4] = name[n - 3]
  <2>1. \A i \in 1..n : back[i] = name[(n - i) + 1]
    BY <1>2
  <2>2. 1 \in 1..n /\ 2 \in 1..n /\ 3 \in 1..n /\ 4 \in 1..n
    BY <1>1, <1>8
  <2> QED
    BY <1>1, <2>1, <2>2
<1> QED
  BY <1>1, <1>6, <1>7, <1>8 DEF EndsInExe

LEMMA BaseMeans ==
  ASSUME NEW S, NEW name \in Seq(S)
  PROVE  LET base == T!WithoutExe(name) IN
         /\ base \in Seq(S) /\ Len(base) \in Nat
         /\ \A i \in 1..Len(base) : base[i] = name[i]
         /\ \/ base = name /\ ~EndsInExe(name, Len(name))
            \/ Len(name) = Len(base) + 4 /\ EndsInExe(name, Len(name))
<1> DEFINE n == Len(name)
           base == T!WithoutExe(name)
<1>1. n \in Nat
  BY LenProperties
<1>2. base = IF EndsInExe(name, n) THEN SubSeq(name, 1, n - 4) ELSE name
  <2>1. Len(T!Exe) = 4
    BY DEF T!Exe
  <2> QED
    BY <2>1, SuffixMeans DEF T!WithoutExe
<1>3. CASE EndsInExe(name, n)
  <2>1. n - 4 \in 0..n
    BY <1>1, <1>3 DEF EndsInExe
  <2>2. base \in Seq(S) /\ Len(base) = n - 4 /\ \A i \in 1..(n - 4) : base[i] = name[i]
    BY <1>2, <1>3, <2>1, Cuts
  <2> HIDE DEF n, base
  <2>3. n = Len(base) + 4 /\ Len(base) \in Nat
    BY <1>1, <2>1, <2>2
  <2> QED
    BY <1>3, <2>2, <2>3 DEF n, base
<1>4. CASE ~EndsInExe(name, n)
  <2>1. base = name
    BY <1>2, <1>4
  <2> QED
    BY <1>1, <1>4, <2>1
<1> QED
  BY <1>3, <1>4

(* What is left of a name goes on with a beginning of the suffix.          *)
Follows(left, base) ==
  /\ Len(left) - Len(base) \in 0..4
  /\ \A i \in 1..Len(base) : left[i] = base[i]
  /\ \A j \in 1..(Len(left) - Len(base)) : left[Len(base) + j] = T!Exe[j]

LEMMA ExeType ==
  /\ T!Exe \in Seq({".", "e", "x"}) /\ Len(T!Exe) = 4
  /\ T!Exe[1] = "." /\ T!Exe[2] = "e" /\ T!Exe[3] = "x" /\ T!Exe[4] = "e"
BY DEF T!Exe

LEMMA EqualMeans ==
  ASSUME NEW S, NEW left \in Seq(S), NEW R, NEW right \in Seq(R)
  PROVE  T!EqualProcessName(left, right) <=> Follows(left, right)
<1> DEFINE n == Len(left)
           m == Len(right)
           rest == SubSeq(left, m + 1, n)
<1>1. n \in Nat /\ m \in Nat
  BY LenProperties
<1>2. T!EqualProcessName(left, right) <=> T!IsPrefix(right, left) /\ T!IsPrefix(rest, T!Exe)
  BY DEF T!EqualProcessName
<1>3. T!IsPrefix(right, left) <=> m <= n /\ \A i \in 1..m : left[i] = right[i]
  <2>1. T!IsPrefix(right, left) <=> m <= n /\ SubSeq(right, 1, m) = SubSeq(left, 1, m)
    BY DEF T!IsPrefix
  <2>2. m <= n => (SubSeq(right, 1, m) = SubSeq(left, 1, m) <=> \A i \in 1..m : right[i] = left[i])
    BY <1>1, SameBeginning
  <2> QED
    BY <2>1, <2>2
<1>4. ASSUME m <= n
      PROVE  T!IsPrefix(rest, T!Exe)
               <=> n - m \in 0..4 /\ \A j \in 1..(n - m) : left[m + j] = T!Exe[j]
  <2>1. /\ rest \in Seq(S) /\ Len(rest) = n - m
        /\ \A j \in 1..(n - m) : rest[j] = left[m + j]
    <3>1. \A i \in (m + 1)..n : left[i] \in S
      <4>1. \A i \in (m + 1)..n : i \in 1..n
        BY <1>1
      <4> QED
        BY <4>1, ElementOfSeq
    <3>2. /\ rest \in Seq(S)
          /\ Len(rest) = IF m + 1 <= n THEN n - (m + 1) + 1 ELSE 0
          /\ \A j \in 1..(n - (m + 1) + 1) : rest[j] = left[(m + 1) + j - 1]
      <4>1. m + 1 \in Int /\ n \in Int
        BY <1>1
      <4> QED
        BY <3>1, <4>1, SubSeqProperties
    <3>3. n - (m + 1) + 1 = n - m /\ \A j \in 1..(n - m) : (m + 1) + j - 1 = m + j
      BY <1>1
    <3> HIDE DEF n, m, rest
    <3> QED
      BY <1>1, <1>4, <3>2, <3>3
  <2> HIDE DEF n, m, rest
  <2>2. T!IsPrefix(rest, T!Exe)
          <=> n - m <= 4 /\ SubSeq(rest, 1, n - m) = SubSeq(T!Exe, 1, n - m)
    BY <2>1, ExeType DEF T!IsPrefix
  <2>3. n - m <= 4 => (SubSeq(rest, 1, n - m) = SubSeq(T!Exe, 1, n - m)
                         <=> \A j \in 1..(n - m) : rest[j] = T!Exe[j])
    <3>1. n - m \in Nat
      BY <1>1, <1>4
    <3> QED
      BY <2>1, <3>1, ExeType, SameBeginning
  <2> QED
    BY <1>1, <1>4, <2>1, <2>2, <2>3
<1> HIDE DEF n, m, rest
<1>5. n - m \in 0..4 => m <= n
  BY <1>1
<1> QED
  BY <1>2, <1>3, <1>4, <1>5 DEF Follows, n, m

LEMMA CutChars == ImageChars \in Nat /\ NameBytes \in Nat /\ MaxTargets \in Nat /\ ImageChars + 1 < NameBytes
  BY PartsAssumption DEF T!TargetAssumption

LEMMA KernelKeeps ==
  ASSUME NEW S, NEW process, process.file \in Seq(S), Len(T!WithoutExe(process.file)) < ImageChars
  PROVE  LET left == T!NormalizeProcessName(T!ImageFileName(process.file)) IN
         /\ left \in Seq(S) /\ Len(left) <= ImageChars
         /\ Follows(left, T!WithoutExe(process.file))
<1> DEFINE name  == process.file
           base  == T!WithoutExe(name)
           kept == T!ImageFileName(name)
           left  == T!WithoutExe(kept)
           n == Len(name)
           b == Len(base)
           m == IF n < ImageChars THEN n ELSE ImageChars
<1>1. n \in Nat /\ m \in 0..n /\ m <= ImageChars
  BY LenProperties, CutChars
<1>2. kept \in Seq(S) /\ Len(kept) = m /\ \A i \in 1..m : kept[i] = name[i]
  <2>1. kept = SubSeq(name, 1, m)
    BY DEF T!ImageFileName
  <2> HIDE DEF n, m, kept
  <2> QED
    BY <1>1, <2>1, Cuts DEF n
<1>3. /\ base \in Seq(S) /\ b \in Nat /\ \A i \in 1..b : base[i] = name[i]
      /\ \/ base = name /\ ~EndsInExe(name, n)
         \/ n = b + 4 /\ EndsInExe(name, n)
  BY BaseMeans
<1>4. /\ left \in Seq(S) /\ Len(left) \in Nat
      /\ \A i \in 1..Len(left) : left[i] = kept[i]
      /\ \/ left = kept /\ ~EndsInExe(kept, m)
         \/ m = Len(left) + 4 /\ EndsInExe(kept, m)
  BY <1>2, BaseMeans
<1>5. b < ImageChars
  OBVIOUS
<1>6. CASE base = name /\ ~EndsInExe(name, n)
  <2>1. m = n /\ b = n
    BY <1>5, <1>6
  <2>2. ~EndsInExe(kept, m)
    <3> HIDE DEF kept, n, m
    <3> QED
      BY <1>1, <1>2, <1>6, <2>1 DEF EndsInExe
  <2>3. left = kept
    BY <1>4, <2>2
  <2> HIDE DEF kept, n, m, left, base, b
  <2>4. Follows(left, base)
    BY <1>1, <1>2, <1>6, <2>1, <2>3 DEF Follows, b
  <2> QED
    BY <1>1, <1>2, <1>4, <2>3, <2>4 DEF left, kept, base, T!NormalizeProcessName
<1>7. CASE n = b + 4 /\ EndsInExe(name, n)
  <2> HIDE DEF kept, n, left, base, b
  <2>1. /\ name[b + 1] = "." /\ name[b + 2] = "e" /\ name[b + 3] = "x" /\ name[b + 4] = "e"
    <3>1. n - 3 = b + 1 /\ n - 2 = b + 2 /\ n - 1 = b + 3
      BY <1>1, <1>3, <1>7
    <3> QED
      BY <1>7, <3>1 DEF EndsInExe
  <2>2. m - b \in 1..4
    BY <1>1, <1>3, <1>5, <1>7, CutChars
  <2> HIDE DEF m
  <2>3. \A j \in 1..(m - b) : kept[b + j] = T!Exe[j]
    <3> TAKE j \in 1..(m - b)
    <3>1. b + j \in 1..m
      BY <1>1, <1>3, <2>2
    <3>2. kept[b + j] = name[b + j]
      BY <1>2, <3>1
    <3>3. j = 1 \/ j = 2 \/ j = 3 \/ j = 4
      BY <2>2
    <3> QED
      BY <2>1, <3>2, <3>3, ExeType
  <2>4. \A i \in 1..b : kept[i] = base[i]
    <3>1. \A i \in 1..b : i \in 1..m
      BY <1>1, <1>3, <2>2
    <3> QED
      BY <1>2, <1>3, <3>1
  <2>5. CASE m - b = 4
    <3>1. EndsInExe(kept, m)
      <4>1. m - 3 = b + 1 /\ m - 2 = b + 2 /\ m - 1 = b + 3 /\ m = b + 4 /\ m >= 4
        BY <1>1, <1>3, <2>5
      <4>2. kept[b + 1] = "." /\ kept[b + 2] = "e" /\ kept[b + 3] = "x" /\ kept[b + 4] = "e"
        BY <2>3, <2>5, ExeType
      <4> QED
        BY <4>1, <4>2 DEF EndsInExe
    <3>2. Len(left) = b
      BY <1>1, <1>3, <1>4, <2>5, <3>1
    <3>3. \A i \in 1..b : left[i] = base[i]
      BY <1>4, <2>4, <3>2
    <3>4. Follows(left, base)
      BY <1>3, <3>2, <3>3 DEF Follows, b
    <3> QED
      BY <1>1, <1>4, <1>3, <1>5, <3>2, <3>4, CutChars DEF left, kept, base, T!NormalizeProcessName
  <2>6. CASE m - b # 4
    <3>1. ~EndsInExe(kept, m)
      <4> SUFFICES ASSUME EndsInExe(kept, m) PROVE FALSE
        OBVIOUS
      <4>1. m - b = 1 \/ m - b = 2 \/ m - b = 3
        BY <2>2, <2>6
      <4>2. kept[m] = "e" /\ kept[m - 1] = "x"
        BY DEF EndsInExe
      <4>3. m = b + (m - b)
        BY <1>1, <1>3
      <4>4. m - b \in 1..(m - b)
        BY <4>1
      <4>5. kept[m] = T!Exe[m - b]
        BY <2>3, <4>3, <4>4
      <4>6. m - b = 2
        BY <4>1, <4>2, <4>5, ExeType
      <4>7. m - 1 = b + 1 /\ 1 \in 1..(m - b)
        BY <1>1, <1>3, <4>6
      <4>8. kept[m - 1] = T!Exe[1]
        BY <2>3, <4>7
      <4> QED
        BY <4>2, <4>8, ExeType
    <3>2. left = kept
      BY <1>4, <3>1
    <3>3. Len(left) = m
      BY <1>2, <3>2
    <3>4. Follows(left, base)
      BY <2>2, <2>3, <2>4, <3>2, <3>3 DEF Follows, b
    <3> QED
      BY <1>1, <1>4, <3>3, <3>4 DEF left, kept, base, T!NormalizeProcessName
  <2> QED
    BY <2>5, <2>6
<1> QED
  BY <1>3, <1>6, <1>7

(* What the driver reads of a name of the window.                          *)
LEMMA TargetRead ==
  ASSUME NEW name, T!IsName(name)
  PROVE  LET read == T!UpToNul(T!encode_kernel_process_name(name)) IN
         /\ \E S : read \in Seq(S)
         /\ Len(read) = IF Len(name) < NameBytes THEN Len(name) ELSE NameBytes - 1
         /\ \A i \in 1..Len(read) : read[i] = name[i]
<1> DEFINE bytes == T!encode_kernel_process_name(name)
           k == IF Len(name) < NameBytes THEN Len(name) ELSE NameBytes - 1
           Ends(n) == /\ \A i \in 1..n : bytes[i] # T!NUL
                      /\ n = Len(bytes) \/ bytes[n + 1] = T!NUL
           c == CHOOSE n \in 0..Len(bytes) : Ends(n)
           S == {name[i] : i \in 1..Len(name)} \cup {T!NUL}
<1>1. Len(name) \in Nat /\ \A i \in 1..Len(name) : name[i] # T!NUL
  BY NameType
<1>2. NameBytes \in Nat /\ NameBytes > 0
  BY CutChars
<1>3. k \in 0..(NameBytes - 1) /\ k <= Len(name)
  BY <1>1, <1>2
<1>4. bytes = [i \in 1..NameBytes |-> IF i <= Len(name) /\ i < NameBytes THEN name[i] ELSE T!NUL]
  BY DEF T!encode_kernel_process_name
<1>5. bytes \in Seq(S) /\ Len(bytes) = NameBytes
  <2>1. bytes \in [1..NameBytes -> S]
    <3> HIDE DEF bytes
    <3> QED
      BY <1>1, <1>2, <1>4
  <2> HIDE DEF bytes, S
  <2> QED
    BY <1>2, <2>1, SeqDef, LenProperties
<1> HIDE DEF bytes, S
<1>6. \A i \in 1..k : bytes[i] = name[i] /\ bytes[i] # T!NUL
  BY <1>1, <1>2, <1>3, <1>4
<1>7. bytes[k + 1] = T!NUL /\ k + 1 \in 1..NameBytes
  BY <1>1, <1>2, <1>3, <1>4
<1> HIDE DEF k
<1>8. k \in 0..Len(bytes) /\ Ends(k)
  BY <1>3, <1>5, <1>6, <1>7
<1>9. ASSUME NEW n \in 0..Len(bytes), Ends(n)
      PROVE  n = k
  <2>1. n \in 0..NameBytes
    BY <1>5
  <2>2. ~(n > k)
    <3> SUFFICES ASSUME n > k PROVE FALSE
      OBVIOUS
    <3>1. k + 1 \in 1..n
      BY <1>3, <2>1
    <3> QED
      BY <1>7, <1>9, <3>1
  <2>3. ~(n < k)
    <3> SUFFICES ASSUME n < k PROVE FALSE
      OBVIOUS
    <3>1. n + 1 \in 1..k /\ n # NameBytes
      BY <1>3, <2>1
    <3>2. bytes[n + 1] = T!NUL
      BY <1>5, <1>9, <3>1
    <3> QED
      BY <1>6, <3>1, <3>2
  <2> QED
    BY <1>3, <2>1, <2>2, <2>3
<1>10. c = k
  <2> HIDE DEF Ends
  <2> QED
    BY <1>8, <1>9
<1>11. T!UpToNul(bytes) = SubSeq(bytes, 1, k)
  <2>1. T!UpToNul(bytes) = SubSeq(bytes, 1, c)
    BY Zenon DEF T!UpToNul
  <2> HIDE DEF c
  <2> QED
    BY <1>10, <2>1
<1>12. /\ SubSeq(bytes, 1, k) \in Seq(S) /\ Len(SubSeq(bytes, 1, k)) = k
       /\ \A i \in 1..k : SubSeq(bytes, 1, k)[i] = bytes[i]
  BY <1>5, <1>8, Cuts
<1> DEFINE read == T!UpToNul(bytes)
<1>13. read \in Seq(S) /\ Len(read) = k /\ \A i \in 1..k : read[i] = name[i]
  BY <1>6, <1>11, <1>12
<1> QED
  BY <1>13 DEF k, bytes

(* Two names that go on to the same third one with beginnings of the       *)
(* suffix differ by one.                                                   *)
LEMMA FollowersAlike ==
  ASSUME NEW S, NEW left \in Seq(S), NEW R, NEW a \in Seq(R), NEW Q, NEW b \in Seq(Q),
         Follows(left, a), Follows(left, b), Len(b) <= Len(a)
  PROVE  T!Alike(a, b) /\ T!Alike(b, a)
<1> DEFINE k == Len(a) - Len(b)
           tail == SubSeq(T!Exe, 1, k)
           W == {".", "e", "x"}
<1>1. Len(left) \in Nat /\ Len(a) \in Nat /\ Len(b) \in Nat
  BY LenProperties
<1>2. /\ Len(left) - Len(a) \in 0..4 /\ Len(left) - Len(b) \in 0..4
      /\ \A i \in 1..Len(a) : left[i] = a[i]
      /\ \A i \in 1..Len(b) : left[i] = b[i]
      /\ \A j \in 1..(Len(left) - Len(b)) : left[Len(b) + j] = T!Exe[j]
  BY DEF Follows
<1>3. k \in 0..4 /\ Len(a) = Len(b) + k
  BY <1>1, <1>2
<1> HIDE DEF k
<1>4. /\ tail \in Seq(W) /\ Len(tail) = k /\ \A j \in 1..k : tail[j] = T!Exe[j]
  BY <1>3, ExeType, Cuts
<1> HIDE DEF tail, W
<1> DEFINE U == R \cup Q \cup W
           c == b \o tail
<1>5. a \in Seq(U) /\ b \in Seq(U) /\ tail \in Seq(U)
  BY <1>4
<1> HIDE DEF U
<1>6. c \in Seq(U) /\ Len(c) = Len(b) + k
      /\ \A i \in 1..(Len(b) + k) : c[i] = IF i <= Len(b) THEN b[i] ELSE tail[i - Len(b)]
  BY <1>4, <1>5, ConcatProperties
<1> HIDE DEF c
<1>7. ASSUME NEW i \in 1..Len(a)
      PROVE  a[i] = c[i]
  <2>1. i \in 1..(Len(b) + k)
    BY <1>3
  <2>2. CASE i <= Len(b)
    <3>1. i \in 1..Len(b)
      BY <1>1, <2>2
    <3> QED
      BY <1>2, <1>6, <2>1, <2>2, <3>1
  <2>3. CASE ~(i <= Len(b))
    <3>1. i - Len(b) \in 1..k /\ i - Len(b) \in 1..(Len(left) - Len(b)) /\ i = Len(b) + (i - Len(b))
      BY <1>1, <1>2, <1>3, <2>3
    <3>2. c[i] = tail[i - Len(b)]
      BY <1>6, <2>1, <2>3
    <3>3. left[i] = T!Exe[i - Len(b)]
      BY <1>2, <3>1
    <3> QED
      BY <1>2, <1>4, <3>1, <3>2, <3>3
  <2> QED
    BY <2>2, <2>3
<1>8. a = c
  BY <1>3, <1>5, <1>6, <1>7, SeqEqual
<1>9. k \in 0..Len(T!Exe)
  BY <1>3, ExeType
<1> QED
  BY <1>8, <1>9 DEF c, tail, T!Alike

(* A name of the window and a process whose name the kernel keeps whole.   *)
LEMMA NameMatch ==
  ASSUME NEW process \in Processes, Len(T!WithoutExe(process.file)) < ImageChars,
         NEW name, T!IsName(name)
  PROVE  LET base == T!WithoutExe(process.file)
             matches == T!EqualProcessName(T!NormalizeProcessName(T!ImageFileName(process.file)),
                                           T!UpToNul(T!encode_kernel_process_name(name)))
         IN /\ name = base => matches
            /\ matches => T!Alike(name, base)
<1> DEFINE whole == process.file
           base == T!WithoutExe(whole)
           left == T!NormalizeProcessName(T!ImageFileName(whole))
           read == T!UpToNul(T!encode_kernel_process_name(name))
           matches == T!EqualProcessName(left, read)
<1>1. PICK S : whole \in Seq(S)
  BY PartsAssumption, NameType DEF T!TargetAssumption
<1>2. /\ left \in Seq(S) /\ Len(left) <= ImageChars /\ Follows(left, base)
  BY <1>1, KernelKeeps
<1>3. base \in Seq(S) /\ Len(base) \in Nat
  BY <1>1, BaseMeans
<1>4. /\ \E R : read \in Seq(R)
      /\ Len(read) = IF Len(name) < NameBytes THEN Len(name) ELSE NameBytes - 1
      /\ \A i \in 1..Len(read) : read[i] = name[i]
  BY TargetRead
<1>5. PICK R : read \in Seq(R)
  BY <1>4
<1>6. PICK Q : name \in Seq(Q)
  BY NameType
<1>7. Len(left) \in Nat /\ Len(name) \in Nat /\ Len(base) < ImageChars
  BY <1>2, <1>6, LenProperties
<1> HIDE DEF left, read, base, whole
<1>8. matches <=> Follows(left, read)
  BY <1>2, <1>5, EqualMeans
<1>9. Len(name) < NameBytes - 1 => read = name
  <2> SUFFICES ASSUME Len(name) < NameBytes - 1 PROVE read = name
    OBVIOUS
  <2>1. Len(read) = Len(name)
    BY <1>4, <1>7, CutChars
  <2>2. read \in Seq(R \cup Q) /\ name \in Seq(R \cup Q)
    BY <1>5, <1>6
  <2> QED
    BY <1>4, <2>1, <2>2, SeqEqual
<1>10. ASSUME name = base PROVE matches
  <2>1. read = name
    BY <1>7, <1>9, <1>10, CutChars
  <2> QED
    BY <1>2, <1>8, <1>10, <2>1
<1>11. ASSUME matches PROVE T!Alike(name, base)
  <2>1. Follows(left, read)
    BY <1>8, <1>11
  <2>2. Len(read) \in Nat /\ Len(read) <= Len(left)
    <3>1. Len(read) \in Nat
      BY <1>5, LenProperties
    <3> QED
      BY <1>7, <2>1, <3>1 DEF Follows
  <2>3. Len(name) < NameBytes - 1
    BY <1>2, <1>4, <1>7, <2>2, CutChars
  <2>4. Follows(left, name)
    BY <1>9, <2>1, <2>3
  <2>5. CASE Len(name) <= Len(base)
    BY <1>2, <1>3, <1>6, <2>4, <2>5, FollowersAlike
  <2>6. CASE Len(base) <= Len(name)
    BY <1>2, <1>3, <1>6, <2>4, <2>6, FollowersAlike
  <2> QED
    BY <1>3, <1>7, <2>5, <2>6
<1> QED
  BY <1>10, <1>11 DEF base, left, read, whole
-----------------------------------------------------------------------------
(* What the loop over the tokens reads.                                    *)

LEMMA AddMeans ==
  ASSUME NEW W, NEW s \in Seq(W), NEW e \in W
  PROVE  /\ T!Add(s, e) \in Seq(W) /\ Len(T!Add(s, e)) <= Len(s) + 1
         /\ \A x : T!Contains(T!Add(s, e), x) <=> T!Contains(s, x) \/ x = e
<1>1. Len(s) \in Nat
  BY LenProperties
<1>2. CASE T!Contains(s, e)
  <2>1. T!Add(s, e) = s
    BY <1>2 DEF T!Add
  <2> QED
    BY <1>1, <1>2, <2>1
<1>3. CASE ~T!Contains(s, e)
  <2> DEFINE t == Append(s, e)
  <2>1. T!Add(s, e) = t
    BY <1>3 DEF T!Add
  <2>2. /\ t \in Seq(W) /\ Len(t) = Len(s) + 1
        /\ \A i \in 1..Len(s) : t[i] = s[i]
        /\ t[Len(s) + 1] = e
    BY AppendProperties
  <2> HIDE DEF t
  <2>3. \A i \in 1..Len(t) : i \in 1..Len(s) \/ i = Len(s) + 1
    BY <1>1, <2>2
  <2>4. \A i \in 1..Len(s) : i \in 1..Len(t)
    BY <1>1, <2>2
  <2>5. Len(s) + 1 \in 1..Len(t)
    BY <1>1, <2>2
  <2>6. \A x : T!Contains(t, x) <=> T!Contains(s, x) \/ x = e
    BY <2>2, <2>3, <2>4, <2>5 DEF T!Contains
  <2> QED
    BY <1>1, <2>1, <2>2, <2>6
<1> QED
  BY <1>2, <1>3

Reads(P, N) == [pids : Seq(P), names : Seq(N), done : BOOLEAN]

HasPid(tokens, i, p) == \E j \in 1..i : tokens[j].type = "number" /\ tokens[j].pid = p
HasName(tokens, i, m) == \E j \in 1..i : tokens[j].type = "name" /\ T!WithoutExe(tokens[j].name) = m

LEMMA ParseTokenType ==
  ASSUME NEW P, NEW N, NEW r \in Reads(P, N), NEW token,
         token.pid \in P, T!WithoutExe(token.name) \in N
  PROVE  T!ParseToken(r, token) \in Reads(P, N)
<1> DEFINE base == T!WithoutExe(token.name)
<1>1. r.pids \in Seq(P) /\ r.names \in Seq(N) /\ r.done \in BOOLEAN
  BY DEF Reads
<1>2. T!Add(r.pids, token.pid) \in Seq(P) /\ T!Add(r.names, base) \in Seq(N)
  BY <1>1, AddMeans
<1>3. << >> \in Seq(P) /\ << >> \in Seq(N)
  OBVIOUS
<1>4. /\ [r EXCEPT !.done = TRUE] \in Reads(P, N)
      /\ [pids |-> << >>, names |-> << >>, done |-> TRUE] \in Reads(P, N)
      /\ [r EXCEPT !.pids = T!Add(@, token.pid)] \in Reads(P, N)
      /\ [r EXCEPT !.names = T!Add(@, base)] \in Reads(P, N)
  BY <1>1, <1>2, <1>3 DEF Reads
<1> DEFINE read == T!ParseToken(r, token)
           ended == r.done \/ Len(r.pids) + Len(r.names) >= MaxTargets
           a == [r EXCEPT !.done = TRUE]
           b == [pids |-> << >>, names |-> << >>, done |-> TRUE]
           c == [r EXCEPT !.pids = T!Add(@, token.pid)]
           d == [r EXCEPT !.names = T!Add(@, base)]
<1>5. read = CASE ended -> a
               [] token.type = "wildcard" -> b
               [] token.type = "number" -> IF token.pid = 0 THEN r ELSE c
               [] OTHER -> IF base = << >> THEN r ELSE d
  BY Zenon DEF T!ParseToken
<1> HIDE DEF base, read, ended, a, b, c, d
<1>6. read \in {r, a, b, c, d}
  BY <1>5
<1> QED
  BY <1>4, <1>6 DEF a, b, c, d, read, base

PidsRead(tokens, i, list) == \A p : T!Contains(list, p) <=> p # 0 /\ HasPid(tokens, i, p)
NamesRead(tokens, i, list) == \A m : T!Contains(list, m) <=> m # << >> /\ HasName(tokens, i, m)
NoMore(a, b, i) == Len(a) + Len(b) <= i

(* After i tokens without a wildcard, and with room for them.              *)
ReadInv(P, N, tokens, i, r) ==
  /\ r \in Reads(P, N) /\ ~r.done
  /\ NoMore(r.pids, r.names, i)
  /\ PidsRead(tokens, i, r.pids) /\ NamesRead(tokens, i, r.names)

LEMMA RoomForOne ==
  ASSUME NEW A, NEW B, NEW a \in Seq(A), NEW b \in Seq(B), NEW i \in Nat, NoMore(a, b, i)
  PROVE  /\ NoMore(a, b, i + 1)
         /\ i < MaxTargets => ~(Len(a) + Len(b) >= MaxTargets)
         /\ \A c \in Seq(A) : Len(c) <= Len(a) + 1 => NoMore(c, b, i + 1)
         /\ \A c \in Seq(B) : Len(c) <= Len(b) + 1 => NoMore(a, c, i + 1)
<1>1. Len(a) \in Nat /\ Len(b) \in Nat /\ MaxTargets \in Nat /\ Len(a) + Len(b) <= i
  BY LenProperties, CutChars DEF NoMore
<1>2. NoMore(a, b, i + 1) /\ (i < MaxTargets => ~(Len(a) + Len(b) >= MaxTargets))
  BY <1>1 DEF NoMore
<1>3. ASSUME NEW c \in Seq(A), Len(c) <= Len(a) + 1
      PROVE  NoMore(c, b, i + 1)
  <2>1. Len(c) \in Nat
    BY LenProperties
  <2> QED
    BY <1>1, <1>3, <2>1 DEF NoMore
<1>4. ASSUME NEW c \in Seq(B), Len(c) <= Len(b) + 1
      PROVE  NoMore(a, c, i + 1)
  <2>1. Len(c) \in Nat
    BY LenProperties
  <2> QED
    BY <1>1, <1>4, <2>1 DEF NoMore
<1> QED
  BY <1>2, <1>3, <1>4

(* One more token, in the terms of the lists.                              *)
LEMMA PidToken ==
  ASSUME NEW tokens, NEW i \in Nat
  PROVE  /\ \A p : HasPid(tokens, i + 1, p)
                  <=> HasPid(tokens, i, p)
                      \/ (tokens[i + 1].type = "number" /\ tokens[i + 1].pid = p)
         /\ \A m : HasName(tokens, i + 1, m)
                  <=> HasName(tokens, i, m)
                      \/ (tokens[i + 1].type = "name" /\ T!WithoutExe(tokens[i + 1].name) = m)
<1>1. \A j \in 1..(i + 1) : j \in 1..i \/ j = i + 1
  OBVIOUS
<1>2. \A j \in 1..i : j \in 1..(i + 1)
  OBVIOUS
<1>3. i + 1 \in 1..(i + 1)
  OBVIOUS
<1>4. \A p : HasPid(tokens, i + 1, p)
          <=> HasPid(tokens, i, p)
              \/ (tokens[i + 1].type = "number" /\ tokens[i + 1].pid = p)
  BY <1>1, <1>2, <1>3 DEF HasPid
<1>5. \A m : HasName(tokens, i + 1, m)
          <=> HasName(tokens, i, m)
              \/ (tokens[i + 1].type = "name" /\ T!WithoutExe(tokens[i + 1].name) = m)
  BY <1>1, <1>2, <1>3 DEF HasName
<1> QED
  BY <1>4, <1>5

LEMMA PidsStep ==
  ASSUME NEW P, NEW list \in Seq(P), NEW tokens, NEW i \in Nat, PidsRead(tokens, i, list),
         tokens[i + 1].pid \in P
  PROVE  /\ tokens[i + 1].type # "number" \/ tokens[i + 1].pid = 0
              => PidsRead(tokens, i + 1, list)
         /\ tokens[i + 1].type = "number" /\ tokens[i + 1].pid # 0
              => PidsRead(tokens, i + 1, T!Add(list, tokens[i + 1].pid))
<1> DEFINE e == tokens[i + 1].pid
<1>1. ASSUME NEW p
      PROVE  /\ T!Contains(list, p) <=> p # 0 /\ HasPid(tokens, i, p)
             /\ HasPid(tokens, i + 1, p)
                  <=> HasPid(tokens, i, p) \/ (tokens[i + 1].type = "number" /\ e = p)
             /\ T!Contains(T!Add(list, e), p) <=> T!Contains(list, p) \/ p = e
  <2>1. T!Contains(list, p) <=> p # 0 /\ HasPid(tokens, i, p)
    BY Zenon DEF PidsRead
  <2>2. HasPid(tokens, i + 1, p)
          <=> HasPid(tokens, i, p) \/ (tokens[i + 1].type = "number" /\ e = p)
    BY PidToken
  <2>3. \A x : T!Contains(T!Add(list, e), x) <=> T!Contains(list, x) \/ x = e
    BY AddMeans
  <2> QED
    BY <2>1, <2>2, <2>3, Zenon
<1> HIDE DEF e
<1>2. ASSUME tokens[i + 1].type # "number" \/ e = 0, NEW p
      PROVE  T!Contains(list, p) <=> p # 0 /\ HasPid(tokens, i + 1, p)
  BY <1>1, <1>2
<1>3. ASSUME tokens[i + 1].type = "number", e # 0, NEW p
      PROVE  T!Contains(T!Add(list, e), p) <=> p # 0 /\ HasPid(tokens, i + 1, p)
  BY <1>1, <1>3
<1> QED
  BY <1>2, <1>3, Zenon DEF PidsRead, e

LEMMA NamesStep ==
  ASSUME NEW N, NEW list \in Seq(N), NEW tokens, NEW i \in Nat, NamesRead(tokens, i, list),
         T!WithoutExe(tokens[i + 1].name) \in N
  PROVE  LET base == T!WithoutExe(tokens[i + 1].name) IN
         /\ tokens[i + 1].type # "name" \/ base = << >>
              => NamesRead(tokens, i + 1, list)
         /\ tokens[i + 1].type = "name" /\ base # << >>
              => NamesRead(tokens, i + 1, T!Add(list, base))
<1> DEFINE e == T!WithoutExe(tokens[i + 1].name)
<1>1. ASSUME NEW m
      PROVE  /\ T!Contains(list, m) <=> m # << >> /\ HasName(tokens, i, m)
             /\ HasName(tokens, i + 1, m)
                  <=> HasName(tokens, i, m) \/ (tokens[i + 1].type = "name" /\ e = m)
             /\ T!Contains(T!Add(list, e), m) <=> T!Contains(list, m) \/ m = e
  <2>1. T!Contains(list, m) <=> m # << >> /\ HasName(tokens, i, m)
    BY Zenon DEF NamesRead
  <2>2. HasName(tokens, i + 1, m)
          <=> HasName(tokens, i, m) \/ (tokens[i + 1].type = "name" /\ e = m)
    BY PidToken
  <2>3. \A x : T!Contains(T!Add(list, e), x) <=> T!Contains(list, x) \/ x = e
    BY AddMeans
  <2> QED
    BY <2>1, <2>2, <2>3, Zenon
<1> HIDE DEF e
<1>2. ASSUME tokens[i + 1].type # "name" \/ e = << >>, NEW m
      PROVE  T!Contains(list, m) <=> m # << >> /\ HasName(tokens, i + 1, m)
  BY <1>1, <1>2
<1>3. ASSUME tokens[i + 1].type = "name", e # << >>, NEW m
      PROVE  T!Contains(T!Add(list, e), m) <=> m # << >> /\ HasName(tokens, i + 1, m)
  BY <1>1, <1>3
<1> QED
  BY <1>2, <1>3, Zenon DEF NamesRead, e

LEMMA ReadStep ==
  ASSUME NEW P, NEW N, NEW tokens, NEW i \in Nat, i < MaxTargets, NEW r,
         ReadInv(P, N, tokens, i, r),
         tokens[i + 1].pid \in P, T!WithoutExe(tokens[i + 1].name) \in N,
         tokens[i + 1].type \in {"number", "name"}
  PROVE  ReadInv(P, N, tokens, i + 1, T!ParseToken(r, tokens[i + 1]))
<1> DEFINE token == tokens[i + 1]
           base == T!WithoutExe(token.name)
           read == T!ParseToken(r, token)
           pids == r.pids
           names == r.names
<1>1. r \in Reads(P, N) /\ ~r.done /\ pids \in Seq(P) /\ names \in Seq(N)
  BY DEF ReadInv, Reads
<1>2. NoMore(pids, names, i) /\ PidsRead(tokens, i, pids) /\ NamesRead(tokens, i, names)
  BY DEF ReadInv
<1>3. /\ token.pid \in P /\ base \in N /\ token.type \in {"number", "name"}
  OBVIOUS
<1>4. read \in Reads(P, N)
  BY <1>1, <1>3, ParseTokenType
<1> DEFINE ended == r.done \/ Len(pids) + Len(names) >= MaxTargets
           onePid == [r EXCEPT !.pids = T!Add(@, token.pid)]
           oneName == [r EXCEPT !.names = T!Add(@, base)]
<1>5. ~ended => read = IF token.type = "number"
                       THEN IF token.pid = 0 THEN r ELSE onePid
                       ELSE IF base = << >> THEN r ELSE oneName
  <2> DEFINE a == [r EXCEPT !.done = TRUE]
             b == [pids |-> << >>, names |-> << >>, done |-> TRUE]
  <2>1. read = CASE ended -> a
                 [] token.type = "wildcard" -> b
                 [] token.type = "number" -> IF token.pid = 0 THEN r ELSE onePid
                 [] OTHER -> IF base = << >> THEN r ELSE oneName
    BY Zenon DEF T!ParseToken
  <2>2. token.type # "wildcard"
    BY <1>3
  <2> HIDE DEF base, read, ended, onePid, oneName, a, b
  <2> QED
    BY <2>1, <2>2
<1>6. /\ token.type # "number" \/ token.pid = 0 => PidsRead(tokens, i + 1, pids)
      /\ token.type = "number" /\ token.pid # 0 => PidsRead(tokens, i + 1, T!Add(pids, token.pid))
  <2> HIDE DEF pids
  <2> QED
    BY <1>1, <1>2, <1>3, PidsStep
<1>7. /\ token.type # "name" \/ base = << >> => NamesRead(tokens, i + 1, names)
      /\ token.type = "name" /\ base # << >> => NamesRead(tokens, i + 1, T!Add(names, base))
  <2> HIDE DEF names
  <2> QED
    BY <1>1, <1>2, <1>3, NamesStep
<1> DEFINE pid == token.pid
<1> HIDE DEF pids, names, base, read, pid
<1>8. /\ T!Add(pids, pid) \in Seq(P) /\ Len(T!Add(pids, pid)) <= Len(pids) + 1
      /\ T!Add(names, base) \in Seq(N) /\ Len(T!Add(names, base)) <= Len(names) + 1
  <2>1. T!Add(pids, pid) \in Seq(P) /\ Len(T!Add(pids, pid)) <= Len(pids) + 1
    <3>1. pid \in P
      BY <1>3 DEF pid
    <3> QED
      BY <1>1, <3>1, AddMeans
  <2>2. T!Add(names, base) \in Seq(N) /\ Len(T!Add(names, base)) <= Len(names) + 1
    BY <1>1, <1>3, AddMeans
  <2> QED
    BY <2>1, <2>2
<1>9. /\ NoMore(pids, names, i + 1) /\ ~(Len(pids) + Len(names) >= MaxTargets)
      /\ NoMore(T!Add(pids, pid), names, i + 1) /\ NoMore(pids, T!Add(names, base), i + 1)
  BY <1>1, <1>2, <1>8, RoomForOne
<1>10. ~ended
  BY <1>1, <1>9
<1> HIDE DEF ended, token
<1>11. CASE token.type = "number" /\ token.pid # 0
  <2>1. read = onePid
    BY <1>5, <1>10, <1>11
  <2>2. read.pids = T!Add(pids, pid) /\ read.names = names /\ read.done = r.done
    BY <1>1, <2>1 DEF Reads, pids, names, pid
  <2>3. PidsRead(tokens, i + 1, T!Add(pids, pid)) /\ NamesRead(tokens, i + 1, names)
    BY <1>6, <1>7, <1>11 DEF pid
  <2> QED
    BY <1>1, <1>4, <1>9, <2>2, <2>3 DEF ReadInv, read, token
<1>12. CASE token.type = "name" /\ base # << >>
  <2>1. read = oneName
    BY <1>5, <1>10, <1>12
  <2>2. read.pids = pids /\ read.names = T!Add(names, base) /\ read.done = r.done
    BY <1>1, <2>1 DEF Reads, pids, names
  <2>3. PidsRead(tokens, i + 1, pids) /\ NamesRead(tokens, i + 1, T!Add(names, base))
    BY <1>6, <1>7, <1>12
  <2> QED
    BY <1>1, <1>4, <1>9, <2>2, <2>3 DEF ReadInv, read, token
<1>13. CASE ~(token.type = "number" /\ token.pid # 0) /\ ~(token.type = "name" /\ base # << >>)
  <2>1. read = r
    BY <1>3, <1>5, <1>10, <1>13
  <2>2. read.pids = pids /\ read.names = names /\ read.done = r.done
    BY <2>1 DEF pids, names
  <2>3. PidsRead(tokens, i + 1, pids) /\ NamesRead(tokens, i + 1, names)
    BY <1>6, <1>7, <1>13
  <2> QED
    BY <1>1, <1>4, <1>9, <2>2, <2>3 DEF ReadInv, read, token
<1> QED
  BY <1>11, <1>12, <1>13

LEMMA ParseMeans ==
  ASSUME NEW tokens \in Texts, Len(tokens) <= MaxTargets,
         \A i \in DOMAIN tokens : tokens[i].type # "wildcard"
  PROVE  \E P, N : ReadInv(P, N, tokens, Len(tokens), T!parse_capture_filters(tokens))
<1> DEFINE n == Len(tokens)
           P == {tokens[j].pid : j \in 1..n}
           N == {T!WithoutExe(tokens[j].name) : j \in 1..n}
           empty == [pids |-> << >>, names |-> << >>, done |-> FALSE]
           Unfolded(g) == [i \in 0..n |-> IF i = 0 THEN empty ELSE T!ParseToken(g[i - 1], tokens[i])]
           read == CHOOSE g : g = Unfolded(g)
           S == Reads(P, N)
<1>1. n \in Nat /\ DOMAIN tokens = 1..n /\ n <= MaxTargets
  <2>1. tokens \in Seq({tokens[i] : i \in DOMAIN tokens})
    BY PartsAssumption DEF T!TargetAssumption
  <2> QED
    BY <2>1, LenProperties
<1>2. \A i \in 1..n : tokens[i].type \in {"number", "name"}
  <2>1. \A i \in DOMAIN tokens : tokens[i].type \in {"wildcard", "number", "name"}
    BY PartsAssumption DEF T!TargetAssumption, T!IsToken
  <2> QED
    BY <1>1, <2>1
<1>3. \A i \in 1..n : tokens[i].pid \in P /\ T!WithoutExe(tokens[i].name) \in N
  OBVIOUS
<1>4. T!parse_capture_filters(tokens) = read[n]
  BY Zenon DEF T!parse_capture_filters
<1> HIDE DEF P, N
<1>5. empty \in S
  BY DEF Reads
<1>6. \A i \in 1..n : \A r \in S : T!ParseToken(r, tokens[i]) \in S
  BY <1>3, ParseTokenType
<1> HIDE DEF S, empty
<1>7. read = Unfolded(read)
  <2> DEFINE G == [i \in 1..n |-> [r \in S |-> T!ParseToken(r, tokens[i])]]
  <2>1. G \in [1..n -> [S -> S]]
    BY <1>6
  <2>2. PICK f \in [0..n -> S] : Iterates(n, empty, G, f)
    <3> HIDE DEF G
    <3> QED
      BY <1>1, <1>5, <2>1, IterationExists
  <2>3. f = [i \in 0..n |-> IF i = 0 THEN empty ELSE G[i][f[i - 1]]]
    BY <2>2 DEF Iterates
  <2>4. \A i \in 0..n : i # 0 => G[i][f[i - 1]] = T!ParseToken(f[i - 1], tokens[i])
    <3> SUFFICES ASSUME NEW i \in 0..n, i # 0
                 PROVE  G[i][f[i - 1]] = T!ParseToken(f[i - 1], tokens[i])
      OBVIOUS
    <3>1. i \in 1..n /\ i - 1 \in 0..n
      BY <1>1
    <3>2. f[i - 1] \in S
      BY <3>1
    <3> QED
      BY <3>1, <3>2
  <2> HIDE DEF G
  <2>5. f = Unfolded(f)
    <3>1. \A i \in 0..n : f[i] = IF i = 0 THEN empty ELSE T!ParseToken(f[i - 1], tokens[i])
      BY <2>3, <2>4
    <3>2. f = [i \in 0..n |-> f[i]]
      OBVIOUS
    <3> QED
      BY <3>1, <3>2
  <2> HIDE DEF Unfolded
  <2> QED
    BY <2>5
<1> HIDE DEF read
<1>8. read[0] = empty /\ \A i \in 1..n : read[i] = T!ParseToken(read[i - 1], tokens[i])
  <2>1. \A i \in 0..n : read[i] = IF i = 0 THEN empty ELSE T!ParseToken(read[i - 1], tokens[i])
    BY <1>7
  <2> QED
    BY <1>1, <2>1
<1> DEFINE A == {m \in Nat : ReadInv(P, N, tokens, m, read[m])}
<1>9. 0 \in A
  <2>1. empty.pids = << >> /\ empty.names = << >> /\ empty.done = FALSE
    BY DEF empty
  <2>2. NoMore(<< >>, << >>, 0)
    BY DEF NoMore
  <2>3. PidsRead(tokens, 0, << >>)
    BY DEF PidsRead, HasPid, T!Contains
  <2>4. NamesRead(tokens, 0, << >>)
    BY DEF NamesRead, HasName, T!Contains
  <2>5. ReadInv(P, N, tokens, 0, empty)
    BY <1>5, <2>1, <2>2, <2>3, <2>4 DEF ReadInv, S
  <2> QED
    BY <1>8, <2>5
<1>10. ASSUME NEW m \in 0..(n - 1), m \in A
       PROVE  m + 1 \in A
  <2>1. m \in Nat /\ m < MaxTargets /\ m + 1 \in 1..n /\ (m + 1) - 1 = m
    BY <1>1, CutChars
  <2>2. ReadInv(P, N, tokens, m, read[m])
    BY <1>10
  <2>3. ReadInv(P, N, tokens, m + 1, T!ParseToken(read[m], tokens[m + 1]))
    BY <1>2, <1>3, <2>1, <2>2, ReadStep
  <2>4. read[m + 1] = T!ParseToken(read[m], tokens[m + 1])
    BY <1>8, <2>1
  <2> QED
    BY <2>1, <2>3, <2>4
<1>11. n \in A
  <2> HIDE DEF A
  <2>1. \A k \in 0..n : k \in A
    BY <1>1, <1>9, <1>10, UpTo
  <2> QED
    BY <1>1, <2>1
<1> QED
  BY <1>4, <1>11
-----------------------------------------------------------------------------
(* The driver has the targets of the text that was applied last.           *)

TargetInv ==
  active_capture_pids # << >> \/ active_capture_names # << >> =>
    /\ text \in Texts
    /\ active_capture_pids = T!parse_capture_filters(text).pids
    /\ active_capture_names = T!parse_capture_filters(text).names
    /\ gTargetPids = T!Cut(active_capture_pids)
    /\ gTargetNames = [i \in DOMAIN T!Cut(active_capture_names) |->
                         T!encode_kernel_process_name(T!Cut(active_capture_names)[i])]

LEMMA BaseIsName ==
  ASSUME NEW name, T!IsName(name)
  PROVE  T!IsName(T!WithoutExe(name))
<1> DEFINE S == {name[i] : i \in DOMAIN name} \ {T!NUL}
           base == T!WithoutExe(name)
<1>1. name \in Seq(S)
  BY DEF T!IsName
<1> HIDE DEF S
<1>2. base \in Seq(S) /\ Len(base) \in Nat
  BY <1>1, BaseMeans
<1> HIDE DEF base
<1>3. \A i \in 1..Len(base) : base[i] \in S
  BY <1>2, ElementOfSeq
<1>4. DOMAIN base = 1..Len(base)
  BY <1>2, LenProperties
<1> DEFINE own == {base[i] : i \in DOMAIN base} \ {T!NUL}
<1>5. \A i \in 1..Len(base) : base[i] \in own
  BY <1>3, <1>4 DEF S
<1>6. base \in Seq(own)
  <2> HIDE DEF own
  <2>1. base \in [1..Len(base) -> own]
    <3>1. base = [i \in 1..Len(base) |-> base[i]]
      BY <1>2, LenProperties
    <3> QED
      BY <1>5, <3>1
  <2> QED
    BY <1>2, <2>1, SeqDef
<1> QED
  BY <1>6 DEF T!IsName, base

LEMMA CutKeeps ==
  ASSUME NEW S, NEW s \in Seq(S), Len(s) <= MaxTargets
  PROVE  T!Cut(s) = s
<1>1. Len(s) \in Nat /\ MaxTargets \in Nat
  BY LenProperties, CutChars
<1>2. T!Cut(s) = SubSeq(s, 1, Len(s))
  BY <1>1 DEF T!Cut
<1> QED
  BY <1>2, SubSeqFull

(* A text within the limits, by what the driver has of it.                 *)
LEMMA TargetsOfText ==
  ASSUME TargetInv, Len(text) <= MaxTargets, ~T!Wildcard,
         active_capture_pids \o active_capture_names # << >>
  PROVE  LET pids == active_capture_pids
             names == active_capture_names
             n == Len(text)
         IN /\ gTargetPids # << >> \/ gTargetNames # << >>
            /\ \A p : T!Contains(gTargetPids, p) <=> p # 0 /\ HasPid(text, n, p)
            /\ gTargetNames = [i \in DOMAIN names |-> T!encode_kernel_process_name(names[i])]
            /\ DOMAIN names = 1..Len(names)
            /\ \A m : T!Contains(names, m) <=> m # << >> /\ HasName(text, n, m)
            /\ \A i \in DOMAIN names : T!IsName(names[i])
            /\ text \in Texts
<1> DEFINE pids == active_capture_pids
           names == active_capture_names
           n == Len(text)
<1>1. pids # << >> \/ names # << >>
  <2> SUFFICES ASSUME pids = << >>, names = << >> PROVE FALSE
    OBVIOUS
  <2>1. << >> \o << >> = << >>
    OBVIOUS
  <2> QED
    BY <2>1
<1>2. /\ text \in Texts
      /\ pids = T!parse_capture_filters(text).pids
      /\ names = T!parse_capture_filters(text).names
      /\ gTargetPids = T!Cut(pids)
      /\ gTargetNames = [i \in DOMAIN T!Cut(names) |->
                           T!encode_kernel_process_name(T!Cut(names)[i])]
  BY <1>1 DEF TargetInv
<1>3. \A i \in DOMAIN text : text[i].type # "wildcard"
  BY DEF T!Wildcard
<1>4. PICK P, N : ReadInv(P, N, text, n, T!parse_capture_filters(text))
  BY <1>2, <1>3, ParseMeans
<1>5. /\ pids \in Seq(P) /\ names \in Seq(N)
      /\ NoMore(pids, names, n) /\ PidsRead(text, n, pids) /\ NamesRead(text, n, names)
  BY <1>2, <1>4 DEF ReadInv, Reads
<1>6. n \in Nat /\ DOMAIN text = 1..n
  <2>1. text \in Seq({text[i] : i \in DOMAIN text})
    BY <1>2, PartsAssumption DEF T!TargetAssumption
  <2> QED
    BY <2>1, LenProperties
<1> HIDE DEF pids, names
<1>7. Len(pids) \in Nat /\ Len(names) \in Nat /\ DOMAIN names = 1..Len(names)
  BY <1>5, LenProperties
<1>8. Len(pids) <= MaxTargets /\ Len(names) <= MaxTargets
  BY <1>5, <1>6, <1>7, CutChars DEF NoMore
<1>9. T!Cut(pids) = pids /\ T!Cut(names) = names
  BY <1>5, <1>8, CutKeeps
<1>10. gTargetPids = pids
       /\ gTargetNames = [i \in DOMAIN names |-> T!encode_kernel_process_name(names[i])]
  BY <1>2, <1>9, Zenon
<1>11. gTargetPids # << >> \/ gTargetNames # << >>
  <2>1. CASE pids # << >>
    BY <1>10, <2>1, Zenon
  <2>2. CASE names # << >>
    <3>1. Len(names) # 0
      BY <1>5, <2>2, EmptySeq
    <3>2. 1 \in DOMAIN names
      BY <1>7, <3>1
    <3>3. DOMAIN gTargetNames = DOMAIN names
      BY <1>10, Zenon
    <3>4. DOMAIN << >> = {}
      OBVIOUS
    <3> QED
      BY <3>2, <3>3, <3>4, Zenon
  <2> QED
    BY <1>1, <2>1, <2>2 DEF pids, names
<1>12. \A p : T!Contains(gTargetPids, p) <=> p # 0 /\ HasPid(text, n, p)
  BY <1>5, <1>10, Zenon DEF PidsRead
<1>13. \A m : T!Contains(names, m) <=> m # << >> /\ HasName(text, n, m)
  BY <1>5, Zenon DEF NamesRead
<1>14. \A i \in DOMAIN names : T!IsName(names[i])
  <2> SUFFICES ASSUME NEW i \in DOMAIN names
               PROVE  T!IsName(names[i])
    OBVIOUS
  <2>1. T!Contains(names, names[i])
    BY <1>7 DEF T!Contains
  <2>2. HasName(text, n, names[i])
    BY <1>13, <2>1, Zenon
  <2>3. PICK j \in 1..n : text[j].type = "name" /\ T!WithoutExe(text[j].name) = names[i]
    BY <2>2 DEF HasName
  <2>4. T!IsName(text[j].name)
    BY <1>2, <1>6, <2>3, PartsAssumption DEF T!TargetAssumption, T!IsToken
  <2> QED
    BY <2>3, <2>4, BaseIsName
<1> QED
  BY <1>2, <1>7, <1>10, <1>11, <1>12, <1>13, <1>14, Zenon DEF pids, names

LEMMA NamedMeans ==
  ASSUME NEW process, text \in Texts
  PROVE  /\ T!Named(process) <=> \/ HasPid(text, Len(text), process.pid)
                                 \/ HasName(text, Len(text), T!WithoutExe(process.file))
         /\ DOMAIN text = 1..Len(text)
<1> DEFINE base == T!WithoutExe(process.file)
<1>1. DOMAIN text = 1..Len(text)
  <2>1. text \in Seq({text[i] : i \in DOMAIN text})
    BY PartsAssumption DEF T!TargetAssumption
  <2> QED
    BY <2>1, LenProperties
<1> DEFINE One(i) == CASE text[i].type = "number" -> text[i].pid = process.pid
                       [] text[i].type = "name"   -> T!WithoutExe(text[i].name) = base
                       [] OTHER                   -> FALSE
<1>2. T!Named(process) <=> \E i \in DOMAIN text : One(i)
  BY Zenon DEF T!Named
<1>3. \A i : One(i) <=> \/ text[i].type = "number" /\ text[i].pid = process.pid
                        \/ text[i].type = "name" /\ T!WithoutExe(text[i].name) = base
  <2> SUFFICES ASSUME NEW i
               PROVE  One(i) <=> \/ text[i].type = "number" /\ text[i].pid = process.pid
                                 \/ text[i].type = "name" /\ T!WithoutExe(text[i].name) = base
    OBVIOUS
  <2> HIDE DEF base
  <2>1. CASE text[i].type = "number"
    BY <2>1
  <2>2. CASE text[i].type = "name"
    BY <2>2
  <2>3. CASE text[i].type \notin {"number", "name"}
    BY <2>3
  <2> QED
    BY <2>1, <2>2, <2>3
<1> HIDE DEF One
<1> QED
  BY <1>1, <1>2, <1>3 DEF HasPid, HasName

LEMMA TargetsDecide ==
  ASSUME TargetInv
  PROVE  NamesDecideInKernel
<1> SUFFICES ASSUME Len(text) <= MaxTargets, ~T!Wildcard,
                    active_capture_pids \o active_capture_names # << >>,
                    NEW process \in Processes, process.pid # 0,
                    Len(T!WithoutExe(process.file)) \in 1..(ImageChars - 1)
             PROVE  /\ T!Named(process) => T!MatchesTargetProcess(process)
                    /\ T!MatchesTargetProcess(process) =>
                         \E i \in DOMAIN text :
                           \/ text[i].type = "number" /\ text[i].pid = process.pid
                           \/ /\ text[i].type = "name"
                              /\ T!Alike(T!WithoutExe(text[i].name), T!WithoutExe(process.file))
  BY DEF NamesDecideInKernel, T!NamesDecideInKernel
<1> DEFINE names == active_capture_names
           n == Len(text)
           base == T!WithoutExe(process.file)
           left == T!NormalizeProcessName(T!ImageFileName(process.file))
           Hit(name) == T!EqualProcessName(left, T!UpToNul(T!encode_kernel_process_name(name)))
<1>1. /\ gTargetPids # << >> \/ gTargetNames # << >>
      /\ \A p : T!Contains(gTargetPids, p) <=> p # 0 /\ HasPid(text, n, p)
      /\ gTargetNames = [i \in DOMAIN names |-> T!encode_kernel_process_name(names[i])]
      /\ DOMAIN names = 1..Len(names)
      /\ \A m : T!Contains(names, m) <=> m # << >> /\ HasName(text, n, m)
      /\ \A i \in DOMAIN names : T!IsName(names[i])
      /\ text \in Texts
  BY TargetsOfText
<1>2. /\ T!Named(process) <=> HasPid(text, n, process.pid) \/ HasName(text, n, base)
      /\ DOMAIN text = 1..n
  BY <1>1, NamedMeans
<1>3. Len(base) < ImageChars /\ base # << >>
  <2>1. Len(base) < ImageChars /\ Len(base) # 0
    BY CutChars
  <2>2. Len(<< >>) = 0
    OBVIOUS
  <2> QED
    BY <2>1, <2>2, Zenon
<1>4. \A i \in DOMAIN names : /\ names[i] = base => Hit(names[i])
                              /\ Hit(names[i]) => T!Alike(names[i], base)
  BY <1>1, <1>3, NameMatch
<1>5. T!MatchesTargetProcess(process) <=>
        T!Contains(gTargetPids, process.pid) \/ \E i \in DOMAIN names : Hit(names[i])
  <2>1. T!MatchesTargetProcess(process) <=>
          \/ gTargetPids = << >> /\ gTargetNames = << >>
          \/ T!Contains(gTargetPids, process.pid)
          \/ \E i \in DOMAIN gTargetNames : T!EqualProcessName(left, T!UpToNul(gTargetNames[i]))
    BY Zenon DEF T!MatchesTargetProcess
  <2> HIDE DEF left, names
  <2>2. /\ DOMAIN gTargetNames = DOMAIN names
        /\ \A i \in DOMAIN names : gTargetNames[i] = T!encode_kernel_process_name(names[i])
    BY <1>1, Zenon
  <2>3. ~(gTargetPids = << >> /\ gTargetNames = << >>)
    BY <1>1, Zenon
  <2> QED
    BY <2>1, <2>2, <2>3, Zenon
<1> HIDE DEF Hit, base, names
<1>6. T!Contains(gTargetPids, process.pid) <=> HasPid(text, n, process.pid)
  BY <1>1, Zenon
<1>7. ASSUME HasName(text, n, base)
      PROVE  \E i \in DOMAIN names : Hit(names[i])
  <2>1. T!Contains(names, base)
    BY <1>1, <1>3, <1>7, Zenon
  <2>2. PICK i \in DOMAIN names : names[i] = base
    BY <1>1, <2>1 DEF T!Contains
  <2> QED
    BY <1>4, <2>2
<1>8. ASSUME NEW i \in DOMAIN names, Hit(names[i])
      PROVE  \E j \in DOMAIN text :
               text[j].type = "name" /\ T!Alike(T!WithoutExe(text[j].name), base)
  <2>1. T!Contains(names, names[i])
    BY <1>1 DEF T!Contains
  <2>2. HasName(text, n, names[i])
    BY <1>1, <2>1, Zenon
  <2>3. PICK j \in 1..n : text[j].type = "name" /\ T!WithoutExe(text[j].name) = names[i]
    BY <2>2 DEF HasName
  <2> QED
    BY <1>2, <1>4, <1>8, <2>3
<1>9. HasPid(text, n, process.pid) =>
        \E j \in DOMAIN text : text[j].type = "number" /\ text[j].pid = process.pid
  BY <1>2 DEF HasPid
<1>10. T!Named(process) => T!MatchesTargetProcess(process)
  BY <1>2, <1>5, <1>6, <1>7
<1>11. T!MatchesTargetProcess(process) =>
         \E j \in DOMAIN text :
           \/ text[j].type = "number" /\ text[j].pid = process.pid
           \/ text[j].type = "name" /\ T!Alike(T!WithoutExe(text[j].name), base)
  BY <1>5, <1>6, <1>8, <1>9
<1> QED
  BY <1>10, <1>11 DEF base

(* Within the limits of the driver, a process whose name the kernel keeps  *)
(* whole is captured if the text names it, and only for its pid or a name  *)
(* that a cut suffix cannot tell from its own, for names, fields and texts *)
(* of any length.                                                          *)
THEOREM NamesDecide == Spec => []NamesDecideInKernel
<1> DEFINE vars == <<part, filterVars, targetVars, exportVars, timeVars, iconVars>>
<1>1. Init => TargetInv
  BY DEF Init, T!Init, TargetInv
<1>2. TargetInv /\ [Next]_vars => TargetInv'
  <2> SUFFICES ASSUME TargetInv, [Next]_vars
               PROVE  TargetInv'
    OBVIOUS
  <2>1. T!Next \/ UNCHANGED targetVars
    BY DEF Next, RulesStep, TargetsStep, ExportStep, TimesStep, IconsStep
  <2>2. CASE UNCHANGED targetVars
    BY <2>2 DEF targetVars, TargetInv
  <2>3. ASSUME NEW tokens \in Texts, T!ApplyCaptureProcess(tokens)
        PROVE  TargetInv'
    BY <2>3 DEF T!ApplyCaptureProcess, TargetInv
  <2> QED
    BY <2>1, <2>2, <2>3 DEF T!Next
<1> QED
  BY <1>1, <1>2, TargetsDecide, PTL DEF Spec
=============================================================================
