--------------------------- MODULE PipelineProofs ---------------------------
(***************************************************************************)
(* Proofs about Pipeline and Sources: types, the handle of the device, and *)
(* that collector and demo implement EventSource, for any limits.          *)
(***************************************************************************)
EXTENDS Sources, Iterations, SequenceTheorems, TLAPS

Event == [id : Nat, pid : Pids]

Message ==
  [kind : {"note", "table"}] \cup [kind : {"events"}, events : Seq(Event)]

ChannelTypes ==
  commands \in Seq(Configs \cup {StopCommand}) /\ messages \in Seq(Message)

DriverTypes ==
  /\ installed \in Configs /\ enabled \in BOOLEAN /\ changed \in BOOLEAN
  /\ entered \subseteq Pids /\ calls \subseteq Event /\ captured \in Nat
  /\ ring \in Seq(Event) /\ Len(ring) <= RingEntries

WindowTypes ==
  /\ capture \in BOOLEAN /\ targets \in SUBSET Pids
  /\ history \in Seq(Event) /\ Len(history) <= MaxEvents
  /\ at \in {"drain", "panels", "closed"} /\ drained \in 0..DrainLimit

ThreadTypes ==
  /\ collector \in
       {"open", "query", "table", "commands", "flush", "events", "stats", "gone"}
  /\ HandleHasOwner
  /\ enabled => handle /\ installed.capture
  /\ changed => collector = "flush"

(* No event is queued twice.                                               *)
Distinct ==
  /\ \A e \in calls \cup EventsIn(ring) : e.id <= captured
  /\ calls \cap EventsIn(ring) = {}
  /\ \A i, j \in 1..Len(ring) : ring[i] = ring[j] => i = j

Unadmitted == {e \in Event : ~Admits(installed, e)}

(* What the configuration in force does not admit and may come is late; in *)
(* the ring it may be anything between SET_CONFIG's first write and flush. *)
LateKnown ==
  /\ calls \cap Unadmitted \subseteq late
  /\ ~changed => EventsIn(ring) \cap Unadmitted \subseteq late

TableFirst == collector \in {"open", "query", "table"} => heard = {}

PipelineInv ==
  /\ ChannelTypes /\ DriverTypes /\ WindowTypes /\ ThreadTypes
  /\ Distinct /\ LateKnown /\ TableFirst
-----------------------------------------------------------------------------
(* What the sequence operations of the actions preserve.                   *)

LEMMA TakeTypes ==
  ASSUME NEW S, NEW s \in Seq(S), NEW n \in 0..Len(s)
  PROVE  /\ SubSeq(s, 1, n) \in Seq(S) /\ Len(SubSeq(s, 1, n)) = n
         /\ SubSeq(s, n + 1, Len(s)) \in Seq(S)
         /\ Len(SubSeq(s, n + 1, Len(s))) = Len(s) - n
<1>1. Len(s) \in Nat /\ \A i \in 1..Len(s) : s[i] \in S
  BY LenProperties, ElementOfSeq
<1>2. (\A i \in 1..n : s[i] \in S) /\ (\A i \in n + 1..Len(s) : s[i] \in S)
  BY <1>1
<1>3. SubSeq(s, 1, n) \in Seq(S) /\ Len(SubSeq(s, 1, n)) = IF 1 <= n THEN n - 1 + 1 ELSE 0
  BY <1>1, <1>2, SubSeqProperties
<1>4. /\ SubSeq(s, n + 1, Len(s)) \in Seq(S)
      /\ Len(SubSeq(s, n + 1, Len(s)))
           = IF n + 1 <= Len(s) THEN Len(s) - (n + 1) + 1 ELSE 0
  BY <1>1, <1>2, SubSeqProperties
<1> QED
  BY <1>1, <1>3, <1>4

LEMMA AppendTypes ==
  ASSUME NEW S, NEW s \in Seq(S), NEW e \in S
  PROVE  Append(s, e) \in Seq(S) /\ Len(Append(s, e)) = Len(s) + 1
OBVIOUS

LEMMA PushTypes ==
  ASSUME NEW S, NEW s \in Seq(S), NEW e \in S, NEW size \in Nat \ {0}, Len(s) <= size
  PROVE  LET t == Append(IF Len(s) = size THEN Tail(s) ELSE s, e)
         IN  t \in Seq(S) /\ Len(t) <= size
<1>1. Len(s) \in Nat
  BY LenProperties
<1>2. CASE Len(s) = size
  <2>1. s # << >>
    BY <1>2, EmptySeq
  <2>2. Tail(s) \in Seq(S) /\ Len(Tail(s)) = Len(s) - 1
    BY <2>1, HeadTailProperties
  <2> QED
    BY <1>1, <1>2, <2>2, AppendTypes
<1>3. CASE Len(s) # size
  BY <1>1, <1>3, AppendTypes
<1> QED
  BY <1>2, <1>3

LEMMA TrimTypes ==
  ASSUME NEW S, NEW s \in Seq(S), NEW size \in Nat \ {0}
  PROVE  LET t == IF Len(s) > size THEN SubSeq(s, Len(s) - size + 1, Len(s)) ELSE s
         IN  t \in Seq(S) /\ Len(t) <= size
<1>1. Len(s) \in Nat
  BY LenProperties
<1>2. CASE Len(s) > size
  <2>1. Len(s) - size \in 0..Len(s)
    BY <1>1, <1>2
  <2>2. /\ SubSeq(s, (Len(s) - size) + 1, Len(s)) \in Seq(S)
        /\ Len(SubSeq(s, (Len(s) - size) + 1, Len(s))) = Len(s) - (Len(s) - size)
    BY <2>1, TakeTypes
  <2> QED
    BY <1>1, <1>2, <2>2
<1>3. CASE ~(Len(s) > size)
  BY <1>1, <1>3
<1> QED
  BY <1>2, <1>3

LEMMA ConcatElements ==
  ASSUME NEW S, NEW s \in Seq(S), NEW t \in Seq(S)
  PROVE  EventsIn(s \o t) \subseteq EventsIn(s) \cup EventsIn(t)
<1> SUFFICES ASSUME NEW i \in 1..Len(s \o t)
             PROVE  (s \o t)[i] \in EventsIn(s) \cup EventsIn(t)
  BY DEF EventsIn
<1>1. /\ Len(s) \in Nat /\ Len(t) \in Nat /\ Len(s \o t) = Len(s) + Len(t)
      /\ (s \o t)[i] = IF i <= Len(s) THEN s[i] ELSE t[i - Len(s)]
  BY ConcatProperties, LenProperties
<1>2. i <= Len(s) \/ i - Len(s) \in 1..Len(t)
  BY <1>1
<1> QED
  BY <1>1, <1>2 DEF EventsIn

LEMMA PartElements ==
  ASSUME NEW S, NEW s \in Seq(S), NEW m \in 1..Len(s) + 1, NEW n \in 0..Len(s)
  PROVE  EventsIn(SubSeq(s, m, n)) \subseteq EventsIn(s)
<1>1. Len(s) \in Nat /\ \A i \in 1..Len(s) : s[i] \in S
  BY LenProperties, ElementOfSeq
<1>2. /\ Len(SubSeq(s, m, n)) = IF m <= n THEN n - m + 1 ELSE 0
      /\ \A i \in 1..(n - m + 1) : SubSeq(s, m, n)[i] = s[m + i - 1]
  BY <1>1, SubSeqProperties
<1> SUFFICES ASSUME NEW i \in 1..Len(SubSeq(s, m, n))
             PROVE  SubSeq(s, m, n)[i] \in EventsIn(s)
  BY DEF EventsIn
<1>3. SubSeq(s, m, n)[i] = s[m + i - 1] /\ m + i - 1 \in 1..Len(s)
  BY <1>1, <1>2
<1> QED
  BY <1>3 DEF EventsIn

LEMMA HeadAndTailElements ==
  ASSUME NEW S, NEW s \in Seq(S), s # << >>
  PROVE  Head(s) \in EventsIn(s) /\ EventsIn(Tail(s)) \subseteq EventsIn(s)
<1>1. Len(s) \in Nat /\ Len(s) # 0 /\ Head(s) = s[1]
  BY EmptySeq, LenProperties
<1>2. Len(Tail(s)) = Len(s) - 1 /\ \A i \in 1..Len(Tail(s)) : Tail(s)[i] = s[i + 1]
  BY HeadTailProperties
<1> QED
  BY <1>1, <1>2 DEF EventsIn

(* A push to a full ring drops its first element.                          *)
LEMMA PushElements ==
  ASSUME NEW S, NEW s \in Seq(S), NEW e \in S, NEW size \in Nat \ {0},
         e \notin EventsIn(s), \A i, j \in 1..Len(s) : s[i] = s[j] => i = j
  PROVE  LET t == Append(IF Len(s) = size THEN Tail(s) ELSE s, e)
         IN  /\ EventsIn(t) \subseteq EventsIn(s) \cup {e}
             /\ \A i, j \in 1..Len(t) : t[i] = t[j] => i = j
<1> DEFINE u == IF Len(s) = size THEN Tail(s) ELSE s
           t == Append(u, e)
<1>1. Len(s) \in Nat /\ (Len(s) = size => s # << >>)
  BY LenProperties, EmptySeq
<1>2. /\ u \in Seq(S) /\ EventsIn(u) \subseteq EventsIn(s)
      /\ \A i, j \in 1..Len(u) : u[i] = u[j] => i = j
  <2>1. CASE Len(s) = size
    <3> DEFINE r == Tail(s)
    <3>1. /\ r \in Seq(S) /\ Len(r) = Len(s) - 1 /\ \A i \in 1..Len(r) : r[i] = s[i + 1]
      BY <1>1, <2>1, HeadTailProperties
    <3> HIDE DEF r
    <3>2. \A i \in 1..Len(r) : i + 1 \in 1..Len(s)
      BY <1>1, <3>1
    <3>3. \A i, j \in 1..Len(r) : r[i] = r[j] => i = j
      BY <1>1, <3>1, <3>2
    <3>4. EventsIn(r) \subseteq EventsIn(s)
      BY <3>1, <3>2 DEF EventsIn
    <3> QED
      BY <2>1, <3>1, <3>3, <3>4 DEF r
  <2>2. CASE Len(s) # size
    BY <2>2
  <2> QED
    BY <2>1, <2>2
<1> HIDE DEF u
<1>3. /\ Len(u) \in Nat /\ Len(t) = Len(u) + 1 /\ t[Len(u) + 1] = e
      /\ \A i \in 1..Len(u) : t[i] = u[i]
  BY <1>2, AppendProperties, LenProperties
<1>4. \A i \in 1..Len(t) : i = Len(u) + 1 \/ i \in 1..Len(u)
  BY <1>3
<1> HIDE DEF t
<1>5. EventsIn(t) \subseteq EventsIn(s) \cup {e}
  BY <1>2, <1>3, <1>4 DEF EventsIn
<1>6. \A i \in 1..Len(u) : t[i] # e
  BY <1>2, <1>3 DEF EventsIn
<1>7. \A i, j \in 1..Len(t) : t[i] = t[j] => i = j
  BY <1>2, <1>3, <1>4, <1>6
<1> QED
  BY <1>5, <1>7 DEF t, u

(* A sequence without repetitions, cut in two.                             *)
LEMMA CutElements ==
  ASSUME NEW S, NEW s \in Seq(S), NEW n \in 0..Len(s),
         \A i, j \in 1..Len(s) : s[i] = s[j] => i = j
  PROVE  LET t == SubSeq(s, n + 1, Len(s))
         IN  /\ EventsIn(t) \subseteq EventsIn(s) \ {s[i] : i \in 1..n}
             /\ \A i, j \in 1..Len(t) : t[i] = t[j] => i = j
<1> DEFINE t == SubSeq(s, n + 1, Len(s))
<1>1. Len(s) \in Nat /\ \A i \in 1..Len(s) : s[i] \in S
  BY LenProperties, ElementOfSeq
<1>2. /\ Len(t) = IF n + 1 <= Len(s) THEN Len(s) - (n + 1) + 1 ELSE 0
      /\ \A i \in 1..(Len(s) - (n + 1) + 1) : t[i] = s[(n + 1) + i - 1]
  BY <1>1, SubSeqProperties
<1> HIDE DEF t
<1>3. Len(t) = Len(s) - n /\ \A i \in 1..Len(t) : t[i] = s[n + i]
  BY <1>1, <1>2
<1>4. \A i \in 1..Len(t) : n + i \in 1..Len(s) /\ n + i \notin 1..n
  BY <1>1, <1>3
<1>5. \A i, j \in 1..Len(t) : t[i] = t[j] => i = j
  BY <1>1, <1>3, <1>4
<1>6. EventsIn(t) \subseteq EventsIn(s) \ {s[i] : i \in 1..n}
  <2> SUFFICES ASSUME NEW i \in 1..Len(t)
               PROVE  t[i] \in EventsIn(s) \ {s[k] : k \in 1..n}
    BY DEF EventsIn
  <2>1. t[i] \in EventsIn(s)
    BY <1>3, <1>4 DEF EventsIn
  <2>2. \A k \in 1..n : k \in 1..Len(s) /\ k # n + i
    BY <1>1, <1>4
  <2> QED
    BY <1>3, <1>4, <2>1, <2>2
<1> QED
  BY <1>5, <1>6 DEF t

LEMMA Limits ==
  /\ RingEntries \in Nat \ {0} /\ BatchEvents \in Nat \ {0}
  /\ DrainLimit \in Nat \ {0} /\ MaxEvents \in Nat \ {0}
BY LimitsAssumption

LEMMA WantedType ==
  ASSUME WindowTypes
  PROVE  Wanted \in Configs
BY DEF WindowTypes, Wanted, Configs

(* What READ_EVENTS takes and leaves.                                      *)
LEMMA ReadTypes ==
  ASSUME NEW S, ring \in Seq(S)
  PROVE  LET n == IF Len(ring) > BatchEvents THEN BatchEvents ELSE Len(ring)
         IN  /\ n \in 0..Len(ring)
             /\ SubSeq(ring, 1, n) \in Seq(S)
             /\ SubSeq(ring, n + 1, Len(ring)) \in Seq(S)
             /\ Len(SubSeq(ring, n + 1, Len(ring))) <= Len(ring)
<1> DEFINE n == IF Len(ring) > BatchEvents THEN BatchEvents ELSE Len(ring)
<1>1. Len(ring) \in Nat
  BY LenProperties
<1>2. n \in 0..Len(ring)
  BY <1>1, Limits
<1> HIDE DEF n
<1>3. /\ SubSeq(ring, 1, n) \in Seq(S)
      /\ SubSeq(ring, n + 1, Len(ring)) \in Seq(S)
      /\ Len(SubSeq(ring, n + 1, Len(ring))) = Len(ring) - n
  BY <1>2, TakeTypes
<1>4. Len(SubSeq(ring, n + 1, Len(ring))) <= Len(ring)
  BY <1>1, <1>2, <1>3
<1> QED
  BY <1>2, <1>3, <1>4 DEF n
-----------------------------------------------------------------------------
LEMMA InitPipelineInv == Init => PipelineInv
<1> SUFFICES ASSUME Init PROVE PipelineInv
  OBVIOUS
<1>1. \A S : << >> \in Seq(S) /\ Len(<< >>) = 0
  BY EmptySeq
<1>2. Wanted \in Configs
  BY DEF Init, Wanted, Configs
<1>3. commands \in Seq(Configs \cup {StopCommand})
  BY <1>2 DEF Init
<1>4. ChannelTypes
  BY <1>1, <1>3 DEF Init, ChannelTypes
<1>5. DriverTypes
  <2>1. [id : {0}, pid : EarlierPids] \subseteq Event
    BY TargetsAssumption DEF Event
  <2>2. [capture |-> FALSE, targets |-> EarlierTargets] \in Configs
    BY TargetsAssumption DEF Configs
  <2>3. DriverTypes
    <3>1. installed \in Configs /\ calls \subseteq Event
      BY <2>1, <2>2 DEF Init
    <3>2. ring \in Seq(Event) /\ Len(ring) <= RingEntries
      BY <1>1, Limits DEF Init
    <3>3. /\ enabled \in BOOLEAN /\ changed \in BOOLEAN
          /\ entered \subseteq Pids /\ captured \in Nat
      BY TargetsAssumption DEF Init
    <3> QED
      BY <3>1, <3>2, <3>3 DEF DriverTypes
  <2> QED
    BY <2>3
<1>6. WindowTypes
  BY <1>1, Limits DEF Init, WindowTypes
<1>7. ThreadTypes /\ TableFirst
  BY DEF Init, ThreadTypes, TableFirst, HandleHasOwner
<1>8. EventsIn(ring) = {} /\ Len(ring) = 0 /\ \A e \in calls : e.id = 0
  BY <1>1 DEF Init, EventsIn
<1>9. Distinct
  BY <1>8 DEF Init, Distinct
<1>10. LateKnown
  BY <1>8 DEF Init, LateKnown, Unadmitted
<1> QED
  BY <1>4, <1>5, <1>6, <1>7, <1>9, <1>10 DEF PipelineInv
-----------------------------------------------------------------------------
(* The channels.                                                           *)

LEMMA PostTypes ==
  ASSUME ChannelTypes, NEW batch \in Seq(Message), Post(batch)
  PROVE  messages' \in Seq(Message)
<1>1. messages \o batch \in Seq(Message)
  BY ConcatProperties DEF ChannelTypes
<1> QED
  BY <1>1 DEF Post, ChannelTypes

LEMMA SendTypes ==
  ASSUME ChannelTypes, NEW m \in Message, Send(m)
  PROVE  messages' \in Seq(Message)
<1>1. <<m>> \in Seq(Message)
  OBVIOUS
<1> QED
  BY <1>1, PostTypes DEF Send

LEMMA TellTypes ==
  ASSUME ChannelTypes,
         \/ Tell(<<Status>>) \/ Tell(<<Stats>>) \/ Tell(<<Stats, Status>>)
  PROVE  messages' \in Seq(Message)
<1>1. Status \in Message /\ Stats \in Message
  BY DEF Status, Stats, Message
<1>2. /\ <<Status>> \in Seq(Message) /\ <<Stats>> \in Seq(Message)
      /\ <<Stats, Status>> \in Seq(Message)
  BY <1>1
<1>3. Post(<<Status>>) \/ Post(<<Stats>>) \/ Post(<<Stats, Status>>)
  BY DEF Tell
<1> QED
  BY <1>2, <1>3, PostTypes

LEMMA TableMessage == [kind |-> "table"] \in Message
BY DEF Message

LEMMA SourceChannels ==
  ASSUME PipelineInv, Source
  PROVE  ChannelTypes'
<1>a. ChannelTypes /\ DriverTypes
  BY DEF PipelineInv
<1>b. commands \in Seq(Configs \cup {StopCommand}) /\ messages \in Seq(Message)
  BY <1>a DEF ChannelTypes
<1>c. commands # << >> => Tail(commands) \in Seq(Configs \cup {StopCommand})
  BY <1>b, HeadTailProperties
<1> USE DEF sentVars
<1>1. CASE OpenDevice \/ NoCommand \/ Flush
  BY <1>b, <1>1 DEF OpenDevice, NoCommand, Flush, ChannelTypes
<1>2. CASE CannotOpen \/ ProtocolMismatch \/ Greet
  <2>1. Tell(<<Status>>) \/ Tell(<<Stats, Status>>)
    BY <1>2 DEF CannotOpen, ProtocolMismatch, Greet
  <2>2. messages' \in Seq(Message)
    BY <1>a, <2>1, TellTypes
  <2> QED
    BY <1>b, <1>2, <2>2 DEF CannotOpen, ProtocolMismatch, Greet, ChannelTypes
<1>3. CASE SendTable \/ SendStats
  <2>1. Send([kind |-> "table"]) \/ Tell(<<Stats>>) \/ messages' = messages
    BY <1>3 DEF SendTable, SendStats
  <2>2. messages' \in Seq(Message)
    BY <1>a, <1>b, <2>1, TellTypes, SendTypes, TableMessage
  <2> QED
    BY <1>b, <1>3, <2>2 DEF SendTable, SendStats, ChannelTypes
<1>4. CASE SetConfig
  <2>1. messages' = messages \/ Tell(<<Status>>)
    BY <1>4 DEF SetConfig, Configure
  <2>2. messages' \in Seq(Message)
    BY <1>a, <1>b, <2>1, TellTypes
  <2> QED
    BY <1>c, <1>4, <2>2 DEF SetConfig, Configure, ChannelTypes
<1>5. CASE Stop
  BY <1>b, <1>c, <1>5 DEF Stop, ChannelTypes
<1>6. CASE ReadEvents
  <2> DEFINE n == IF Len(ring) > BatchEvents THEN BatchEvents ELSE Len(ring)
             m == [kind |-> "events", events |-> SubSeq(ring, 1, n)]
  <2>1. SubSeq(ring, 1, n) \in Seq(Event)
    BY <1>a, ReadTypes DEF DriverTypes
  <2>2. m \in Message
    BY <2>1 DEF Message
  <2>3. Send(m) \/ messages' = messages
    BY <1>6 DEF ReadEvents
  <2> HIDE DEF n, m
  <2>4. messages' \in Seq(Message)
    BY <1>a, <1>b, <2>2, <2>3, SendTypes
  <2> QED
    BY <1>b, <1>6, <2>4 DEF ReadEvents, ChannelTypes
<1> QED
  BY <1>1, <1>2, <1>3, <1>4, <1>5, <1>6 DEF Source

LEMMA FrameWindow ==
  ASSUME PipelineInv, Frame
  PROVE  WindowTypes'
<1>a. WindowTypes /\ ChannelTypes
  BY DEF PipelineInv
<1>b. /\ capture \in BOOLEAN /\ targets \in SUBSET Pids
      /\ history \in Seq(Event) /\ Len(history) <= MaxEvents
      /\ at \in {"drain", "panels", "closed"} /\ drained \in 0..DrainLimit
  BY <1>a DEF WindowTypes
<1>c. << >> \in Seq(Event) /\ Len(<< >>) <= MaxEvents /\ 0 \in 0..DrainLimit
  BY EmptySeq, Limits
<1> USE DEF filterVars
<1>1. CASE Receive
  <2> DEFINE m   == Head(messages)
             all == IF m.kind = "events" THEN history \o m.events ELSE history
  <2>1. m \in Message
    BY <1>1, <1>a, HeadTailProperties DEF Receive, ChannelTypes
  <2>2. m.kind = "events" => m.events \in Seq(Event)
    BY <2>1 DEF Message
  <2>3. all \in Seq(Event)
    BY <1>b, <2>2, ConcatProperties
  <2>4. history' = IF Len(all) > MaxEvents
                   THEN SubSeq(all, Len(all) - MaxEvents + 1, Len(all)) ELSE all
    BY <1>1 DEF Receive
  <2> HIDE DEF all
  <2>5. history' \in Seq(Event) /\ Len(history') <= MaxEvents
    BY <2>3, <2>4, Limits, TrimTypes
  <2>6. drained' \in 0..DrainLimit
    BY <1>1, <1>b, Limits DEF Receive
  <2> QED
    BY <1>1, <1>b, <2>5, <2>6 DEF Receive, WindowTypes
<1>2. CASE EndDrain \/ NoWidget \/ CloseWindow
  BY <1>2, <1>b, <1>c DEF EndDrain, NoWidget, CloseWindow, WindowTypes
<1>3. CASE ToggleCapture
  BY <1>3, <1>b DEF ToggleCapture, Widget, WindowTypes
<1>4. ASSUME NEW chosen \in Choices, ApplyCaptureProcess(chosen)
      PROVE  WindowTypes'
  BY <1>4, <1>b, <1>c, TargetsAssumption DEF ApplyCaptureProcess, Widget, WindowTypes
<1> QED
  BY <1>1, <1>2, <1>3, <1>4 DEF Frame

(* Whatever the window sends is a configuration or the stop.               *)
LEMMA FrameOrders ==
  ASSUME PipelineInv, Frame
  PROVE  \/ commands' = commands
         \/ \E c \in Configs \cup {StopCommand} : commands' = Append(commands, c)
<1>1. Wanted \in Configs
  BY WantedType DEF PipelineInv
<1>2. Wanted' \in Configs
  BY FrameWindow DEF WindowTypes, Wanted, Configs
<1>3. CASE Receive
  BY <1>1, <1>3 DEF Receive
<1>4. CASE EndDrain \/ NoWidget
  BY <1>4 DEF EndDrain, NoWidget
<1>5. CASE CloseWindow
  BY <1>5 DEF CloseWindow
<1>6. CASE ToggleCapture
  BY <1>2, <1>6 DEF ToggleCapture, send_config
<1>7. CASE \E chosen \in Choices : ApplyCaptureProcess(chosen)
  BY <1>2, <1>7 DEF ApplyCaptureProcess, send_config
<1> QED
  BY <1>3, <1>4, <1>5, <1>6, <1>7 DEF Frame

LEMMA FrameChannels ==
  ASSUME PipelineInv, Frame
  PROVE  ChannelTypes'
<1>a. commands \in Seq(Configs \cup {StopCommand}) /\ messages \in Seq(Message)
  BY DEF PipelineInv, ChannelTypes
<1>1. commands' \in Seq(Configs \cup {StopCommand})
  BY <1>a, FrameOrders, AppendTypes
<1>2. messages' \in Seq(Message)
  <2>1. << >> \in Seq(Message)
    BY EmptySeq
  <2>2. messages # << >> => Tail(messages) \in Seq(Message)
    BY <1>a, HeadTailProperties
  <2> QED
    BY <1>a, <2>1, <2>2 DEF Frame, Receive, EndDrain, NoWidget, CloseWindow, Widget,
      ToggleCapture, ApplyCaptureProcess
<1> QED
  BY <1>1, <1>2 DEF ChannelTypes
-----------------------------------------------------------------------------
(* The thread, its handle and the driver.                                  *)

LEMMA SourceThread ==
  ASSUME PipelineInv, Source
  PROVE  ThreadTypes' /\ TableFirst'
<1>a. ThreadTypes /\ TableFirst
  BY DEF PipelineInv
<1> USE <1>a DEF ThreadTypes, TableFirst, HandleHasOwner, Collector, ringVars
<1>1. CASE OpenDevice
  BY <1>1 DEF OpenDevice, sentVars
<1>2. CASE CannotOpen
  BY <1>2 DEF CannotOpen, driverVars
<1>3. CASE ProtocolMismatch
  BY <1>3 DEF ProtocolMismatch, Close
<1>4. CASE Greet
  BY <1>4 DEF Greet, Tell, driverVars
<1>5. CASE SendTable \/ NoCommand \/ SendStats
  BY <1>5 DEF SendTable, NoCommand, SendStats, driverVars
<1>6. CASE SetConfig
  BY <1>6 DEF SetConfig, Configure
<1>7. CASE Flush
  BY <1>7 DEF Flush
<1>8. CASE Stop
  BY <1>8 DEF Stop, Close
<1>9. CASE ReadEvents
  BY <1>9 DEF ReadEvents
<1> QED
  BY <1>1, <1>2, <1>3, <1>4, <1>5, <1>6, <1>7, <1>8, <1>9 DEF Source

(* A configuration taken from the channel.                                 *)
LEMMA HeadIsConfig ==
  ASSUME PipelineInv, SetConfig
  PROVE  Head(commands) \in Configs
<1>1. commands \in Seq(Configs \cup {StopCommand}) /\ commands # << >>
  BY DEF PipelineInv, ChannelTypes, SetConfig, Configure
<1>2. Head(commands) \in Configs \cup {StopCommand}
  BY <1>1, HeadTailProperties
<1> QED
  BY <1>2 DEF SetConfig, Configure

LEMMA SourceDriver ==
  ASSUME PipelineInv, Source
  PROVE  DriverTypes'
<1>a. DriverTypes /\ << >> \in Seq(Event) /\ Len(<< >>) = 0
  BY EmptySeq DEF PipelineInv
<1> USE <1>a, Limits DEF DriverTypes, callVars, ringVars
<1>b. ASSUME UNCHANGED <<installed, callVars>>, ring' = ring \/ ring' = << >>,
             enabled' \in BOOLEAN, changed' \in BOOLEAN
      PROVE  DriverTypes'
  <2>1. ring' \in Seq(Event) /\ Len(ring') <= RingEntries
    <3>1. CASE ring' = ring
      BY <3>1
    <3>2. CASE ring' = << >>
      BY <3>2
    <3> QED
      BY <1>b, <3>1, <3>2
  <2> QED
    BY <1>b, <2>1
<1>1. CASE OpenDevice
  BY <1>b, <1>1 DEF OpenDevice, FlushRing
<1>2. CASE CannotOpen \/ Greet \/ SendTable \/ NoCommand \/ SendStats
  BY <1>2 DEF CannotOpen, Greet, SendTable, NoCommand, SendStats, driverVars
<1>3. CASE ProtocolMismatch \/ Stop
  BY <1>3 DEF ProtocolMismatch, Stop, Close
<1>4. CASE SetConfig
  <2>1. /\ UNCHANGED <<calls, captured, ring>>
        /\ \/ UNCHANGED <<installed, enabled, entered, changed>>
           \/ /\ installed' = Head(commands) /\ enabled' = installed'.capture
              /\ entered' \in {Pids, entered}
              /\ changed' = (installed.targets # Head(commands).targets)
    BY <1>4 DEF SetConfig, Configure
  <2>2. Head(commands) \in Configs
    BY <1>4, HeadIsConfig
  <2>3. installed' \in Configs /\ enabled' \in BOOLEAN
    BY <2>1, <2>2 DEF Configs
  <2> QED
    BY <2>1, <2>3
<1>5. CASE Flush
  BY <1>b, <1>5 DEF Flush, FlushRing
<1>6. CASE ReadEvents
  <2>1. ring' \in Seq(Event) /\ Len(ring') <= Len(ring)
    BY <1>6, ReadTypes DEF ReadEvents
  <2>2. Len(ring) \in Nat /\ Len(ring') \in Nat
    BY <2>1, LenProperties
  <2> QED
    BY <1>6, <2>1, <2>2 DEF ReadEvents
<1> QED
  BY <1>1, <1>2, <1>3, <1>4, <1>5, <1>6 DEF Source

(* The ring after a read is a part of itself, and nothing in it was read.  *)
LEMMA RingAfterRead ==
  ASSUME PipelineInv, ReadEvents
  PROVE  \E n \in 0..Len(ring) :
           LET read == {ring[i] : i \in 1..n} IN
           /\ late' = late \ read /\ read \subseteq EventsIn(ring)
           /\ EventsIn(ring') \subseteq EventsIn(ring) \ read
           /\ \A i, j \in 1..Len(ring') : ring'[i] = ring'[j] => i = j
<1> DEFINE n == IF Len(ring) > BatchEvents THEN BatchEvents ELSE Len(ring)
<1>1. ring \in Seq(Event) /\ \A i, j \in 1..Len(ring) : ring[i] = ring[j] => i = j
  BY DEF PipelineInv, DriverTypes, Distinct
<1>2. n \in 0..Len(ring)
  BY <1>1, ReadTypes
<1>3. ring' = SubSeq(ring, n + 1, Len(ring)) /\ late' = late \ {ring[i] : i \in 1..n}
  BY DEF ReadEvents
<1> HIDE DEF n
<1>4. {ring[i] : i \in 1..n} \subseteq EventsIn(ring)
  BY <1>1, <1>2, LenProperties DEF EventsIn
<1> QED
  BY <1>1, <1>2, <1>3, <1>4, CutElements

LEMMA SourceDistinct ==
  ASSUME PipelineInv, Source
  PROVE  Distinct'
<1>1. UNCHANGED <<calls, captured>> /\ (ring' = ring \/ ring' = << >> \/ ReadEvents)
  <2>1. CASE CannotOpen \/ Greet \/ SendTable \/ NoCommand \/ SendStats
    BY <2>1 DEF CannotOpen, Greet, SendTable, NoCommand, SendStats, driverVars, callVars, ringVars
  <2>2. CASE ProtocolMismatch \/ Stop
    BY <2>2 DEF ProtocolMismatch, Stop, Close, callVars, ringVars
  <2>3. CASE OpenDevice \/ Flush
    BY <2>3 DEF OpenDevice, Flush, FlushRing, callVars
  <2>4. CASE SetConfig
    BY <2>4 DEF SetConfig, Configure
  <2>5. CASE ReadEvents
    BY <2>5 DEF ReadEvents, callVars
  <2> QED
    BY <2>1, <2>2, <2>3, <2>4, <2>5 DEF Source
<1>2. Distinct /\ UNCHANGED <<calls, captured>>
  BY <1>1 DEF PipelineInv
<1>3. CASE ring' = ring
  BY <1>2, <1>3 DEF Distinct, EventsIn
<1>4. CASE ring' = << >>
  BY <1>2, <1>4, EmptySeq DEF Distinct, EventsIn
<1>5. CASE ReadEvents
  <2>1. /\ EventsIn(ring') \subseteq EventsIn(ring)
        /\ \A i, j \in 1..Len(ring') : ring'[i] = ring'[j] => i = j
    BY <1>5, RingAfterRead
  <2>2. EventsIn(ring)' = EventsIn(ring')
    BY DEF EventsIn
  <2> QED
    BY <1>2, <2>1, <2>2 DEF Distinct
<1> QED
  BY <1>1, <1>3, <1>4, <1>5

LEMMA SourceLate ==
  ASSUME PipelineInv, Source
  PROVE  LateKnown'
<1>a. /\ LateKnown /\ calls \subseteq Event /\ (changed => collector = "flush")
      /\ calls \cap EventsIn(ring) = {} /\ EventsIn(<< >>) = {}
  BY EmptySeq DEF PipelineInv, DriverTypes, ThreadTypes, Distinct, EventsIn
<1>b. EventsIn(ring)' = EventsIn(ring') /\ (ring' = ring => EventsIn(ring') = EventsIn(ring))
  BY DEF EventsIn
<1>c. installed' = installed => Unadmitted' = Unadmitted
  BY DEF Unadmitted, Admits
<1> USE <1>a, <1>b, <1>c DEF LateKnown
<1>d. CASE UNCHANGED <<installed, calls, ring, changed, late>>
  BY <1>d
<1>1. CASE CannotOpen \/ Greet \/ SendTable \/ NoCommand \/ SendStats
  <2>1. UNCHANGED <<installed, calls, ring, changed, late>>
    BY <1>1 DEF CannotOpen, Greet, SendTable, NoCommand, SendStats, driverVars, callVars, ringVars
  <2> QED
    BY <1>d, <2>1
<1>2. CASE ProtocolMismatch \/ Stop
  <2>1. UNCHANGED <<installed, calls, ring, changed, late>>
    BY <1>2 DEF ProtocolMismatch, Stop, Close, callVars, ringVars
  <2> QED
    BY <1>d, <2>1
<1>3. CASE OpenDevice
  <2>1. ring' = << >> /\ late' = late \cap calls /\ UNCHANGED <<installed, calls>>
    BY <1>3 DEF OpenDevice, FlushRing, callVars
  <2> QED
    BY <2>1
<1>4. CASE SetConfig
  <2>1. calls' = calls /\ ring' = ring /\ ~changed
    BY <1>4 DEF SetConfig, Configure, Collector
  <2>2. CASE UNCHANGED <<installed, changed, late>>
    BY <1>d, <2>1, <2>2
  <2>3. CASE /\ installed' = Head(commands) /\ installed.targets = Head(commands).targets
             /\ late' = late
    <3>1. Unadmitted' = Unadmitted
      BY <2>3 DEF Unadmitted, Admits
    <3> QED
      BY <2>1, <2>3, <3>1
  <2>4. CASE changed' /\ late' = {e \in calls : ~Admits(installed', e)}
    <3>1. calls \cap Unadmitted' \subseteq late'
      BY <2>4 DEF Unadmitted, Admits
    <3> QED
      BY <2>1, <2>4, <3>1
  <2> QED
    BY <1>4, <2>2, <2>3, <2>4 DEF SetConfig, Configure
<1>5. CASE Flush
  <2>1. CASE changed
    <3>1. ring' = << >> /\ late' = late \cap calls /\ UNCHANGED <<installed, calls>>
      BY <1>5, <2>1 DEF Flush, FlushRing, callVars
    <3> QED
      BY <3>1
  <2>2. CASE ~changed
    <3>1. UNCHANGED <<installed, calls, ring, late>>
      BY <1>5, <2>2 DEF Flush, callVars
    <3> QED
      BY <2>2, <3>1
  <2> QED
    BY <2>1, <2>2
<1>6. CASE ReadEvents
  <2>1. PICK read \in SUBSET EventsIn(ring) :
          late' = late \ read /\ EventsIn(ring') \subseteq EventsIn(ring) \ read
    BY <1>6, RingAfterRead
  <2>2. UNCHANGED <<installed, calls, changed>>
    BY <1>6 DEF ReadEvents, callVars
  <2> QED
    BY <2>1, <2>2
<1> QED
  BY <1>1, <1>2, <1>3, <1>4, <1>5, <1>6 DEF Source
-----------------------------------------------------------------------------
(* Calls of any process.                                                   *)

LEMMA PassStep ==
  ASSUME PipelineInv, NEW pid \in Pids, Pass(pid)
  PROVE  DriverTypes' /\ Distinct' /\ LateKnown'
<1> DEFINE event == [id |-> captured + 1, pid |-> pid]
<1>a. DriverTypes /\ Distinct /\ LateKnown
  BY DEF PipelineInv
<1>1. /\ Admits(installed, event) /\ calls' = calls \cup {event}
      /\ captured' = captured + 1
      /\ UNCHANGED <<installed, enabled, late, entered, ring, changed>>
  BY DEF Pass, Driver, ringVars
<1>2. /\ event \in Event /\ event.id = captured + 1
      /\ captured \in Nat /\ calls \subseteq Event /\ ring \in Seq(Event)
  BY <1>a DEF Event, DriverTypes
<1> HIDE DEF event
<1>3. EventsIn(ring) \subseteq Event /\ EventsIn(ring)' = EventsIn(ring)
  BY <1>1, <1>2, ElementOfSeq DEF EventsIn
<1>4. DriverTypes'
  BY <1>a, <1>1, <1>2 DEF DriverTypes
<1>5. \A e \in calls \cup EventsIn(ring) : e.id \in Nat /\ e.id <= captured
  BY <1>a, <1>2, <1>3 DEF Distinct, Event
<1>6. event \notin EventsIn(ring)
  BY <1>2, <1>5
<1>7. Distinct'
  BY <1>a, <1>1, <1>2, <1>3, <1>5, <1>6 DEF Distinct
<1>8. Unadmitted' = Unadmitted /\ event \notin Unadmitted
  BY <1>1 DEF Unadmitted, Admits
<1>9. LateKnown'
  BY <1>a, <1>1, <1>3, <1>8 DEF LateKnown
<1> QED
  BY <1>4, <1>7, <1>9

LEMMA PushStep ==
  ASSUME PipelineInv, NEW event \in calls, Push(event)
  PROVE  DriverTypes' /\ Distinct' /\ LateKnown'
<1>a. DriverTypes /\ Distinct /\ LateKnown
  BY DEF PipelineInv
<1>1. /\ ring' = Append(IF Len(ring) = RingEntries THEN Tail(ring) ELSE ring, event)
      /\ calls' = calls \ {event}
      /\ UNCHANGED <<installed, enabled, late, entered, captured, changed>>
  BY DEF Push, Driver
<1>2. /\ event \in Event /\ ring \in Seq(Event) /\ Len(ring) <= RingEntries
      /\ event \notin EventsIn(ring) /\ \A i, j \in 1..Len(ring) : ring[i] = ring[j] => i = j
  BY <1>a DEF DriverTypes, Distinct
<1>3. ring' \in Seq(Event) /\ Len(ring') <= RingEntries
  BY <1>1, <1>2, PushTypes, Limits
<1>4. /\ EventsIn(ring') \subseteq EventsIn(ring) \cup {event}
      /\ \A i, j \in 1..Len(ring') : ring'[i] = ring'[j] => i = j
  BY <1>1, <1>2, PushElements, Limits
<1>5. EventsIn(ring)' = EventsIn(ring') /\ Unadmitted' = Unadmitted
  BY <1>1 DEF EventsIn, Unadmitted, Admits
<1>6. DriverTypes'
  BY <1>a, <1>1, <1>3 DEF DriverTypes
<1>7. Distinct'
  BY <1>a, <1>1, <1>4, <1>5 DEF Distinct
<1>8. LateKnown'
  BY <1>a, <1>1, <1>4, <1>5 DEF LateKnown
<1> QED
  BY <1>6, <1>7, <1>8

LEMMA CallStep ==
  ASSUME PipelineInv, Call
  PROVE  PipelineInv'
<1>1. UNCHANGED <<commands, collectorVars, sentVars, enabled, installed, windowVars>>
      /\ changed' = changed
  BY DEF Call, Pass, Push, Driver, ringVars
<1>2. ChannelTypes' /\ WindowTypes'
  BY <1>1 DEF PipelineInv, ChannelTypes, WindowTypes, sentVars, windowVars, filterVars
<1>3. ThreadTypes' /\ TableFirst'
  BY <1>1 DEF PipelineInv, ThreadTypes, TableFirst, HandleHasOwner, collectorVars, sentVars
<1> QED
  BY <1>2, <1>3, PassStep, PushStep DEF PipelineInv, Call

LEMMA NextPipelineInv == PipelineInv /\ [Next]_vars => PipelineInv'
<1> SUFFICES ASSUME PipelineInv, [Next]_vars
             PROVE  PipelineInv'
  OBVIOUS
<1>a. /\ ChannelTypes /\ DriverTypes /\ WindowTypes /\ ThreadTypes
      /\ Distinct /\ LateKnown /\ TableFirst
  BY DEF PipelineInv
<1>1. CASE Source
  <2>1. UNCHANGED windowVars
    BY <1>1 DEF Source, OpenDevice, CannotOpen, ProtocolMismatch, Greet, SendTable,
       SetConfig, Configure, Flush, Stop, NoCommand, ReadEvents, SendStats, Collector
  <2>2. WindowTypes'
    BY <1>a, <2>1 DEF WindowTypes, windowVars, filterVars
  <2> QED
    BY <1>1, <2>2, SourceChannels, SourceThread, SourceDriver, SourceDistinct, SourceLate
       DEF PipelineInv
<1>b. ASSUME UNCHANGED <<collectorVars, heard, driverVars, late>>
      PROVE  DriverTypes' /\ ThreadTypes' /\ Distinct' /\ LateKnown' /\ TableFirst'
  <2>1. UNCHANGED <<collector, handle, heard, enabled, installed, entered, calls, captured,
                    ring, changed, late>>
    BY <1>b DEF collectorVars, driverVars, callVars, ringVars
  <2>2. DriverTypes' /\ ThreadTypes' /\ TableFirst'
    BY <1>a, <2>1 DEF DriverTypes, ThreadTypes, TableFirst, HandleHasOwner
  <2>3. Distinct' /\ LateKnown'
    BY <1>a, <2>1 DEF Distinct, LateKnown, Unadmitted, Admits, EventsIn
  <2> QED
    BY <2>2, <2>3
<1>2. CASE Frame
  <2>1. UNCHANGED <<collectorVars, heard, driverVars, late>>
    BY <1>2 DEF Frame, Receive, EndDrain, NoWidget, CloseWindow, ToggleCapture,
       ApplyCaptureProcess, Widget, Window
  <2> QED
    BY <1>2, <1>b, <2>1, FrameChannels, FrameWindow DEF PipelineInv
<1>3. CASE Call
  BY <1>3, CallStep
<1>4. CASE UNCHANGED vars
  <2>1. UNCHANGED <<collectorVars, heard, driverVars, late>>
    BY <1>4 DEF vars, sentVars
  <2>2. ChannelTypes' /\ WindowTypes'
    BY <1>a, <1>4 DEF ChannelTypes, WindowTypes, vars, sentVars, windowVars, filterVars
  <2> QED
    BY <1>b, <2>1, <2>2 DEF PipelineInv
<1> QED
  BY <1>1, <1>2, <1>3, <1>4 DEF Next

LEMMA PipelineInvariant == Spec => []PipelineInv
BY InitPipelineInv, NextPipelineInv, PTL DEF Spec

(* Channels, thread, driver and window keep their types, and neither ring  *)
(* nor history outgrows its limit, whatever requests fail.                 *)
THEOREM PipelineTypeCorrect == Spec => []TypeOK
<1>1. PipelineInv => TypeOK
  <2> SUFFICES ASSUME PipelineInv PROVE TypeOK
    OBVIOUS
  <2>1. EventsIn(commands) \subseteq Configs \cup {StopCommand}
    BY ElementOfSeq DEF PipelineInv, ChannelTypes, EventsIn
  <2> QED
    BY <2>1 DEF PipelineInv, DriverTypes, WindowTypes, ThreadTypes, TypeOK
<1> QED
  BY <1>1, PipelineInvariant, PTL

(* No early return of the collector thread leaks the device's handle.      *)
THEOREM DeviceHasOwner == Spec => []HandleHasOwner
<1>1. PipelineInv => HandleHasOwner
  BY DEF PipelineInv, ThreadTypes
<1> QED
  BY <1>1, PipelineInvariant, PTL
-----------------------------------------------------------------------------
(* The refinement: every step of Pipeline is one of EventSource or leaves  *)
(* its variables alone.                                                    *)

LEMMA InitIsSource == Init => Promise!Init
<1> SUFFICES ASSUME Init PROVE Promise!Init
  OBVIOUS
<1>1. Wanted \in Configs
  BY DEF Init, Wanted, Configs
<1>2. installed \in Configs
  BY TargetsAssumption DEF Init, Configs
<1> QED
  BY <1>1, <1>2 DEF Init, Promise!Init

(* What is read belongs to the configuration in force, or is late.         *)
LEMMA ReadIsAdmitted ==
  ASSUME PipelineInv, ReadEvents,
         NEW n, n = IF Len(ring) > BatchEvents THEN BatchEvents ELSE Len(ring)
  PROVE  LET batch == SubSeq(ring, 1, n) IN
         /\ \A i \in 1..Len(batch) : Admits(installed, batch[i]) \/ batch[i] \in late
         /\ late' = late \ {batch[i] : i \in 1..Len(batch)}
<1> DEFINE batch == SubSeq(ring, 1, n)
<1>1. /\ ring \in Seq(Event) /\ Len(ring) \in Nat /\ n \in 0..Len(ring)
      /\ \A i \in 1..Len(ring) : ring[i] \in Event
  BY ReadTypes, LenProperties, ElementOfSeq DEF PipelineInv, DriverTypes
<1>2. Len(batch) = n /\ \A i \in 1..n : batch[i] = ring[i]
  <2>1. /\ Len(batch) = IF 1 <= n THEN n - 1 + 1 ELSE 0
        /\ \A i \in 1..(n - 1 + 1) : batch[i] = ring[1 + i - 1]
    BY <1>1, SubSeqProperties
  <2> HIDE DEF batch
  <2> QED
    BY <1>1, <2>1
<1>3. late' = late \ {ring[i] : i \in 1..n}
  BY DEF ReadEvents
<1>4. \A i \in 1..n : Admits(installed, ring[i]) \/ ring[i] \in late
  <2>1. ~changed
    BY DEF PipelineInv, ThreadTypes, ReadEvents, Collector
  <2>2. EventsIn(ring) \cap Unadmitted \subseteq late
    BY <2>1 DEF PipelineInv, LateKnown
  <2>3. \A i \in 1..n : ring[i] \in EventsIn(ring) /\ ring[i] \in Event
    BY <1>1 DEF EventsIn
  <2> QED
    BY <2>2, <2>3 DEF Unadmitted
<1> HIDE DEF batch
<1> QED
  BY <1>2, <1>3, <1>4 DEF batch

LEMMA SourceIsSource ==
  ASSUME PipelineInv, Source
  PROVE  [Promise!Next]_(Promise!vars)
<1>a. TableFirst
  BY DEF PipelineInv
<1> USE DEF Collector, windowVars, sentVars, driverVars, callVars, Promise!vars
<1>1. CASE OpenDevice \/ Flush
  <2>1. Promise!Finish
    BY <1>1 DEF OpenDevice, Flush, FlushRing, Promise!Finish
  <2> QED
    BY <2>1 DEF Promise!Next
<1>2. CASE CannotOpen
  <2>1. Promise!End
    BY <1>2 DEF CannotOpen, Tell, Promise!End
  <2> QED
    BY <2>1 DEF Promise!Next
<1>3. CASE ProtocolMismatch
  <2>1. Promise!End
    BY <1>3 DEF ProtocolMismatch, Tell, Close, Promise!End
  <2> QED
    BY <2>1 DEF Promise!Next
<1>4. CASE Greet
  BY <1>4 DEF Greet, Tell
<1>5. CASE SendTable
  <2>1. CASE Send([kind |-> "table"])
    <3>1. Promise!Send
      BY <1>a, <1>5, <2>1 DEF SendTable, Send, TableFirst, Promise!Send, Promise!Table
    <3> QED
      BY <3>1 DEF Promise!Next
  <2>2. CASE UNCHANGED sentVars
    BY <1>5, <2>2 DEF SendTable
  <2> QED
    BY <1>5, <2>1, <2>2 DEF SendTable
<1>6. CASE SetConfig
  <2>1. /\ collector = "commands" /\ collector' # "gone"
        /\ commands # << >> /\ Head(commands) # StopCommand /\ commands' = Tail(commands)
        /\ installed' \in {installed, Head(commands)}
        /\ late' \in {late, {e \in calls : ~Admits(installed', e)}}
        /\ UNCHANGED <<calls, heard, last>>
    BY <1>6 DEF SetConfig, Configure, Tell
  <2>2. Promise!Configure
    BY <2>1 DEF Promise!Configure
  <2> QED
    BY <2>2 DEF Promise!Next
<1>7. CASE Stop
  <2>1. Promise!End
    BY <1>7 DEF Stop, Close, Promise!End
  <2> QED
    BY <2>1 DEF Promise!Next
<1>8. CASE NoCommand \/ SendStats
  BY <1>8 DEF NoCommand, SendStats, Tell
<1>9. CASE ReadEvents
  <2> DEFINE n == IF Len(ring) > BatchEvents THEN BatchEvents ELSE Len(ring)
             m == [kind |-> "events", events |-> SubSeq(ring, 1, n)]
  <2> DEFINE batch == SubSeq(ring, 1, n)
  <2>a. /\ \A i \in 1..Len(batch) : Admits(installed, batch[i]) \/ batch[i] \in late
        /\ late' = late \ {batch[i] : i \in 1..Len(batch)}
    BY <1>9, ReadIsAdmitted, Zenon
  <2>b. m.events = batch
    OBVIOUS
  <2>1. /\ \A i \in 1..Len(m.events) : Admits(installed, m.events[i]) \/ m.events[i] \in late
        /\ late' = late \ {m.events[i] : i \in 1..Len(m.events)}
    <3> HIDE DEF batch, m
    <3> QED
      BY <2>a, <2>b
  <2>2. m.kind = "events"
    OBVIOUS
  <2>3. Send(m) \/ (n = 0 /\ UNCHANGED sentVars)
    BY <1>9 DEF ReadEvents
  <2>4. n = 0 => late' = late
    BY <1>9 DEF ReadEvents
  <2> HIDE DEF n, m
  <2>5. CASE Send(m)
    <3>1. Promise!Send
      BY <1>9, <2>1, <2>2, <2>5 DEF ReadEvents, Send, Promise!Send, Promise!Events
    <3> QED
      BY <3>1 DEF Promise!Next
  <2>6. CASE n = 0 /\ UNCHANGED sentVars
    <3>1. UNCHANGED <<commands, installed, calls, late>>
      BY <1>9, <2>4, <2>6 DEF ReadEvents
    <3>2. collector # "gone" /\ collector' # "gone" /\ UNCHANGED <<heard, last>>
      BY <1>9, <2>6 DEF ReadEvents
    <3> QED
      BY <3>1, <3>2
  <2> QED
    BY <2>3, <2>5, <2>6
<1> QED
  BY <1>1, <1>2, <1>3, <1>4, <1>5, <1>6, <1>7, <1>8, <1>9 DEF Source

LEMMA NextIsSource == PipelineInv /\ [Next]_vars => [Promise!Next]_(Promise!vars)
<1> SUFFICES ASSUME PipelineInv, [Next]_vars
             PROVE  [Promise!Next]_(Promise!vars)
  OBVIOUS
<1>1. CASE Source
  BY <1>1, SourceIsSource
<1>2. CASE Frame
  <2>1. UNCHANGED <<collectorVars, heard, last, driverVars, late>>
    BY <1>2 DEF Frame, Receive, EndDrain, NoWidget, CloseWindow, ToggleCapture,
       ApplyCaptureProcess, Widget, Window
  <2>2. UNCHANGED <<installed, calls, late, collector, heard, last>>
    BY <2>1 DEF collectorVars, driverVars, callVars
  <2>3. CASE commands' = commands
    BY <2>2, <2>3 DEF Promise!vars
  <2>4. CASE \E c \in Configs \cup {StopCommand} : commands' = Append(commands, c)
    BY <2>2, <2>4 DEF Promise!Next, Promise!Order
  <2> QED
    BY <1>2, <2>3, <2>4, FrameOrders
<1>3. CASE Call
  <2>1. ASSUME NEW pid \in Pids, Pass(pid)
        PROVE  Promise!Pass
    BY <2>1 DEF Pass, Driver, collectorVars, sentVars, Promise!Pass
  <2>2. ASSUME NEW event \in calls, Push(event)
        PROVE  Promise!Finish
    BY <2>2 DEF Push, Driver, collectorVars, sentVars, Promise!Finish
  <2> QED
    BY <1>3, <2>1, <2>2 DEF Call, Promise!Next
<1>4. CASE UNCHANGED vars
  BY <1>4 DEF vars, collectorVars, sentVars, driverVars, callVars, Promise!vars
<1> QED
  BY <1>1, <1>2, <1>3, <1>4 DEF Next

(* The collector thread implements EventSource: commands in order, the     *)
(* table before any event, only events that the configuration in force     *)
(* admits, or of calls that had passed the one before and were not queued  *)
(* when it was replaced, each once, and nothing after the stop.            *)
THEOREM CollectorImplementsSource == Spec => CollectorIsEventSource
BY InitIsSource, NextIsSource, PipelineInvariant, PTL
   DEF Spec, CollectorIsEventSource, Promise!Spec
-----------------------------------------------------------------------------
(* Where an event in the channel or the history may come from.             *)

(* An event the thread puts into the channel is one that the configuration *)
(* in force admits, or is late.                                            *)
AdmittedMessage(m) ==
  m.kind = "events" => \A e \in EventsIn(m.events) : Admits(installed, e) \/ e \in late

LEMMA PostAdds ==
  ASSUME ChannelTypes, NEW batch \in Seq(Message), Post(batch)
  PROVE  EventsIn(messages') \subseteq EventsIn(messages) \cup EventsIn(batch)
BY ConcatElements DEF Post, ChannelTypes

LEMMA SingleElement == \A m : EventsIn(<<m>>) = {m}
BY DEF EventsIn

LEMMA SendAdds ==
  ASSUME ChannelTypes, NEW m \in Message, Send(m), AdmittedMessage(m)
  PROVE  \A k \in EventsIn(messages') : k \in EventsIn(messages) \/ AdmittedMessage(k)
<1>1. <<m>> \in Seq(Message) /\ Post(<<m>>)
  BY DEF Send
<1>2. EventsIn(messages') \subseteq EventsIn(messages) \cup {m}
  BY <1>1, PostAdds, SingleElement
<1> QED
  BY <1>2

LEMMA TellAdds ==
  ASSUME ChannelTypes,
         \/ Tell(<<Status>>) \/ Tell(<<Stats>>) \/ Tell(<<Stats, Status>>)
  PROVE  \A k \in EventsIn(messages') : k \in EventsIn(messages) \/ AdmittedMessage(k)
<1>1. PICK batch \in {<<Status>>, <<Stats>>, <<Stats, Status>>} : Tell(batch)
  OBVIOUS
<1>2. batch \in Seq(Message) /\ EventsIn(batch) \subseteq {Status, Stats}
  <2>1. Status \in Message /\ Stats \in Message
    BY DEF Status, Stats, Message
  <2>2. EventsIn(<<Stats, Status>>) = {Status, Stats}
    BY DEF EventsIn
  <2>3. EventsIn(<<Status>>) = {Status} /\ EventsIn(<<Stats>>) = {Stats}
    BY SingleElement, Zenon
  <2>4. batch = <<Status>> \/ batch = <<Stats>> \/ batch = <<Stats, Status>>
    OBVIOUS
  <2>5. /\ <<Status>> \in Seq(Message) /\ <<Stats>> \in Seq(Message)
        /\ <<Stats, Status>> \in Seq(Message)
    BY <2>1
  <2> QED
    BY <2>2, <2>3, <2>4, <2>5, Zenon
<1>3. EventsIn(messages') \subseteq EventsIn(messages) \cup {Status, Stats}
  BY <1>1, <1>2, PostAdds DEF Tell
<1>4. AdmittedMessage(Status) /\ AdmittedMessage(Stats)
  BY DEF AdmittedMessage, Status, Stats
<1> QED
  BY <1>3, <1>4

LEMMA SourceAdds ==
  ASSUME PipelineInv, Source
  PROVE  \A k \in EventsIn(messages') : k \in EventsIn(messages) \/ AdmittedMessage(k)
<1>a. ChannelTypes /\ DriverTypes
  BY DEF PipelineInv
<1>b. CASE messages' = messages
  BY <1>b
<1>1. CASE OpenDevice \/ NoCommand \/ Flush \/ Stop
  BY <1>b, <1>1 DEF OpenDevice, NoCommand, Flush, Stop, sentVars
<1>2. CASE CannotOpen \/ ProtocolMismatch \/ Greet
  <2>1. Tell(<<Status>>) \/ Tell(<<Stats, Status>>)
    BY <1>2 DEF CannotOpen, ProtocolMismatch, Greet
  <2> QED
    BY <1>a, <2>1, TellAdds
<1>3. CASE SendTable \/ SendStats
  <2>1. Send([kind |-> "table"]) \/ Tell(<<Stats>>) \/ messages' = messages
    BY <1>3 DEF SendTable, SendStats, sentVars
  <2>2. AdmittedMessage([kind |-> "table"])
    BY DEF AdmittedMessage
  <2> QED
    BY <1>a, <1>b, <2>1, <2>2, TellAdds, SendAdds, TableMessage
<1>4. CASE SetConfig
  <2>1. messages' = messages \/ Tell(<<Status>>)
    BY <1>4 DEF SetConfig, Configure, sentVars
  <2> QED
    BY <1>a, <1>b, <2>1, TellAdds
<1>5. CASE ReadEvents
  <2> DEFINE n == IF Len(ring) > BatchEvents THEN BatchEvents ELSE Len(ring)
             m == [kind |-> "events", events |-> SubSeq(ring, 1, n)]
  <2>1. SubSeq(ring, 1, n) \in Seq(Event)
    BY <1>a, ReadTypes DEF DriverTypes
  <2>2. m \in Message
    BY <2>1 DEF Message
  <2>3. \A i \in 1..Len(SubSeq(ring, 1, n)) :
          Admits(installed, SubSeq(ring, 1, n)[i]) \/ SubSeq(ring, 1, n)[i] \in late
    BY <1>5, ReadIsAdmitted
  <2>4. AdmittedMessage(m)
    BY <2>3 DEF AdmittedMessage, EventsIn
  <2>5. Send(m) \/ messages' = messages
    BY <1>5 DEF ReadEvents, sentVars
  <2> HIDE DEF n, m
  <2> QED
    BY <1>a, <1>b, <2>2, <2>4, <2>5, SendAdds
<1> QED
  BY <1>1, <1>2, <1>3, <1>4, <1>5 DEF Source

(* The window only moves events from the channel to the history, and loses *)
(* some.                                                                   *)
LEMMA FrameMoves ==
  ASSUME PipelineInv, Frame
  PROVE  /\ EventsIn(messages') \subseteq EventsIn(messages)
         /\ EventsIn(history') \subseteq InFlight \cup EventsIn(history)
<1>a. /\ messages \in Seq(Message) /\ history \in Seq(Event)
      /\ EventsIn(<< >>) = {}
  BY DEF PipelineInv, ChannelTypes, WindowTypes, EventsIn
<1>1. CASE Receive
  <2> DEFINE m   == Head(messages)
             all == IF m.kind = "events" THEN history \o m.events ELSE history
  <2>1. /\ m \in Message /\ m \in EventsIn(messages)
        /\ EventsIn(messages') \subseteq EventsIn(messages)
    BY <1>1, <1>a, HeadTailProperties, HeadAndTailElements DEF Receive
  <2>2. m.kind = "events" => /\ m.events \in Seq(Event)
                             /\ EventsIn(m.events) \subseteq InFlight
    BY <2>1 DEF Message, InFlight
  <2>3. all \in Seq(Event) /\ EventsIn(all) \subseteq InFlight \cup EventsIn(history)
    BY <1>a, <2>2, ConcatProperties, ConcatElements
  <2>4. history' = IF Len(all) > MaxEvents
                   THEN SubSeq(all, Len(all) - MaxEvents + 1, Len(all)) ELSE all
    BY <1>1 DEF Receive
  <2> HIDE DEF all
  <2>5. Len(all) \in Nat
    BY <2>3, LenProperties
  <2>6. EventsIn(history') \subseteq EventsIn(all)
    <3>1. CASE Len(all) > MaxEvents
      <4>1. Len(all) - MaxEvents + 1 \in 1..Len(all) + 1 /\ Len(all) \in 0..Len(all)
        BY <2>5, <3>1, Limits
      <4> QED
        BY <2>3, <2>4, <3>1, <4>1, PartElements
    <3>2. CASE ~(Len(all) > MaxEvents)
      BY <2>4, <3>2
    <3> QED
      BY <3>1, <3>2
  <2> QED
    BY <2>1, <2>3, <2>6
<1>2. CASE EndDrain \/ NoWidget \/ CloseWindow
  BY <1>2, <1>a DEF EndDrain, NoWidget, CloseWindow
<1>3. CASE ToggleCapture
  BY <1>3 DEF ToggleCapture, Widget
<1>4. ASSUME NEW chosen \in Choices, ApplyCaptureProcess(chosen)
      PROVE  /\ EventsIn(messages') \subseteq EventsIn(messages)
             /\ EventsIn(history') \subseteq InFlight \cup EventsIn(history)
  BY <1>4, <1>a DEF ApplyCaptureProcess, Widget
<1> QED
  BY <1>1, <1>2, <1>3, <1>4 DEF Frame

(* Once the driver has the window's targets, and until they change, an     *)
(* event of other targets that is new in the channel or the history is of  *)
(* a call that had passed them and was not in the ring when it was flushed *)
(* and comes once, for any number of processes and calls and any limits.   *)
THEOREM OldEventsNeverReturn == Spec => OldEventsStayAway
<1>1. PipelineInv /\ [Next]_vars =>
        [installed.targets = targets /\ targets' = targets => Old' \ Old \subseteq late]_vars
  <2> SUFFICES ASSUME PipelineInv, Next, installed.targets = targets, targets' = targets,
                      NEW e \in InFlight' \cup EventsIn(history'), ~Admits(Wanted', e),
                      e \notin Old
               PROVE  e \in late
    BY DEF Old, EventsIn
  <2>1. \A d : /\ Admits(Wanted', d) <=> Admits(Wanted, d)
              /\ Admits(installed, d) <=> Admits(Wanted, d)
    BY DEF Admits, Wanted
  <2>2. e \notin InFlight \cup EventsIn(history)
    BY <2>1 DEF Old
  <2>3. CASE Source
    <3>1. history' = history
      BY <2>3 DEF Source, OpenDevice, CannotOpen, ProtocolMismatch, Greet, SendTable,
         SetConfig, Configure, Flush, Stop, NoCommand, ReadEvents, SendStats, Collector,
         windowVars
    <3>2. e \in InFlight'
      BY <2>2, <3>1
    <3>3. PICK k \in EventsIn(messages') : k.kind = "events" /\ e \in EventsIn(k.events)
      BY <3>2 DEF InFlight, EventsIn
    <3>4. k \notin EventsIn(messages)
      BY <2>2, <3>3 DEF InFlight
    <3>5. AdmittedMessage(k)
      BY <2>3, <3>4, SourceAdds
    <3> QED
      BY <2>1, <3>3, <3>5 DEF AdmittedMessage
  <2>4. CASE Frame
    <3>1. /\ EventsIn(messages') \subseteq EventsIn(messages)
          /\ EventsIn(history') \subseteq InFlight \cup EventsIn(history)
      BY <2>4, FrameMoves
    <3>2. InFlight' = UNION {EventsIn(m.events) :
                              m \in {k \in EventsIn(messages') : k.kind = "events"}}
      BY DEF InFlight, EventsIn
    <3>3. InFlight' \subseteq InFlight
      BY <3>1, <3>2 DEF InFlight
    <3> QED
      BY <2>2, <3>1, <3>3
  <2>5. CASE Call
    <3>1. UNCHANGED <<messages, history>>
      BY <2>5 DEF Call, Pass, Push, Driver, sentVars, windowVars
    <3> QED
      BY <2>2, <3>1 DEF InFlight, EventsIn
  <2> QED
    BY <2>3, <2>4, <2>5 DEF Next
<1> QED
  BY <1>1, PipelineInvariant, PTL DEF Spec, OldEventsStayAway
-----------------------------------------------------------------------------
(* The demo.  What a loop over the rules of a configuration has found out  *)
(* of an event after the first i of them.                                  *)

Matches(rule, e) ==
  \A k \in DOMAIN rule.conditions : e.arguments[rule.conditions[k][1]] = rule.conditions[k][2]

Own(c, e, i, action) == {j \in 1..i : c.rules[j].id = e.id /\ c.rules[j].action = action}

Found == [drop : BOOLEAN, only : BOOLEAN, matched : BOOLEAN]

Fresh == [drop |-> FALSE, only |-> FALSE, matched |-> FALSE]

FoundOut(c, e, i, r) ==
  ~r.drop =>
    /\ \A j \in Own(c, e, i, "except") : ~Matches(c.rules[j], e)
    /\ Own(c, e, i, "only") # {} => r.only
    /\ r.matched => \E j \in Own(c, e, i, "only") : Matches(c.rules[j], e)

LEMMA DemoRules ==
  ASSUME NEW c \in D!Configs
  PROVE  /\ c.pids \in Seq(Nat) /\ Len(c.rules) \in Nat /\ DOMAIN c.rules = 1..Len(c.rules)
         /\ \A i \in 1..Len(c.rules) : c.rules[i] \in D!Rules
BY SourcesAssumption, LenProperties, ElementOfSeq DEF D!DemoAssumption

LEMMA RuleFound ==
  ASSUME NEW r \in Found, NEW rule \in D!Rules, NEW e
  PROVE  /\ D!WithRule(r, rule, e) \in Found
         /\ rule.id # e.id \/ r.drop => D!WithRule(r, rule, e) = r
         /\ rule.id = e.id /\ ~r.drop =>
              /\ D!WithRule(r, rule, e).drop = (Matches(rule, e) /\ rule.action = "except")
              /\ D!WithRule(r, rule, e).only = (r.only \/ rule.action = "only")
              /\ D!WithRule(r, rule, e).matched
                   = (r.matched \/ (Matches(rule, e) /\ rule.action = "only"))
<1> DEFINE m == Matches(rule, e)
<1>1. m \in BOOLEAN
  BY DEF Matches
<1>2. D!WithRule(r, rule, e) =
        IF rule.id # e.id \/ r.drop THEN r
        ELSE [drop    |-> m /\ rule.action = "except",
              only    |-> r.only \/ rule.action = "only",
              matched |-> r.matched \/ (m /\ rule.action = "only")]
  BY Zenon DEF D!WithRule, Matches
<1> HIDE DEF m
<1>3. r.drop \in BOOLEAN /\ r.only \in BOOLEAN /\ r.matched \in BOOLEAN
  BY DEF Found
<1>4. CASE rule.id # e.id \/ r.drop
  BY <1>2, <1>4
<1>5. CASE rule.id = e.id /\ ~r.drop
  <2>1. D!WithRule(r, rule, e) =
          [drop    |-> m /\ rule.action = "except",
           only    |-> r.only \/ rule.action = "only",
           matched |-> r.matched \/ (m /\ rule.action = "only")]
    BY <1>2, <1>5
  <2>2. D!WithRule(r, rule, e) \in Found
    BY <1>1, <1>3, <2>1 DEF Found
  <2> QED
    BY <1>5, <2>1, <2>2 DEF m
<1> QED
  BY <1>4, <1>5

LEMMA FoundNext ==
  ASSUME NEW c \in D!Configs, NEW e, NEW i \in 0..(Len(c.rules) - 1),
         NEW r \in Found, FoundOut(c, e, i, r)
  PROVE  FoundOut(c, e, i + 1, D!WithRule(r, c.rules[i + 1], e))
<1> DEFINE rule == c.rules[i + 1]
           n    == D!WithRule(r, rule, e)
<1>1. i \in Nat /\ i + 1 \in 1..Len(c.rules) /\ rule \in D!Rules
  BY DemoRules
<1>2. rule.action \in {"except", "only"}
  BY <1>1 DEF D!Rules
<1>3. \A action : Own(c, e, i + 1, action) =
        Own(c, e, i, action)
          \cup (IF rule.id = e.id /\ rule.action = action THEN {i + 1} ELSE {})
  BY <1>1 DEF Own
<1> HIDE DEF rule, n
<1>4. CASE rule.id # e.id
  <2>1. n = r
    BY <1>1, <1>4, RuleFound DEF n
  <2>2. \A action : Own(c, e, i + 1, action) = Own(c, e, i, action)
    BY <1>3, <1>4
  <2> QED
    BY <2>1, <2>2 DEF FoundOut, n, rule
<1>5. CASE r.drop
  <2>1. n = r
    BY <1>1, <1>5, RuleFound DEF n
  <2> QED
    BY <1>5, <2>1 DEF FoundOut, n, rule
<1>6. CASE rule.id = e.id /\ ~r.drop
  <2> DEFINE m == Matches(rule, e)
  <2>1. /\ n.drop = (m /\ rule.action = "except")
        /\ n.only = (r.only \/ rule.action = "only")
        /\ n.matched = (r.matched \/ (m /\ rule.action = "only"))
    BY <1>1, <1>6, RuleFound DEF n
  <2>2. SUFFICES ASSUME ~n.drop
                 PROVE  /\ \A j \in Own(c, e, i + 1, "except") : ~Matches(c.rules[j], e)
                        /\ Own(c, e, i + 1, "only") # {} => n.only
                        /\ n.matched => \E j \in Own(c, e, i + 1, "only") : Matches(c.rules[j], e)
    BY DEF FoundOut, n, rule
  <2>3. /\ \A j \in Own(c, e, i, "except") : ~Matches(c.rules[j], e)
        /\ Own(c, e, i, "only") # {} => r.only
        /\ r.matched => \E j \in Own(c, e, i, "only") : Matches(c.rules[j], e)
    BY <1>6 DEF FoundOut
  <2>4. m = Matches(c.rules[i + 1], e)
    BY DEF rule
  <2> HIDE DEF m
  <2>5. CASE rule.action = "except"
    <3>1. /\ Own(c, e, i + 1, "except") = Own(c, e, i, "except") \cup {i + 1}
          /\ Own(c, e, i + 1, "only") = Own(c, e, i, "only")
      BY <1>3, <1>6, <2>5
    <3>2. ~m
      BY <2>1, <2>2, <2>5
    <3> QED
      BY <2>1, <2>3, <2>4, <2>5, <3>1, <3>2
  <2>6. CASE rule.action = "only"
    <3>1. /\ Own(c, e, i + 1, "except") = Own(c, e, i, "except")
          /\ Own(c, e, i + 1, "only") = Own(c, e, i, "only") \cup {i + 1}
      BY <1>3, <1>6, <2>6
    <3> QED
      BY <2>1, <2>3, <2>4, <2>6, <3>1
  <2> QED
    BY <1>2, <2>5, <2>6
<1> QED
  BY <1>4, <1>5, <1>6

(* What the loop over the rules lets pass, no rule keeps back.             *)
LEMMA RulesAdmit ==
  ASSUME NEW c \in D!Configs, NEW e, D!demo_argument_rules_allow(c, e)
  PROVE  /\ \A j \in Own(c, e, Len(c.rules), "except") : ~Matches(c.rules[j], e)
         /\ Own(c, e, Len(c.rules), "only") # {}
              => \E j \in Own(c, e, Len(c.rules), "only") : Matches(c.rules[j], e)
<1> DEFINE n == Len(c.rules)
           Unfolded(g) == [i \in 0..n |-> IF i = 0 THEN Fresh
                                          ELSE D!WithRule(g[i - 1], c.rules[i], e)]
           after == CHOOSE g : g = Unfolded(g)
<1>1. D!RulesRead(c, e) = after[n]
  BY Zenon DEF D!RulesRead, Fresh
<1>2. n \in Nat /\ \A i \in 1..n : c.rules[i] \in D!Rules
  BY DemoRules
<1>3. Fresh \in Found
  BY DEF Fresh, Found
<1>4. after \in [0..n -> Found] /\ after = Unfolded(after)
  <2> DEFINE G == [i \in 1..n |-> [r \in Found |-> D!WithRule(r, c.rules[i], e)]]
  <2>1. G \in [1..n -> [Found -> Found]]
    <3> HIDE DEF n
    <3> QED
      BY <1>2, RuleFound
  <2>2. \A i \in 1..n : \A r \in Found : G[i][r] = D!WithRule(r, c.rules[i], e)
    OBVIOUS
  <2> HIDE DEF G
  <2>3. PICK g \in [0..n -> Found] : Iterates(n, Fresh, G, g)
    BY <1>2, <1>3, <2>1, IterationExists
  <2>4. \A f \in [0..n -> Found] : \A i \in 0..n :
          i # 0 => G[i][f[i - 1]] = D!WithRule(f[i - 1], c.rules[i], e)
    <3> HIDE DEF n
    <3> QED
      BY <1>2, <2>2
  <2>5. g = Unfolded(g)
    <3> HIDE DEF n
    <3> QED
      BY <2>3, <2>4 DEF Iterates
  <2>6. after = Unfolded(after)
    BY <2>5, Zenon
  <2> HIDE DEF after
  <2>7. \A i \in 0..n : after[i] \in Found
    <3> DEFINE A == {i \in 0..n : after[i] \in Found}
    <3>1. 0 \in A
      <4> HIDE DEF n
      <4> QED
        BY <1>2, <1>3, <2>6
    <3>2. ASSUME NEW i \in 0..(n - 1), i \in A
          PROVE  i + 1 \in A
      <4> HIDE DEF n
      <4>1. i + 1 \in 1..n /\ (i + 1) - 1 = i /\ i + 1 # 0 /\ i + 1 \in 0..n
        BY <1>2
      <4>2. after[i + 1] = D!WithRule(after[i], c.rules[i + 1], e)
        BY <2>6, <4>1
      <4> QED
        BY <1>2, <3>2, <4>1, <4>2, RuleFound
    <3> HIDE DEF A
    <3>3. \A i \in 0..n : i \in A
      BY <1>2, <3>1, <3>2, UpTo
    <3> QED
      BY <3>3 DEF A
  <2> HIDE DEF n
  <2> QED
    BY <2>6, <2>7
<1> HIDE DEF after
<1>5. \A i \in 0..n : FoundOut(c, e, i, after[i])
  <2> DEFINE A == {i \in 0..n : FoundOut(c, e, i, after[i])}
  <2>1. 0 \in A
    <3>1. after[0] = Fresh
      <4> HIDE DEF n
      <4> QED
        BY <1>2, <1>4
    <3>2. \A action : Own(c, e, 0, action) = {}
      BY DEF Own
    <3>3. FoundOut(c, e, 0, Fresh)
      BY <3>2 DEF FoundOut, Fresh
    <3> QED
      BY <1>2, <3>1, <3>3
  <2>2. ASSUME NEW i \in 0..(n - 1), i \in A
        PROVE  i + 1 \in A
    <3>1. i + 1 \in 1..n /\ (i + 1) - 1 = i /\ i + 1 # 0 /\ i + 1 \in 0..n /\ i \in 0..n
      <4> HIDE DEF n
      <4> QED
        BY <1>2
    <3>2. after[i + 1] = D!WithRule(after[i], c.rules[i + 1], e) /\ after[i] \in Found
      <4> HIDE DEF n
      <4> QED
        BY <1>4, <3>1
    <3>3. FoundOut(c, e, i + 1, after[i + 1])
      BY <2>2, <3>2, FoundNext
    <3> QED
      BY <3>1, <3>3
  <2> HIDE DEF A
  <2>3. \A i \in 0..n : i \in A
    BY <1>2, <2>1, <2>2, UpTo
  <2> QED
    BY <2>3 DEF A
<1>6. FoundOut(c, e, n, after[n]) /\ after[n] \in Found
  <2> HIDE DEF n
  <2> QED
    BY <1>2, <1>4, <1>5
<1>7. ~after[n].drop /\ (~after[n].only \/ after[n].matched)
  BY <1>1 DEF D!demo_argument_rules_allow
<1> HIDE DEF n
<1> QED
  BY <1>6, <1>7 DEF FoundOut, n
-----------------------------------------------------------------------------
(* What the loop of a tick puts into its batch, the configuration admits.  *)

DemoAdmitted == {e \in {D!DemoEvent(n) : n \in Nat} : D!Admits(config, e)}

LEMMA PidOfDemo ==
  ASSUME config \in D!Configs, NEW n \in Nat
  PROVE  config.pids = << >> \/ D!Contains(config.pids, D!DemoEvent(n).pid)
<1> DEFINE pids == config.pids
<1>1. pids \in Seq(Nat) /\ Len(pids) \in Nat
  BY DemoRules, LenProperties
<1> SUFFICES ASSUME pids # << >>
             PROVE  D!Contains(pids, D!DemoEvent(n).pid)
  OBVIOUS
<1>2. D!DemoEvent(n).pid = pids[(n % Len(pids)) + 1]
  BY DEF D!DemoEvent
<1> HIDE DEF pids
<1>3. Len(pids) # 0
  BY <1>1, EmptySeq
<1>4. n % Len(pids) \in 0..(Len(pids) - 1)
  BY <1>1, <1>3
<1>5. (n % Len(pids)) + 1 \in 1..Len(pids)
  <2> DEFINE rest == n % Len(pids)
  <2> HIDE DEF rest
  <2> QED
    BY <1>1, <1>3, <1>4 DEF rest
<1> QED
  BY <1>2, <1>5 DEF D!Contains

LEMMA KeptIsAdmitted ==
  ASSUME config \in D!Configs, NEW n \in Nat, D!Kept(D!DemoEvent(n))
  PROVE  D!DemoEvent(n) \in DemoAdmitted
<1> DEFINE e == D!DemoEvent(n)
<1>1. config.pids = << >> \/ D!Contains(config.pids, e.pid)
  BY PidOfDemo
<1>3. e.category \in config.categories /\ e.id \in config.operations
  BY DEF D!Kept
<1> HIDE DEF e
<1>4. /\ \A j \in Own(config, e, Len(config.rules), "except") : ~Matches(config.rules[j], e)
      /\ Own(config, e, Len(config.rules), "only") # {}
           => \E j \in Own(config, e, Len(config.rules), "only") : Matches(config.rules[j], e)
  BY RulesAdmit DEF D!Kept, e
<1> DEFINE own(action) == {r \in D!ToSet(config.rules) : r.id = e.id /\ r.action = action}
           matches(r) == \A w \in D!ToSet(r.conditions) : e.arguments[w[1]] = w[2]
<1>5. \A r : matches(r) <=> Matches(r, e)
  BY DEF D!ToSet, Matches
<1>6. \A action : own(action) = {config.rules[j] : j \in Own(config, e, Len(config.rules), action)}
  BY DemoRules DEF D!ToSet, Own
<1>7. \A r \in own("except") : ~matches(r)
  <2> HIDE DEF own, matches
  <2> QED
    BY <1>4, <1>5, <1>6
<1>8. own("only") # {} => \E r \in own("only") : matches(r)
  <2> HIDE DEF own, matches
  <2> QED
    BY <1>4, <1>5, <1>6
<1>9. D!Admits(config, e)
  BY <1>1, <1>3, <1>7, <1>8, Zenon DEF D!Admits
<1> QED
  BY <1>9 DEF DemoAdmitted, e

LEMMA BatchIsAdmitted ==
  ASSUME config \in D!Configs
  PROVE  D!Batch \in Seq(DemoAdmitted)
<1> DEFINE n == BatchSize
           S == Seq(DemoAdmitted)
           Turn(s, i) == IF D!Kept(D!DemoEvent(i - 1)) THEN Append(s, D!DemoEvent(i - 1)) ELSE s
           Unfolded(g) == [i \in 0..n |-> IF i = 0 THEN << >> ELSE Turn(g[i - 1], i)]
           made == CHOOSE g : g = Unfolded(g)
<1>1. D!Batch = made[n]
  BY Zenon DEF D!Batch
<1>2. n \in Nat
  BY SourcesAssumption DEF D!DemoAssumption
<1>3. << >> \in S
  OBVIOUS
<1>4. \A s \in S : \A i \in 1..n : Turn(s, i) \in S
  <2> SUFFICES ASSUME NEW s \in S, NEW i \in 1..n
               PROVE  Turn(s, i) \in S
    OBVIOUS
  <2>1. i - 1 \in Nat
    BY <1>2
  <2>2. D!Kept(D!DemoEvent(i - 1)) => D!DemoEvent(i - 1) \in DemoAdmitted
    BY <2>1, KeptIsAdmitted
  <2> DEFINE e == D!DemoEvent(i - 1)
  <2> HIDE DEF e
  <2> QED
    BY <2>2, AppendProperties DEF e
<1> HIDE DEF Turn, S
<1> DEFINE G == [i \in 1..n |-> [s \in S |-> Turn(s, i)]]
<1>5. G \in [1..n -> [S -> S]] /\ \A i \in 1..n : \A s \in S : G[i][s] = Turn(s, i)
  BY <1>4
<1> HIDE DEF G, n
<1>6. PICK g \in [0..n -> S] : Iterates(n, << >>, G, g)
  BY <1>2, <1>3, <1>5, IterationExists
<1>7. \A i \in 0..n : i # 0 => G[i][g[i - 1]] = Turn(g[i - 1], i)
  BY <1>2, <1>5, <1>6
<1>8. g = Unfolded(g)
  BY <1>6, <1>7 DEF Iterates
<1>9. made = Unfolded(made)
  BY <1>8, Zenon
<1> HIDE DEF made
<1>10. \A i \in 0..n : made[i] \in S
  <2> DEFINE A == {i \in 0..n : made[i] \in S}
  <2>1. 0 \in A
    BY <1>2, <1>3, <1>9
  <2>2. ASSUME NEW i \in 0..(n - 1), i \in A
        PROVE  i + 1 \in A
    <3>1. i + 1 \in 1..n /\ (i + 1) - 1 = i /\ i + 1 # 0 /\ i + 1 \in 0..n
      BY <1>2
    <3>2. made[i + 1] = Turn(made[i], i + 1)
      BY <1>9, <3>1
    <3> QED
      BY <1>4, <2>2, <3>1, <3>2
  <2> HIDE DEF A
  <2>3. \A i \in 0..n : i \in A
    BY <1>2, <2>1, <2>2, UpTo
  <2> QED
    BY <2>3 DEF A
<1> QED
  BY <1>1, <1>2, <1>10 DEF S
-----------------------------------------------------------------------------
(* The demo step by step.                                                  *)

DemoInv ==
  /\ config \in D!Configs
  /\ demo_commands \in Seq(D!Configs \cup {StopCommand})
  /\ demo_at = "start" => demo_heard = {}

DemoSteps == [D!Next]_demoVars

LEMMA InitIsDemoSource == D!Init => DemoInv /\ D!Promise!Init
<1> SUFFICES ASSUME D!Init
             PROVE  DemoInv /\ D!Promise!Init
  OBVIOUS
<1>1. PICK c \in DemoOrders : demo_commands = <<c>>
  BY DEF D!Init
<1> QED
  BY <1>1 DEF D!Init, DemoInv, D!Promise!Init, D!Configs

LEMMA DemoHead ==
  ASSUME DemoInv, demo_commands # << >>
  PROVE  /\ Head(demo_commands) \in D!Configs \cup {StopCommand}
         /\ Tail(demo_commands) \in Seq(D!Configs \cup {StopCommand})
BY HeadTailProperties DEF DemoInv

LEMMA DemoKeeps == DemoInv /\ D!Next => DemoInv'
<1> SUFFICES ASSUME DemoInv, D!Next
             PROVE  DemoInv'
  OBVIOUS
<1> USE DEF DemoInv, D!sent, D!Thread
<1>1. CASE D!Start
  BY <1>1 DEF D!Start
<1>2. CASE D!TakeConfig
  BY <1>2, DemoHead DEF D!TakeConfig
<1>3. CASE D!Stop
  BY <1>3, DemoHead DEF D!Stop
<1>4. CASE D!NoCommand
  BY <1>4 DEF D!NoCommand
<1>5. CASE D!Idle
  BY <1>5 DEF D!Idle
<1>6. CASE D!Tick
  BY <1>6 DEF D!Tick, D!Send
<1>7. ASSUME NEW c \in DemoOrders, D!Order(c)
      PROVE  DemoInv'
  BY <1>7, AppendProperties DEF D!Order, D!Configs
<1>8. CASE D!Close
  BY <1>8, AppendProperties DEF D!Close
<1> QED
  BY <1>1, <1>2, <1>3, <1>4, <1>5, <1>6, <1>7, <1>8 DEF D!Next, D!Source

LEMMA DemoRefines == DemoInv /\ D!Next => [D!Promise!Next]_(D!Promise!vars)
<1> SUFFICES ASSUME DemoInv, D!Next
             PROVE  D!Promise!Next \/ UNCHANGED D!Promise!vars
  OBVIOUS
<1> USE DEF D!sent, D!Thread, D!Promise!vars
<1>1. CASE D!Start
  BY <1>1 DEF D!Start, DemoInv, D!Promise!Next, D!Promise!Send, D!Promise!Table
<1>2. CASE D!TakeConfig
  BY <1>2 DEF D!TakeConfig, D!Promise!Next, D!Promise!Configure
<1>3. CASE D!Stop
  BY <1>3 DEF D!Stop, D!Promise!Next, D!Promise!End
<1>4. CASE D!NoCommand
  BY <1>4 DEF D!NoCommand
<1>5. CASE D!Idle
  BY <1>5 DEF D!Idle
<1>6. CASE D!Tick
  <2>1. D!Batch \in Seq(DemoAdmitted)
    BY BatchIsAdmitted DEF DemoInv
  <2>2. demo_last' = [kind |-> "events", events |-> D!Batch]
    BY <1>6 DEF D!Tick, D!Send
  <2>3. \A i \in 1..Len(D!Batch) : D!Admits(config, D!Batch[i])
    BY <2>1, ElementOfSeq DEF DemoAdmitted
  <2>4. D!Promise!Events
    BY <2>2, <2>3 DEF D!Promise!Events
  <2>5. demo_heard' = demo_heard \cup {"events"} /\ UNCHANGED <<demo_commands, config>>
    BY <1>6 DEF D!Tick, D!Send
  <2>6. demo_at = "tick" /\ demo_at' = "commands"
    BY <1>6 DEF D!Tick
  <2> QED
    BY <2>2, <2>4, <2>5, <2>6 DEF D!Promise!Next, D!Promise!Send
<1>7. ASSUME NEW c \in DemoOrders, D!Order(c)
      PROVE  D!Promise!Next
  BY <1>7 DEF D!Order, D!Promise!Next, D!Promise!Order, D!Configs
<1>8. CASE D!Close
  BY <1>8 DEF D!Close, D!Promise!Next, D!Promise!Order
<1> QED
  BY <1>1, <1>2, <1>3, <1>4, <1>5, <1>6, <1>7, <1>8 DEF D!Next, D!Source

(* The demo thread implements EventSource as the collector does: the table *)
(* first, only events that no category, operation, PID and rule of its     *)
(* configuration keeps back, and nothing after the stop, for any table,    *)
(* orders and rules.  Names and the excluded PID keep nothing back.        *)
THEOREM DemoImplementsSource == SourcesSpec => DemoIsEventSource
<1> DEFINE all == <<build, vars, demoVars>>
<1>1. SourcesInit => DemoInv /\ D!Promise!Init
  BY InitIsDemoSource DEF SourcesInit
<1>2. DemoInv /\ [WindowsStep \/ DemoStep]_all => DemoInv'
  <2> SUFFICES ASSUME DemoInv, WindowsStep \/ DemoStep \/ UNCHANGED all
               PROVE  DemoInv'
    OBVIOUS
  <2>1. CASE DemoStep
    BY <2>1, DemoKeeps DEF DemoStep
  <2>2. CASE UNCHANGED demoVars
    BY <2>2 DEF demoVars, DemoInv
  <2> QED
    BY <2>1, <2>2 DEF WindowsStep
<1>3. DemoInv /\ [WindowsStep \/ DemoStep]_all => [D!Promise!Next]_(D!Promise!vars)
  <2> SUFFICES ASSUME DemoInv, WindowsStep \/ DemoStep \/ UNCHANGED all
               PROVE  [D!Promise!Next]_(D!Promise!vars)
    OBVIOUS
  <2>1. CASE DemoStep
    BY <2>1, DemoRefines DEF DemoStep
  <2>2. CASE UNCHANGED demoVars
    BY <2>2 DEF demoVars, D!Promise!vars
  <2> QED
    BY <2>1, <2>2 DEF WindowsStep
<1> QED
  BY <1>1, <1>2, <1>3, PTL DEF SourcesSpec, DemoIsEventSource, D!DemoIsEventSource, D!Promise!Spec
=============================================================================
