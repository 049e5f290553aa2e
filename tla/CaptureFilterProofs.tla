------------------------ MODULE CaptureFilterProofs ------------------------
(***************************************************************************)
(* Proofs about CaptureFilter, for any threads, calls, configurations and  *)
(* limits: which filters hold although a call reads them one by one while  *)
(* a request rewrites them.  Then what the globals hold at every place of  *)
(* a request, exactly, and what follows for a call that no request         *)
(* overlaps, for the flush decision of SET_CONFIG and for the events left  *)
(* in the ring.                                                            *)
(***************************************************************************)
EXTENDS CaptureFilter, Iterations, SequenceTheorems, FiniteSetTheorems, TLAPS

(* The places of a request, in the order it passes them.                   *)
Settled == {"closed", "ready", "flush"}
Stopping == {"create", "cleanup"}
AfterOperations ==
  {"ruleFlag", "clearMask", "header", "conditions", "ruleBit", "ruleCount",
   "rulesDone", "categories", "capture", "excluded"}
AfterNameCount == {"targetsDone", "operationFlag", "operations"} \cup AfterOperations
AfterPidCount == {"names", "nameCount"} \cup AfterNameCount
AfterPids == {"pidCount"} \cup AfterPidCount

(* The fields of the records that the actions change.                      *)
Shape ==
  /\ DOMAIN g = {"gCaptureEnabled", "gExcludedPid", "gCategoryMask",
                 "gTargetFilterUpdating", "gTargetPidCount", "gTargetPids",
                 "gTargetNameCount", "gTargetNameWords",
                 "gOperationFilterUpdating", "gOperationMask",
                 "gArgumentFilterUpdating", "gArgumentRuleCount",
                 "gArgumentRules", "gArgumentRuleOperationMask"}
  /\ DOMAIN g.gTargetPids = 1..MaxPids
  /\ DOMAIN handler = {"at", "new", "i", "accepted", "changed"}

Limited(c) ==
  /\ c \in Configuration
  /\ Len(c.pids) <= MaxPids /\ Len(c.names) <= MaxNames /\ Len(c.rules) <= MaxRules

(* Which configurations the globals may hold: the installed one, and the   *)
(* one of a request under way.                                             *)
InSight == {config} \cup installing

RequestInSight ==
  /\ handler.at \in Settled \cup Stopping \cup {"pids"} \cup AfterPids
  /\ Limited(config) /\ Limited(handler.new)
  /\ installing = IF handler.at \in Settled THEN {} ELSE {handler.new}
  /\ handler.at \in Stopping =>
       /\ handler.new.pids = config.pids /\ handler.new.names = config.names
       /\ handler.new.operations = config.operations
       /\ handler.new.categories = config.categories
       /\ handler.new.rules = config.rules

(* What each filter holds at each place of the request.                    *)
CaptureHolds ==
  g.gCaptureEnabled = IF handler.at \in Stopping \cup {"excluded"}
                      THEN handler.new.capture ELSE config.capture

OperationsHold ==
  /\ handler.at \in AfterOperations => g.gOperationMask = handler.new.operations
  /\ handler.at = "operations" =>
       g.gOperationMask \subseteq config.operations \cup handler.new.operations
  /\ handler.at \notin AfterOperations \cup {"operations"} =>
       g.gOperationMask = config.operations

CategoriesHold ==
  g.gCategoryMask = (IF handler.at \in {"capture", "excluded"}
                     THEN handler.new.categories ELSE config.categories)

Slot(c, i) == IF i <= Len(c.pids) THEN c.pids[i] ELSE 0

PidsHold ==
  /\ handler.at = "pids" => handler.i \in 1..MaxPids
  /\ \A i \in 1..MaxPids :
       g.gTargetPids[i] =
         IF handler.at \in AfterPids \/ (handler.at = "pids" /\ i < handler.i)
         THEN Slot(handler.new, i) ELSE Slot(config, i)

CountsHold ==
  /\ g.gTargetPidCount = Len(IF handler.at \in AfterPidCount
                             THEN handler.new.pids ELSE config.pids)
  /\ g.gTargetNameCount = Len(IF handler.at \in AfterNameCount
                              THEN handler.new.names ELSE config.names)

GlobalsInv ==
  /\ Shape /\ RequestInSight
  /\ CaptureHolds /\ OperationsHold /\ CategoriesHold /\ PidsHold /\ CountsHold

LEMMA UnconfiguredLimited == Limited(Unconfigured)
BY ConfigAssumption DEF Limited, Unconfigured, Configuration

LEMMA GlobalsInit == Init => GlobalsInv
<1> SUFFICES ASSUME Init PROVE GlobalsInv
  OBVIOUS
<1>1. Limited(Unconfigured)
  BY UnconfiguredLimited
<1>2. Shape
  BY DEF Init, Globals, NoRequest, Shape
<1>3. RequestInSight
  BY <1>1 DEF Init, NoRequest, RequestInSight, Settled, Stopping
<1>4. CaptureHolds /\ OperationsHold /\ CategoriesHold
  BY DEF Init, Globals, NoRequest, Unconfigured, CaptureHolds, OperationsHold,
         CategoriesHold, Stopping, AfterOperations
<1>5. PidsHold /\ CountsHold
  BY DEF Init, Globals, NoRequest, Unconfigured, PidsHold, CountsHold, Slot,
         AfterPids, AfterPidCount, AfterNameCount, AfterOperations
<1> QED
  BY <1>2, <1>3, <1>4, <1>5 DEF GlobalsInv

(* Every access of a request keeps what the filters hold at its place.     *)
LEMMA GlobalsStep ==
  ASSUME GlobalsInv, DeviceRequest
  PROVE  GlobalsInv'
<1> USE DEF GlobalsInv, Shape, RequestInSight, CaptureHolds, OperationsHold,
            CategoriesHold, PidsHold, CountsHold, Slot, Write, Go, Begin, Installed,
            Ready, StopCapture, NoRequest, history,
            Settled, Stopping, AfterPids, AfterPidCount, AfterNameCount, AfterOperations
<1>1. ASSUME WritePid PROVE GlobalsInv'
  BY <1>1, ConfigAssumption DEF WritePid
<1>2. ASSUME WritePidCount PROVE GlobalsInv'
  BY <1>2 DEF WritePidCount
<1>3. ASSUME WriteNameWord PROVE GlobalsInv'
  BY <1>3 DEF WriteNameWord
<1>4. ASSUME WriteNameCount PROVE GlobalsInv'
  BY <1>4 DEF WriteNameCount
<1>5. ASSUME TargetsDone PROVE GlobalsInv'
  BY <1>5 DEF TargetsDone
<1>6. ASSUME BeginOperations PROVE GlobalsInv'
  BY <1>6 DEF BeginOperations
<1>7. ASSUME OperationsDone PROVE GlobalsInv'
  BY <1>7 DEF OperationsDone
<1>8. ASSUME NEW o \in Operations, WriteOperation(o) PROVE GlobalsInv'
  BY <1>8 DEF WriteOperation
<1>9. ASSUME BeginRules PROVE GlobalsInv'
  BY <1>9 DEF BeginRules
<1>10. ASSUME RuleMaskCleared PROVE GlobalsInv'
  BY <1>10 DEF RuleMaskCleared
<1>11. ASSUME NEW o \in Operations, ClearRuleMask(o) PROVE GlobalsInv'
  BY <1>11 DEF ClearRuleMask
<1>12. ASSUME CopyRuleHeader PROVE GlobalsInv'
  <2> DEFINE r == handler.new.rules[handler.i]
             k == handler.accepted + 1
             copy == [g EXCEPT !.gArgumentRules[k].operation = r.operation,
                               !.gArgumentRules[k].action = r.action]
             differs == k > g.gArgumentRuleCount \/ g.gArgumentRules[k] # r
  <2>1. /\ handler.at = "header"
        /\ \/ Write("header", [Go("conditions") EXCEPT !.accepted = k], copy, differs)
           \/ Write("header", [handler EXCEPT !.i = @ + 1], g, FALSE)
    BY <1>12 DEF CopyRuleHeader
  <2>2. DOMAIN copy = DOMAIN g /\ \A f \in DOMAIN g \ {"gArgumentRules"} : copy[f] = g[f]
    OBVIOUS
  <2> HIDE DEF r, k, copy, differs
  <2>3. /\ handler'.at \in {"header", "conditions"} /\ handler'.new = handler.new
        /\ DOMAIN handler' = DOMAIN handler
        /\ config' = config /\ installing' = installing
        /\ DOMAIN g' = DOMAIN g
        /\ \A f \in DOMAIN g \ {"gArgumentRules"} : g'[f] = g[f]
    BY <2>1, <2>2
  <2> QED
    BY <2>1, <2>3
<1>13. ASSUME CopyRuleConditions PROVE GlobalsInv'
  BY <1>13 DEF CopyRuleConditions
<1>14. ASSUME SetRuleBit PROVE GlobalsInv'
  BY <1>14 DEF SetRuleBit
<1>15. ASSUME RulesZeroed PROVE GlobalsInv'
  BY <1>15 DEF RulesZeroed
<1>16. ASSUME NEW k \in 1..MaxRules, ZeroRule(k) PROVE GlobalsInv'
  BY <1>16 DEF ZeroRule
<1>17. ASSUME WriteRuleCount PROVE GlobalsInv'
  BY <1>17 DEF WriteRuleCount
<1>18. ASSUME RulesDone PROVE GlobalsInv'
  BY <1>18 DEF RulesDone
<1>19. ASSUME WriteCategories PROVE GlobalsInv'
  <2>1. /\ Shape' /\ RequestInSight' /\ CaptureHolds' /\ OperationsHold'
        /\ PidsHold' /\ CountsHold'
    BY <1>19 DEF WriteCategories
  <2>2. CategoriesHold'
    BY <1>19 DEF WriteCategories, Limited, Configuration
  <2> QED
    BY <2>1, <2>2
<1>20. ASSUME WriteCapture PROVE GlobalsInv'
  BY <1>20 DEF WriteCapture
<1>21. ASSUME WriteExcluded PROVE GlobalsInv'
  <2>1. /\ Shape' /\ CaptureHolds' /\ OperationsHold' /\ CategoriesHold'
        /\ PidsHold' /\ CountsHold'
    BY <1>21 DEF WriteExcluded
  <2>2. RequestInSight'
    BY <1>21, UnconfiguredLimited DEF WriteExcluded
  <2> QED
    BY <2>1, <2>2
<1>22. ASSUME FlushRings PROVE GlobalsInv'
  <2>1. /\ Shape' /\ CaptureHolds' /\ OperationsHold' /\ CategoriesHold'
        /\ PidsHold' /\ CountsHold'
    BY <1>22 DEF FlushRings
  <2>2. RequestInSight'
    BY <1>22, UnconfiguredLimited DEF FlushRings
  <2> QED
    BY <2>1, <2>2
<1>23. ASSUME OpenDevice PROVE GlobalsInv'
  <2>1. /\ Shape' /\ OperationsHold' /\ CategoriesHold'
        /\ PidsHold' /\ CountsHold'
    BY <1>23 DEF OpenDevice
  <2>2. RequestInSight'
    BY <1>23, ConfigAssumption, UnconfiguredLimited DEF OpenDevice, Limited,
       Configuration
  <2>3. CaptureHolds'
    BY <1>23 DEF OpenDevice, Limited, Configuration
  <2> QED
    BY <2>1, <2>2, <2>3
<1>24. ASSUME ExcludeOpener PROVE GlobalsInv'
  BY <1>24 DEF ExcludeOpener
<1>25. ASSUME CleanupDevice PROVE GlobalsInv'
  <2>1. /\ Shape' /\ OperationsHold' /\ CategoriesHold'
        /\ PidsHold' /\ CountsHold'
    BY <1>25 DEF CleanupDevice
  <2>2. RequestInSight' /\ CaptureHolds'
    BY <1>25 DEF CleanupDevice, Limited, Configuration
  <2> QED
    BY <2>1, <2>2
<1>26. ASSUME ExcludeNobody PROVE GlobalsInv'
  <2>1. /\ Shape' /\ CaptureHolds' /\ OperationsHold' /\ CategoriesHold'
        /\ PidsHold' /\ CountsHold'
    BY <1>26 DEF ExcludeNobody
  <2>2. RequestInSight'
    BY <1>26, UnconfiguredLimited DEF ExcludeNobody
  <2> QED
    BY <2>1, <2>2
<1>27. ASSUME NEW new \in Configs, SetConfig(new) PROVE GlobalsInv'
  <2>1. /\ Shape' /\ CaptureHolds' /\ OperationsHold'
        /\ CategoriesHold' /\ CountsHold'
    BY <1>27 DEF SetConfig
  <2>2. RequestInSight'
    BY <1>27, ConfigAssumption DEF SetConfig, Limited
  <2>3. PidsHold'
    <3>1. /\ handler.at = "ready" /\ handler'.at = "pids" /\ handler'.i = 1
          /\ g'.gTargetPids = g.gTargetPids /\ config' = config
      BY <1>27 DEF SetConfig
    <3> QED
      BY <3>1, ConfigAssumption
  <2> QED
    BY <2>1, <2>2, <2>3
<1> QED
  BY <1>1, <1>2, <1>3, <1>4, <1>5, <1>6, <1>7, <1>8, <1>9, <1>10, <1>11, <1>12,
     <1>13, <1>14, <1>15, <1>16, <1>17, <1>18, <1>19, <1>20, <1>21, <1>22,
     <1>23, <1>24, <1>25, <1>26, <1>27 DEF DeviceRequest

(* A filter that passes a call is the filter of a configuration in sight.  *)
SightInv ==
  /\ g.gCaptureEnabled => \E c \in InSight : c.capture
  /\ \A o \in g.gOperationMask : \E c \in InSight : o \in c.operations
  /\ \A k \in g.gCategoryMask : \E c \in InSight : k \in c.categories
  /\ \E c \in InSight : g.gTargetPidCount = Len(c.pids)
  /\ \E c \in InSight : g.gTargetNameCount = Len(c.names)
  /\ \A i \in 1..MaxPids :
       \/ g.gTargetPids[i] = 0
       \/ \E c \in InSight : Element(g.gTargetPids[i], c.pids)
  /\ \A c \in InSight : Limited(c)

LEMMA GlobalsInSight ==
  ASSUME GlobalsInv
  PROVE  SightInv
<1> USE DEF GlobalsInv, RequestInSight, InSight
<1>1. g.gCaptureEnabled => \E c \in InSight : c.capture
  BY DEF CaptureHolds, Settled, Stopping
<1>2. \A o \in g.gOperationMask : \E c \in InSight : o \in c.operations
  BY DEF OperationsHold, Settled, AfterOperations
<1>3. \A k \in g.gCategoryMask : \E c \in InSight : k \in c.categories
  BY DEF CategoriesHold, Settled
<1>4. /\ \E c \in InSight : g.gTargetPidCount = Len(c.pids)
      /\ \E c \in InSight : g.gTargetNameCount = Len(c.names)
  BY DEF CountsHold, Settled, AfterPidCount, AfterNameCount, AfterOperations
<1>5. ASSUME NEW i \in 1..MaxPids
      PROVE  \/ g.gTargetPids[i] = 0
             \/ \E c \in InSight : Element(g.gTargetPids[i], c.pids)
  <2>1. PICK c \in InSight : g.gTargetPids[i] = Slot(c, i)
    BY DEF PidsHold, Settled, AfterPids, AfterPidCount, AfterNameCount,
       AfterOperations
  <2>2. Len(c.pids) \in Nat
    BY DEF Limited, Configuration
  <2> QED
    BY <2>1, <2>2, ConfigAssumption DEF Slot, Element
<1>6. \A c \in InSight : Limited(c)
  OBVIOUS
<1> QED
  BY <1>1, <1>2, <1>3, <1>4, <1>5, <1>6 DEF SightInv
-----------------------------------------------------------------------------
(* What a call has seen so far.                                            *)

OnlyPids(seen) == \A c \in seen : c.pids # << >> /\ c.names = << >>

PassedMasks(l) ==
  /\ l.at \notin {"idle", "rejected"} => \E c \in l.seen : c.capture
  /\ l.at \notin {"idle", "rejected", "operationFlag", "operationMask"} =>
       \E c \in l.seen : l.call.operation \in c.operations
  /\ l.at = "push" => \E c \in l.seen : CategoryOf[l.call.operation] \in c.categories

(* While all it saw names processes by PID only, the count it read is one  *)
(* of those PID lists, and the number of names is zero.                    *)
PassedPids(l) ==
  OnlyPids(l.seen) =>
    /\ l.at \in {"nameCount", "pids"} => l.count \in 1..MaxPids /\ l.i \in Nat \ {0}
    /\ l.at \in {"pids", "names"} => l.nameCount = 0
    /\ l.at = "names" => l.i = 1
    /\ l.at # "nameFlag"
    /\ l.at \in {"category", "push"} => \E c \in l.seen : Element(l.call.pid, c.pids)

CallInv(l) ==
  /\ DOMAIN l = {"at", "call", "i", "count", "nameCount", "words", "action",
                 "hasOnly", "matchedOnly", "seen", "quiet"}
  /\ l.at # "idle" => InSight \subseteq l.seen /\ l.call \in Calls
  /\ PassedMasks(l) /\ PassedPids(l)

RingInv ==
  \A e \in ring :
    /\ \E c \in e.seen : c.capture
    /\ \E c \in e.seen : e.call.operation \in c.operations
    /\ \E c \in e.seen : CategoryOf[e.call.operation] \in c.categories
    /\ OnlyPids(e.seen) => \E c \in e.seen : Element(e.call.pid, c.pids)

FilterInv ==
  /\ GlobalsInv
  /\ DOMAIN local = Threads /\ \A t \in Threads : CallInv(local[t])
  /\ RingInv

(* What the counts tell a call that saw only lists of PIDs.                *)
LEMMA CountsOfPids ==
  ASSUME SightInv, NEW seen, InSight \subseteq seen, OnlyPids(seen)
  PROVE  g.gTargetPidCount \in 1..MaxPids /\ g.gTargetNameCount = 0
<1>1. PICK c \in InSight : g.gTargetPidCount = Len(c.pids)
  BY DEF SightInv
<1>2. PICK d \in InSight : g.gTargetNameCount = Len(d.names)
  BY DEF SightInv
<1>3. c.pids # << >> /\ d.names = << >>
  BY DEF OnlyPids
<1>4. c.pids \in Seq(Nat) /\ Len(c.pids) <= MaxPids
  BY DEF SightInv, Limited, Configuration
<1>5. Len(c.pids) \in Nat /\ Len(c.pids) # 0
  BY <1>3, <1>4, EmptySeq, LenProperties
<1> QED
  BY <1>1, <1>2, <1>3, <1>4, <1>5, ConfigAssumption

LEMMA IdleCall == CallInv(Idle)
BY DEF CallInv, Idle, PassedMasks, PassedPids
-----------------------------------------------------------------------------
(* Every access of EnqueueEvent leads from a call that meets CallInv to    *)
(* one that does.                                                          *)
LEMMA CallStep ==
  ASSUME FilterInv, NEW t \in Threads, EnqueueEvent(t)
  PROVE  CallInv(local'[t])
<1> DEFINE l == local[t]
<1>1. /\ SightInv /\ CallInv(l) /\ DOMAIN local = Threads
  BY GlobalsInSight DEF FilterInv
<1> USE DEF At, Read, Check, Return, PassedMasks, PassedPids, CallInv
<1>2. ASSUME NEW call \in Calls, CheckCapture(t, call) PROVE CallInv(local'[t])
  BY <1>1, <1>2 DEF CheckCapture, Idle, SightInv, InSight
<1>3. ASSUME CheckOperationFlag(t) PROVE CallInv(local'[t])
  BY <1>1, <1>3 DEF CheckOperationFlag
<1>4. ASSUME CheckOperationMask(t) PROVE CallInv(local'[t])
  BY <1>1, <1>4 DEF CheckOperationMask, SightInv
<1>5. ASSUME CheckRuleFlag(t) PROVE CallInv(local'[t])
  BY <1>1, <1>5 DEF CheckRuleFlag
<1>6. ASSUME ReadRuleMask(t) PROVE CallInv(local'[t])
  BY <1>1, <1>6 DEF ReadRuleMask
<1>7. ASSUME ReadRuleCount(t) PROVE CallInv(local'[t])
  BY <1>1, <1>7 DEF ReadRuleCount
<1>8. ASSUME ReadRuleHeader(t) PROVE CallInv(local'[t])
  BY <1>1, <1>8 DEF ReadRuleHeader
<1>9. ASSUME ReadRuleConditions(t) PROVE CallInv(local'[t])
  BY <1>1, <1>9 DEF ReadRuleConditions
<1>10. ASSUME RecheckRuleFlag(t) PROVE CallInv(local'[t])
  BY <1>1, <1>10 DEF RecheckRuleFlag
<1>11. ASSUME CheckExcludedPid(t) PROVE CallInv(local'[t])
  BY <1>1, <1>11 DEF CheckExcludedPid
<1>12. ASSUME CheckTargetFlag(t) PROVE CallInv(local'[t])
  BY <1>1, <1>12 DEF CheckTargetFlag
<1>13. ASSUME ReadPidCount(t) PROVE CallInv(local'[t])
  <2>1. local'[t] = [l EXCEPT !.at = "nameCount", !.i = 1, !.count = g.gTargetPidCount]
    BY <1>1, <1>13 DEF ReadPidCount
  <2>2. l.at = "pidCount" /\ InSight \subseteq l.seen
    BY <1>1, <1>13 DEF ReadPidCount
  <2>3. OnlyPids(l.seen) => g.gTargetPidCount \in 1..MaxPids
    BY <1>1, <2>2, CountsOfPids
  <2> QED
    BY <1>1, <2>1, <2>2, <2>3
<1>14. ASSUME ReadNameCount(t) PROVE CallInv(local'[t])
  <2>1. l.at = "nameCount" /\ InSight \subseteq l.seen
    BY <1>1, <1>14 DEF ReadNameCount
  <2>2. OnlyPids(l.seen) => g.gTargetNameCount = 0
    BY <1>1, <2>1, CountsOfPids
  <2> QED
    BY <1>1, <1>14, <2>1, <2>2 DEF ReadNameCount
<1>15. ASSUME ReadPid(t) PROVE CallInv(local'[t])
  <2>1. l.at = "pids" /\ InSight \subseteq l.seen /\ l.call.pid # 0
    BY <1>1, <1>15, CallAssumption DEF ReadPid
  <2>2. CASE g.gTargetPids[l.i] = l.call.pid
    <3>1. local'[t] = [l EXCEPT !.at = "category"]
      BY <1>1, <1>15, <2>2 DEF ReadPid
    <3>2. ASSUME OnlyPids(l.seen) PROVE \E c \in l.seen : Element(l.call.pid, c.pids)
      <4>1. l.i \in 1..MaxPids
        BY <1>1, <1>15, <2>1, <3>2, ConfigAssumption DEF ReadPid
      <4> QED
        BY <1>1, <2>1, <2>2, <4>1 DEF SightInv
    <3> QED
      BY <1>1, <2>1, <3>1, <3>2
  <2>3. CASE g.gTargetPids[l.i] # l.call.pid
    BY <1>1, <1>15, <2>3 DEF ReadPid
  <2> QED
    BY <2>2, <2>3
<1>16. ASSUME PidsExhausted(t) PROVE CallInv(local'[t])
  BY <1>1, <1>16 DEF PidsExhausted
<1>17. ASSUME ReadNameWord(t) PROVE CallInv(local'[t])
  BY <1>1, <1>17 DEF ReadNameWord
<1>18. ASSUME NamesExhausted(t) PROVE CallInv(local'[t])
  BY <1>1, <1>18 DEF NamesExhausted
<1>19. ASSUME RecheckTargetFlag(t) PROVE CallInv(local'[t])
  BY <1>1, <1>19 DEF RecheckTargetFlag
<1>20. ASSUME CheckCategory(t) PROVE CallInv(local'[t])
  BY <1>1, <1>20 DEF CheckCategory, SightInv
<1>21. ASSUME PushEvent(t) PROVE CallInv(local'[t])
  <2>1. local'[t] = Idle
    BY <1>1, <1>21 DEF PushEvent
  <2> QED
    BY <2>1, IdleCall
<1>22. ASSUME ReturnZero(t) PROVE CallInv(local'[t])
  <2>1. local'[t] = Idle
    BY <1>1, <1>22 DEF ReturnZero
  <2> QED
    BY <2>1, IdleCall
<1> QED
  BY <1>2, <1>3, <1>4, <1>5, <1>6, <1>7, <1>8, <1>9, <1>10, <1>11, <1>12,
     <1>13, <1>14, <1>15, <1>16, <1>17, <1>18, <1>19, <1>20, <1>21, <1>22 DEF
     EnqueueEvent

(* A request only adds to what the calls under way have seen; what it adds *)
(* is in sight from then on.                                               *)
LEMMA CallSeesRequest ==
  ASSUME FilterInv, DeviceRequest, NEW t \in Threads
  PROVE  CallInv(local[t])'
<1>1. /\ CallInv(local[t]) /\ DOMAIN local = Threads /\ RequestInSight
  BY DEF FilterInv, GlobalsInv
<1> USE DEF CallInv, PassedMasks, PassedPids, InSight
<1>2. ASSUME NEW from, NEW to, NEW new, Begin(from, to, new)
      PROVE  CallInv(local[t])'
  <2>1. CASE local[t].at = "idle"
    <3>1. local'[t] = Idle
      BY <1>2, <2>1 DEF Begin, At
    <3> QED
      BY <3>1 DEF Idle
  <2>2. CASE local[t].at # "idle"
    <3>1. /\ local'[t] = [local[t] EXCEPT !.seen = @ \cup {new}, !.quiet = FALSE]
          /\ config' = config /\ installing' = {new}
      BY <1>2, <2>2 DEF Begin, At
    <3>2. OnlyPids(local[t].seen \cup {new}) => OnlyPids(local[t].seen)
      BY DEF OnlyPids
    <3> QED
      BY <1>1, <2>2, <3>1, <3>2
  <2> QED
    BY <2>1, <2>2
<1>3. ASSUME NEW from, NEW h, Installed(from, h), from \notin Settled
      PROVE  CallInv(local[t])'
  BY <1>1, <1>3 DEF Installed, RequestInSight
<1>4. ASSUME UNCHANGED <<local, config, installing>>
      PROVE  CallInv(local[t])'
  BY <1>1, <1>4
<1>5. ASSUME NEW from, NEW h, NEW globals, NEW differs, Write(from, h, globals, differs)
      PROVE  UNCHANGED <<local, config, installing>>
  BY <1>5 DEF Write, history
<1> HIDE DEF CallInv
<1>6. CASE OpenDevice \/ CleanupDevice \/ \E new \in Configs : SetConfig(new)
  BY <1>2, <1>6 DEF OpenDevice, CleanupDevice, SetConfig, StopCapture
<1>7. CASE ExcludeOpener \/ ExcludeNobody \/ WriteExcluded
  BY <1>3, <1>7 DEF ExcludeOpener, ExcludeNobody, WriteExcluded, Settled
<1>8. CASE FlushRings
  BY <1>4, <1>8 DEF FlushRings, history
<1>9. CASE WritePid \/ WritePidCount \/ WriteNameWord \/ WriteNameCount \/ TargetsDone
  BY <1>4, <1>5, <1>9
     DEF WritePid, WritePidCount, WriteNameWord, WriteNameCount, TargetsDone
<1>10. CASE BeginOperations \/ OperationsDone \/ \E o \in Operations : WriteOperation(o)
  BY <1>4, <1>5, <1>10 DEF BeginOperations, OperationsDone, WriteOperation
<1>11. CASE \/ BeginRules \/ RuleMaskCleared
            \/ \E o \in Operations : ClearRuleMask(o)
  BY <1>4, <1>5, <1>11 DEF BeginRules, RuleMaskCleared, ClearRuleMask
<1>12. CASE CopyRuleHeader \/ CopyRuleConditions \/ SetRuleBit
  BY <1>4, <1>5, <1>12 DEF CopyRuleHeader, CopyRuleConditions, SetRuleBit
<1>13. CASE \/ RulesZeroed \/ \E k \in 1..MaxRules : ZeroRule(k)
            \/ WriteRuleCount \/ RulesDone
  BY <1>4, <1>5, <1>13 DEF RulesZeroed, ZeroRule, WriteRuleCount, RulesDone
<1>14. CASE WriteCategories \/ WriteCapture
  BY <1>4, <1>5, <1>14 DEF WriteCategories, WriteCapture
<1> QED
  BY <1>6, <1>7, <1>8, <1>9, <1>10, <1>11, <1>12, <1>13, <1>14 DEF
     DeviceRequest
-----------------------------------------------------------------------------
(* A call changes nothing but its own locals and, at its end, the ring.    *)
LEMMA CallStaysInBounds ==
  ASSUME NEW t \in Threads, EnqueueEvent(t), DOMAIN local = Threads
  PROVE  /\ UNCHANGED <<g, handler, config, installing>>
         /\ DOMAIN local' = Threads
         /\ \A u \in Threads \ {t} : local'[u] = local[u]
         /\ ring' = ring \/ PushEvent(t)
<1> USE DEF Read, Check, Return, history
<1>1. ASSUME NEW call, CheckCapture(t, call)
      PROVE  /\ UNCHANGED <<g, handler, ring, config, installing>>
             /\ DOMAIN local' = Threads
             /\ \A u \in Threads \ {t} : local'[u] = local[u]
  BY <1>1 DEF CheckCapture
<1>2. ASSUME NEW from, NEW l, Read(t, from, l)
      PROVE  /\ UNCHANGED <<g, handler, ring, config, installing>>
             /\ DOMAIN local' = Threads
             /\ \A u \in Threads \ {t} : local'[u] = local[u]
  BY <1>2
<1>3. ASSUME PushEvent(t) \/ ReturnZero(t)
      PROVE  /\ UNCHANGED <<g, handler, config, installing>>
             /\ DOMAIN local' = Threads
             /\ \A u \in Threads \ {t} : local'[u] = local[u]
             /\ ring' = ring \/ PushEvent(t)
  BY <1>3 DEF PushEvent, ReturnZero
<1> HIDE DEF Read
<1>4. CASE \/ CheckOperationFlag(t) \/ CheckOperationMask(t)
           \/ CheckRuleFlag(t) \/ ReadRuleMask(t) \/ ReadRuleCount(t)
           \/ ReadRuleHeader(t) \/ ReadRuleConditions(t) \/ RecheckRuleFlag(t)
           \/ CheckExcludedPid(t)
  BY <1>2, <1>4
     DEF CheckOperationFlag, CheckOperationMask, CheckRuleFlag, ReadRuleMask,
         ReadRuleCount, ReadRuleHeader, ReadRuleConditions, RecheckRuleFlag,
         CheckExcludedPid
<1>5. CASE \/ CheckTargetFlag(t) \/ ReadPidCount(t) \/ ReadNameCount(t)
           \/ ReadPid(t) \/ PidsExhausted(t)
           \/ ReadNameWord(t) \/ NamesExhausted(t) \/ RecheckTargetFlag(t)
           \/ CheckCategory(t)
  BY <1>2, <1>5
     DEF CheckTargetFlag, ReadPidCount, ReadNameCount, ReadPid, PidsExhausted,
         ReadNameWord, NamesExhausted, RecheckTargetFlag, CheckCategory
<1> QED
  BY <1>1, <1>3, <1>4, <1>5 DEF EnqueueEvent

(* What a call that reached its push has passed is what the ring promises. *)
LEMMA PushKeepsRing ==
  ASSUME FilterInv, NEW t \in Threads, PushEvent(t)
  PROVE  RingInv'
<1>1. CallInv(local[t]) /\ local[t].at = "push" /\ RingInv
  BY DEF FilterInv, PushEvent, Return, At
<1> DEFINE e == [call |-> local[t].call, seen |-> local[t].seen]
<1>2. /\ \E c \in e.seen : c.capture
      /\ \E c \in e.seen : e.call.operation \in c.operations
      /\ \E c \in e.seen : CategoryOf[e.call.operation] \in c.categories
  BY <1>1 DEF CallInv, PassedMasks
<1>3. OnlyPids(e.seen) => \E c \in e.seen : Element(e.call.pid, c.pids)
  BY <1>1 DEF CallInv, PassedPids
<1>4. ring' = ring \cup {e}
  BY DEF PushEvent
<1> HIDE DEF e
<1> QED
  BY <1>1, <1>2, <1>3, <1>4 DEF RingInv

LEMMA RequestKeepsRing ==
  ASSUME DeviceRequest, DOMAIN local = Threads
  PROVE  (ring' = ring \/ ring' = {}) /\ DOMAIN local' = Threads
BY DEF history, DeviceRequest, Write, Begin, Installed, StopCapture,
       OpenDevice, ExcludeOpener, CleanupDevice, ExcludeNobody, SetConfig, WritePid,
       WritePidCount, WriteNameWord, WriteNameCount, TargetsDone, BeginOperations,
       WriteOperation, OperationsDone, BeginRules, ClearRuleMask, RuleMaskCleared,
       CopyRuleHeader, CopyRuleConditions, SetRuleBit, ZeroRule, RulesZeroed,
       WriteRuleCount, RulesDone, WriteCategories, WriteCapture, WriteExcluded,
       FlushRings

LEMMA FilterInvHolds == Spec => []FilterInv
<1>1. Init => FilterInv
  <2> SUFFICES ASSUME Init PROVE FilterInv
    OBVIOUS
  <2>1. DOMAIN local = Threads /\ \A t \in Threads : CallInv(local[t])
    BY IdleCall DEF Init
  <2>2. RingInv
    BY DEF Init, RingInv
  <2> QED
    BY <2>1, <2>2, GlobalsInit DEF FilterInv
<1>2. FilterInv /\ [Next]_vars => FilterInv'
  <2> SUFFICES ASSUME FilterInv, [Next]_vars PROVE FilterInv'
    OBVIOUS
  <2>1. ASSUME NEW t \in Threads, EnqueueEvent(t) PROVE FilterInv'
    <3>1. /\ UNCHANGED <<g, handler, config, installing>>
          /\ DOMAIN local' = Threads
          /\ \A u \in Threads \ {t} : local'[u] = local[u]
          /\ ring' = ring \/ PushEvent(t)
      BY <2>1, CallStaysInBounds DEF FilterInv
    <3>2. GlobalsInv'
      BY <3>1 DEF FilterInv, GlobalsInv, Shape, RequestInSight, CaptureHolds,
                  OperationsHold, CategoriesHold, PidsHold, CountsHold
    <3>3. ASSUME NEW u \in Threads PROVE CallInv(local[u])'
      <4>1. CallInv(local'[u])
        BY <2>1, <3>1, CallStep DEF FilterInv
      <4> QED
        BY <3>1, <4>1 DEF CallInv, InSight
    <3>4. RingInv'
      BY <2>1, <3>1, PushKeepsRing DEF FilterInv, RingInv
    <3> QED
      BY <3>1, <3>2, <3>3, <3>4 DEF FilterInv
  <2>2. CASE DeviceRequest
    <3>1. GlobalsInv'
      BY <2>2, GlobalsStep DEF FilterInv
    <3>2. \A t \in Threads : CallInv(local[t])'
      BY <2>2, CallSeesRequest
    <3>3. RingInv' /\ DOMAIN local' = Threads
      BY <2>2, RequestKeepsRing DEF FilterInv, RingInv
    <3> QED
      BY <3>1, <3>2, <3>3 DEF FilterInv
  <2>3. CASE UNCHANGED vars
    BY <2>3 DEF vars, history, FilterInv, GlobalsInv, Shape, RequestInSight,
                CaptureHolds, OperationsHold, CategoriesHold, PidsHold, CountsHold,
                CallInv, PassedMasks, PassedPids, InSight, RingInv
  <2> QED
    BY <2>1, <2>2, <2>3 DEF Next
<1> QED
  BY <1>1, <1>2, PTL DEF Spec

(* Whatever request overlaps a call, an event in the ring passed a capture *)
(* flag, an operation mask and a category mask that some configuration the *)
(* call met has: the masks are never exposed half-made.                    *)
THEOREM MasksNeverMisjudge == Spec => []MasksDecideBeforeQueue
<1>1. FilterInv => MasksDecideBeforeQueue
  BY DEF FilterInv, RingInv, MasksDecideBeforeQueue
<1> QED
  BY <1>1, FilterInvHolds, PTL

(* Exchanging a list of PIDs entry by entry lets nobody through that is in *)
(* neither list, for any lists, as long as no list in sight is empty and   *)
(* none comes with names.                                                  *)
THEOREM PidListsChangeSafely == Spec => []PidTargetsHold
<1>1. FilterInv => PidTargetsHold
  BY DEF FilterInv, RingInv, PidTargetsHold, OnlyPids
<1> QED
  BY <1>1, FilterInvHolds, PTL
-----------------------------------------------------------------------------
(* Numbers.                                                                *)

(* Counting in rows of m: the next number is in the next column, or the    *)
(* first of the next row.                                                  *)
LEMMA NextInRows ==
  ASSUME NEW n \in Nat, NEW m \in Nat \ {0}
  PROVE  /\ n \div m \in Nat /\ n % m \in 0..m - 1
         /\ IF n % m = m - 1
            THEN (n + 1) \div m = (n \div m) + 1 /\ (n + 1) % m = 0
            ELSE (n + 1) \div m = n \div m /\ (n + 1) % m = (n % m) + 1
<1> DEFINE q == n \div m
           r == n % m
           q2 == (n + 1) \div m
           r2 == (n + 1) % m
<1>1. /\ q \in Int /\ r \in 0..m - 1 /\ n = m * q + r
      /\ q2 \in Int /\ r2 \in 0..m - 1 /\ n + 1 = m * q2 + r2
  OBVIOUS
<1> HIDE DEF q, r, q2, r2
<1>2. m * (q2 - q) = r + 1 - r2
  BY <1>1
<1>3. ~(q2 - q >= 2)
  <2> SUFFICES ASSUME q2 - q >= 2 PROVE FALSE
    OBVIOUS
  <2>1. m * (q2 - q) >= m * 2
    BY <1>1
  <2> QED
    BY <1>1, <1>2, <2>1
<1>4. ~(q2 - q <= -1)
  <2> SUFFICES ASSUME q - q2 >= 1 PROVE FALSE
    BY <1>1
  <2>1. m * (q - q2) >= m
    BY <1>1
  <2>2. m * (q - q2) = r2 - r - 1
    BY <1>1
  <2> QED
    BY <1>1, <2>1, <2>2
<1>5. q2 = q \/ q2 = q + 1
  BY <1>1, <1>3, <1>4
<1>6. IF r = m - 1 THEN q2 = q + 1 /\ r2 = 0 ELSE q2 = q /\ r2 = r + 1
  <2>1. CASE q2 = q
    <3>1. r2 = r + 1
      BY <1>1, <1>2, <2>1
    <3> QED
      BY <1>1, <2>1, <3>1
  <2>2. CASE q2 = q + 1
    <3>1. r + 1 - r2 = m
      BY <1>1, <1>2, <2>2
    <3> QED
      BY <1>1, <2>2, <3>1
  <2> QED
    BY <1>5, <2>1, <2>2
<1>7. q >= 0
  <2> SUFFICES ASSUME q <= -1 PROVE FALSE
    BY <1>1
  <2>1. m * q <= -m
    BY <1>1
  <2> QED
    BY <1>1, <2>1
<1> QED
  BY <1>1, <1>6, <1>7 DEF q, r, q2, r2
-----------------------------------------------------------------------------
(* The rules SET_CONFIG accepts, in the order it meets them.               *)

Count(c) == Accepted(c, Len(c.rules))

(* Each valid rule counts one more.                                        *)
LEMMA AcceptedCounts ==
  ASSUME NEW c, Limited(c)
  PROVE  /\ Len(c.rules) \in Nat /\ Accepted(c, 0) = 0
         /\ \A i \in 0..Len(c.rules) : Accepted(c, i) \in 0..i
         /\ \A i \in 1..Len(c.rules) :
              Accepted(c, i) = IF ValidRule(c.rules[i]) THEN Accepted(c, i - 1) + 1
                               ELSE Accepted(c, i - 1)
<1> DEFINE V(i) == {j \in 1..i : ValidRule(c.rules[j])}
<1>1. Len(c.rules) \in Nat
  BY DEF Limited, Configuration
<1>2. ASSUME NEW i \in Nat
      PROVE  IsFiniteSet(V(i)) /\ Cardinality(V(i)) \in 0..i
  <2>1. IsFiniteSet(1..i) /\ Cardinality(1..i) = i
    BY FS_Interval
  <2>2. V(i) \subseteq 1..i
    OBVIOUS
  <2>3. IsFiniteSet(V(i)) /\ Cardinality(V(i)) <= i
    BY <2>1, <2>2, FS_Subset
  <2> QED
    BY <2>3, FS_CardinalityType
<1>3. Cardinality(V(0)) = 0
  BY <1>2
<1>4. ASSUME NEW i \in 1..Len(c.rules)
      PROVE  Cardinality(V(i)) = IF ValidRule(c.rules[i]) THEN Cardinality(V(i - 1)) + 1
                                 ELSE Cardinality(V(i - 1))
  <2> i - 1 \in Nat
    BY <1>1
  <2>1. CASE ValidRule(c.rules[i])
    <3>1. V(i) = V(i - 1) \cup {i} /\ i \notin V(i - 1)
      BY <1>1, <2>1
    <3> HIDE DEF V
    <3>2. IsFiniteSet(V(i - 1))
      BY <1>2
    <3> QED
      BY <2>1, <3>1, <3>2, FS_AddElement
  <2>2. CASE ~ValidRule(c.rules[i])
    <3>1. V(i) = V(i - 1)
      BY <1>1, <2>2
    <3> QED
      BY <2>2, <3>1
  <2> QED
    BY <2>1, <2>2
<1> QED
  BY <1>1, <1>2, <1>3, <1>4 DEF Accepted

LEMMA AcceptedGrows ==
  ASSUME NEW c, Limited(c), NEW j \in 0..Len(c.rules), NEW i \in 0..j
  PROVE  Accepted(c, i) <= Accepted(c, j)
<1>1. Len(c.rules) \in Nat /\ i \in Nat /\ j \in Nat
  BY DEF Limited, Configuration
<1>2. IsFiniteSet(1..j)
  BY <1>1, FS_Interval
<1>3. /\ {k \in 1..i : ValidRule(c.rules[k])} \subseteq {k \in 1..j : ValidRule(c.rules[k])}
      /\ {k \in 1..j : ValidRule(c.rules[k])} \subseteq 1..j
  BY <1>1
<1>4. IsFiniteSet({k \in 1..j : ValidRule(c.rules[k])})
  BY <1>2, <1>3, FS_Subset
<1> QED
  BY <1>3, <1>4, FS_Subset DEF Accepted

(* Where accepted rules come from, and that they keep their order.         *)
LEMMA AcceptedSource ==
  ASSUME NEW c, Limited(c), NEW k \in 1..Count(c)
  PROVE  \E i \in 1..Len(c.rules) : ValidRule(c.rules[i]) /\ Accepted(c, i) = k
<1> DEFINE T == {i \in 0..Len(c.rules) : Accepted(c, i) >= k}
<1>1. Len(c.rules) \in Nat /\ Count(c) \in Nat /\ k \in Nat \ {0}
  BY AcceptedCounts DEF Count
<1>2. T \in SUBSET Nat /\ Len(c.rules) \in T
  BY <1>1 DEF Count
<1>3. PICK i \in T : \A j \in T : i <= j
  <2> HIDE DEF T
  <2> QED
    BY <1>2, Least
<1>4. i \in 1..Len(c.rules)
  BY <1>1, AcceptedCounts
<1>5. i - 1 \notin T /\ i - 1 \in 0..Len(c.rules)
  BY <1>1, <1>3, <1>4
<1>6. Accepted(c, i - 1) \in Nat /\ Accepted(c, i) \in Nat
  BY <1>1, <1>4, <1>5, AcceptedCounts
<1>7. Accepted(c, i - 1) < k /\ Accepted(c, i) >= k
  BY <1>1, <1>5, <1>6
<1>8. Accepted(c, i) = IF ValidRule(c.rules[i]) THEN Accepted(c, i - 1) + 1
                       ELSE Accepted(c, i - 1)
  BY <1>4, AcceptedCounts
<1>9. ValidRule(c.rules[i]) /\ Accepted(c, i) = k
  BY <1>1, <1>6, <1>7, <1>8
<1> QED
  BY <1>4, <1>9

LEMMA AcceptedOnce ==
  ASSUME NEW c, Limited(c), NEW i \in 1..Len(c.rules), NEW j \in 1..Len(c.rules),
         ValidRule(c.rules[i]), ValidRule(c.rules[j]), Accepted(c, i) = Accepted(c, j)
  PROVE  i = j
<1>1. ASSUME NEW a \in 1..Len(c.rules), NEW b \in 1..Len(c.rules),
             ValidRule(c.rules[b]), a < b
      PROVE  Accepted(c, a) < Accepted(c, b)
  <2>1. b - 1 \in 0..Len(c.rules) /\ a \in 0..b - 1 /\ Len(c.rules) \in Nat
    BY <1>1, AcceptedCounts
  <2>2. Accepted(c, a) <= Accepted(c, b - 1)
    BY <2>1, AcceptedGrows
  <2>3. Accepted(c, b) = Accepted(c, b - 1) + 1
    BY <1>1, AcceptedCounts
  <2>4. Accepted(c, a) \in Nat /\ Accepted(c, b - 1) \in Nat
    BY <2>1, AcceptedCounts, SMTT(40)
  <2> QED
    BY <2>2, <2>3, <2>4
<1>2. ~(i < j) /\ ~(j < i)
  BY <1>1, AcceptedCounts
<1> QED
  BY <1>2, AcceptedCounts

(* A valid rule is in the place its count says.                            *)
LEMMA AcceptedPlace ==
  ASSUME NEW c, Limited(c), NEW i \in 1..Len(c.rules), ValidRule(c.rules[i])
  PROVE  /\ Accepted(c, i) \in 1..Count(c)
         /\ AcceptedRules(c)[Accepted(c, i)] = c.rules[i]
<1> DEFINE k == Accepted(c, i)
           x == AcceptedIndex(c, k)
<1>1. k \in 1..Count(c)
  <2>1. Len(c.rules) \in Nat /\ i \in 0..Len(c.rules) /\ Len(c.rules) \in 0..Len(c.rules)
        /\ i - 1 \in 0..Len(c.rules)
    BY AcceptedCounts
  <2>2. Accepted(c, i - 1) \in Nat /\ k = Accepted(c, i - 1) + 1
    BY <2>1, AcceptedCounts
  <2>3. k <= Count(c) /\ Count(c) \in Nat
    BY <2>1, AcceptedGrows, AcceptedCounts DEF Count
  <2> QED
    BY <2>2, <2>3
<1>2. x \in 1..Len(c.rules) /\ ValidRule(c.rules[x]) /\ Accepted(c, x) = k
  BY DEF AcceptedIndex
<1>3. x = i
  BY <1>2, AcceptedOnce
<1> QED
  BY <1>1, <1>3 DEF AcceptedRules, Count

LEMMA AcceptedFrom ==
  ASSUME NEW c, Limited(c), NEW k \in 1..Count(c)
  PROVE  \E i \in 1..Len(c.rules) :
           /\ ValidRule(c.rules[i]) /\ Accepted(c, i) = k
           /\ AcceptedRules(c)[k] = c.rules[i]
BY AcceptedSource, AcceptedPlace

(* What the rules decide can be said of the accepted ones alone.           *)
LEMMA RulesAdmitByPlace ==
  ASSUME NEW c, Limited(c), NEW call
  PROVE  RulesAdmit(c, call) <=>
           LET mine(k) == AcceptedRules(c)[k].operation = call.operation
               hit(k, action) == /\ mine(k) /\ AcceptedRules(c)[k].action = action
                                 /\ Matches(AcceptedRules(c)[k].conditions, call)
           IN /\ \A k \in 1..Count(c) : ~hit(k, "except")
              /\ (\E k \in 1..Count(c) : mine(k) /\ AcceptedRules(c)[k].action = "only")
                   => \E k \in 1..Count(c) : hit(k, "only")
<1> DEFINE A == AcceptedRules(c)
           N == Count(c)
           mine(r) == r.operation = call.operation
           hit(r, action) == mine(r) /\ r.action = action /\ Matches(r.conditions, call)
           valid == {i \in 1..Len(c.rules) : ValidRule(c.rules[i])}
<1>1. \A i \in valid : \E k \in 1..N : A[k] = c.rules[i]
  BY AcceptedPlace
<1>2. \A k \in 1..N : \E i \in valid : A[k] = c.rules[i]
  BY AcceptedFrom
<1>3. RulesAdmit(c, call) <=>
        /\ \A i \in valid : ~hit(c.rules[i], "except")
        /\ (\E i \in valid : mine(c.rules[i]) /\ c.rules[i].action = "only")
             => \E i \in valid : hit(c.rules[i], "only")
  BY DEF RulesAdmit
<1> HIDE DEF A, N, valid
<1>4. RulesAdmit(c, call) <=>
        /\ \A k \in 1..N : ~hit(A[k], "except")
        /\ (\E k \in 1..N : mine(A[k]) /\ A[k].action = "only")
             => \E k \in 1..N : hit(A[k], "only")
  <2>1. (\A i \in valid : ~hit(c.rules[i], "except")) <=> \A k \in 1..N : ~hit(A[k], "except")
    BY <1>1, <1>2
  <2>2. (\E i \in valid : mine(c.rules[i]) /\ c.rules[i].action = "only")
          <=> \E k \in 1..N : mine(A[k]) /\ A[k].action = "only"
    BY <1>1, <1>2
  <2>3. (\E i \in valid : hit(c.rules[i], "only")) <=> \E k \in 1..N : hit(A[k], "only")
    BY <1>1, <1>2
  <2> QED
    BY <1>3, <2>1, <2>2, <2>3
<1> QED
  BY <1>4 DEF A, N

(* The same rules, PIDs or names, place by place.                          *)
LEMMA SameRules ==
  ASSUME NEW c, NEW d, Limited(c), Limited(d)
  PROVE  AcceptedRules(c) = AcceptedRules(d) <=>
           /\ Count(c) = Count(d)
           /\ \A k \in 1..Count(d) : AcceptedRules(c)[k] = AcceptedRules(d)[k]
<1>1. Count(c) \in Nat /\ Count(d) \in Nat
  BY AcceptedCounts DEF Count
<1>2. /\ AcceptedRules(c) = [k \in 1..Count(c) |-> AcceptedRules(c)[k]]
      /\ AcceptedRules(d) = [k \in 1..Count(d) |-> AcceptedRules(d)[k]]
  BY DEF AcceptedRules, Count
<1>3. ASSUME AcceptedRules(c) = AcceptedRules(d) PROVE Count(c) = Count(d)
  <2>1. 1..Count(c) = 1..Count(d)
    BY <1>2, <1>3
  <2> QED
    BY <1>1, <2>1
<1>4. ASSUME Count(c) = Count(d),
             \A k \in 1..Count(d) : AcceptedRules(c)[k] = AcceptedRules(d)[k]
      PROVE  AcceptedRules(c) = AcceptedRules(d)
  BY <1>2, <1>4
<1> QED
  BY <1>3, <1>4

LEMMA SamePids ==
  ASSUME NEW c, NEW d, Limited(c), Limited(d)
  PROVE  c.pids = d.pids <=>
           /\ Len(c.pids) = Len(d.pids)
           /\ \A k \in 1..MaxPids : Slot(c, k) = Slot(d, k)
<1>1. /\ c.pids \in Seq(Nat) /\ Len(c.pids) <= MaxPids /\ MaxPids \in Nat
      /\ d.pids \in Seq(Nat) /\ Len(d.pids) <= MaxPids
  BY ConfigAssumption DEF Limited, Configuration
<1>2. ASSUME Len(c.pids) = Len(d.pids), \A k \in 1..MaxPids : Slot(c, k) = Slot(d, k)
      PROVE  c.pids = d.pids
  <2>1. \A k \in 1..Len(c.pids) : c.pids[k] = d.pids[k]
    BY <1>1, <1>2 DEF Slot
  <2> QED
    BY <1>1, <1>2, <2>1, SeqEqual
<1> QED
  BY <1>2 DEF Slot

Word(c, i, w) == IF i <= Len(c.names) THEN c.names[i][w] ELSE NoWord

LEMMA SameNames ==
  ASSUME NEW c, NEW d, Limited(c), Limited(d)
  PROVE  c.names = d.names <=>
           /\ Len(c.names) = Len(d.names)
           /\ \A i \in 1..MaxNames, w \in 1..NameWords : Word(c, i, w) = Word(d, i, w)
<1>1. /\ c.names \in Seq(ProcessName) /\ Len(c.names) <= MaxNames /\ MaxNames \in Nat
      /\ d.names \in Seq(ProcessName) /\ Len(d.names) <= MaxNames
  BY ConfigAssumption DEF Limited, Configuration
<1>2. ASSUME Len(c.names) = Len(d.names),
             \A i \in 1..MaxNames, w \in 1..NameWords : Word(c, i, w) = Word(d, i, w)
      PROVE  c.names = d.names
  <2>1. ASSUME NEW i \in 1..Len(c.names) PROVE c.names[i] = d.names[i]
    <3>1. c.names[i] \in ProcessName /\ d.names[i] \in ProcessName
      BY <1>1, <1>2, ElementOfSeq
    <3>2. \A w \in 1..NameWords : c.names[i][w] = d.names[i][w]
      BY <1>1, <1>2 DEF Word
    <3>3. /\ c.names[i] = [w \in 1..NameWords |-> c.names[i][w]]
          /\ d.names[i] = [w \in 1..NameWords |-> d.names[i][w]]
      BY <3>1 DEF ProcessName
    <3> QED
      BY <3>2, <3>3
  <2> QED
    BY <1>1, <1>2, <2>1, SeqEqual
<1> QED
  BY <1>2 DEF Word
-----------------------------------------------------------------------------
(* What the globals hold while a request rewrites them.                    *)
(* Further places of a request.                                            *)
TargetPlaces == {"pids", "pidCount", "names", "nameCount", "targetsDone"}
MaskPlaces == {"operationFlag", "operations"}
AfterRuleCount == {"rulesDone", "categories", "capture", "excluded"}
AfterRules == {"ruleCount"} \cup AfterRuleCount
CopyingRules == {"header", "conditions", "ruleBit"}
BeforeRules == TargetPlaces \cup MaskPlaces \cup {"ruleFlag", "clearMask"}
AfterNames == {"nameCount"} \cup AfterNameCount

(* Each flag is up exactly while its filter is rewritten.                  *)
Up(places) == IF handler.at \in places THEN TRUE ELSE FALSE

FlagsHold ==
  /\ g.gTargetFilterUpdating =
       Up({"pids", "pidCount", "names", "nameCount", "targetsDone"})
  /\ g.gOperationFilterUpdating = Up({"operations"})
  /\ g.gArgumentFilterUpdating =
       Up({"clearMask", "ruleCount", "rulesDone"} \cup CopyingRules)
  /\ handler.changed \in BOOLEAN

(* The words before the n-th, counting from 0 over all names.              *)
Before(i, w, n) ==
  LET j == n \div NameWords + 1 IN i < j \/ (i = j /\ w <= n % NameWords)

Written(i, w) ==
  \/ handler.at \in AfterNames
  \/ handler.at = "names" /\ Before(i, w, handler.i)

NamesHold ==
  /\ g.gTargetNameWords \in [1..MaxNames -> [1..NameWords -> Nat]]
  /\ handler.at = "names" => handler.i \in Nat /\ handler.i \div NameWords < MaxNames
  /\ \A i \in 1..MaxNames, w \in 1..NameWords :
       g.gTargetNameWords[i][w] =
         IF Written(i, w) THEN Word(handler.new, i, w) ELSE Word(config, i, w)

MaskHolds ==
  handler.at = "operations" =>
    /\ config.operations \cap handler.new.operations \subseteq g.gOperationMask
    /\ g.gOperationMask \subseteq config.operations \cup handler.new.operations

(* How many rules of new are in place: whole, and up to their header.      *)
RulesCopied ==
  CASE handler.at \in {"header", "ruleBit"} \cup AfterRules -> handler.accepted
    [] handler.at = "conditions" -> handler.accepted - 1
    [] OTHER -> 0

(* Which rule of new is copied, and to which place.                        *)
RuleCursor ==
  /\ handler.at \in BeforeRules => handler.accepted = 0
  /\ handler.at = "header" =>
       /\ handler.i \in 1..Len(handler.new.rules) + 1
       /\ handler.accepted = Accepted(handler.new, handler.i - 1)
  /\ handler.at \in {"conditions", "ruleBit"} =>
       /\ handler.i \in 1..Len(handler.new.rules)
       /\ ValidRule(handler.new.rules[handler.i])
       /\ handler.accepted = Accepted(handler.new, handler.i)
  /\ handler.at \in AfterRules => handler.accepted = Count(handler.new)

(* The rules behind those copied are still the old ones, until the places  *)
(* behind the last rule are zeroed.                                        *)
OldRulesLeft ==
  \/ handler.at \notin {"header"} \cup AfterRules
  \/ handler.at = "header" /\ handler.i <= Len(handler.new.rules)

RulesHold ==
  /\ g.gArgumentRules \in [1..MaxRules -> FilterRule]
  /\ \A k \in 1..RulesCopied : g.gArgumentRules[k] = AcceptedRules(handler.new)[k]
  /\ handler.at = "conditions" =>
       LET slot == g.gArgumentRules[handler.accepted]
           rule == handler.new.rules[handler.i]
       IN slot.operation = rule.operation /\ slot.action = rule.action
  /\ OldRulesLeft =>
       \A k \in 1..Count(config) :
         k > (IF handler.at \in CopyingRules THEN handler.accepted ELSE 0)
           => g.gArgumentRules[k] = AcceptedRules(config)[k]
  /\ g.gArgumentRuleCount =
       Count(IF handler.at \in AfterRuleCount THEN handler.new ELSE config)

(* The system calls that the first n rules concern.                        *)
Concerned(c, n) == {c.rules[j].operation : j \in {j \in 1..n : ValidRule(c.rules[j])}}

RuleMaskHolds ==
  /\ handler.at \in CopyingRules =>
       g.gArgumentRuleOperationMask = Concerned(handler.new, handler.i - 1)
  /\ handler.at \in AfterRules =>
       g.gArgumentRuleOperationMask = Concerned(handler.new, Len(handler.new.rules))
  /\ handler.at \notin {"clearMask"} \cup CopyingRules \cup AfterRules =>
       g.gArgumentRuleOperationMask = Concerned(config, Len(config.rules))

ExcludedHolds == g.gExcludedPid = config.excluded

TargetsDiffer == config.pids # handler.new.pids \/ config.names # handler.new.names
MasksDiffer == TargetsDiffer \/ config.operations # handler.new.operations
RulesDiffer(n) ==
  \E k \in 1..n : k > Count(config)
                  \/ AcceptedRules(config)[k] # AcceptedRules(handler.new)[k]

-----------------------------------------------------------------------------
(* A request goes from section to section, and the accesses of one section *)
(* leave the globals of the others alone.                                  *)

RulePlaces == {"ruleFlag", "clearMask", "ruleCount", "rulesDone"} \cup CopyingRules
LastPlaces == {"categories", "capture"}

NamesKept == g'.gTargetNameWords = g.gTargetNameWords
MaskKept == g'.gOperationMask = g.gOperationMask
RulesKept ==
  /\ g'.gArgumentRules = g.gArgumentRules
  /\ g'.gArgumentRuleCount = g.gArgumentRuleCount
  /\ g'.gArgumentRuleOperationMask = g.gArgumentRuleOperationMask

Begins ==
  /\ handler.at \in Settled /\ handler'.at \in Stopping \cup {"pids"}
  /\ handler'.i = 1 /\ handler'.accepted = 0 /\ handler'.changed = FALSE
  /\ config' = config
  /\ \A t \in Threads : local'[t] = Idle \/ local'[t].quiet = FALSE
  /\ NamesKept /\ MaskKept /\ RulesKept /\ g'.gExcludedPid = g.gExcludedPid

Ends ==
  /\ handler.at \in Stopping \cup {"excluded"} /\ handler'.at \in Settled
  /\ config' = handler.new /\ local' = local
  /\ handler'.at = "flush" \/ handler.at = "cleanup"
       \/ (handler.at = "excluded" /\ handler.changed = FALSE)
  /\ NamesKept /\ MaskKept /\ RulesKept /\ g'.gExcludedPid = handler.new.excluded

Section(places, next) ==
  /\ handler.at \in places /\ handler'.at \in places \cup {next}
  /\ handler'.new = handler.new /\ config' = config /\ local' = local
  /\ g'.gExcludedPid = g.gExcludedPid

TargetAccess ==
  /\ WritePid \/ WritePidCount \/ WriteNameWord \/ WriteNameCount \/ TargetsDone
  /\ Section(TargetPlaces, "operationFlag") /\ MaskKept /\ RulesKept
  /\ handler'.accepted = handler.accepted

MaskAccess ==
  /\ \/ BeginOperations \/ OperationsDone
     \/ \E o \in Operations : WriteOperation(o)
  /\ Section(MaskPlaces, "ruleFlag") /\ NamesKept /\ RulesKept
  /\ handler'.accepted = handler.accepted

RuleAccess ==
  /\ \/ BeginRules \/ RuleMaskCleared \/ \E o \in Operations : ClearRuleMask(o)
     \/ CopyRuleHeader \/ CopyRuleConditions \/ SetRuleBit
     \/ RulesZeroed \/ \E k \in 1..MaxRules : ZeroRule(k)
     \/ WriteRuleCount \/ RulesDone
  /\ Section(RulePlaces, "categories") /\ NamesKept /\ MaskKept

LastAccess ==
  /\ Section(LastPlaces, "excluded") /\ NamesKept /\ MaskKept /\ RulesKept
  /\ handler'.changed = handler.changed /\ handler'.accepted = handler.accepted

Flushes ==
  /\ handler.at = "flush" /\ handler'.at = "ready"
  /\ g' = g /\ UNCHANGED <<config, installing, local>> /\ ring' = {}

RequestStep ==
  Begins \/ TargetAccess \/ MaskAccess \/ RuleAccess \/ LastAccess \/ Ends \/ Flushes

LEMMA BeginEndsQuiet ==
  ASSUME NEW from, NEW to, NEW new, Begin(from, to, new),
         DOMAIN local = Threads, \A t \in Threads : CallInv(local[t])
  PROVE  \A t \in Threads : local'[t] = Idle \/ local'[t].quiet = FALSE
BY DEF Begin, CallInv

LEMMA RequestSteps ==
  ASSUME GlobalsInv, FlagsHold, DeviceRequest,
         DOMAIN local = Threads, \A t \in Threads : CallInv(local[t])
  PROVE  FlagsHold' /\ RequestStep
<1> USE DEF GlobalsInv, Shape, RequestInSight, FlagsHold, Up,
            RequestStep, Begins, Ends, Section, NamesKept, MaskKept, RulesKept,
            CopyingRules, TargetPlaces, MaskPlaces, RulePlaces, LastPlaces,
            Write, Go, Begin, Installed, Ready, StopCapture, NoRequest, history,
            Settled, Stopping
<1>1. ASSUME WritePid PROVE FlagsHold' /\ RequestStep
  BY <1>1 DEF WritePid, TargetAccess
<1>2. ASSUME WritePidCount PROVE FlagsHold' /\ RequestStep
  BY <1>2 DEF WritePidCount, TargetAccess
<1>3. ASSUME WriteNameWord PROVE FlagsHold' /\ RequestStep
  BY <1>3 DEF WriteNameWord, TargetAccess
<1>4. ASSUME WriteNameCount PROVE FlagsHold' /\ RequestStep
  BY <1>4 DEF WriteNameCount, TargetAccess
<1>5. ASSUME TargetsDone PROVE FlagsHold' /\ RequestStep
  BY <1>5 DEF TargetsDone, TargetAccess
<1>6. ASSUME BeginOperations PROVE FlagsHold' /\ RequestStep
  BY <1>6 DEF BeginOperations, MaskAccess
<1>7. ASSUME OperationsDone PROVE FlagsHold' /\ RequestStep
  BY <1>7 DEF OperationsDone, MaskAccess
<1>8. ASSUME NEW o \in Operations, WriteOperation(o) PROVE FlagsHold' /\ RequestStep
  BY <1>8 DEF WriteOperation, MaskAccess
<1>9. ASSUME BeginRules PROVE FlagsHold' /\ RequestStep
  BY <1>9 DEF BeginRules, RuleAccess
<1>10. ASSUME RuleMaskCleared PROVE FlagsHold' /\ RequestStep
  BY <1>10 DEF RuleMaskCleared, RuleAccess
<1>11. ASSUME NEW o \in Operations, ClearRuleMask(o) PROVE FlagsHold' /\ RequestStep
  BY <1>11 DEF ClearRuleMask, RuleAccess
<1>12. ASSUME CopyRuleHeader PROVE FlagsHold' /\ RequestStep
  <2> DEFINE r == handler.new.rules[handler.i]
             k == handler.accepted + 1
             copy == [g EXCEPT !.gArgumentRules[k].operation = r.operation,
                               !.gArgumentRules[k].action = r.action]
             differs == k > g.gArgumentRuleCount \/ g.gArgumentRules[k] # r
  <2>1. /\ handler.at = "header"
        /\ \/ Write("header", [Go("conditions") EXCEPT !.accepted = k], copy, differs)
           \/ Write("header", [handler EXCEPT !.i = @ + 1], g, FALSE)
    BY <1>12 DEF CopyRuleHeader
  <2>2. DOMAIN copy = DOMAIN g /\ \A f \in DOMAIN g \ {"gArgumentRules"} : copy[f] = g[f]
    OBVIOUS
  <2> HIDE DEF r, k, copy, differs
  <2>3. /\ handler'.at \in {"header", "conditions"} /\ handler'.new = handler.new
        /\ config' = config
        /\ \A f \in DOMAIN g \ {"gArgumentRules"} : g'[f] = g[f]
    BY <2>1, <2>2
  <2> QED
    BY <1>12, <2>1, <2>3 DEF RuleAccess
<1>13. ASSUME CopyRuleConditions PROVE FlagsHold' /\ RequestStep
  BY <1>13 DEF CopyRuleConditions, RuleAccess
<1>14. ASSUME SetRuleBit PROVE FlagsHold' /\ RequestStep
  BY <1>14 DEF SetRuleBit, RuleAccess
<1>15. ASSUME RulesZeroed PROVE FlagsHold' /\ RequestStep
  BY <1>15 DEF RulesZeroed, RuleAccess
<1>16. ASSUME NEW k \in 1..MaxRules, ZeroRule(k) PROVE FlagsHold' /\ RequestStep
  BY <1>16 DEF ZeroRule, RuleAccess
<1>17. ASSUME WriteRuleCount PROVE FlagsHold' /\ RequestStep
  BY <1>17 DEF WriteRuleCount, RuleAccess
<1>18. ASSUME RulesDone PROVE FlagsHold' /\ RequestStep
  BY <1>18 DEF RulesDone, RuleAccess
<1>19. ASSUME WriteCategories PROVE FlagsHold' /\ RequestStep
  BY <1>19 DEF WriteCategories, LastAccess
<1>20. ASSUME WriteCapture PROVE FlagsHold' /\ RequestStep
  BY <1>20 DEF WriteCapture, LastAccess
<1>21. ASSUME WriteExcluded PROVE FlagsHold' /\ RequestStep
  BY <1>21 DEF WriteExcluded
<1>22. ASSUME FlushRings PROVE FlagsHold' /\ RequestStep
  BY <1>22 DEF FlushRings, Flushes
<1>23. ASSUME OpenDevice PROVE FlagsHold' /\ RequestStep
  <2>1. \A t \in Threads : local'[t] = Idle \/ local'[t].quiet = FALSE
    BY <1>23, BeginEndsQuiet DEF OpenDevice, StopCapture
  <2> QED
    BY <1>23, <2>1 DEF OpenDevice
<1>24. ASSUME ExcludeOpener PROVE FlagsHold' /\ RequestStep
  BY <1>24 DEF ExcludeOpener
<1>25. ASSUME CleanupDevice PROVE FlagsHold' /\ RequestStep
  <2>1. \A t \in Threads : local'[t] = Idle \/ local'[t].quiet = FALSE
    BY <1>25, BeginEndsQuiet DEF CleanupDevice, StopCapture
  <2> QED
    BY <1>25, <2>1 DEF CleanupDevice
<1>26. ASSUME ExcludeNobody PROVE FlagsHold' /\ RequestStep
  BY <1>26 DEF ExcludeNobody
<1>27. ASSUME NEW new \in Configs, SetConfig(new) PROVE FlagsHold' /\ RequestStep
  <2>1. \A t \in Threads : local'[t] = Idle \/ local'[t].quiet = FALSE
    BY <1>27, BeginEndsQuiet DEF SetConfig
  <2> QED
    BY <1>27, <2>1 DEF SetConfig
<1> HIDE DEF FlagsHold, RequestStep
<1> QED
  BY <1>1, <1>2, <1>3, <1>4, <1>5, <1>6, <1>7, <1>8, <1>9, <1>10, <1>11, <1>12, <1>13, <1>14, <1>15, <1>16, <1>17, <1>18, <1>19, <1>20, <1>21, <1>22, <1>23, <1>24, <1>25, <1>26, <1>27 DEF DeviceRequest

(* After one more word, the words written are those before it and itself.  *)
LEMMA WordsBefore ==
  ASSUME NEW n \in Nat, n \div NameWords < MaxNames
  PROVE  LET i == (n \div NameWords) + 1
             w == (n % NameWords) + 1
         IN /\ i \in 1..MaxNames /\ w \in 1..NameWords
            /\ \A j \in 1..MaxNames, v \in 1..NameWords :
                 IF i = MaxNames /\ w = NameWords THEN Before(j, v, n) \/ (j = i /\ v = w)
                 ELSE Before(j, v, n + 1) <=> Before(j, v, n) \/ (j = i /\ v = w)
            /\ ~(i = MaxNames /\ w = NameWords) => (n + 1) \div NameWords < MaxNames
            /\ ~Before(i, w, n)
<1> DEFINE q == n \div NameWords
           r == n % NameWords
           q2 == (n + 1) \div NameWords
           r2 == (n + 1) % NameWords
<1>1. NameWords \in Nat \ {0} /\ MaxNames \in Nat \ {0}
  BY ConfigAssumption
<1>2. /\ q \in Nat /\ r \in 0..NameWords - 1
      /\ IF r = NameWords - 1 THEN q2 = q + 1 /\ r2 = 0 ELSE q2 = q /\ r2 = r + 1
  BY <1>1, NextInRows
<1>3. \A j, v : /\ Before(j, v, n) <=> (j < q + 1 \/ (j = q + 1 /\ v <= r))
                /\ Before(j, v, n + 1) <=> (j < q2 + 1 \/ (j = q2 + 1 /\ v <= r2))
  BY DEF Before
<1> HIDE DEF q, r, q2, r2
<1>4. q < MaxNames
  BY DEF q
<1>5. /\ q + 1 \in 1..MaxNames /\ r + 1 \in 1..NameWords
      /\ \A j \in 1..MaxNames, v \in 1..NameWords :
           IF q + 1 = MaxNames /\ r + 1 = NameWords
           THEN Before(j, v, n) \/ (j = q + 1 /\ v = r + 1)
           ELSE Before(j, v, n + 1) <=> Before(j, v, n) \/ (j = q + 1 /\ v = r + 1)
      /\ ~(q + 1 = MaxNames /\ r + 1 = NameWords) => q2 < MaxNames
      /\ ~Before(q + 1, r + 1, n)
  BY <1>1, <1>2, <1>3, <1>4
<1> QED
  BY <1>5 DEF q, r, q2

LEMMA NamesStep ==
  ASSUME GlobalsInv, NamesHold, DeviceRequest, RequestStep
  PROVE  NamesHold'
<1> USE DEF Section, NamesKept, TargetPlaces, MaskPlaces, RulePlaces, LastPlaces,
            CopyingRules, Settled, Stopping, AfterNames, AfterNameCount, AfterOperations
<1>1. RequestInSight /\ Shape /\ NameWords \in Nat \ {0} /\ MaxNames \in Nat \ {0}
  BY ConfigAssumption DEF GlobalsInv
<1>2. CASE Begins \/ Flushes
  BY <1>2 DEF Begins, Flushes, NamesHold, Written, Word
<1>3. CASE Ends
  <2>1. \A i \in 1..MaxNames, w \in 1..NameWords :
          g.gTargetNameWords[i][w] = Word(handler.new, i, w)
    BY <1>1, <1>3 DEF Ends, NamesHold, Written, Word, RequestInSight
  <2>2. \A i, w : ~Written(i, w)' /\ Word(config, i, w)' = Word(handler.new, i, w)
    BY <1>3 DEF Ends, Written, Word
  <2> QED
    BY <1>3, <2>1, <2>2 DEF Ends, NamesHold
<1>4. CASE MaskAccess \/ RuleAccess \/ LastAccess
  BY <1>4, ZenonT(60) DEF MaskAccess, RuleAccess, LastAccess, NamesHold, Written, Word
<1>5. CASE TargetAccess
  <2>1. ASSUME WritePid PROVE NamesHold'
    BY <1>1, <1>5, <2>1 DEF WritePid, Write, Go, NamesHold, Written, Word, TargetAccess, Shape
  <2>2. ASSUME WritePidCount PROVE NamesHold'
    <3>1. /\ handler.at = "pidCount" /\ handler'.at = "names" /\ handler'.i = 0
          /\ handler'.new = handler.new /\ config' = config
          /\ g'.gTargetNameWords = g.gTargetNameWords
      BY <1>1, <2>2 DEF WritePidCount, Write, Go, Shape, history
    <3>2. 0 \div NameWords = 0 /\ 0 % NameWords = 0
      BY <1>1
    <3>3. \A i \in 1..MaxNames, w \in 1..NameWords : ~Before(i, w, 0)
      BY <1>1, <3>2 DEF Before
    <3>4. \A i \in 1..MaxNames, w \in 1..NameWords : ~Written(i, w) /\ ~Written(i, w)'
      BY <3>1, <3>3 DEF Written, Before
    <3>5. \A i, w : Word(config, i, w)' = Word(config, i, w)
      BY <3>1 DEF Word
    <3>6. handler'.i \in Nat /\ handler'.i \div NameWords < MaxNames
      BY <1>1, <3>1, <3>2
    <3> QED
      BY <3>1, <3>4, <3>5, <3>6 DEF NamesHold
  <2>3. ASSUME WriteNameWord PROVE NamesHold'
    <3> DEFINE n == handler.i
               i == (n \div NameWords) + 1
               w == (n % NameWords) + 1
               next == IF i <= Len(handler.new.names) THEN handler.new.names[i][w] ELSE NoWord
    <3>1. /\ handler.at = "names" /\ handler'.new = handler.new /\ config' = config
          /\ handler'.i = n + 1
          /\ handler'.at = IF i = MaxNames /\ w = NameWords THEN "nameCount" ELSE "names"
          /\ g'.gTargetNameWords = [g.gTargetNameWords EXCEPT ![i][w] = next]
      BY <1>1, <2>3 DEF WriteNameWord, Write, Shape, history
    <3>2. n \in Nat /\ n \div NameWords < MaxNames
      BY <3>1 DEF NamesHold
    <3>3. next = Word(handler.new, i, w)
      BY DEF Word
    <3>4. next \in Nat
      <4>1. i \in 1..MaxNames /\ w \in 1..NameWords
        BY <3>2, WordsBefore
      <4>2. handler.new.names \in Seq(ProcessName) /\ Len(handler.new.names) \in Nat
        BY <1>1 DEF RequestInSight, Limited, Configuration
      <4>3. i \in 1..Len(handler.new.names) => handler.new.names[i] \in ProcessName
        BY <4>2, ElementOfSeq
      <4> HIDE DEF i, w
      <4>4. CASE i <= Len(handler.new.names)
        <5>1. handler.new.names[i] \in ProcessName
          BY <4>1, <4>2, <4>3, <4>4
        <5>2. handler.new.names[i][w] \in Nat
          BY <4>1, <5>1 DEF ProcessName
        <5> QED
          BY <4>4, <5>2
      <4> QED
        BY <4>4 DEF NoWord
    <3> HIDE DEF next
    <3>5. /\ i \in 1..MaxNames /\ w \in 1..NameWords
          /\ \A j \in 1..MaxNames, v \in 1..NameWords :
               IF i = MaxNames /\ w = NameWords THEN Before(j, v, n) \/ (j = i /\ v = w)
               ELSE Before(j, v, n + 1) <=> Before(j, v, n) \/ (j = i /\ v = w)
          /\ ~(i = MaxNames /\ w = NameWords) => (n + 1) \div NameWords < MaxNames
      BY <3>2, WordsBefore
    <3> HIDE DEF i, w, n
    <3>6. /\ g'.gTargetNameWords \in [1..MaxNames -> [1..NameWords -> Nat]]
          /\ \A j \in 1..MaxNames, v \in 1..NameWords :
               g'.gTargetNameWords[j][v] =
                 IF j = i /\ v = w THEN next ELSE g.gTargetNameWords[j][v]
      <4> DEFINE W == g.gTargetNameWords
      <4>1. /\ W \in [1..MaxNames -> [1..NameWords -> Nat]]
            /\ g'.gTargetNameWords = [W EXCEPT ![i][w] = next]
        BY <3>1 DEF NamesHold
      <4> HIDE DEF W
      <4>2. [W[i] EXCEPT ![w] = next] \in [1..NameWords -> Nat]
        BY <3>4, <3>5, <4>1
      <4>3. g'.gTargetNameWords = [W EXCEPT ![i] = [W[i] EXCEPT ![w] = next]]
        BY <3>5, <4>1
      <4>4. g'.gTargetNameWords \in [1..MaxNames -> [1..NameWords -> Nat]]
        BY <4>1, <4>2, <4>3
      <4>5. \A j \in 1..MaxNames, v \in 1..NameWords :
              g'.gTargetNameWords[j][v] = IF j = i /\ v = w THEN next ELSE W[j][v]
        BY <3>5, <4>1, <4>3, ZenonT(60)
      <4> QED
        BY <4>4, <4>5 DEF W
    <3>7. \A j \in 1..MaxNames, v \in 1..NameWords :
            Written(j, v)' <=> Written(j, v) \/ (j = i /\ v = w)
      BY <3>1, <3>5 DEF Written, n
    <3>8. \A j, v : Word(handler.new, j, v)' = Word(handler.new, j, v)
                    /\ Word(config, j, v)' = Word(config, j, v)
      BY <3>1 DEF Word
    <3>9. handler'.at = "names" => handler'.i \in Nat /\ handler'.i \div NameWords < MaxNames
      BY <3>1, <3>2, <3>5
    <3> QED
      BY <3>3, <3>6, <3>7, <3>8, <3>9 DEF NamesHold
  <2>4. ASSUME WriteNameCount \/ TargetsDone PROVE NamesHold'
    <3>1. /\ handler.at \in AfterNames /\ handler'.at \in AfterNames
          /\ handler.at # "names" /\ handler'.at # "names"
          /\ handler'.new = handler.new /\ config' = config
          /\ g'.gTargetNameWords = g.gTargetNameWords
      BY <1>1, <2>4 DEF WriteNameCount, TargetsDone, Write, Go, Shape, history
    <3>2. \A i, w : /\ Written(i, w) /\ Written(i, w)'
                   /\ Word(handler.new, i, w)' = Word(handler.new, i, w)
      BY <3>1 DEF Written, Word
    <3> QED
      BY <3>1, <3>2 DEF NamesHold
  <2> QED
    BY <1>5, <2>1, <2>2, <2>3, <2>4 DEF TargetAccess
<1> QED
  BY <1>2, <1>3, <1>4, <1>5 DEF RequestStep

LEMMA MaskStep ==
  ASSUME GlobalsInv, MaskHolds, ExcludedHolds, DeviceRequest, RequestStep
  PROVE  MaskHolds' /\ ExcludedHolds'
<1> USE DEF Section, MaskKept, TargetPlaces, MaskPlaces, RulePlaces, LastPlaces,
            CopyingRules, Settled, Stopping
<1>1. ExcludedHolds'
  BY DEF RequestStep, Begins, Ends, Flushes, TargetAccess, MaskAccess, RuleAccess,
         LastAccess, ExcludedHolds
<1>2. CASE Begins \/ Ends \/ Flushes \/ TargetAccess \/ RuleAccess \/ LastAccess
  <2>1. handler'.at # "operations"
    BY <1>2 DEF Begins, Ends, Flushes, TargetAccess, RuleAccess, LastAccess
  <2> QED
    BY <1>1, <2>1 DEF MaskHolds
<1>3. CASE MaskAccess
  <2>1. GlobalsInv /\ Shape /\ OperationsHold
    BY DEF GlobalsInv
  <2>2. ASSUME BeginOperations PROVE MaskHolds'
    BY <2>1, <2>2 DEF BeginOperations, Write, Go, MaskHolds, Shape, OperationsHold,
       AfterOperations, history
  <2>3. ASSUME NEW o \in Operations, WriteOperation(o) PROVE MaskHolds'
    BY <2>1, <2>3 DEF WriteOperation, Write, MaskHolds, Shape, history
  <2>4. ASSUME OperationsDone PROVE MaskHolds'
    BY <2>1, <2>4 DEF OperationsDone, Write, Go, MaskHolds, Shape, history
  <2> QED
    BY <1>1, <1>3, <2>2, <2>3, <2>4 DEF MaskAccess
<1> QED
  BY <1>1, <1>2, <1>3 DEF RequestStep

LEMMA ConcernedGrows ==
  ASSUME NEW c, Limited(c)
  PROVE  /\ Concerned(c, 0) = {}
         /\ \A i \in 1..Len(c.rules) :
              Concerned(c, i) = IF ValidRule(c.rules[i])
                                THEN Concerned(c, i - 1) \cup {c.rules[i].operation}
                                ELSE Concerned(c, i - 1)
<1>1. Len(c.rules) \in Nat
  BY AcceptedCounts
<1>2. Concerned(c, 0) = {}
  BY DEF Concerned
<1>3. ASSUME NEW i \in 1..Len(c.rules)
      PROVE  {j \in 1..i : ValidRule(c.rules[j])} =
               IF ValidRule(c.rules[i])
               THEN {j \in 1..i - 1 : ValidRule(c.rules[j])} \cup {i}
               ELSE {j \in 1..i - 1 : ValidRule(c.rules[j])}
  BY <1>1
<1> QED
  BY <1>2, <1>3 DEF Concerned

(* Accepted rules and the calls they concern depend on the rules alone.    *)
LEMMA OnlyRulesMatter ==
  ASSUME NEW c, NEW d, c.rules = d.rules
  PROVE  /\ Count(c) = Count(d) /\ AcceptedRules(c) = AcceptedRules(d)
         /\ \A n : Accepted(c, n) = Accepted(d, n) /\ Concerned(c, n) = Concerned(d, n)
<1>1. \A n : Accepted(c, n) = Accepted(d, n)
  BY DEF Accepted
<1>2. \A k : AcceptedIndex(c, k) = AcceptedIndex(d, k)
  BY <1>1 DEF AcceptedIndex
<1> QED
  BY <1>1, <1>2 DEF Count, AcceptedRules, Concerned

RulesInv == RuleCursor /\ RulesHold /\ RuleMaskHolds

LEMMA RulesOutsideTheirSection ==
  ASSUME GlobalsInv, RulesInv, RequestStep, ~RuleAccess
  PROVE  RulesInv'
<1> USE DEF RulesInv, RuleCursor, RulesHold, RuleMaskHolds, RulesCopied, OldRulesLeft,
            Section, RulesKept, TargetPlaces, MaskPlaces, RulePlaces, LastPlaces,
            BeforeRules, CopyingRules, AfterRules, AfterRuleCount, Settled, Stopping
<1>1. CASE Begins \/ Flushes
  BY <1>1 DEF Begins, Flushes
<1>2. CASE TargetAccess
  BY <1>2 DEF TargetAccess
<1>3. CASE MaskAccess
  BY <1>3 DEF MaskAccess
<1>4. CASE LastAccess
  BY <1>4 DEF LastAccess
<1>5. CASE Ends
  <2>1. /\ handler'.at \in Settled /\ config' = handler.new
        /\ g'.gArgumentRules = g.gArgumentRules
        /\ g'.gArgumentRuleCount = g.gArgumentRuleCount
        /\ g'.gArgumentRuleOperationMask = g.gArgumentRuleOperationMask
    BY <1>5 DEF Ends
  <2>2. /\ \A k \in 1..Count(handler.new) : g.gArgumentRules[k] = AcceptedRules(handler.new)[k]
        /\ g.gArgumentRuleCount = Count(handler.new)
        /\ g.gArgumentRuleOperationMask = Concerned(handler.new, Len(handler.new.rules))
    <3>1. CASE handler.at = "excluded"
      BY <3>1
    <3>2. CASE handler.at \in Stopping
      <4>1. handler.new.rules = config.rules
        BY <3>2 DEF GlobalsInv, RequestInSight
      <4>2. Count(config) \in Nat
        BY AcceptedCounts DEF GlobalsInv, RequestInSight, Count
      <4> QED
        BY <3>2, <4>1, <4>2, OnlyRulesMatter
    <3> QED
      BY <1>5, <3>1, <3>2 DEF Ends
  <2> QED
    BY <2>1, <2>2
<1> QED
  BY <1>1, <1>2, <1>3, <1>4, <1>5 DEF RequestStep

LEMMA NoRuleTyped == NoRule \in FilterRule
BY DEF NoRule, FilterRule

(* The copy of a rule keeps the array's type and touches one place.        *)
LEMMA RulesInTheirSection ==
  ASSUME GlobalsInv, RulesInv, RuleAccess
  PROVE  RulesInv'
<1> DEFINE new == handler.new
           n == Len(new.rules)
           G == g.gArgumentRules
           M == g.gArgumentRuleOperationMask
<1>1. /\ Shape /\ RequestInSight /\ Limited(new) /\ Limited(config)
      /\ G \in [1..MaxRules -> FilterRule] /\ MaxRules \in Nat
      /\ handler'.new = new /\ config' = config
  BY ConfigAssumption DEF GlobalsInv, RequestInSight, RulesInv, RulesHold, RuleAccess,
     Section
<1>2. /\ n \in Nat /\ n <= MaxRules /\ Count(new) \in 0..n /\ Count(config) \in 0..MaxRules
      /\ Accepted(new, 0) = 0 /\ Concerned(new, 0) = {}
      /\ \A i \in 1..n : new.rules[i] \in FilterRule
  <2>1. new.rules \in Seq(FilterRule) /\ n <= MaxRules
    BY <1>1 DEF Limited, Configuration
  <2>2. n \in Nat /\ \A i \in 1..n : new.rules[i] \in FilterRule
    BY <2>1, ElementOfSeq
  <2>3. Count(new) \in 0..n /\ Accepted(new, 0) = 0
    BY <1>1, <2>2, AcceptedCounts DEF Count
  <2>4. Count(config) \in 0..Len(config.rules) /\ Len(config.rules) \in Nat
    BY <1>1, AcceptedCounts DEF Count
  <2>5. Count(config) \in 0..MaxRules
    BY <1>1, <2>4 DEF Limited
  <2> QED
    BY <1>1, <2>1, <2>2, <2>3, <2>5, ConcernedGrows
<1> USE DEF RulesInv, RuleCursor, RulesHold, RuleMaskHolds, RulesCopied, OldRulesLeft,
            BeforeRules, TargetPlaces, MaskPlaces, CopyingRules, AfterRules,
            AfterRuleCount, Settled, Stopping
<1>3. ASSUME BeginRules PROVE RulesInv'
  BY <1>1, <1>3 DEF BeginRules, Write, Go, Shape, history
<1>4. ASSUME NEW o \in Operations, ClearRuleMask(o) PROVE RulesInv'
  BY <1>1, <1>4 DEF ClearRuleMask, Write, Shape, history
<1>5. ASSUME RuleMaskCleared PROVE RulesInv'
  <2>1. /\ handler.at = "clearMask" /\ handler'.at = "header"
        /\ handler'.i = 1 /\ handler'.accepted = handler.accepted
        /\ g' = g /\ M = {}
    BY <1>1, <1>5 DEF RuleMaskCleared, Write, Go, Shape
  <2>2. handler'.i - 1 = 0 /\ handler.accepted = 0
    BY <2>1
  <2> QED
    BY <1>1, <1>2, <2>1, <2>2
<1>6. ASSUME CopyRuleHeader PROVE RulesInv'
  <2> DEFINE i == handler.i
             r == new.rules[i]
             k == handler.accepted + 1
  <2>1. handler.at = "header" /\ i \in 1..n /\ handler.accepted = Accepted(new, i - 1)
    BY <1>1, <1>2, <1>6 DEF CopyRuleHeader
  <2>2. CASE ValidRule(r)
    <3>1. /\ k = Accepted(new, i) /\ k \in 1..MaxRules
          /\ k \in 1..Count(new) /\ handler.accepted \in Nat
      <4>1. Accepted(new, i - 1) \in Nat
        BY <1>1, <1>2, <2>1, AcceptedCounts, SMTT(40)
      <4>2. Accepted(new, i) = Accepted(new, i - 1) + 1
        BY <1>1, <2>1, <2>2, AcceptedCounts
      <4>3. Accepted(new, i) \in 1..Count(new)
        BY <1>1, <2>1, <2>2, AcceptedPlace
      <4> QED
        BY <1>1, <1>2, <2>1, <4>1, <4>2, <4>3
    <3>2. /\ handler'.at = "conditions" /\ handler'.i = i /\ handler'.accepted = k
          /\ g'.gArgumentRuleCount = g.gArgumentRuleCount
          /\ g'.gArgumentRuleOperationMask = M
          /\ g'.gArgumentRules = [G EXCEPT ![k] = [[G[k] EXCEPT !.operation = r.operation]
                                                   EXCEPT !.action = r.action]]
      <4>1. /\ handler' = [[handler EXCEPT !.at = "conditions", !.accepted = k]
                              EXCEPT !.changed = handler'.changed]
            /\ g' = [g EXCEPT !.gArgumentRules[k].operation = r.operation,
                              !.gArgumentRules[k].action = r.action]
        BY <1>1, <1>6, <2>2 DEF CopyRuleHeader, Write, Go, Shape
      <4> QED
        BY <1>1, <3>1, <4>1 DEF Shape
    <3>3. r \in FilterRule /\ G[k] \in FilterRule
      BY <1>1, <1>2, <2>1, <3>1
    <3> HIDE DEF r, k, i, n, G, M
    <3>4. /\ g'.gArgumentRules \in [1..MaxRules -> FilterRule]
          /\ g'.gArgumentRules[k].operation = r.operation
          /\ g'.gArgumentRules[k].action = r.action
          /\ \A j \in 1..MaxRules \ {k} : g'.gArgumentRules[j] = G[j]
      <4> DEFINE copy == [[G[k] EXCEPT !.operation = r.operation] EXCEPT !.action = r.action]
      <4>1. copy \in FilterRule /\ copy.operation = r.operation /\ copy.action = r.action
        BY <3>3 DEF FilterRule
      <4> HIDE DEF copy
      <4>2. g'.gArgumentRules = [G EXCEPT ![k] = copy]
        BY <3>2 DEF copy
      <4>3. G \in [1..MaxRules -> FilterRule]
        BY <1>1 DEF G
      <4> QED
        BY <3>1, <4>1, <4>2, <4>3
    <3>5. /\ handler.at = "header" /\ handler.accepted = k - 1 /\ k \in Nat
          /\ \A j \in 1..k - 1 : G[j] = AcceptedRules(new)[j]
          /\ \A j \in 1..Count(config) : j > k - 1 => G[j] = AcceptedRules(config)[j]
          /\ g.gArgumentRuleCount = Count(config)
          /\ M = Concerned(new, i - 1)
      BY <1>1, <2>1, <3>1 DEF r, i, k, G, M, n
    <3>6. \A j \in 1..Count(new) : j \in 1..MaxRules
      BY <1>1, <1>2 DEF n
    <3>7. RuleCursor'
      BY <1>1, <2>1, <2>2, <3>1, <3>2 DEF r, i, n
    <3>8. RuleMaskHolds'
      BY <1>1, <3>2, <3>5
    <3>9. g'.gArgumentRuleCount = Count(config)
      BY <3>2, <3>5
    <3>10. \A j \in 1..k - 1 : g'.gArgumentRules[j] = AcceptedRules(new)[j]
      BY <1>1, <3>1, <3>4, <3>5
    <3>12. \A j \in 1..Count(config) : j > k => g'.gArgumentRules[j] = AcceptedRules(config)[j]
      BY <1>1, <1>2, <3>1, <3>4, <3>5, SMTT(40)
    <3>13. RulesHold'
      BY <1>1, <2>2, <3>1, <3>2, <3>4, <3>9, <3>10, <3>12, ZenonT(60) DEF r, i
    <3> QED
      BY <3>7, <3>8, <3>13
  <2>3. CASE ~ValidRule(r)
    <3>1. /\ handler'.at = "header" /\ handler'.i = i + 1
          /\ handler'.accepted = handler.accepted /\ g' = g
      BY <1>1, <1>6, <2>3 DEF CopyRuleHeader, Write, Shape
    <3>2. Accepted(new, i) = handler.accepted /\ Concerned(new, i) = Concerned(new, i - 1)
      BY <1>1, <2>1, <2>3, AcceptedCounts, ConcernedGrows
    <3> QED
      BY <1>1, <1>2, <2>1, <3>1, <3>2
  <2> QED
    BY <2>2, <2>3
<1>7. ASSUME CopyRuleConditions PROVE RulesInv'
  <2> DEFINE r == new.rules[handler.i]
             k == handler.accepted
  <2>1. /\ handler.at = "conditions" /\ handler.i \in 1..n /\ ValidRule(r)
        /\ k = Accepted(new, handler.i)
    BY <1>7 DEF CopyRuleConditions, Write
  <2>2. k \in 1..Count(new) /\ AcceptedRules(new)[k] = r /\ k \in 1..MaxRules
    BY <1>1, <1>2, <2>1, AcceptedPlace
  <2>3. /\ handler'.at = "ruleBit" /\ handler'.i = handler.i /\ handler'.accepted = k
        /\ g'.gArgumentRuleCount = g.gArgumentRuleCount
        /\ g'.gArgumentRuleOperationMask = M
        /\ g'.gArgumentRules = [G EXCEPT ![k] = [G[k] EXCEPT !.conditions = r.conditions]]
    BY <1>1, <1>7, <2>2 DEF CopyRuleConditions, Write, Go, Shape
  <2>4. r \in FilterRule /\ G[k] \in FilterRule
        /\ G[k].operation = r.operation /\ G[k].action = r.action
    BY <1>1, <1>2, <2>1, <2>2
  <2>5. [G[k] EXCEPT !.conditions = r.conditions] = r
    BY <2>4 DEF FilterRule
  <2> HIDE DEF r, k, n, G, M
  <2>6. /\ handler.at = "conditions" /\ k \in Nat
        /\ \A j \in 1..k - 1 : G[j] = AcceptedRules(new)[j]
        /\ \A j \in 1..Count(config) : j > k => G[j] = AcceptedRules(config)[j]
        /\ g.gArgumentRuleCount = Count(config)
        /\ M = Concerned(new, handler.i - 1)
    BY <1>1, <2>1, <2>2 DEF k, G, M
  <2>7. /\ G \in [1..MaxRules -> FilterRule]
        /\ g'.gArgumentRules = [G EXCEPT ![k] = r]
    BY <1>1, <2>3, <2>5 DEF G
  <2>8. RuleCursor'
    BY <1>1, <2>1, <2>3 DEF r, k, n
  <2>9. RuleMaskHolds'
    BY <1>1, <2>3, <2>6
  <2>10. /\ g'.gArgumentRules \in [1..MaxRules -> FilterRule]
         /\ g'.gArgumentRules[k] = r
         /\ \A j \in 1..MaxRules \ {k} : g'.gArgumentRules[j] = G[j]
    BY <2>2, <2>4, <2>7
  <2>11. \A j \in 1..k : g'.gArgumentRules[j] = AcceptedRules(new)[j]
    <3> SUFFICES ASSUME NEW j \in 1..k PROVE g'.gArgumentRules[j] = AcceptedRules(new)[j]
      OBVIOUS
    <3>1. CASE j = k
      BY <2>2, <2>10, <3>1
    <3>2. CASE j # k
      <4>1. j \in 1..k - 1 /\ j \in 1..MaxRules \ {k}
        BY <1>1, <2>2, <2>6, <3>2
      <4> QED
        BY <2>6, <2>10, <4>1
    <3> QED
      BY <3>1, <3>2
  <2>12. \A j \in 1..Count(config) : j > k => g'.gArgumentRules[j] = AcceptedRules(config)[j]
    BY <1>1, <1>2, <2>2, <2>6, <2>10
  <2>13. /\ handler'.at = "ruleBit" /\ handler'.accepted = k
         /\ g'.gArgumentRuleCount = Count(config)
    BY <2>3, <2>6
  <2>14. RulesHold'
    BY <1>1, <2>10, <2>11, <2>12, <2>13
  <2> QED
    BY <2>8, <2>9, <2>14
<1>8. ASSUME SetRuleBit PROVE RulesInv'
  <2>1. /\ handler.at = "ruleBit" /\ handler.i \in 1..n
        /\ handler'.at = "header" /\ handler'.i = handler.i + 1
        /\ handler'.accepted = handler.accepted
        /\ g'.gArgumentRules = G /\ g'.gArgumentRuleCount = g.gArgumentRuleCount
        /\ g'.gArgumentRuleOperationMask = M \cup {new.rules[handler.i].operation}
    BY <1>1, <1>8 DEF SetRuleBit, Write, Go, Shape
  <2>2. g'.gArgumentRuleOperationMask = Concerned(new, handler.i)
    BY <1>1, <2>1, ConcernedGrows
  <2>3. /\ handler'.i - 1 = handler.i /\ handler'.i \in 1..n + 1
        /\ handler.accepted = Accepted(new, handler.i)
    BY <1>2, <2>1, SMTT(40)
  <2> HIDE DEF n
  <2>4. RuleCursor'
    BY <1>1, <2>1, <2>3 DEF n
  <2>5. RuleMaskHolds'
    BY <1>1, <2>1, <2>2, <2>3
  <2>6. RulesHold'
    BY <1>1, <2>1
  <2> QED
    BY <2>4, <2>5, <2>6
<1>9. ASSUME NEW k \in 1..MaxRules, ZeroRule(k) PROVE RulesInv'
  <2>1. /\ handler.at = "header" /\ handler.i > n /\ k > handler.accepted
        /\ handler' = [handler EXCEPT !.changed = handler'.changed]
        /\ g'.gArgumentRules = [G EXCEPT ![k] = NoRule]
        /\ g'.gArgumentRuleCount = g.gArgumentRuleCount
        /\ g'.gArgumentRuleOperationMask = M
    BY <1>1, <1>9 DEF ZeroRule, Write, Shape
  <2>2. NoRule \in FilterRule
    BY NoRuleTyped
  <2>3. /\ handler'.at = "header" /\ handler'.i = handler.i
        /\ handler'.accepted = handler.accepted
    BY <1>1, <2>1 DEF Shape
  <2>4. handler.accepted = Count(new) /\ Count(new) \in Nat
    <3>1. handler.i \in 1..n + 1
      BY <2>1
    <3> HIDE DEF n
    <3>2. handler.i - 1 = n
      BY <1>2, <2>1, <3>1
    <3>3. handler.accepted = Accepted(new, handler.i - 1)
      BY <2>1
    <3> QED
      BY <1>2, <3>2, <3>3 DEF Count, n
  <2>5. /\ g'.gArgumentRules \in [1..MaxRules -> FilterRule]
        /\ \A j \in 1..Count(new) : g'.gArgumentRules[j] = G[j]
    BY <1>1, <1>2, <2>1, <2>2, <2>4
  <2> QED
    BY <1>1, <1>2, <2>1, <2>3, <2>4, <2>5
<1>10. ASSUME RulesZeroed PROVE RulesInv'
  <2>1. handler.at = "header" /\ handler'.at = "ruleCount"
        /\ handler'.accepted = handler.accepted /\ g' = g /\ handler.i > n
    BY <1>1, <1>10 DEF RulesZeroed, Write, Go, Shape
  <2>2. handler.i = n + 1
    BY <1>2, <2>1, SMTT(40)
  <2> QED
    BY <1>1, <1>2, <2>1, <2>2 DEF Count
<1>11. ASSUME WriteRuleCount PROVE RulesInv'
  BY <1>1, <1>2, <1>11 DEF WriteRuleCount, Write, Go, Shape
<1>12. ASSUME RulesDone PROVE RulesInv'
  BY <1>1, <1>2, <1>12 DEF RulesDone, Write, Go, Shape
<1> QED
  BY <1>3, <1>4, <1>5, <1>6, <1>7, <1>8, <1>9, <1>10, <1>11, <1>12 DEF RuleAccess
-----------------------------------------------------------------------------
(* "changed" says of every part already compared whether it differs.       *)

LEMMA FiltersDiffer ==
  ASSUME RequestInSight
  PROVE  /\ Filters(handler.new) # Filters(config) <=>
              \/ MasksDiffer
              \/ RulesDiffer(Count(handler.new)) \/ Count(config) # Count(handler.new)
         /\ config.pids # handler.new.pids <=>
              \/ Len(config.pids) # Len(handler.new.pids)
              \/ \E k \in 1..MaxPids : Slot(config, k) # Slot(handler.new, k)
         /\ config.names # handler.new.names <=>
              \/ Len(config.names) # Len(handler.new.names)
              \/ \E i \in 1..MaxNames, w \in 1..NameWords :
                   Word(config, i, w) # Word(handler.new, i, w)
<1>1. Limited(config) /\ Limited(handler.new)
  BY DEF RequestInSight
<1>2. AcceptedRules(config) # AcceptedRules(handler.new) <=>
        \/ Count(config) # Count(handler.new)
        \/ \E k \in 1..Count(handler.new) :
             AcceptedRules(config)[k] # AcceptedRules(handler.new)[k]
  BY <1>1, SameRules
<1>3. Count(config) \in Nat /\ Count(handler.new) \in Nat
  BY <1>1, AcceptedCounts DEF Count
<1>4. AcceptedRules(config) # AcceptedRules(handler.new) <=>
        RulesDiffer(Count(handler.new)) \/ Count(config) # Count(handler.new)
  BY <1>2, <1>3 DEF RulesDiffer
<1> QED
  BY <1>1, <1>4, SamePids, SameNames DEF Filters, MasksDiffer, TargetsDiffer

ChangedByTargets ==
  /\ handler.at = "pids" =>
       (handler.changed <=>
          \E k \in 1..MaxPids : k < handler.i /\ Slot(config, k) # Slot(handler.new, k))
  /\ handler.at = "pidCount" =>
       (handler.changed <=>
          \E k \in 1..MaxPids : Slot(config, k) # Slot(handler.new, k))
  /\ handler.at \in {"names", "nameCount"} =>
       (handler.changed <=>
          \/ config.pids # handler.new.pids
          \/ \E i \in 1..MaxNames, w \in 1..NameWords :
               Written(i, w) /\ Word(config, i, w) # Word(handler.new, i, w))
  /\ handler.at \in {"targetsDone", "operationFlag"} => (handler.changed <=> TargetsDiffer)

ChangedByMask ==
  /\ handler.at = "operations" =>
       (handler.changed <=> TargetsDiffer \/ g.gOperationMask # config.operations)
  /\ handler.at \in {"ruleFlag", "clearMask"} => (handler.changed <=> MasksDiffer)

ChangedByRules ==
  /\ handler.at \in CopyingRules \cup {"ruleCount"} =>
       (handler.changed <=> MasksDiffer \/ RulesDiffer(handler.accepted))
  /\ handler.at \in AfterRuleCount =>
       (handler.changed <=> Filters(handler.new) # Filters(config))

ChangedHolds == ChangedByTargets /\ ChangedByMask /\ ChangedByRules

LEMMA ChangedByTargetsStep ==
  ASSUME GlobalsInv, FlagsHold, NamesHold, ChangedByTargets, RequestStep
  PROVE  ChangedByTargets'
<1>1. Shape /\ RequestInSight /\ PidsHold /\ CountsHold /\ handler.changed \in BOOLEAN
  BY DEF GlobalsInv, FlagsHold
<1> USE DEF Section, TargetPlaces, MaskPlaces, RulePlaces, LastPlaces, CopyingRules,
            Settled, Stopping
<1>2. CASE Begins
  <2>1. handler'.at \in Stopping \cup {"pids"} /\ handler'.i = 1 /\ handler'.changed = FALSE
    BY <1>2 DEF Begins
  <2> QED
    BY <2>1 DEF ChangedByTargets
<1>3. CASE Ends \/ Flushes \/ MaskAccess \/ RuleAccess \/ LastAccess
  <2>1. MaskAccess => handler'.at \in {"operations", "ruleFlag"}
    BY <1>1 DEF MaskAccess, BeginOperations, OperationsDone, WriteOperation, Write, Go, Shape
  <2>2. handler'.at \notin TargetPlaces \cup {"operationFlag"}
    BY <1>3, <2>1 DEF Ends, Flushes, RuleAccess, LastAccess
  <2> QED
    BY <2>2 DEF ChangedByTargets
<1>4. ASSUME WritePid PROVE ChangedByTargets'
  <2> DEFINE i == handler.i
             next == IF i <= Len(handler.new.pids) THEN handler.new.pids[i] ELSE 0
  <2>1. /\ handler.at = "pids" /\ handler'.new = handler.new /\ config' = config
        /\ handler'.i = i + 1
        /\ handler'.at = IF i = MaxPids THEN "pidCount" ELSE "pids"
        /\ handler'.changed = (handler.changed \/ g.gTargetPids[i] # next)
    BY <1>1, <1>4 DEF WritePid, Write, Shape, history
  <2>2. i \in 1..MaxPids /\ g.gTargetPids[i] = Slot(config, i)
    BY <1>1, <2>1, ConfigAssumption DEF PidsHold, AfterPids, AfterPidCount, AfterNameCount, AfterOperations
  <2>3. next = Slot(handler.new, i)
    BY DEF Slot
  <2> HIDE DEF next
  <2>4. handler'.changed <=>
          \E k \in 1..MaxPids : k < i + 1 /\ Slot(config, k) # Slot(handler.new, k)
    <3>1. handler'.changed <=>
            \/ \E k \in 1..MaxPids : k < i /\ Slot(config, k) # Slot(handler.new, k)
            \/ Slot(config, i) # Slot(handler.new, i)
      BY <1>1, <2>1, <2>2, <2>3 DEF ChangedByTargets
    <3>2. \A k \in 1..MaxPids : k < i + 1 <=> k < i \/ k = i
      BY <2>2, ConfigAssumption
    <3> HIDE DEF i
    <3> QED
      BY <2>2, <3>1, <3>2
  <2>5. \A k : Slot(config, k)' = Slot(config, k) /\ Slot(handler.new, k)' = Slot(handler.new, k)
    BY <2>1 DEF Slot
  <2> QED
    BY <2>1, <2>2, <2>4, <2>5, ConfigAssumption DEF ChangedByTargets
<1>5. ASSUME WritePidCount PROVE ChangedByTargets'
  <2>1. /\ handler.at = "pidCount" /\ handler'.new = handler.new /\ config' = config
        /\ handler'.i = 0 /\ handler'.at = "names"
        /\ handler'.changed = (handler.changed \/ g.gTargetPidCount # Len(handler.new.pids))
    BY <1>1, <1>5 DEF WritePidCount, Write, Go, Shape, history
  <2>2. g.gTargetPidCount = Len(config.pids)
    BY <1>1, <2>1 DEF CountsHold, AfterPidCount, AfterNameCount, AfterOperations
  <2>3. handler'.changed <=> config.pids # handler.new.pids
    BY <1>1, <2>1, <2>2, FiltersDiffer DEF ChangedByTargets
  <2>4. 0 \div NameWords = 0 /\ 0 % NameWords = 0
    BY ConfigAssumption
  <2>5. \A i \in 1..MaxNames, w \in 1..NameWords : ~Before(i, w, 0)
    BY <2>4, ConfigAssumption DEF Before
  <2> QED
    BY <2>1, <2>3, <2>5 DEF ChangedByTargets, Written, AfterNames, AfterNameCount,
       AfterOperations
<1>6. ASSUME WriteNameWord PROVE ChangedByTargets'
  <2> DEFINE n == handler.i
             i == (n \div NameWords) + 1
             w == (n % NameWords) + 1
             next == IF i <= Len(handler.new.names) THEN handler.new.names[i][w] ELSE NoWord
  <2>1. /\ handler.at = "names" /\ handler'.new = handler.new /\ config' = config
        /\ handler'.i = n + 1
        /\ handler'.at = IF i = MaxNames /\ w = NameWords THEN "nameCount" ELSE "names"
        /\ handler'.changed = (handler.changed \/ g.gTargetNameWords[i][w] # next)
    BY <1>1, <1>6 DEF WriteNameWord, Write, Shape, history
  <2>2. n \in Nat /\ n \div NameWords < MaxNames
    BY <2>1 DEF NamesHold
  <2>3. next = Word(handler.new, i, w)
    BY DEF Word
  <2>4. /\ i \in 1..MaxNames /\ w \in 1..NameWords
        /\ \A j \in 1..MaxNames, v \in 1..NameWords :
             IF i = MaxNames /\ w = NameWords THEN Before(j, v, n) \/ (j = i /\ v = w)
             ELSE Before(j, v, n + 1) <=> Before(j, v, n) \/ (j = i /\ v = w)
        /\ ~Before(i, w, n)
    BY <2>2, WordsBefore
  <2> HIDE DEF n, i, w, next
  <2>5. g.gTargetNameWords[i][w] = Word(config, i, w)
    BY <2>1, <2>4 DEF NamesHold, Written, n, AfterNames, AfterNameCount, AfterOperations
  <2>6. \A j \in 1..MaxNames, v \in 1..NameWords :
          /\ Written(j, v)' <=> Written(j, v) \/ (j = i /\ v = w)
          /\ Word(config, j, v)' = Word(config, j, v)
          /\ Word(handler.new, j, v)' = Word(handler.new, j, v)
    BY <2>1, <2>4 DEF Written, Word, n, AfterNames, AfterNameCount, AfterOperations
  <2>7. handler'.changed <=>
          \/ config.pids # handler.new.pids
          \/ \E j \in 1..MaxNames, v \in 1..NameWords :
               Written(j, v)' /\ Word(config, j, v) # Word(handler.new, j, v)
    <3>1. handler'.changed <=>
            \/ config.pids # handler.new.pids
            \/ \E j \in 1..MaxNames, v \in 1..NameWords :
                 Written(j, v) /\ Word(config, j, v) # Word(handler.new, j, v)
            \/ Word(config, i, w) # Word(handler.new, i, w)
      BY <1>1, <2>1, <2>3, <2>5 DEF ChangedByTargets
    <3> QED
      BY <2>4, <2>6, <3>1
  <2> QED
    BY <2>1, <2>6, <2>7 DEF ChangedByTargets
<1>7. ASSUME WriteNameCount PROVE ChangedByTargets'
  <2>1. /\ handler.at = "nameCount" /\ handler'.new = handler.new /\ config' = config
        /\ handler'.at = "targetsDone"
        /\ handler'.changed = (handler.changed \/ g.gTargetNameCount # Len(handler.new.names))
    BY <1>1, <1>7 DEF WriteNameCount, Write, Go, Shape, history
  <2>2. g.gTargetNameCount = Len(config.names)
    BY <1>1, <2>1 DEF CountsHold, AfterNameCount, AfterOperations
  <2>3. \A i, w : Written(i, w)
    BY <2>1 DEF Written, AfterNames
  <2>4. handler'.changed <=> TargetsDiffer
    BY <1>1, <2>1, <2>2, <2>3, FiltersDiffer DEF ChangedByTargets, TargetsDiffer
  <2> QED
    BY <2>1, <2>4 DEF ChangedByTargets, TargetsDiffer
<1>8. ASSUME TargetsDone PROVE ChangedByTargets'
  BY <1>1, <1>8 DEF TargetsDone, Write, Go, Shape, ChangedByTargets, TargetsDiffer, history
<1> QED
  BY <1>2, <1>3, <1>4, <1>5, <1>6, <1>7, <1>8 DEF RequestStep, TargetAccess

LEMMA ChangedByMaskStep ==
  ASSUME GlobalsInv, FlagsHold, MaskHolds, ChangedByTargets, ChangedByMask, RequestStep
  PROVE  ChangedByMask'
<1>1. Shape /\ OperationsHold /\ handler.changed \in BOOLEAN
  BY DEF GlobalsInv, FlagsHold
<1> USE DEF Section, TargetPlaces, MaskPlaces, RulePlaces, LastPlaces, CopyingRules,
            Settled, Stopping
<1>2. CASE Begins \/ Ends \/ Flushes \/ TargetAccess \/ LastAccess
  <2>1. handler'.at \notin {"operations", "ruleFlag", "clearMask"}
    BY <1>2 DEF Begins, Ends, Flushes, TargetAccess, LastAccess
  <2> QED
    BY <2>1 DEF ChangedByMask
<1>3. ASSUME BeginOperations PROVE ChangedByMask'
  <2>1. /\ handler.at = "operationFlag" /\ handler'.new = handler.new /\ config' = config
        /\ handler'.at = "operations" /\ g'.gOperationMask = g.gOperationMask
        /\ handler'.changed = handler.changed
    BY <1>1, <1>3 DEF BeginOperations, Write, Go, Shape, history
  <2>2. g.gOperationMask = config.operations
    BY <1>1, <2>1 DEF OperationsHold, AfterOperations
  <2> QED
    BY <2>1, <2>2 DEF ChangedByTargets, ChangedByMask, TargetsDiffer
<1>4. ASSUME NEW o \in Operations, WriteOperation(o) PROVE ChangedByMask'
  <2>1. /\ handler.at = "operations" /\ handler'.new = handler.new /\ config' = config
        /\ handler'.at = "operations" /\ handler'.changed = TRUE
        /\ (o \in g.gOperationMask) # (o \in handler.new.operations)
        /\ g'.gOperationMask = IF o \in g.gOperationMask THEN g.gOperationMask \ {o}
                               ELSE g.gOperationMask \cup {o}
    BY <1>1, <1>4 DEF WriteOperation, Write, Shape, history
  <2>2. o \in g.gOperationMask <=> o \in config.operations
    BY <2>1 DEF MaskHolds
  <2>3. g'.gOperationMask # config.operations
    BY <2>1, <2>2
  <2> QED
    BY <2>1, <2>3 DEF ChangedByMask
<1>5. ASSUME OperationsDone PROVE ChangedByMask'
  <2>1. /\ handler.at = "operations" /\ handler'.new = handler.new /\ config' = config
        /\ handler'.at = "ruleFlag" /\ handler'.changed = handler.changed
        /\ g.gOperationMask = handler.new.operations
    BY <1>1, <1>5 DEF OperationsDone, Write, Go, Shape, history
  <2> QED
    BY <2>1 DEF ChangedByMask, TargetsDiffer, MasksDiffer
<1>6. CASE RuleAccess
  <2>1. ASSUME BeginRules PROVE ChangedByMask'
    BY <1>1, <2>1 DEF BeginRules, Write, Go, Shape, ChangedByMask, TargetsDiffer, MasksDiffer,
       history
  <2>2. ASSUME NEW o \in Operations, ClearRuleMask(o) PROVE ChangedByMask'
    BY <1>1, <2>2 DEF ClearRuleMask, Write, Shape, ChangedByMask, TargetsDiffer, MasksDiffer,
       history
  <2>3. ASSUME ~BeginRules, ~\E o \in Operations : ClearRuleMask(o) PROVE ChangedByMask'
    <3>1. handler'.at \notin {"operations", "ruleFlag", "clearMask"}
      BY <1>1, <1>6, <2>3, ZenonT(60) DEF RuleAccess, RuleMaskCleared, CopyRuleHeader,
         CopyRuleConditions, SetRuleBit, RulesZeroed, ZeroRule, WriteRuleCount,
         RulesDone, Write, Go, Shape
    <3> QED
      BY <3>1 DEF ChangedByMask
  <2> QED
    BY <2>1, <2>2, <2>3
<1> QED
  BY <1>2, <1>3, <1>4, <1>5, <1>6 DEF RequestStep, MaskAccess

LEMMA ChangedByRulesStep ==
  ASSUME GlobalsInv, FlagsHold, RulesInv, ChangedByMask, ChangedByRules, RequestStep
  PROVE  ChangedByRules'
<1> DEFINE new == handler.new
<1>1. Shape /\ RequestInSight /\ handler.changed \in BOOLEAN
  BY DEF GlobalsInv, FlagsHold
<1>2. Limited(new) /\ Count(config) \in Nat /\ Count(new) \in Nat /\ Len(new.rules) \in Nat
  BY <1>1, AcceptedCounts DEF RequestInSight, Count
<1> USE DEF Section, TargetPlaces, MaskPlaces, RulePlaces, LastPlaces, CopyingRules,
            AfterRuleCount, Settled, Stopping
<1>3. CASE Begins \/ Ends \/ Flushes \/ TargetAccess \/ MaskAccess
  <2>1. handler'.at \notin CopyingRules \cup {"ruleCount"} \cup AfterRuleCount
    BY <1>3 DEF Begins, Ends, Flushes, TargetAccess, MaskAccess
  <2> QED
    BY <2>1 DEF ChangedByRules
<1>4. CASE LastAccess
  <2>1. /\ handler.at \in AfterRuleCount /\ handler'.at \in AfterRuleCount
        /\ handler'.changed = handler.changed
        /\ handler'.new = handler.new /\ config' = config
    BY <1>4 DEF LastAccess
  <2> QED
    BY <2>1 DEF ChangedByRules, Filters
<1>5. ASSUME BeginRules \/ \E o \in Operations : ClearRuleMask(o) PROVE ChangedByRules'
  <2>1. handler'.at = "clearMask"
    BY <1>1, <1>5 DEF BeginRules, ClearRuleMask, Write, Go, Shape
  <2> QED
    BY <2>1 DEF ChangedByRules
<1>6. ASSUME handler'.at \in CopyingRules \cup {"ruleCount"},
             handler'.new = new, config' = config,
             handler'.changed <=> MasksDiffer \/ RulesDiffer(handler'.accepted)
      PROVE  ChangedByRules'
  BY <1>6 DEF ChangedByRules, MasksDiffer, TargetsDiffer, RulesDiffer
<1>7. ASSUME RuleMaskCleared PROVE ChangedByRules'
  <2>1. /\ handler.at = "clearMask" /\ handler'.at = "header"
        /\ handler'.new = new /\ config' = config
        /\ handler'.changed = handler.changed /\ handler'.accepted = handler.accepted
    BY <1>1, <1>7 DEF RuleMaskCleared, Write, Go, Shape, history
  <2>2. handler.accepted = 0
    BY <2>1 DEF RulesInv, RuleCursor, BeforeRules
  <2>3. handler'.changed <=> MasksDiffer \/ RulesDiffer(0)
    BY <2>1 DEF ChangedByMask, RulesDiffer
  <2> QED
    BY <1>6, <2>1, <2>2, <2>3
<1>8. ASSUME CopyRuleHeader PROVE ChangedByRules'
  <2> DEFINE i == handler.i
             r == new.rules[i]
             k == handler.accepted + 1
             differs == k > g.gArgumentRuleCount \/ g.gArgumentRules[k] # r
  <2>1. handler.at = "header" /\ i \in 1..Len(new.rules)
        /\ handler.accepted = Accepted(new, i - 1)
    BY <1>1, <1>2, <1>8 DEF CopyRuleHeader, RulesInv, RuleCursor
  <2>2. handler.changed <=> MasksDiffer \/ RulesDiffer(handler.accepted)
    BY <2>1 DEF ChangedByRules
  <2>3. CASE ValidRule(r)
    <3>1. /\ handler' = [[handler EXCEPT !.at = "conditions", !.accepted = k]
                            EXCEPT !.changed = handler.changed \/ differs]
          /\ config' = config
      BY <1>1, <1>8, <2>3 DEF CopyRuleHeader, Write, Go, Shape, history
    <3> HIDE DEF differs, r, k
    <3>2. /\ handler'.at = "conditions" /\ handler'.new = new /\ handler'.accepted = k
          /\ handler'.changed = (handler.changed \/ differs)
      BY <1>1, <3>1 DEF Shape
    <3>3. handler.accepted \in Nat /\ k = Accepted(new, i) /\ k \in 1..Count(new)
          /\ AcceptedRules(new)[k] = r
      <4>1. Accepted(new, i - 1) \in Nat
        BY <1>2, <2>1, AcceptedCounts
      <4>2. Accepted(new, i) = Accepted(new, i - 1) + 1
        BY <1>2, <2>1, <2>3, AcceptedCounts DEF r
      <4>3. Accepted(new, i) \in 1..Count(new) /\ AcceptedRules(new)[Accepted(new, i)] = r
        BY <1>2, <2>1, <2>3, AcceptedPlace DEF r
      <4> QED
        BY <2>1, <4>1, <4>2, <4>3 DEF k
    <3>4. differs <=> k > Count(config) \/ AcceptedRules(config)[k] # AcceptedRules(new)[k]
      <4>1. g.gArgumentRuleCount = Count(config)
        BY <2>1 DEF RulesInv, RulesHold
      <4>2. k \in 1..Count(config) => g.gArgumentRules[k] = AcceptedRules(config)[k]
        BY <2>1, <3>3 DEF RulesInv, RulesHold, OldRulesLeft, k
      <4> QED
        BY <1>2, <3>3, <4>1, <4>2 DEF differs
    <3>5. \A j : j \in 1..k <=> j \in 1..handler.accepted \/ j = k
      BY <3>3 DEF k
    <3>6. RulesDiffer(k) <=> RulesDiffer(handler.accepted) \/ differs
      BY <3>4, <3>5 DEF RulesDiffer
    <3> QED
      BY <1>1, <1>6, <2>2, <3>1, <3>2, <3>6
  <2>4. CASE ~ValidRule(r)
    <3>1. /\ handler'.at = "header" /\ handler'.new = new /\ config' = config
          /\ handler'.changed = handler.changed /\ handler'.accepted = handler.accepted
      BY <1>1, <1>8, <2>4 DEF CopyRuleHeader, Write, Shape, history
    <3> QED
      BY <1>6, <2>2, <3>1
  <2> QED
    BY <2>3, <2>4
<1>9. ASSUME CopyRuleConditions \/ SetRuleBit \/ RulesZeroed
             \/ \E k \in 1..MaxRules : ZeroRule(k)
      PROVE  ChangedByRules'
  <2>1. /\ handler.at \in CopyingRules /\ handler'.at \in CopyingRules \cup {"ruleCount"}
        /\ handler'.new = new /\ config' = config
        /\ handler'.changed = handler.changed /\ handler'.accepted = handler.accepted
    <3>1. ASSUME CopyRuleConditions PROVE <2>1!:
      BY <1>1, <3>1 DEF CopyRuleConditions, Write, Go, Shape, history
    <3>2. ASSUME SetRuleBit PROVE <2>1!:
      BY <1>1, <3>2 DEF SetRuleBit, Write, Go, Shape, history
    <3>3. ASSUME RulesZeroed PROVE <2>1!:
      BY <1>1, <3>3 DEF RulesZeroed, Write, Go, Shape, history
    <3>4. ASSUME NEW k \in 1..MaxRules, ZeroRule(k) PROVE <2>1!:
      BY <1>1, <3>4 DEF ZeroRule, Write, Shape, history
    <3> QED
      BY <1>9, <3>1, <3>2, <3>3, <3>4
  <2> QED
    BY <1>6, <2>1 DEF ChangedByRules
<1>10. ASSUME WriteRuleCount PROVE ChangedByRules'
  <2>1. /\ handler.at = "ruleCount" /\ handler'.at = "rulesDone"
        /\ handler'.new = new /\ config' = config
        /\ handler'.changed = (handler.changed \/ g.gArgumentRuleCount # handler.accepted)
    BY <1>1, <1>10 DEF WriteRuleCount, Write, Go, Shape, history
  <2>2. g.gArgumentRuleCount = Count(config) /\ handler.accepted = Count(new)
    BY <2>1 DEF RulesInv, RulesHold, RuleCursor, AfterRules
  <2>3. handler.changed <=> MasksDiffer \/ RulesDiffer(Count(new))
    BY <2>1, <2>2 DEF ChangedByRules
  <2>4. handler'.changed <=> Filters(new) # Filters(config)
    BY <1>1, <2>1, <2>2, <2>3, FiltersDiffer
  <2> QED
    BY <2>1, <2>4 DEF ChangedByRules
<1>11. ASSUME RulesDone PROVE ChangedByRules'
  <2>1. /\ handler.at = "rulesDone" /\ handler'.at = "categories"
        /\ handler'.new = new /\ config' = config /\ handler'.changed = handler.changed
    BY <1>1, <1>11 DEF RulesDone, Write, Go, Shape, history
  <2> QED
    BY <2>1 DEF ChangedByRules
<1> QED
  BY <1>3, <1>4, <1>5, <1>7, <1>8, <1>9, <1>10, <1>11 DEF RequestStep, RuleAccess
-----------------------------------------------------------------------------
(* Together, an invariant of the request.                                  *)

DecisionInv ==
  /\ FlagsHold /\ NamesHold /\ MaskHolds /\ ExcludedHolds /\ RulesInv
  /\ ChangedByTargets /\ ChangedByMask /\ ChangedByRules

LEMMA DecisionInit == Init => DecisionInv
<1> SUFFICES ASSUME Init PROVE DecisionInv
  OBVIOUS
<1>1. /\ g = Globals /\ handler = NoRequest /\ config = Unconfigured
  BY DEF Init
<1>2. handler.at = "closed" /\ handler.changed = FALSE
  BY <1>1 DEF NoRequest
<1>3. FlagsHold
  BY <1>1, <1>2 DEF FlagsHold, Up, Globals, CopyingRules
<1>4. NamesHold
  <2>1. Len(Unconfigured.names) = 0 /\ NameWords \in Nat /\ MaxNames \in Nat
    BY ConfigAssumption DEF Unconfigured
  <2>2. g.gTargetNameWords = [i \in 1..MaxNames |-> [w \in 1..NameWords |-> 0]]
    BY <1>1 DEF Globals, NoWord
  <2>3. \A i, w : ~Written(i, w)
    BY <1>2 DEF Written, AfterNames, AfterNameCount, AfterOperations
  <2>4. \A i \in 1..MaxNames, w \in 1..NameWords : Word(config, i, w) = 0
    BY <1>1, <2>1 DEF Word, NoWord
  <2> QED
    BY <1>2, <2>2, <2>3, <2>4 DEF NamesHold
<1>5. MaskHolds /\ ExcludedHolds
  BY <1>1, <1>2 DEF MaskHolds, ExcludedHolds, Globals, Unconfigured
<1>6. RulesInv
  <2>1. Len(Unconfigured.rules) = 0
    BY DEF Unconfigured
  <2>2. Count(Unconfigured) = 0 /\ Concerned(Unconfigured, 0) = {}
    BY <2>1, UnconfiguredLimited, AcceptedCounts, ConcernedGrows DEF Count
  <2>3. g.gArgumentRules \in [1..MaxRules -> FilterRule]
    BY <1>1, NoRuleTyped DEF Globals
  <2>4. /\ g.gArgumentRuleCount = 0 /\ g.gArgumentRuleOperationMask = {}
    BY <1>1 DEF Globals
  <2> QED
    BY <1>1, <1>2, <2>1, <2>2, <2>3, <2>4
       DEF RulesInv, RuleCursor, RulesHold, RuleMaskHolds, RulesCopied, OldRulesLeft,
           BeforeRules, TargetPlaces, MaskPlaces, CopyingRules, AfterRules, AfterRuleCount
<1>7. ChangedByTargets /\ ChangedByMask /\ ChangedByRules
  BY <1>2 DEF ChangedByTargets, ChangedByMask, ChangedByRules, CopyingRules, AfterRuleCount
<1> QED
  BY <1>3, <1>4, <1>5, <1>6, <1>7 DEF DecisionInv

LEMMA DecisionStep ==
  ASSUME FilterInv, DecisionInv, DeviceRequest
  PROVE  DecisionInv' /\ RequestStep
<1>1. GlobalsInv /\ DOMAIN local = Threads /\ \A t \in Threads : CallInv(local[t])
  BY DEF FilterInv
<1>2. FlagsHold' /\ RequestStep
  BY <1>1, RequestSteps DEF DecisionInv
<1>3. NamesHold' /\ MaskHolds' /\ ExcludedHolds'
  BY <1>1, <1>2, NamesStep, MaskStep DEF DecisionInv
<1>4. RulesInv'
  BY <1>1, <1>2, RulesOutsideTheirSection, RulesInTheirSection DEF DecisionInv
<1>5. ChangedByTargets' /\ ChangedByMask' /\ ChangedByRules'
  BY <1>1, <1>2, ChangedByTargetsStep, ChangedByMaskStep, ChangedByRulesStep
     DEF DecisionInv
<1> QED
  BY <1>2, <1>3, <1>4, <1>5 DEF DecisionInv

LEMMA DecisionInvHolds == Spec => []DecisionInv
<1>1. FilterInv /\ DecisionInv /\ [Next]_vars => DecisionInv'
  <2> SUFFICES ASSUME FilterInv, DecisionInv, [Next]_vars PROVE DecisionInv'
    OBVIOUS
  <2>1. CASE DeviceRequest
    BY <2>1, DecisionStep
  <2>2. ASSUME UNCHANGED <<g, handler, config>> PROVE DecisionInv'
    <3>1. FlagsHold' /\ MaskHolds' /\ ExcludedHolds'
      BY <2>2 DEF DecisionInv, FlagsHold, Up, MaskHolds, ExcludedHolds
    <3>2. NamesHold'
      BY <2>2 DEF DecisionInv, NamesHold, Written
    <3>3. RulesInv'
      BY <2>2 DEF DecisionInv, RulesInv, RuleCursor, RulesHold, RulesCopied, OldRulesLeft,
         RuleMaskHolds
    <3>4. ChangedByTargets'
      BY <2>2 DEF DecisionInv, ChangedByTargets, Written, TargetsDiffer
    <3>5. ChangedByMask' /\ ChangedByRules'
      BY <2>2 DEF DecisionInv, ChangedByMask, ChangedByRules, TargetsDiffer, MasksDiffer,
         RulesDiffer
    <3> QED
      BY <3>1, <3>2, <3>3, <3>4, <3>5 DEF DecisionInv
  <2>3. ASSUME NEW t \in Threads, EnqueueEvent(t) PROVE DecisionInv'
    BY <2>2, <2>3, CallStaysInBounds DEF FilterInv
  <2>4. CASE UNCHANGED vars
    BY <2>2, <2>4 DEF vars, history
  <2> QED
    BY <2>1, <2>3, <2>4 DEF Next
<1> QED
  BY <1>1, DecisionInit, FilterInvHolds, PTL DEF Spec

(* The driver empties its rings after SET_CONFIG exactly when the targets, *)
(* the operations or the rules it accepted differ from those before, for   *)
(* any two configurations: rules it skipped, rules that moved and a list   *)
(* that only got shorter are all told apart.                               *)
THEOREM FlushesExactlyOnChange == Spec => []FlushDecision
<1>1. DecisionInv => FlushDecision
  BY DEF DecisionInv, ChangedByRules, AfterRuleCount, FlushDecision
<1> QED
  BY <1>1, DecisionInvHolds, PTL
-----------------------------------------------------------------------------
(* The events left in the ring.                                            *)

RingFresh ==
  handler.at # "flush" => \A e \in ring : \E c \in e.seen : Filters(c) = Filters(config)

LEMMA RingFreshStep ==
  ASSUME FilterInv, DecisionInv, RingFresh, [Next]_vars
  PROVE  RingFresh'
<1>1. ASSUME UNCHANGED <<ring, handler, config>> PROVE RingFresh'
  BY <1>1 DEF RingFresh, Filters
<1>2. ASSUME NEW t \in Threads, EnqueueEvent(t) PROVE RingFresh'
  <2>1. UNCHANGED <<handler, config>> /\ (ring' = ring \/ PushEvent(t))
    BY <1>2, CallStaysInBounds DEF FilterInv
  <2>2. CASE PushEvent(t)
    <3>1. CallInv(local[t]) /\ local[t].at = "push"
      BY <2>2 DEF FilterInv, PushEvent, Return, At
    <3>2. config \in local[t].seen
      BY <3>1 DEF CallInv, InSight
    <3>3. ring' = ring \cup {[call |-> local[t].call, seen |-> local[t].seen]}
      BY <2>2 DEF PushEvent
    <3>4. UNCHANGED Filters(config)
      BY <2>1 DEF Filters
    <3> HIDE DEF CallInv
    <3> QED
      BY <2>1, <3>2, <3>3, <3>4 DEF RingFresh
  <2> QED
    BY <1>1, <2>1, <2>2
<1>3. ASSUME DeviceRequest PROVE RingFresh'
  <2>1. RequestStep /\ RequestInSight /\ (ring' = ring \/ ring' = {})
    BY <1>3, DecisionStep, RequestKeepsRing DEF FilterInv, GlobalsInv
  <2>2. CASE Ends
    <3>1. CASE handler.at = "cleanup"
      <4>1. Filters(handler.new) = Filters(config)
        BY <2>1, <3>1, OnlyRulesMatter DEF RequestInSight, Stopping, Filters
      <4> QED
        BY <2>1, <2>2, <3>1, <4>1 DEF Ends, RingFresh
    <3>2. CASE handler.at = "excluded" /\ handler.changed = FALSE
      <4>1. Filters(handler.new) = Filters(config)
        BY <3>2 DEF DecisionInv, ChangedByRules, AfterRuleCount
      <4> QED
        BY <2>1, <2>2, <3>2, <4>1 DEF Ends, RingFresh
    <3> QED
      BY <2>2, <3>1, <3>2 DEF Ends, RingFresh
  <2>3. CASE Flushes
    BY <2>3 DEF Flushes, RingFresh
  <2>4. CASE Begins \/ TargetAccess \/ MaskAccess \/ RuleAccess \/ LastAccess
    <3>1. config' = config /\ handler'.at # "flush"
      BY <2>4 DEF Begins, TargetAccess, MaskAccess, RuleAccess, LastAccess, Section,
         TargetPlaces, MaskPlaces, RulePlaces, LastPlaces, CopyingRules, Stopping
    <3>2. handler.at # "flush" \/ ring' = {}
      <4>1. CASE handler.at = "flush"
        BY <1>3, <4>1 DEF DeviceRequest, Write, Begin, Installed, StopCapture,
           OpenDevice, ExcludeOpener, CleanupDevice, ExcludeNobody, SetConfig, WritePid,
           WritePidCount, WriteNameWord, WriteNameCount, TargetsDone, BeginOperations,
           WriteOperation, OperationsDone, BeginRules, ClearRuleMask, RuleMaskCleared,
           CopyRuleHeader, CopyRuleConditions, SetRuleBit, ZeroRule, RulesZeroed,
           WriteRuleCount, RulesDone, WriteCategories, WriteCapture, WriteExcluded,
           FlushRings
      <4> QED
        BY <4>1
    <3> QED
      BY <2>1, <3>1, <3>2 DEF RingFresh, Filters
  <2> QED
    BY <2>1, <2>2, <2>3, <2>4 DEF RequestStep
<1>4. CASE UNCHANGED vars
  BY <1>1, <1>4 DEF vars, history
<1> QED
  BY <1>2, <1>3, <1>4 DEF Next

(* After any request, whatever it changed and whatever calls overlapped    *)
(* it, each event in the rings comes from a call that met the filters now  *)
(* installed.                                                              *)
THEOREM NoOldFilterSurvives == Spec => []FlushLeavesNoOldFilter
<1>1. Init => RingFresh
  BY DEF Init, RingFresh
<1>2. FilterInv /\ DecisionInv /\ RingFresh /\ [Next]_vars => RingFresh'
  BY RingFreshStep
<1>3. RingFresh => FlushLeavesNoOldFilter
  BY DEF RingFresh, FlushLeavesNoOldFilter
<1> QED
  BY <1>1, <1>2, <1>3, FilterInvHolds, DecisionInvHolds, PTL DEF Spec
-----------------------------------------------------------------------------
(* A call that no request overlaps.                                        *)

AfterTarget == {"nameFlag", "category", "push"}
AfterExcluded == {"targetFlag", "pidCount", "nameCount", "pids", "names"} \cup AfterTarget
AfterRuleCheck == {"excludedPid"} \cup AfterExcluded
AfterMask == {"ruleFlag", "ruleMask", "ruleCount", "rule", "conditions"} \cup AfterRuleCheck
AfterCapture == {"operationFlag", "operationMask"} \cup AfterMask

Mine(call, k) == AcceptedRules(config)[k].operation = call.operation
OnlyRule(call, k) == Mine(call, k) /\ AcceptedRules(config)[k].action = "only"
Hit(call, k, action) ==
  /\ Mine(call, k) /\ AcceptedRules(config)[k].action = action
  /\ Matches(AcceptedRules(config)[k].conditions, call)

QuietRules(l) ==
  /\ l.at \in {"operationFlag", "operationMask", "ruleFlag", "ruleMask", "ruleCount"} =>
       ~l.hasOnly /\ ~l.matchedOnly
  /\ l.at \in {"rule", "conditions"} =>
       /\ l.count = Count(config) /\ l.i \in 1..l.count + 1
       /\ \A k \in 1..l.i - 1 : ~Hit(l.call, k, "except")
       /\ l.matchedOnly <=> \E k \in 1..l.i - 1 : Hit(l.call, k, "only")
  /\ l.at = "rule" =>
       (l.hasOnly <=> \E k \in 1..l.i - 1 : OnlyRule(l.call, k))
  /\ l.at = "conditions" =>
       /\ l.i <= l.count /\ Mine(l.call, l.i)
       /\ l.action = AcceptedRules(config)[l.i].action
       /\ (l.hasOnly <=> \E k \in 1..l.i : OnlyRule(l.call, k))

QuietTargets(l) ==
  /\ l.at \in AfterCapture \ {"names"} => l.words = << >>
  /\ l.at \in {"nameCount", "pids"} => l.i \in Nat \ {0} /\ l.count = Len(config.pids)
  /\ l.at \in {"pids", "names"} =>
       /\ l.nameCount = Len(config.names)
       /\ config.pids # << >> \/ config.names # << >>
  /\ l.at = "nameCount" => l.i = 1
  /\ l.at = "pids" =>
       \A j \in 1..Len(config.pids) : j < l.i => config.pids[j] # l.call.pid
  /\ l.at = "names" =>
       /\ ~Element(l.call.pid, config.pids)
       /\ l.i \in 1..Len(config.names) + 1
       /\ \A j \in 1..l.i - 1 : config.names[j] # l.call.name
       /\ l.i > Len(config.names) => l.words = << >>
       /\ l.i <= Len(config.names) =>
            /\ l.words \in Seq(Nat) /\ Len(l.words) < NameWords
            /\ \A w \in 1..Len(l.words) : l.words[w] = config.names[l.i][w]

QuietCall(l) ==
  l.quiet /\ l.at # "idle" =>
    /\ installing = {}
    /\ l.at \in AfterCapture \cup {"rejected"}
    /\ l.at = "rejected" => ~Admits(config, l.call)
    /\ l.at \in AfterCapture => config.capture
    /\ l.at \in AfterMask => l.call.operation \in config.operations
    /\ l.at \in AfterRuleCheck => RulesAdmit(config, l.call)
    /\ l.at \in AfterExcluded => config.excluded # l.call.pid
    /\ l.at \in AfterTarget => TargetAdmits(config, l.call)
    /\ l.at = "push" => CategoryOf[l.call.operation] \in config.categories
    /\ QuietRules(l) /\ QuietTargets(l)


QuietInv == \A t \in Threads : QuietCall(local[t])

(* With no request under way the globals are the installed configuration.  *)
LEMMA GlobalsInstalled ==
  ASSUME GlobalsInv, DecisionInv, installing = {}
  PROVE  /\ Limited(config)
         /\ g.gTargetFilterUpdating = FALSE /\ g.gOperationFilterUpdating = FALSE
         /\ g.gArgumentFilterUpdating = FALSE
         /\ g.gCaptureEnabled = config.capture /\ g.gExcludedPid = config.excluded
         /\ g.gOperationMask = config.operations /\ g.gCategoryMask = config.categories
         /\ g.gTargetPidCount = Len(config.pids) /\ g.gTargetNameCount = Len(config.names)
         /\ \A i \in 1..Len(config.pids) : g.gTargetPids[i] = config.pids[i]
         /\ \A i \in 1..Len(config.names), w \in 1..NameWords :
              g.gTargetNameWords[i][w] = config.names[i][w]
         /\ g.gArgumentRuleCount = Count(config)
         /\ \A k \in 1..Count(config) : g.gArgumentRules[k] = AcceptedRules(config)[k]
         /\ g.gArgumentRuleOperationMask = Concerned(config, Len(config.rules))
<1>1. Limited(config) /\ handler.at \in Settled
  BY DEF GlobalsInv, RequestInSight
<1>2. /\ g.gTargetFilterUpdating = FALSE /\ g.gOperationFilterUpdating = FALSE
      /\ g.gArgumentFilterUpdating = FALSE /\ g.gExcludedPid = config.excluded
  BY <1>1 DEF DecisionInv, FlagsHold, Up, CopyingRules, ExcludedHolds, Settled
<1>3. /\ g.gCaptureEnabled = config.capture /\ g.gOperationMask = config.operations
      /\ g.gCategoryMask = config.categories
  BY <1>1 DEF GlobalsInv, CaptureHolds, OperationsHold, CategoriesHold, Settled, Stopping,
     AfterOperations
<1>4. /\ g.gTargetPidCount = Len(config.pids) /\ g.gTargetNameCount = Len(config.names)
      /\ \A i \in 1..MaxPids : g.gTargetPids[i] = Slot(config, i)
  BY <1>1 DEF GlobalsInv, CountsHold, PidsHold, Settled, AfterPids, AfterPidCount,
     AfterNameCount, AfterOperations
<1>5. Len(config.pids) \in 0..MaxPids /\ Len(config.names) \in 0..MaxNames
  BY <1>1, ConfigAssumption DEF Limited, Configuration
<1>6. \A i \in 1..Len(config.pids) : g.gTargetPids[i] = config.pids[i]
  BY <1>4, <1>5, ConfigAssumption DEF Slot
<1>7. \A i, w : ~Written(i, w)
  BY <1>1 DEF Written, Settled, AfterNames, AfterNameCount, AfterOperations
<1>8. \A i \in 1..Len(config.names), w \in 1..NameWords :
        g.gTargetNameWords[i][w] = config.names[i][w]
  BY <1>5, <1>7, ConfigAssumption DEF DecisionInv, NamesHold, Word
<1>9. /\ g.gArgumentRuleCount = Count(config)
      /\ \A k \in 1..Count(config) : g.gArgumentRules[k] = AcceptedRules(config)[k]
      /\ g.gArgumentRuleOperationMask = Concerned(config, Len(config.rules))
  BY <1>1 DEF DecisionInv, RulesInv, RulesHold, RuleMaskHolds, OldRulesLeft, Settled,
     CopyingRules, AfterRules, AfterRuleCount
<1> QED
  BY <1>1, <1>2, <1>3, <1>4, <1>6, <1>8, <1>9

LEMMA QuietSeesRequest ==
  ASSUME FilterInv, DecisionInv, QuietInv, DeviceRequest, NEW t \in Threads
  PROVE  QuietCall(local[t])'
<1>1. RequestStep /\ RequestInSight /\ QuietCall(local[t])
  BY DecisionStep DEF FilterInv, GlobalsInv, QuietInv
<1>2. CASE Begins
  BY <1>2 DEF Begins, QuietCall, Idle
<1>3. CASE Flushes
  BY <1>1, <1>3 DEF Flushes, QuietCall, QuietRules, QuietTargets, OnlyRule, Hit, Mine
<1>4. CASE Ends \/ TargetAccess \/ MaskAccess \/ RuleAccess \/ LastAccess
  <2>1. handler.at \notin Settled /\ local' = local
    BY <1>4 DEF Ends, TargetAccess, MaskAccess, RuleAccess, LastAccess, Section,
       TargetPlaces, MaskPlaces, RulePlaces, LastPlaces, CopyingRules, Stopping, Settled
  <2>2. installing # {}
    BY <1>1, <2>1 DEF RequestInSight
  <2>3. ~(local[t].quiet /\ local[t].at # "idle")
    BY <1>1, <2>2 DEF QuietCall
  <2> QED
    BY <2>1, <2>3 DEF QuietCall
<1> QED
  BY <1>1, <1>2, <1>3, <1>4 DEF RequestStep

(* What the rules decide, in the terms of the loop.                        *)
LEMMA RulesAdmitInLoop ==
  ASSUME Limited(config), NEW call
  PROVE  RulesAdmit(config, call) <=>
           /\ \A k \in 1..Count(config) : ~Hit(call, k, "except")
           /\ (\E k \in 1..Count(config) : OnlyRule(call, k))
                => \E k \in 1..Count(config) : Hit(call, k, "only")
BY RulesAdmitByPlace DEF Hit, OnlyRule, Mine

(* Every access of a call that no request overlaps decides as installed.   *)
LEMMA QuietStep ==
  ASSUME FilterInv, DecisionInv, QuietInv, NEW t \in Threads, EnqueueEvent(t)
  PROVE  QuietCall(local'[t])
<1> DEFINE l == local[t]
<1>1. /\ CallInv(l) /\ QuietCall(l) /\ DOMAIN local = Threads
      /\ GlobalsInv /\ UNCHANGED <<g, config, installing>>
  BY CallStaysInBounds DEF FilterInv, QuietInv
<1>2. DOMAIN l = {"at", "call", "i", "count", "nameCount", "words", "action",
                  "hasOnly", "matchedOnly", "seen", "quiet"}
      /\ (l.at # "idle" => l.call.pid \in Nat \ {0} /\ l.call.name \in ProcessName)
  BY <1>1, CallAssumption DEF CallInv
<1>3. ASSUME l.quiet, l.at # "idle"
      PROVE  installing = {} /\ Limited(config)
  BY <1>1, <1>3, GlobalsInstalled DEF QuietCall
<1> USE DEF At, Read, Check, Return, AfterCapture, AfterMask, AfterRuleCheck,
            AfterExcluded, AfterTarget
<1>4. ASSUME NEW call \in Calls, CheckCapture(t, call) PROVE QuietCall(local'[t])
  <2>1. local'[t] = [Idle EXCEPT
          !.at = IF g.gCaptureEnabled THEN "operationFlag" ELSE "rejected",
          !.call = call, !.seen = {config} \cup installing, !.quiet = (installing = {})]
    BY <1>1, <1>4 DEF CheckCapture
  <2> DEFINE n == local'[t]
  <2>2. /\ n.at = IF g.gCaptureEnabled THEN "operationFlag" ELSE "rejected"
        /\ n.quiet => installing = {}
        /\ n.hasOnly = FALSE /\ n.matchedOnly = FALSE /\ n.words = << >>
    BY <2>1 DEF Idle
  <2> HIDE DEF n
  <2>3. installing = {} => g.gCaptureEnabled = config.capture
    BY <1>1, GlobalsInstalled
  <2>4. n.at # "idle" /\ QuietRules(n) /\ QuietTargets(n)
    BY <2>2 DEF QuietRules, QuietTargets
  <2>5. QuietCall(n)
    BY <2>2, <2>3, <2>4 DEF QuietCall, Admits
  <2> QED
    BY <2>5 DEF n
<1> USE DEF QuietCall
<1>5. ASSUME CheckOperationFlag(t) PROVE QuietCall(local'[t])
  BY <1>1, <1>2, <1>3, <1>5, GlobalsInstalled DEF CheckOperationFlag, QuietRules, QuietTargets
<1>6. ASSUME CheckOperationMask(t) PROVE QuietCall(local'[t])
  BY <1>1, <1>2, <1>3, <1>6, GlobalsInstalled
     DEF CheckOperationMask, QuietRules, QuietTargets, Admits
<1>7. ASSUME CheckRuleFlag(t) PROVE QuietCall(local'[t])
  BY <1>1, <1>2, <1>3, <1>7, GlobalsInstalled DEF CheckRuleFlag, QuietRules, QuietTargets
<1>8. ASSUME ReadRuleMask(t) PROVE QuietCall(local'[t])
  <2>1. CASE l.call.operation \in g.gArgumentRuleOperationMask
    BY <1>1, <1>2, <1>3, <1>8, <2>1 DEF ReadRuleMask, QuietRules, QuietTargets
  <2>2. CASE l.call.operation \notin g.gArgumentRuleOperationMask
    <3>1. ASSUME l.quiet PROVE RulesAdmit(config, l.call)
      <4>1. installing = {} /\ Limited(config)
        BY <1>3, <1>8, <3>1 DEF ReadRuleMask
      <4>2. l.call.operation \notin Concerned(config, Len(config.rules))
        BY <1>1, <2>2, <4>1, GlobalsInstalled
      <4>3. ASSUME NEW k \in 1..Count(config) PROVE ~Mine(l.call, k)
        BY <4>1, <4>2, AcceptedFrom DEF Mine, Concerned
      <4> QED
        BY <4>1, <4>3, RulesAdmitInLoop DEF Hit, OnlyRule
    <3> QED
      BY <1>1, <1>2, <1>3, <1>8, <2>2, <3>1 DEF ReadRuleMask, QuietRules, QuietTargets
  <2> QED
    BY <2>1, <2>2
<1>9. ASSUME ReadRuleCount(t) PROVE QuietCall(local'[t])
  <2>1. ASSUME l.quiet PROVE g.gArgumentRuleCount = Count(config) /\ Count(config) \in Nat
    <3>1. installing = {} /\ Limited(config)
      BY <1>3, <1>9, <2>1 DEF ReadRuleCount
    <3>2. Len(config.rules) \in Nat
      BY <3>1 DEF Limited, Configuration
    <3> QED
      BY <1>1, <3>1, <3>2, GlobalsInstalled, AcceptedCounts DEF Count
  <2> DEFINE n == local'[t]
  <2>2. /\ n.at = "rule" /\ n.i = 1 /\ n.count = g.gArgumentRuleCount /\ n.call = l.call
        /\ n.hasOnly = l.hasOnly /\ n.matchedOnly = l.matchedOnly /\ n.words = l.words
        /\ n.quiet = l.quiet /\ l.at = "ruleCount"
    BY <1>1, <1>2, <1>9 DEF ReadRuleCount
  <2> HIDE DEF n
  <2>3. ASSUME n.quiet PROVE QuietRules(n) /\ QuietTargets(n)
    <3>1. ~l.hasOnly /\ ~l.matchedOnly /\ l.words = << >>
      BY <1>1, <2>2, <2>3 DEF QuietRules, QuietTargets
    <3>2. n.count = Count(config) /\ n.i \in 1..n.count + 1
      BY <2>1, <2>2, <2>3
    <3>3. \A k : k \notin 1..n.i - 1
      BY <2>2
    <3>4. QuietRules(n)
      BY <2>2, <3>1, <3>2, <3>3 DEF QuietRules
    <3> QED
      BY <2>2, <3>1, <3>4 DEF QuietTargets
  <2>4. QuietCall(n)
    BY <1>1, <2>2, <2>3
  <2> QED
    BY <2>4 DEF n
<1>10. ASSUME ReadRuleHeader(t) PROVE QuietCall(local'[t])
  <2> DEFINE n == local'[t]
             r == g.gArgumentRules[l.i]
  <2>1. /\ l.at = "rule" /\ l.i <= l.count
        /\ n = IF r.operation # l.call.operation THEN [l EXCEPT !.i = l.i + 1]
               ELSE [l EXCEPT !.at = "conditions", !.action = r.action,
                              !.hasOnly = l.hasOnly \/ r.action = "only"]
    BY <1>1, <1>2, <1>10 DEF ReadRuleHeader
  <2> SUFFICES ASSUME l.quiet PROVE QuietCall(n)
    BY <1>2, <2>1
  <2>2. /\ QuietRules(l) /\ QuietTargets(l) /\ installing = {} /\ Limited(config)
        /\ l.i \in 1..Count(config) /\ Count(config) \in Nat /\ l.count = Count(config)
    BY <1>1, <1>3, <2>1, AcceptedCounts DEF QuietRules, Count
  <2>3. r = AcceptedRules(config)[l.i]
    BY <1>1, <2>2, GlobalsInstalled
  <2>4. CASE r.operation # l.call.operation
    <3>1. /\ n.at = "rule" /\ n.i = l.i + 1 /\ n.count = l.count /\ n.call = l.call
          /\ n.hasOnly = l.hasOnly /\ n.matchedOnly = l.matchedOnly /\ n.words = l.words
      BY <1>2, <2>1, <2>4
    <3> HIDE DEF n, r
    <3>2. ~Mine(l.call, l.i)
      BY <2>3, <2>4 DEF Mine
    <3>3. \A k : k \in 1..l.i <=> k \in 1..l.i - 1 \/ k = l.i
      BY <2>2
    <3>4. n.i - 1 = l.i /\ n.i \in 1..n.count + 1
      BY <2>2, <3>1
    <3>5. QuietRules(n)
      BY <2>1, <2>2, <3>1, <3>2, <3>3, <3>4 DEF QuietRules, OnlyRule, Hit
    <3>6. QuietTargets(n)
      BY <2>1, <2>2, <3>1 DEF QuietTargets
    <3> QED
      BY <1>1, <2>1, <2>2, <3>1, <3>5, <3>6
  <2>5. CASE r.operation = l.call.operation
    <3>1. /\ n.at = "conditions" /\ n.i = l.i /\ n.count = l.count /\ n.call = l.call
          /\ n.hasOnly = (l.hasOnly \/ r.action = "only") /\ n.action = r.action
          /\ n.matchedOnly = l.matchedOnly /\ n.words = l.words
      BY <1>2, <2>1, <2>5
    <3> HIDE DEF n, r
    <3>2. Mine(l.call, l.i)
      BY <2>3, <2>5 DEF Mine
    <3>3. \A k : k \in 1..l.i <=> k \in 1..l.i - 1 \/ k = l.i
      BY <2>2
    <3>4. n.hasOnly <=> \E k \in 1..l.i : OnlyRule(l.call, k)
      BY <2>1, <2>2, <2>3, <3>1, <3>2, <3>3 DEF QuietRules, OnlyRule
    <3>5. QuietRules(n)
      BY <2>1, <2>2, <2>3, <3>1, <3>2, <3>4 DEF QuietRules
    <3>6. QuietTargets(n)
      BY <2>1, <2>2, <3>1 DEF QuietTargets
    <3> QED
      BY <1>1, <2>1, <2>2, <3>1, <3>5, <3>6
  <2> QED
    BY <2>4, <2>5
<1>11. ASSUME ReadRuleConditions(t) PROVE QuietCall(local'[t])
  <2> DEFINE n == local'[t]
             matches == Matches(g.gArgumentRules[l.i].conditions, l.call)
  <2>1. /\ l.at = "conditions"
        /\ n = IF matches /\ l.action = "except" THEN [l EXCEPT !.at = "rejected"]
               ELSE [l EXCEPT !.at = "rule", !.i = l.i + 1, !.action = "none",
                     !.matchedOnly = l.matchedOnly \/ (matches /\ l.action = "only")]
    BY <1>1, <1>2, <1>11 DEF ReadRuleConditions
  <2> SUFFICES ASSUME l.quiet PROVE QuietCall(n)
    BY <1>2, <2>1
  <2>2. /\ QuietRules(l) /\ QuietTargets(l) /\ installing = {} /\ Limited(config)
        /\ l.i \in 1..Count(config) /\ Count(config) \in Nat /\ l.count = Count(config)
    BY <1>1, <1>3, <2>1, AcceptedCounts DEF QuietRules, Count
  <2>3. /\ matches <=> Matches(AcceptedRules(config)[l.i].conditions, l.call)
        /\ Mine(l.call, l.i) /\ l.action = AcceptedRules(config)[l.i].action
    BY <1>1, <2>1, <2>2, GlobalsInstalled DEF QuietRules
  <2>4. CASE matches /\ l.action = "except"
    <3>1. Hit(l.call, l.i, "except")
      BY <2>3, <2>4 DEF Hit
    <3>2. ~Admits(config, l.call)
      BY <2>2, <3>1, RulesAdmitInLoop DEF Admits
    <3>3. n.at = "rejected" /\ n.call = l.call
      BY <1>2, <2>1, <2>4
    <3> HIDE DEF n
    <3> QED
      BY <2>2, <3>2, <3>3 DEF QuietRules, QuietTargets
  <2>5. CASE ~(matches /\ l.action = "except")
    <3>1. /\ n.at = "rule" /\ n.i = l.i + 1 /\ n.count = l.count /\ n.call = l.call
          /\ n.hasOnly = l.hasOnly /\ n.words = l.words
          /\ n.matchedOnly = (l.matchedOnly \/ (matches /\ l.action = "only"))
      BY <1>2, <2>1, <2>5
    <3> HIDE DEF n, matches
    <3>2. ~Hit(l.call, l.i, "except")
          /\ (matches /\ l.action = "only" <=> Hit(l.call, l.i, "only"))
      BY <2>3, <2>5 DEF Hit
    <3>3. \A k : k \in 1..l.i <=> k \in 1..l.i - 1 \/ k = l.i
      BY <2>2
    <3>4. n.i - 1 = l.i /\ n.i \in 1..n.count + 1
      BY <2>2, <3>1
    <3>5. n.matchedOnly <=> \E k \in 1..l.i : Hit(l.call, k, "only")
      BY <2>1, <2>2, <3>1, <3>2, <3>3 DEF QuietRules
    <3>6. QuietRules(n)
      BY <2>1, <2>2, <3>1, <3>2, <3>3, <3>4, <3>5 DEF QuietRules
    <3>7. QuietTargets(n)
      BY <2>1, <2>2, <3>1 DEF QuietTargets
    <3> QED
      BY <1>1, <2>1, <2>2, <3>1, <3>6, <3>7
  <2> QED
    BY <2>4, <2>5
<1>12. ASSUME RecheckRuleFlag(t) PROVE QuietCall(local'[t])
  <2> DEFINE n == local'[t]
             passes == ~g.gArgumentFilterUpdating /\ (l.hasOnly => l.matchedOnly)
  <2>1. /\ l.at = "rule" /\ l.i > l.count
        /\ n = [l EXCEPT !.at = IF passes THEN "excludedPid" ELSE "rejected"]
    BY <1>1, <1>2, <1>12 DEF RecheckRuleFlag
  <2>2. /\ n.at = IF passes THEN "excludedPid" ELSE "rejected"
        /\ n.call = l.call /\ n.words = l.words /\ n.quiet = l.quiet
    BY <1>2, <2>1
  <2> HIDE DEF n
  <2>3. ASSUME n.quiet PROVE QuietCall(n)
    <3>1. /\ QuietRules(l) /\ QuietTargets(l) /\ installing = {} /\ Limited(config)
          /\ l.i - 1 = Count(config)
      BY <1>1, <1>3, <2>1, <2>2, <2>3, AcceptedCounts DEF QuietRules, Count
    <3>2. g.gArgumentFilterUpdating = FALSE
      BY <1>1, <3>1, GlobalsInstalled
    <3>3. passes <=> RulesAdmit(config, l.call)
      BY <2>1, <3>1, <3>2, RulesAdmitInLoop DEF QuietRules
    <3>4. QuietRules(n) /\ QuietTargets(n)
      BY <2>1, <2>2, <3>1 DEF QuietRules, QuietTargets
    <3> QED
      BY <1>1, <2>1, <2>2, <2>3, <3>1, <3>3, <3>4 DEF Admits
  <2> QED
    BY <2>3 DEF n
<1>13. ASSUME CheckExcludedPid(t) PROVE QuietCall(local'[t])
  BY <1>1, <1>2, <1>3, <1>13, GlobalsInstalled
     DEF CheckExcludedPid, QuietRules, QuietTargets, Admits
<1>14. ASSUME CheckTargetFlag(t) PROVE QuietCall(local'[t])
  BY <1>1, <1>2, <1>3, <1>14, GlobalsInstalled DEF CheckTargetFlag, QuietRules, QuietTargets
<1>15. ASSUME ReadPidCount(t) PROVE QuietCall(local'[t])
  <2> DEFINE n == local'[t]
  <2>1. /\ n.at = "nameCount" /\ n.i = 1 /\ n.count = g.gTargetPidCount
        /\ n.call = l.call /\ n.words = l.words /\ n.quiet = l.quiet /\ l.at = "pidCount"
    BY <1>1, <1>2, <1>15 DEF ReadPidCount
  <2> HIDE DEF n
  <2>2. ASSUME n.quiet PROVE QuietRules(n) /\ QuietTargets(n)
    <3>1. installing = {} /\ l.words = << >>
      BY <1>1, <1>3, <2>1, <2>2 DEF QuietTargets
    <3>2. g.gTargetPidCount = Len(config.pids)
      BY <1>1, <3>1, GlobalsInstalled
    <3> QED
      BY <2>1, <3>1, <3>2 DEF QuietRules, QuietTargets
  <2>3. QuietCall(n)
    BY <1>1, <2>1, <2>2
  <2> QED
    BY <2>3 DEF n
<1>16. ASSUME ReadNameCount(t) PROVE QuietCall(local'[t])
  <2> DEFINE n == local'[t]
             empty == l.count = 0 /\ g.gTargetNameCount = 0
  <2>1. /\ n.at = (IF empty THEN "category" ELSE "pids") /\ n.i = l.i /\ n.count = l.count
        /\ n.nameCount = g.gTargetNameCount /\ n.call = l.call /\ n.words = l.words
        /\ n.quiet = l.quiet /\ l.at = "nameCount"
    BY <1>1, <1>2, <1>16 DEF ReadNameCount
  <2> HIDE DEF n
  <2>2. ASSUME n.quiet PROVE QuietCall(n)
    <3>1. /\ installing = {} /\ Limited(config) /\ l.words = << >> /\ l.i = 1
          /\ l.count = Len(config.pids)
      BY <1>1, <1>3, <2>1, <2>2 DEF QuietTargets
    <3>2. /\ g.gTargetNameCount = Len(config.names)
          /\ config.pids \in Seq(Nat) /\ config.names \in Seq(ProcessName)
      BY <1>1, <3>1, GlobalsInstalled DEF Limited, Configuration
    <3>3. empty <=> config.pids = << >> /\ config.names = << >>
      BY <3>1, <3>2, EmptySeq, LenProperties
    <3>4. empty => TargetAdmits(config, l.call)
      BY <3>3 DEF TargetAdmits
    <3> HIDE DEF empty
    <3>5. QuietRules(n)
      BY <2>1 DEF QuietRules
    <3>6. QuietTargets(n)
      BY <2>1, <3>1, <3>2, <3>3 DEF QuietTargets
    <3> QED
      BY <1>1, <2>1, <2>2, <3>1, <3>4, <3>5, <3>6
  <2> QED
    BY <2>2 DEF n
<1>17. ASSUME ReadPid(t) PROVE QuietCall(local'[t])
  <2> DEFINE n == local'[t]
             found == g.gTargetPids[l.i] = l.call.pid
  <2>1. /\ l.at = "pids" /\ l.i <= l.count
        /\ n = IF found THEN [l EXCEPT !.at = "category"] ELSE [l EXCEPT !.i = l.i + 1]
    BY <1>1, <1>2, <1>17 DEF ReadPid
  <2>2. /\ n.at = (IF found THEN "category" ELSE "pids")
        /\ n.i = (IF found THEN l.i ELSE l.i + 1) /\ n.count = l.count
        /\ n.nameCount = l.nameCount /\ n.call = l.call /\ n.words = l.words
        /\ n.quiet = l.quiet
    BY <1>2, <2>1
  <2> HIDE DEF n
  <2>3. ASSUME n.quiet PROVE QuietCall(n)
    <3>1. /\ QuietTargets(l) /\ installing = {} /\ Limited(config)
          /\ l.i \in 1..Len(config.pids) /\ Len(config.pids) \in Nat
      BY <1>1, <1>3, <2>1, <2>2, <2>3 DEF QuietTargets, Limited, Configuration
    <3>2. found <=> config.pids[l.i] = l.call.pid
      BY <1>1, <3>1, GlobalsInstalled
    <3>3. found => TargetAdmits(config, l.call)
      BY <3>1, <3>2 DEF TargetAdmits, Element
    <3> HIDE DEF found
    <3>4. QuietRules(n)
      BY <2>2 DEF QuietRules
    <3>5. QuietTargets(n)
      BY <2>1, <2>2, <3>1, <3>2 DEF QuietTargets
    <3> QED
      BY <1>1, <2>1, <2>2, <2>3, <3>3, <3>4, <3>5
  <2> QED
    BY <2>3 DEF n
<1>18. ASSUME PidsExhausted(t) PROVE QuietCall(local'[t])
  <2> DEFINE n == local'[t]
  <2>1. /\ n.at = "names" /\ n.i = 1 /\ n.nameCount = l.nameCount /\ n.call = l.call
        /\ n.words = l.words /\ n.quiet = l.quiet /\ l.at = "pids" /\ l.i > l.count
    BY <1>1, <1>2, <1>18 DEF PidsExhausted
  <2> HIDE DEF n
  <2>2. ASSUME n.quiet PROVE QuietCall(n)
    <3>1. QuietTargets(l) /\ installing = {} /\ Limited(config)
      BY <1>1, <1>3, <2>1, <2>2
    <3>2. Len(config.pids) \in Nat /\ Len(config.names) \in Nat
      BY <3>1 DEF Limited, Configuration
    <3>3. ~Element(l.call.pid, config.pids)
      BY <2>1, <3>1, <3>2 DEF QuietTargets, Element
    <3>4. n.words = << >> /\ n.words \in Seq(Nat) /\ Len(n.words) = 0
      BY <2>1, <3>1, EmptySeq DEF QuietTargets
    <3>5. QuietRules(n)
      BY <2>1 DEF QuietRules
    <3>6. QuietTargets(n)
      BY <2>1, <3>1, <3>2, <3>3, <3>4, ConfigAssumption DEF QuietTargets
    <3> QED
      BY <1>1, <2>1, <2>2, <3>5, <3>6
  <2> QED
    BY <2>2 DEF n
<1>19. ASSUME ReadNameWord(t) PROVE QuietCall(local'[t])
  <2> DEFINE n == local'[t]
             word == g.gTargetNameWords[l.i][Len(l.words) + 1]
             words == Append(l.words, word)
  <2>1. /\ l.at = "names" /\ l.i <= l.nameCount
        /\ n = IF Len(words) < NameWords THEN [l EXCEPT !.words = words]
               ELSE IF words = l.call.name
               THEN [l EXCEPT !.at = "nameFlag", !.words = << >>]
               ELSE [l EXCEPT !.i = l.i + 1, !.words = << >>]
    BY <1>1, <1>2, <1>19 DEF ReadNameWord
  <2>2. n.quiet = l.quiet /\ n.call = l.call /\ n.nameCount = l.nameCount
    BY <1>2, <2>1
  <2> SUFFICES ASSUME l.quiet PROVE QuietCall(n)
    BY <2>2
  <2>3. /\ QuietTargets(l) /\ installing = {} /\ Limited(config)
        /\ l.i \in 1..Len(config.names) /\ Len(config.names) \in Nat
        /\ config.names[l.i] \in ProcessName
    <3>1. QuietTargets(l) /\ installing = {} /\ Limited(config)
      BY <1>1, <1>3, <2>1
    <3>2. config.names \in Seq(ProcessName) /\ Len(config.names) \in Nat
      BY <3>1 DEF Limited, Configuration
    <3>3. l.i \in 1..Len(config.names) + 1 /\ l.nameCount = Len(config.names)
      BY <2>1, <3>1 DEF QuietTargets
    <3>4. l.i \in 1..Len(config.names)
      BY <2>1, <3>2, <3>3
    <3>5. config.names[l.i] \in ProcessName
      BY <3>2, <3>4, ElementOfSeq
    <3> QED
      BY <3>1, <3>2, <3>4, <3>5
  <2>4. /\ l.words \in Seq(Nat) /\ Len(l.words) + 1 \in 1..NameWords
        /\ \A w \in 1..Len(l.words) : l.words[w] = config.names[l.i][w]
    <3>1. /\ l.words \in Seq(Nat) /\ Len(l.words) < NameWords
          /\ \A w \in 1..Len(l.words) : l.words[w] = config.names[l.i][w]
      BY <2>1, <2>3 DEF QuietTargets
    <3>2. Len(l.words) \in Nat
      BY <3>1, LenProperties
    <3> QED
      BY <3>1, <3>2, ConfigAssumption
  <2>5. word = config.names[l.i][Len(l.words) + 1] /\ word \in Nat
    BY <1>1, <2>3, <2>4, GlobalsInstalled DEF ProcessName
  <2>6. /\ words \in Seq(Nat) /\ Len(words) = Len(l.words) + 1 /\ Len(words) \in 1..NameWords
        /\ \A w \in 1..Len(words) : words[w] = config.names[l.i][w]
    <3> HIDE DEF word
    <3>1. /\ words \in Seq(Nat) /\ Len(words) = Len(l.words) + 1
          /\ words[Len(words)] = word
          /\ \A w \in 1..Len(l.words) : words[w] = l.words[w]
      BY <2>4, <2>5, AppendProperties
    <3> HIDE DEF words
    <3>2. \A w \in 1..Len(words) : w \in 1..Len(l.words) \/ w = Len(words)
      BY <2>4, <3>1
    <3> QED
      BY <2>4, <2>5, <3>1, <3>2
  <2>7. CASE Len(words) < NameWords
    <3>1. n.at = "names" /\ n.i = l.i /\ n.words = words
      BY <1>2, <2>1, <2>7
    <3> HIDE DEF n, words, word
    <3>2. QuietRules(n)
      BY <3>1 DEF QuietRules
    <3>3. QuietTargets(n)
      BY <2>1, <2>2, <2>3, <2>6, <2>7, <3>1, SMTT(40) DEF QuietTargets
    <3> QED
      BY <1>1, <2>1, <2>2, <2>3, <3>1, <3>2, <3>3
  <2>8. CASE ~(Len(words) < NameWords)
    <3>1. /\ n.at = (IF words = l.call.name THEN "nameFlag" ELSE "names")
          /\ n.i = (IF words = l.call.name THEN l.i ELSE l.i + 1) /\ n.words = << >>
      BY <1>2, <2>1, <2>8, SMTT(40)
    <3> HIDE DEF n, words, word
    <3>2. words = config.names[l.i]
      <4>1. Len(words) = NameWords
        BY <2>6, <2>8, ConfigAssumption, SMTT(40)
      <4>2. words = [w \in 1..NameWords |-> words[w]]
        BY <2>6, <4>1, LenProperties
      <4>3. config.names[l.i] = [w \in 1..NameWords |-> config.names[l.i][w]]
        BY <2>3 DEF ProcessName
      <4> QED
        BY <2>6, <4>1, <4>2, <4>3
    <3>3. words = l.call.name => TargetAdmits(config, l.call)
      BY <2>3, <3>2 DEF TargetAdmits, Element
    <3>4. QuietRules(n)
      BY <3>1 DEF QuietRules
    <3>5. << >> \in Seq(Nat) /\ Len(<< >>) = 0
      BY EmptySeq
    <3>6. \A j : j \in 1..l.i <=> j \in 1..l.i - 1 \/ j = l.i
      BY <2>3
    <3>7. QuietTargets(n)
      <4>1. CASE words = l.call.name
        BY <3>1, <4>1 DEF QuietTargets
      <4>2. CASE words # l.call.name
        <5>1. l.i + 1 \in 1..Len(config.names) + 1 /\ l.i + 1 - 1 = l.i
          BY <2>3
        <5>2. \A j \in 1..l.i : config.names[j] # l.call.name
          BY <2>1, <2>3, <3>2, <3>6, <4>2 DEF QuietTargets
        <5>3. n.at = "names" /\ n.i = l.i + 1 /\ n.words = << >>
          BY <3>1, <4>2
        <5>4. /\ n.words \in Seq(Nat) /\ Len(n.words) < NameWords
              /\ \A w \in 1..Len(n.words) : n.words[w] = config.names[n.i][w]
          <6>1. n.words \in Seq(Nat) /\ Len(n.words) = 0
            BY <3>5, <5>3
          <6> QED
            BY <6>1, ConfigAssumption
        <5>5. /\ n.i \in 1..Len(config.names) + 1
              /\ \A j \in 1..n.i - 1 : config.names[j] # n.call.name
          <6>1. n.i - 1 = l.i /\ n.i \in 1..Len(config.names) + 1 /\ n.call = l.call
            BY <2>2, <2>3, <5>1, <5>3
          <6> HIDE DEF l
          <6> QED
            BY <5>2, <6>1
        <5> QED
          BY <2>1, <2>2, <2>3, <5>3, <5>4, <5>5 DEF QuietTargets
      <4> QED
        BY <4>1, <4>2
    <3> QED
      BY <1>1, <2>1, <2>2, <2>3, <3>1, <3>3, <3>4, <3>7
  <2> QED
    BY <2>7, <2>8
<1>20. ASSUME NamesExhausted(t) PROVE QuietCall(local'[t])
  <2> DEFINE n == local'[t]
  <2>1. /\ n.at = "rejected" /\ n.call = l.call /\ n.quiet = l.quiet
        /\ l.at = "names" /\ l.i > l.nameCount
    BY <1>1, <1>2, <1>20 DEF NamesExhausted
  <2> HIDE DEF n
  <2>2. ASSUME n.quiet PROVE QuietCall(n)
    <3>1. QuietTargets(l) /\ installing = {} /\ Limited(config)
      BY <1>1, <1>3, <2>1, <2>2
    <3>2. Len(config.names) \in Nat
      BY <3>1 DEF Limited, Configuration
    <3>3. ~Element(l.call.name, config.names)
      BY <2>1, <3>1, <3>2 DEF QuietTargets, Element
    <3>4. ~Admits(config, l.call)
      BY <2>1, <3>1, <3>3 DEF QuietTargets, Admits, TargetAdmits
    <3> QED
      BY <2>1, <3>1, <3>4 DEF QuietRules, QuietTargets
  <2> QED
    BY <2>2 DEF n
<1>21. ASSUME RecheckTargetFlag(t) PROVE QuietCall(local'[t])
  BY <1>1, <1>2, <1>3, <1>21, GlobalsInstalled DEF RecheckTargetFlag, QuietRules, QuietTargets
<1>22. ASSUME CheckCategory(t) PROVE QuietCall(local'[t])
  BY <1>1, <1>2, <1>3, <1>22, GlobalsInstalled
     DEF CheckCategory, QuietRules, QuietTargets, Admits
<1>23. ASSUME PushEvent(t) \/ ReturnZero(t) PROVE QuietCall(local'[t])
  <2>1. local'[t] = Idle
    BY <1>1, <1>23 DEF PushEvent, ReturnZero
  <2> QED
    BY <2>1 DEF Idle
<1> QED
  BY <1>4, <1>5, <1>6, <1>7, <1>8, <1>9, <1>10, <1>11, <1>12, <1>13, <1>14, <1>15,
     <1>16, <1>17, <1>18, <1>19, <1>20, <1>21, <1>22, <1>23 DEF EnqueueEvent

(* What is done to the others is done by a request; a thread moves alone.  *)
LEMMA QuietInvStep == FilterInv /\ DecisionInv /\ QuietInv /\ [Next]_vars => QuietInv'
<1> SUFFICES ASSUME FilterInv, DecisionInv, QuietInv, [Next]_vars
             PROVE  QuietInv'
  OBVIOUS
<1> USE DEF QuietInv
<1>1. CASE \E t \in Threads : EnqueueEvent(t)
  <2>1. PICK t \in Threads : EnqueueEvent(t)
    BY <1>1
  <2>2. QuietCall(local'[t])
    BY <2>1, QuietStep
  <2>3. /\ UNCHANGED <<config, installing>>
        /\ \A u \in Threads \ {t} : local'[u] = local[u]
    BY <2>1, CallStaysInBounds DEF FilterInv
  <2> SUFFICES ASSUME NEW u \in Threads PROVE QuietCall(local[u])'
    OBVIOUS
  <2>4. QuietCall(local'[u])
    BY <2>2, <2>3
  <2> QED
    BY <2>3, <2>4 DEF QuietCall, QuietRules, QuietTargets, OnlyRule, Hit, Mine
<1>2. CASE DeviceRequest
  BY <1>2, QuietSeesRequest
<1>3. CASE UNCHANGED vars
  BY <1>3 DEF vars, history, QuietCall, QuietRules, QuietTargets, OnlyRule, Hit, Mine
<1> QED
  BY <1>1, <1>2, <1>3 DEF Next

(* A call during which no request is under way is queued exactly when the  *)
(* installed configuration admits it, however the flags, counts, words,    *)
(* rules and their mask came to hold what they hold.                       *)
THEOREM QuietCallsDecidedAsConfigured == Spec => []QuietDecision
<1>1. Init => QuietInv
  BY DEF Init, QuietInv, QuietCall, Idle
<1>2. FilterInv /\ DecisionInv /\ QuietInv /\ [Next]_vars => QuietInv'
  BY QuietInvStep
<1>3. QuietInv => QuietDecision
  BY DEF QuietInv, QuietCall, QuietDecision, At, Admits, AfterCapture, AfterMask,
         AfterRuleCheck, AfterExcluded, AfterTarget
<1> QED
  BY <1>1, <1>2, <1>3, FilterInvHolds, DecisionInvHolds, PTL DEF Spec
=============================================================================
