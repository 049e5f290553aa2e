--------------------------- MODULE CaptureFilter ---------------------------
(***************************************************************************)
(* The capture filters of swatcher.sys while they change.  The handlers of *)
(* the device (SET_CONFIG, CREATE, CLEANUP) rewrite the filter globals one *)
(* access at a time; EnqueueEvent reads them one at a time on every        *)
(* processor, guarded by "updating" flags and no lock.  Each action below  *)
(* is one access to a shared variable.                                     *)
(*                                                                         *)
(* A configuration is what SCALL_CONFIG asks for.  config and installing   *)
(* say, for the properties only, which configurations the globals hold.    *)
(***************************************************************************)
EXTENDS Integers, Sequences, FiniteSets

CONSTANTS
  Threads,         (* threads inside EnqueueEvent                            *)
  Calls,           (* system calls: [pid, name, operation, arguments]        *)
  Configs,         (* configurations the GUI sends                           *)
  Operations,      (* system calls by number; each has a mask word of its own *)
  Categories,
  CategoryOf,      (* gSyscallTable[id].category                             *)
  MaxPids,         (* SCALL_MAX_TARGET_PIDS                                  *)
  MaxNames,        (* SCALL_MAX_TARGET_NAMES                                 *)
  NameWords,       (* LONGs in a process name, 4 in the build                *)
  MaxRules,        (* SCALL_MAX_ARGUMENT_RULES                               *)
  MaxConditions,   (* SCALL_MAX_RULE_CONDITIONS                              *)
  GuiPid,          (* the process that opens the device                      *)
  MaxCalls,        (* bound: calls made                                      *)
  MaxRequests      (* bound: CREATE and SET_CONFIG requests                  *)

(* A process name: the LONGs of a fixed array.                             *)
ProcessName == [1..NameWords -> Nat]

(* "none" is any action the driver does not know.                          *)
FilterRule ==
  [operation : Nat, action : {"none", "except", "only"},
   conditions : SUBSET [index : Nat, value : Nat]]

(* What SCALL_CONFIG holds, up to the sizes of its arrays.                 *)
Configuration ==
  [capture : BOOLEAN, pids : Seq(Nat), names : Seq(ProcessName),
   operations : SUBSET Operations, categories : SUBSET Categories, excluded : Nat,
   rules : Seq(FilterRule)]

(* What the GUI never exceeds and the handler cuts off with min().         *)
ASSUME ConfigAssumption ==
  /\ {MaxPids, MaxNames, NameWords} \subseteq Nat \ {0}
  /\ MaxRules \in Nat /\ GuiPid \in Nat
  /\ \A c \in Configs : /\ c \in Configuration
                        /\ Len(c.pids) <= MaxPids
                        /\ Len(c.names) <= MaxNames
                        /\ Len(c.rules) <= MaxRules

(* Process 0, the idle process, calls nothing.                             *)
ASSUME CallAssumption ==
  \A call \in Calls : call.pid \in Nat \ {0} /\ call.name \in ProcessName

VARIABLES
  g,               (* the filter globals, a field for each                   *)
  ring,            (* the queued events: call, and the configurations seen   *)
  handler,         (* the handler of the device: where it is, its locals     *)
  local,           (* EnqueueEvent in each thread: where it is, its locals   *)
  config,          (* history: the configuration last installed              *)
  installing,      (* history: {} or the configuration being installed       *)
  calls, requests  (* how many were started, against the bounds              *)

history == <<config, installing, calls, requests>>

vars == <<g, ring, handler, local, history>>

NoWord == 0
NoRule == [operation |-> 0, action |-> "none", conditions |-> {}]

(* A rule SET_CONFIG accepts; it skips the others.                         *)
ValidRule(r) ==
  /\ r.operation \in Operations
  /\ r.action \in {"except", "only"}
  /\ Cardinality(r.conditions) \in 1..MaxConditions
  /\ \A c \in r.conditions : c.index \in 1..MaxConditions

(* How many of the first i rules it accepts, and those it accepts.         *)
Accepted(c, i) == Cardinality({j \in 1..i : ValidRule(c.rules[j])})

AcceptedIndex(c, k) ==
  CHOOSE i \in 1..Len(c.rules) : ValidRule(c.rules[i]) /\ Accepted(c, i) = k

AcceptedRules(c) ==
  [k \in 1..Accepted(c, Len(c.rules)) |-> c.rules[AcceptedIndex(c, k)]]

Matches(conditions, call) ==
  conditions # {} /\ \A c \in conditions : call.arguments[c.index] = c.value

Unconfigured ==
  [capture |-> FALSE, pids |-> << >>, names |-> << >>, operations |-> {},
   rules |-> << >>, categories |-> Categories, excluded |-> 0]

Globals ==
  [gCaptureEnabled |-> FALSE, gExcludedPid |-> 0, gCategoryMask |-> Categories,
   gTargetFilterUpdating |-> FALSE,
   gTargetPidCount |-> 0, gTargetPids |-> [i \in 1..MaxPids |-> 0],
   gTargetNameCount |-> 0,
   gTargetNameWords |-> [i \in 1..MaxNames |-> [w \in 1..NameWords |-> NoWord]],
   gOperationFilterUpdating |-> FALSE, gOperationMask |-> {},
   gArgumentFilterUpdating |-> FALSE, gArgumentRuleCount |-> 0,
   gArgumentRules |-> [i \in 1..MaxRules |-> NoRule],
   gArgumentRuleOperationMask |-> {}]

Idle ==
  [at |-> "idle", call |-> << >>, i |-> 0, count |-> 0, nameCount |-> 0,
   words |-> << >>, action |-> "none", hasOnly |-> FALSE, matchedOnly |-> FALSE,
   seen |-> {}, quiet |-> TRUE]

NoRequest ==
  [at |-> "closed", new |-> Unconfigured, i |-> 0, accepted |-> 0,
   changed |-> FALSE]

Init ==
  /\ g = Globals
  /\ ring = {}
  /\ handler = NoRequest
  /\ local = [t \in Threads |-> Idle]
  /\ config = Unconfigured /\ installing = {}
  /\ calls = 0 /\ requests = 0
-----------------------------------------------------------------------------
(* EnqueueEvent.                                                           *)

At(t, place) == local[t].at = place

(* One read of a global, after which the thread's locals are l.            *)
Read(t, from, l) ==
  /\ At(t, from)
  /\ local' = [local EXCEPT ![t] = l]
  /\ UNCHANGED <<g, ring, handler, history>>

(* A read that either decides against the event or goes on.                *)
Check(t, from, passes, to) ==
  Read(t, from, [local[t] EXCEPT !.at = IF passes THEN to ELSE "rejected"])

(* A system call arrives; the first read is gCaptureEnabled.               *)
CheckCapture(t, call) ==
  /\ At(t, "idle")
  /\ calls < MaxCalls
  /\ calls' = calls + 1
  /\ local' = [local EXCEPT ![t] = [Idle EXCEPT
       !.at = IF g.gCaptureEnabled THEN "operationFlag" ELSE "rejected",
       !.call = call, !.seen = {config} \cup installing,
       !.quiet = installing = {}]]
  /\ UNCHANGED <<g, ring, handler, config, installing, requests>>

(* Mutant of CheckOperationFlag: while the mask changes, all is enabled.   *)
PassWhileUpdating(t) ==
  Check(t, "operationFlag", TRUE,
        IF g.gOperationFilterUpdating THEN "ruleFlag" ELSE "operationMask")

(* OperationEnabled                                                        *)
CheckOperationFlag(t) ==
  Check(t, "operationFlag", ~g.gOperationFilterUpdating, "operationMask")

CheckOperationMask(t) ==
  Check(t, "operationMask", local[t].call.operation \in g.gOperationMask, "ruleFlag")

(* ArgumentRulesAllow                                                      *)
CheckRuleFlag(t) == Check(t, "ruleFlag", ~g.gArgumentFilterUpdating, "ruleMask")

ReadRuleMask(t) ==
  Read(t, "ruleMask", [local[t] EXCEPT !.at =
    IF local[t].call.operation \in g.gArgumentRuleOperationMask
    THEN "ruleCount" ELSE "excludedPid"])

ReadRuleCount(t) ==
  Read(t, "ruleCount", [local[t] EXCEPT !.at = "rule", !.i = 1,
                                        !.count = g.gArgumentRuleCount])

(* rule.syscall_id and rule.action; the loop passes over the rules of      *)
(* other system calls.                                                     *)
ReadRuleHeader(t) ==
  LET l == local[t]
      r == g.gArgumentRules[l.i]
  IN /\ l.i <= l.count
     /\ Read(t, "rule",
          IF r.operation # l.call.operation THEN [l EXCEPT !.i = @ + 1]
          ELSE [l EXCEPT !.at = "conditions", !.action = r.action,
                         !.hasOnly = @ \/ r.action = "only"])

(* The conditions, which SET_CONFIG copies apart from the header.          *)
ReadRuleConditions(t) ==
  LET l == local[t]
      matches == Matches(g.gArgumentRules[l.i].conditions, l.call)
  IN Read(t, "conditions",
       IF matches /\ l.action = "except" THEN [l EXCEPT !.at = "rejected"]
       ELSE [l EXCEPT !.at = "rule", !.i = @ + 1, !.action = "none",
                      !.matchedOnly = @ \/ (matches /\ l.action = "only")])

(* Mutant of RecheckRuleFlag: an only rule that did not match is forgotten. *)
RecheckWithoutOnly(t) ==
  /\ local[t].i > local[t].count
  /\ Check(t, "rule", ~g.gArgumentFilterUpdating, "excludedPid")

RecheckRuleFlag(t) ==
  LET l == local[t] IN
  /\ l.i > l.count
  /\ Check(t, "rule", ~g.gArgumentFilterUpdating /\ (l.hasOnly => l.matchedOnly),
           "excludedPid")

CheckExcludedPid(t) ==
  Check(t, "excludedPid",
        g.gExcludedPid = 0 \/ g.gExcludedPid # local[t].call.pid, "targetFlag")

(* MatchesTargetProcess                                                    *)
CheckTargetFlag(t) ==
  Check(t, "targetFlag", ~g.gTargetFilterUpdating, "pidCount")

ReadPidCount(t) ==
  Read(t, "pidCount", [local[t] EXCEPT !.at = "nameCount", !.i = 1,
                                       !.count = g.gTargetPidCount])

ReadNameCount(t) ==
  Read(t, "nameCount", [local[t] EXCEPT
    !.at = IF local[t].count = 0 /\ g.gTargetNameCount = 0 THEN "category" ELSE "pids",
    !.nameCount = g.gTargetNameCount])

ReadPid(t) ==
  LET l == local[t] IN
  /\ l.i <= l.count
  /\ Read(t, "pids", IF g.gTargetPids[l.i] = l.call.pid
                     THEN [l EXCEPT !.at = "category"] ELSE [l EXCEPT !.i = @ + 1])

PidsExhausted(t) ==
  /\ local[t].i > local[t].count
  /\ Read(t, "pids", [local[t] EXCEPT !.at = "names", !.i = 1])

(* The words of a name are read one by one, then compared.                 *)
ReadNameWord(t) ==
  LET l == local[t]
      words == Append(l.words, g.gTargetNameWords[l.i][Len(l.words) + 1])
  IN /\ l.i <= l.nameCount
     /\ Read(t, "names",
          IF Len(words) < NameWords THEN [l EXCEPT !.words = words]
          ELSE IF words = l.call.name
          THEN [l EXCEPT !.at = "nameFlag", !.words = << >>]
          ELSE [l EXCEPT !.i = @ + 1, !.words = << >>])

NamesExhausted(t) ==
  /\ local[t].i > local[t].nameCount
  /\ Check(t, "names", FALSE, "category")

(* A match counts only if the targets are not being rewritten; if they     *)
(* are, the loop goes on to the next name.                                 *)
RecheckTargetFlag(t) ==
  LET l == local[t] IN
  Read(t, "nameFlag", IF g.gTargetFilterUpdating
                      THEN [l EXCEPT !.at = "names", !.i = @ + 1]
                      ELSE [l EXCEPT !.at = "category"])

CheckCategory(t) ==
  Check(t, "category", CategoryOf[local[t].call.operation] \in g.gCategoryMask,
        "push")

Return(t, from) == At(t, from) /\ local' = [local EXCEPT ![t] = Idle]

(* The section under gRingLock (module CaptureRing).                       *)
PushEvent(t) ==
  /\ Return(t, "push")
  /\ ring' = ring \cup {[call |-> local[t].call, seen |-> local[t].seen]}
  /\ UNCHANGED <<g, handler, history>>

ReturnZero(t) == Return(t, "rejected") /\ UNCHANGED <<g, ring, handler, history>>
-----------------------------------------------------------------------------
(* SCALL_IOCTL_SET_CONFIG.  One collector thread sends the requests, so    *)
(* one handler runs at a time; it alone writes the filters, and reads back *)
(* what it wrote without a race.                                           *)

(* One write of a global; differs says it changed a filter's value.        *)
Write(from, h, globals, differs) ==
  /\ handler.at = from
  /\ handler' = [h EXCEPT !.changed = @ \/ differs]
  /\ g' = globals
  /\ UNCHANGED <<ring, local, history>>

Go(to) == [handler EXCEPT !.at = to]

(* A request starts: from here on every call under way sees new, too.      *)
Begin(from, to, new) ==
  /\ handler.at = from
  /\ handler' = [NoRequest EXCEPT !.at = to, !.new = new, !.i = 1]
  /\ installing' = {new}
  /\ local' = [t \in Threads |->
       IF At(t, "idle") THEN Idle
       ELSE [local[t] EXCEPT !.seen = @ \cup {new}, !.quiet = FALSE]]
  /\ UNCHANGED <<ring, config, calls>>

SetConfig(new) ==
  /\ requests < MaxRequests
  /\ requests' = requests + 1
  /\ Begin("ready", "pids", new)
  /\ g' = [g EXCEPT !.gTargetFilterUpdating = TRUE]

(* Mutant of WritePid: the count is zero while the pids are exchanged.     *)
WritePidUncounted ==
  LET i == handler.i
      next == IF i <= Len(handler.new.pids) THEN handler.new.pids[i] ELSE 0
  IN Write("pids", [handler EXCEPT !.i = i + 1,
                      !.at = IF i = MaxPids THEN "pidCount" ELSE "pids"],
           [g EXCEPT !.gTargetPids[i] = next, !.gTargetPidCount = 0],
           g.gTargetPids[i] # next)

WritePid ==
  LET i == handler.i
      next == IF i <= Len(handler.new.pids) THEN handler.new.pids[i] ELSE 0
  IN Write("pids", [handler EXCEPT !.i = i + 1,
                      !.at = IF i = MaxPids THEN "pidCount" ELSE "pids"],
           [g EXCEPT !.gTargetPids[i] = next], g.gTargetPids[i] # next)

WritePidCount ==
  LET n == Len(handler.new.pids) IN
  Write("pidCount", [Go("names") EXCEPT !.i = 0],
        [g EXCEPT !.gTargetPidCount = n], g.gTargetPidCount # n)

(* handler.i counts the words written, over all the names.                 *)
WriteNameWord ==
  LET i == (handler.i \div NameWords) + 1
      w == (handler.i % NameWords) + 1
      next == IF i <= Len(handler.new.names) THEN handler.new.names[i][w] ELSE NoWord
      last == i = MaxNames /\ w = NameWords
  IN Write("names", [handler EXCEPT !.i = @ + 1,
                       !.at = IF last THEN "nameCount" ELSE "names"],
           [g EXCEPT !.gTargetNameWords[i][w] = next],
           g.gTargetNameWords[i][w] # next)

WriteNameCount ==
  LET n == Len(handler.new.names) IN
  Write("nameCount", Go("targetsDone"),
        [g EXCEPT !.gTargetNameCount = n], g.gTargetNameCount # n)

TargetsDone == Write("targetsDone", Go("operationFlag"),
                     [g EXCEPT !.gTargetFilterUpdating = FALSE], FALSE)

BeginOperations == Write("operationFlag", Go("operations"),
                         [g EXCEPT !.gOperationFilterUpdating = TRUE], FALSE)

(* The words of the mask; a word that keeps its value is left out here.    *)
WriteOperation(o) ==
  /\ (o \in g.gOperationMask) # (o \in handler.new.operations)
  /\ Write("operations", handler,
           [g EXCEPT !.gOperationMask = IF o \in @ THEN @ \ {o} ELSE @ \cup {o}],
           TRUE)

OperationsDone ==
  /\ g.gOperationMask = handler.new.operations
  /\ Write("operations", Go("ruleFlag"),
           [g EXCEPT !.gOperationFilterUpdating = FALSE], FALSE)

BeginRules == Write("ruleFlag", Go("clearMask"),
                    [g EXCEPT !.gArgumentFilterUpdating = TRUE], FALSE)

ClearRuleMask(o) ==
  /\ o \in g.gArgumentRuleOperationMask
  /\ Write("clearMask", handler,
           [g EXCEPT !.gArgumentRuleOperationMask = @ \ {o}], FALSE)

RuleMaskCleared ==
  /\ g.gArgumentRuleOperationMask = {}
  /\ Write("clearMask", [Go("header") EXCEPT !.i = 1], g, FALSE)

(* An accepted rule is compared with the one in its place and copied over  *)
(* it; the copy is not atomic, and its bit in the mask follows.  A rule    *)
(* that is not valid is passed over.                                       *)
CopyRuleHeader ==
  LET r == handler.new.rules[handler.i]
      k == handler.accepted + 1
  IN /\ handler.at = "header" /\ handler.i <= Len(handler.new.rules)
     /\ IF ValidRule(r)
        THEN Write("header", [Go("conditions") EXCEPT !.accepted = k],
                   [g EXCEPT !.gArgumentRules[k].operation = r.operation,
                             !.gArgumentRules[k].action = r.action],
                   k > g.gArgumentRuleCount \/ g.gArgumentRules[k] # r)
        ELSE Write("header", [handler EXCEPT !.i = @ + 1], g, FALSE)

CopyRuleConditions ==
  Write("conditions", Go("ruleBit"),
        [g EXCEPT !.gArgumentRules[handler.accepted].conditions =
                    handler.new.rules[handler.i].conditions], FALSE)

SetRuleBit ==
  Write("ruleBit", [Go("header") EXCEPT !.i = @ + 1],
        [g EXCEPT !.gArgumentRuleOperationMask =
                    @ \cup {handler.new.rules[handler.i].operation}], FALSE)

(* The places behind the accepted rules are zeroed one after the other.    *)
ZeroRule(k) ==
  /\ handler.i > Len(handler.new.rules)
  /\ k > handler.accepted /\ g.gArgumentRules[k] # NoRule
  /\ \A j \in handler.accepted + 1..k - 1 : g.gArgumentRules[j] = NoRule
  /\ Write("header", handler, [g EXCEPT !.gArgumentRules[k] = NoRule], FALSE)

RulesZeroed ==
  /\ handler.i > Len(handler.new.rules)
  /\ \A k \in handler.accepted + 1..MaxRules : g.gArgumentRules[k] = NoRule
  /\ Write("header", Go("ruleCount"), g, FALSE)

(* Mutant of WriteRuleCount: fewer rules than before are no change.        *)
WriteRuleCountUncompared ==
  Write("ruleCount", Go("rulesDone"),
        [g EXCEPT !.gArgumentRuleCount = handler.accepted], FALSE)

WriteRuleCount ==
  Write("ruleCount", Go("rulesDone"),
        [g EXCEPT !.gArgumentRuleCount = handler.accepted],
        g.gArgumentRuleCount # handler.accepted)

RulesDone == Write("rulesDone", Go("categories"),
                   [g EXCEPT !.gArgumentFilterUpdating = FALSE], FALSE)

WriteCategories ==
  Write("categories", Go("capture"),
        [g EXCEPT !.gCategoryMask = handler.new.categories \cap Categories], FALSE)

WriteCapture == Write("capture", Go("excluded"),
                      [g EXCEPT !.gCaptureEnabled = handler.new.capture], FALSE)

(* gExcludedPid is written last, by SET_CONFIG, CREATE and CLEANUP alike.  *)
Installed(from, h) ==
  /\ handler.at = from
  /\ handler' = h
  /\ g' = [g EXCEPT !.gExcludedPid = handler.new.excluded]
  /\ config' = handler.new /\ installing' = {}
  /\ UNCHANGED <<ring, local, calls, requests>>

Ready == [NoRequest EXCEPT !.at = "ready"]

(* Mutant of WriteExcluded: the rings keep what older filters let in.      *)
WriteExcludedOnly == Installed("excluded", Ready)

(* A change of the filters goes on to empty the rings.                     *)
WriteExcluded ==
  Installed("excluded", IF handler.changed THEN Go("flush") ELSE Ready)

FlushRings ==
  /\ handler.at = "flush"
  /\ handler' = Ready
  /\ ring' = {}
  /\ UNCHANGED <<g, local, history>>
-----------------------------------------------------------------------------
(* CREATE stops capture, excludes the process that opens the device, and   *)
(* empties the rings; CLEANUP stops capture and excludes nobody.           *)
StopCapture(from, to, excluded) ==
  /\ Begin(from, to, [config EXCEPT !.capture = FALSE, !.excluded = excluded])
  /\ g' = [g EXCEPT !.gCaptureEnabled = FALSE]

OpenDevice ==
  /\ requests < MaxRequests
  /\ requests' = requests + 1
  /\ StopCapture("closed", "create", GuiPid)

ExcludeOpener == Installed("create", Go("flush"))

CleanupDevice == StopCapture("ready", "cleanup", 0) /\ UNCHANGED requests

ExcludeNobody == Installed("cleanup", NoRequest)
-----------------------------------------------------------------------------
EnqueueEvent(t) ==
  \/ \E call \in Calls : CheckCapture(t, call)
  \/ CheckOperationFlag(t) \/ CheckOperationMask(t)
  \/ CheckRuleFlag(t) \/ ReadRuleMask(t) \/ ReadRuleCount(t)
  \/ ReadRuleHeader(t) \/ ReadRuleConditions(t) \/ RecheckRuleFlag(t)
  \/ CheckExcludedPid(t)
  \/ CheckTargetFlag(t) \/ ReadPidCount(t) \/ ReadNameCount(t)
  \/ ReadPid(t) \/ PidsExhausted(t)
  \/ ReadNameWord(t) \/ NamesExhausted(t) \/ RecheckTargetFlag(t)
  \/ CheckCategory(t) \/ PushEvent(t) \/ ReturnZero(t)

DeviceRequest ==
  \/ OpenDevice \/ ExcludeOpener \/ CleanupDevice \/ ExcludeNobody
  \/ \E new \in Configs : SetConfig(new)
  \/ WritePid \/ WritePidCount \/ WriteNameWord \/ WriteNameCount \/ TargetsDone
  \/ BeginOperations \/ OperationsDone \/ \E o \in Operations : WriteOperation(o)
  \/ BeginRules \/ RuleMaskCleared \/ \E o \in Operations : ClearRuleMask(o)
  \/ CopyRuleHeader \/ CopyRuleConditions \/ SetRuleBit
  \/ RulesZeroed \/ \E k \in 1..MaxRules : ZeroRule(k)
  \/ WriteRuleCount \/ RulesDone
  \/ WriteCategories \/ WriteCapture \/ WriteExcluded \/ FlushRings

Next == (\E t \in Threads : EnqueueEvent(t)) \/ DeviceRequest

Spec == Init /\ [][Next]_vars
-----------------------------------------------------------------------------
(* What a configuration means, as the README and the protocol describe it. *)

Element(x, seq) == \E i \in 1..Len(seq) : seq[i] = x

TargetAdmits(c, call) ==
  \/ c.pids = << >> /\ c.names = << >>
  \/ Element(call.pid, c.pids)
  \/ Element(call.name, c.names)

RulesAdmit(c, call) ==
  LET mine == {i \in 1..Len(c.rules) :
                 ValidRule(c.rules[i]) /\ c.rules[i].operation = call.operation}
      hits(action) == {i \in mine : c.rules[i].action = action
                                      /\ Matches(c.rules[i].conditions, call)}
  IN /\ hits("except") = {}
     /\ (\E i \in mine : c.rules[i].action = "only") => hits("only") # {}

Admits(c, call) ==
  /\ c.capture
  /\ call.operation \in c.operations
  /\ CategoryOf[call.operation] \in c.categories
  /\ c.excluded # call.pid
  /\ RulesAdmit(c, call)
  /\ TargetAdmits(c, call)

(* The part of a configuration whose change empties the rings.             *)
Filters(c) == <<c.pids, c.names, c.operations, AcceptedRules(c)>>

(* A call that no request overlaps is queued exactly when the installed    *)
(* configuration admits it: masks, counts, rule bits and cut-off arrays    *)
(* together mean what the configuration says.                              *)
QuietDecision ==
  \A t \in Threads : local[t].quiet =>
    /\ At(t, "push") => Admits(config, local[t].call)
    /\ At(t, "rejected") => ~Admits(config, local[t].call)

(* SET_CONFIG empties the rings exactly when targets, operations or rules  *)
(* changed, however many rules it skipped and whichever got shorter.       *)
FlushDecision ==
  handler.at = "excluded" =>
    (handler.changed <=> Filters(handler.new) # Filters(config))

(* Once a request is done, every event still queued comes from a call that *)
(* met the filters now installed; nothing of an older filter survives but  *)
(* what overlapped the change.                                             *)
FlushLeavesNoOldFilter ==
  handler.at = "ready" =>
    \A e \in ring : \E c \in e.seen : Filters(c) = Filters(config)

(* Operation and category masks are exact even while they change: for each *)
(* event in the ring, its call met a configuration that captures, one that *)
(* enables its operation and one that enables its category.                *)
MasksDecideBeforeQueue ==
  \A e \in ring :
    /\ \E c \in e.seen : c.capture
    /\ \E c \in e.seen : e.call.operation \in c.operations
    /\ \E c \in e.seen : CategoryOf[e.call.operation] \in c.categories

(* While every configuration in sight names target PIDs and nothing else,  *)
(* a change of targets never lets a process through that none of them      *)
(* names, although count and array are exchanged one by one.               *)
PidTargetsHold ==
  \A e \in ring :
    (\A c \in e.seen : c.pids # << >> /\ c.names = << >>)
      => \E c \in e.seen : Element(e.call.pid, c.pids)

(* README.md: process filters "are applied in the driver before an event   *)
(* is queued", so some configuration the call met names its process.       *)
TargetsDecideBeforeQueue ==
  \A e \in ring : \E c \in e.seen : TargetAdmits(c, e.call)

(* README.md: "Up to 128 rules are applied in the driver before events     *)
(* enter the queue", so some configuration the call met has rules that     *)
(* let it pass.                                                            *)
RulesDecideBeforeQueue ==
  \A e \in ring : \E c \in e.seen : RulesAdmit(c, e.call)
=============================================================================
