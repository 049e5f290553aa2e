----------------------------- MODULE DemoSource -----------------------------
(***************************************************************************)
(* run_source of a build without the driver: a thread that makes events up *)
(* and filters them, so that the window can be tried.  It looks at less of *)
(* a configuration than the driver does: not at target names, nor at the   *)
(* excluded PID.                                                           *)
(***************************************************************************)
EXTENDS Integers, Sequences, SequencesExt

CONSTANTS
  Orders,         (* configurations the window sends                         *)
  DefaultConfig,  (* the one the thread starts with                          *)
  StopCommand,
  Table,          (* demo_table: [id, category]                              *)
  BatchSize,      (* 350 in the code                                         *)
  FirstPid,       (* 4242 in the code                                        *)
  ArgumentStep,   (* 0x1000 in the code                                      *)
  MaxSequence,    (* bound on the events made                                *)
  MaxOrders       (* bound on the orders of the window                       *)

Configs == Orders \cup {DefaultConfig}

(* A rule's conditions are pairs of a place and its value.                 *)
Rules ==
  [id : Nat, action : {"except", "only"}, conditions : Seq((0..3) \X Nat)]

DemoAssumption ==
  /\ Len(Table) \in Nat \ {0} /\ BatchSize \in Nat \ {0}
  /\ StopCommand \notin Configs
  /\ \A c \in Configs : c.pids \in Seq(Nat) /\ c.rules \in Seq(Rules)

VARIABLES
  commands, config, at,
  sequence, captured,
  heard, last,           (* history: what was sent (EventSource)             *)
  detailed, delivered,   (* the last Details and Stats                       *)
  orders                 (* the window's; MaxOrders + 1 once it is closed    *)

sent == <<heard, last, detailed, delivered>>
vars == <<commands, config, at, sequence, captured, sent, orders>>

(* What a configuration means to the demo: categories, operations, the     *)
(* PIDs if there are any, none of the "except" rules of the operation      *)
(* matches, and one of its "only" rules if there are any.                  *)
Admits(c, e) ==
  LET own(action) == {r \in ToSet(c.rules) : r.id = e.id /\ r.action = action}
      matches(r)  == \A w \in ToSet(r.conditions) : e.arguments[w[1]] = w[2]
  IN /\ e.category \in c.categories /\ e.id \in c.operations
     /\ c.pids = << >> \/ Contains(c.pids, e.pid)
     /\ \A r \in own("except") : ~matches(r)
     /\ own("only") # {} => \E r \in own("only") : matches(r)

(* What it means to the driver: names are targets too, each by itself, and *)
(* calls of the excluded PID never pass.                                   *)
DriverAdmits(c, e) ==
  /\ Admits([c EXCEPT !.pids = << >>], e) /\ e.pid # c.excluded
  /\ \/ c.pids = << >> /\ c.names = {}
     \/ Contains(c.pids, e.pid) \/ e.name \in c.names

(* One turn of the loop; "drop" stands for the early return.               *)
WithRule(r, rule, e) ==
  LET matches == \A i \in DOMAIN rule.conditions :
                   e.arguments[rule.conditions[i][1]] = rule.conditions[i][2] IN
  IF rule.id # e.id \/ r.drop THEN r
  ELSE [drop    |-> matches /\ rule.action = "except",
        only    |-> r.only \/ rule.action = "only",
        matched |-> r.matched \/ (matches /\ rule.action = "only")]

RulesRead(c, e) ==
  LET after[i \in 0..Len(c.rules)] ==
        IF i = 0 THEN [drop |-> FALSE, only |-> FALSE, matched |-> FALSE]
                 ELSE WithRule(after[i - 1], c.rules[i], e)
  IN after[Len(c.rules)]

(* Mutant of demo_argument_rules_allow: one rule to match is enough.       *)
demo_any_rule_allows(c, e) ==
  LET r == RulesRead(c, e) IN r.matched \/ (~r.drop /\ ~r.only)

demo_argument_rules_allow(c, e) ==
  LET r == RulesRead(c, e) IN ~r.drop /\ (~r.only \/ r.matched)

(* The n-th event of a tick, counted from 0.                               *)
DemoEvent(n) ==
  LET entry == Table[((sequence + n) % Len(Table)) + 1] IN
  [pid |-> IF config.pids = << >> THEN FirstPid + (n % 3)
           ELSE config.pids[(n % Len(config.pids)) + 1],
   name |-> "demo.exe",
   id |-> entry.id, category |-> entry.category, sequence |-> sequence + n + 1,
   arguments |-> [k \in 0..3 |-> (ArgumentStep * (k + 1)) + n]]

Kept(e) ==
  /\ e.category \in config.categories /\ e.id \in config.operations
  /\ demo_argument_rules_allow(config, e)

Batch ==
  LET made[n \in 0..BatchSize] ==
        IF n = 0 THEN << >>
        ELSE IF Kept(DemoEvent(n - 1)) THEN Append(made[n - 1], DemoEvent(n - 1))
        ELSE made[n - 1]
  IN made[BatchSize]
-----------------------------------------------------------------------------
Thread(from, to) == at = from /\ at' = to /\ UNCHANGED orders

(* Status and the table.                                                   *)
Start ==
  /\ Thread("start", "commands")
  /\ heard' = heard \cup {"table"} /\ last' = [kind |-> "table"]
  /\ UNCHANGED <<commands, config, sequence, captured, detailed, delivered>>

TakeConfig ==
  /\ Thread("commands", "commands")
  /\ commands # << >> /\ Head(commands) # StopCommand
  /\ config' = Head(commands) /\ commands' = Tail(commands)
  /\ UNCHANGED <<sequence, captured, sent>>

Stop ==
  /\ Thread("commands", "gone")
  /\ commands # << >> /\ Head(commands) = StopCommand /\ commands' = Tail(commands)
  /\ UNCHANGED <<config, sequence, captured, sent>>

NoCommand ==
  /\ Thread("commands", "tick") /\ commands = << >>
  /\ UNCHANGED <<commands, config, sequence, captured, sent>>

(* No capture; also a tick past the bound MaxSequence.                     *)
Idle ==
  /\ Thread("tick", "commands")
  /\ ~config.capture \/ sequence + BatchSize > MaxSequence
  /\ UNCHANGED <<commands, config, sequence, captured, sent>>

Send(batch) ==
  /\ heard' = heard \cup {"events"} /\ last' = [kind |-> "events", events |-> batch]
  /\ captured' = captured + Len(batch) /\ delivered' = captured'
  /\ detailed' = IF sequence' % (4 * BatchSize) < BatchSize THEN sequence' ELSE detailed
  /\ UNCHANGED <<commands, config>>

Tick ==
  /\ Thread("tick", "commands") /\ config.capture
  /\ sequence + BatchSize <= MaxSequence
  /\ sequence' = sequence + BatchSize
  /\ Send(Batch)

Order(c) ==
  /\ orders < MaxOrders /\ orders' = orders + 1
  /\ commands' = Append(commands, c)
  /\ UNCHANGED <<config, at, sequence, captured, sent>>

Close ==
  /\ orders <= MaxOrders /\ orders' = MaxOrders + 1
  /\ commands' = Append(commands, StopCommand)
  /\ UNCHANGED <<config, at, sequence, captured, sent>>

Init ==
  /\ commands \in {<<c>> : c \in Orders} /\ config = DefaultConfig /\ at = "start"
  /\ sequence = 0 /\ captured = 0 /\ heard = {} /\ last = [kind |-> "none"]
  /\ detailed = 0 /\ delivered = 0 /\ orders = 0

Source == Start \/ TakeConfig \/ Stop \/ NoCommand \/ Idle \/ Tick

Next == Source \/ Close \/ \E c \in Orders : Order(c)

Spec == Init /\ [][Next]_vars
-----------------------------------------------------------------------------
(* The demo keeps what the window expects of a source, with no event late: *)
(* none passes that the configuration's categories, operations, rules or   *)
(* PIDs keep back.  Names and the excluded PID keep nothing back.          *)
Promise == INSTANCE EventSource WITH
  running <- at # "gone", calls <- {}, late <- {}
DemoIsEventSource == Promise!Spec

(* What the driver would keep back the demo does not always: with names    *)
(* alone, or with an excluded PID among the targets.                       *)
DemoAdmitsAsDriver ==
  [][\A e \in ToSet(Batch) : Tick => DriverAdmits(config, e)]_vars

(* The window's end is the thread's, whatever was ordered before.          *)
ClosedWindowEndsDemo == orders > MaxOrders ~> at = "gone"
=============================================================================
