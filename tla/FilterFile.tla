----------------------------- MODULE FilterFile -----------------------------
(***************************************************************************)
(* Filter files and argument rules: the JSON file that "Load" reads, the   *)
(* rules of the window and the ones send_config gives to the driver.       *)
(*                                                                         *)
(* A JSON value is [type, value].  Names and arguments are written in any  *)
(* case with blanks around them in the code; Spelled has what they name,   *)
(* and a numeric string is its digits.  The history, categories and        *)
(* targets are those of MonitorApp.                                        *)
(***************************************************************************)
EXTENDS Integers, Sequences, FiniteSets, SequencesExt

CONSTANTS
  Ids, NameOf,         (* the syscall table                                  *)
  Spelled,             (* the name that a text spells, known or not          *)
  DefaultExcluded,     (* DEFAULT_EXCLUDED_OPERATION, as a set               *)
  Files, NoFile, Err,  (* what can be loaded; nothing; a failure             *)
  Values,              (* of the arguments of a call                         *)
  MaxU64,              (* u64::MAX                                           *)
  MaxArgumentRules     (* MAX_ARGUMENT_RULES, 128 in the code                *)

IsList(v) == v.type = "array" => v.value \in Seq({v.value[i] : i \in DOMAIN v.value})

(* What a parser of JSON returns, as far down as filter files are read.    *)
IsJson(file) ==
  file.type = "object" =>
    \A field \in DOMAIN file.value :
      LET v == file.value[field] IN
        /\ IsList(v)
        /\ v.type = "array" =>
             \A i \in DOMAIN v.value : v.value[i].type = "object" =>
               \A key \in DOMAIN v.value[i].value : IsList(v.value[i].value[key])

(* A name is in the export table of one library, once; a failure is not   *)
(* the type of a rule.                                                     *)
FilterAssumption ==
  /\ Ids \subseteq Nat /\ MaxU64 \in Nat /\ MaxArgumentRules \in Nat
  /\ \A a, b \in Ids : NameOf[a] = NameOf[b] => a = b
  /\ \A file \in Files : IsJson(file)
  /\ Err \notin {"arguments_except", "arguments_only"}

VARIABLES
  syscall_names,       (* has the table arrived                              *)
  included_operations, excluded_operations, argument_rules,
  sent,                (* the filters of the last configuration              *)
  loaded               (* history: the file the rules are those of           *)

filters == <<included_operations, excluded_operations, argument_rules>>
vars == <<syscall_names, filters, sent, loaded>>

MAX_RULE_CONDITIONS == 4

Names == {NameOf[id] : id \in Ids}
KnownNames == IF syscall_names THEN Names ELSE {}

Calls == [id : Ids, arguments : [0..MAX_RULE_CONDITIONS - 1 -> Values], valid : BOOLEAN]
-----------------------------------------------------------------------------
(* The parser.                                                             *)

canonical_operation(name) == IF Spelled[name] \in KnownNames THEN Spelled[name] ELSE Err

Spellings ==
  <<{"first_argument", "argument1", "arg1", "first"},
    {"second_argument", "argument2", "arg2", "second"},
    {"third_argument", "argument3", "arg3", "third"},
    {"fourth_argument", "argument4", "arg4", "fourth"}>>

Ordinal ==
  [t \in UNION {Spellings[n] : n \in DOMAIN Spellings} |->
     CHOOSE n \in DOMAIN Spellings : t \in Spellings[n]]

OneBased(v) ==
  IF v.type = "number" THEN v.value
  ELSE IF v.type = "string" /\ v.value \in DOMAIN Ordinal THEN Ordinal[v.value] ELSE 0

parse_argument_index(v) ==
  IF OneBased(v) \in 1..MAX_RULE_CONDITIONS THEN OneBased(v) - 1 ELSE Err

Underscore == -1

Numeral(base, digits) == FoldLeft(LAMBDA n, d : base * n + d, 0, digits)

parse_u64_value(v) ==
  LET base   == IF v.value.hex THEN 16 ELSE 10
      digits == SelectSeq(v.value.digits, LAMBDA d : d # Underscore)
      n      == IF v.type = "number" THEN v.value
                ELSE IF /\ v.type = "string" /\ digits # << >>
                        /\ \A i \in DOMAIN digits : digits[i] < base
                     THEN Numeral(base, digits) ELSE -1
  IN IF n \in 0..MaxU64 THEN n ELSE Err

Condition(argument, v) ==
  [argument_index |-> parse_argument_index(argument), value |-> parse_u64_value(v)]

Text(object, key) ==
  IF key \in DOMAIN object.value /\ object.value[key].type = "string"
  THEN object.value[key].value ELSE Err

Operation(object, key) ==
  IF Text(object, key) = Err THEN Err ELSE canonical_operation(Text(object, key))

(* The keys of a map in the order of the arguments.                        *)
Ascending(keys) ==
  {s \in [1..Cardinality(keys) -> keys] :
     \A i, j \in DOMAIN s : i < j => s[i] # s[j] /\ Ordinal[s[i]] <= Ordinal[s[j]]}

(* {"op": ..., "skip" or "only": {"arg1": ..., ...}}                       *)
CompactRule(object) ==
  LET kinds == {"skip", "only"} \cap DOMAIN object.value
      kind  == IF Cardinality(kinds) = 1 THEN CHOOSE k \in kinds : TRUE ELSE Err
      map   == IF kind = Err \/ object.value[kind].type # "object" THEN << >>
               ELSE object.value[kind].value
      keys  == IF /\ Cardinality(DOMAIN map) <= MAX_RULE_CONDITIONS
                  /\ DOMAIN map \subseteq DOMAIN Ordinal
               THEN CHOOSE s \in Ascending(DOMAIN map) : TRUE
               ELSE << >>
  IN [operation |-> Operation(object, "op"), kind |-> kind,
      conditions |-> [i \in DOMAIN keys |->
        Condition([type |-> "string", value |-> keys[i]], map[keys[i]])]]

(* {"operation": ..., "type": ..., "conditions": [{"argument", "equals"}]} *)
VerboseRule(object) ==
  LET type == Text(object, "type")
      kind == CASE type = "arguments_except" -> "skip"
                [] type = "arguments_only"   -> "only"
                [] OTHER                     -> Err
      list == IF /\ "conditions" \in DOMAIN object.value
                 /\ object.value.conditions.type = "array"
                 /\ \A i \in DOMAIN object.value.conditions.value :
                      LET c == object.value.conditions.value[i] IN
                        c.type = "object" /\ {"argument", "equals"} \subseteq DOMAIN c.value
              THEN object.value.conditions.value ELSE << >>
  IN [operation |-> Operation(object, "operation"), kind |-> kind,
      conditions |->
        IF Len(list) > MAX_RULE_CONDITIONS THEN << >>
        ELSE [i \in DOMAIN list |-> Condition(list[i].value.argument, list[i].value.equals)]]

parse_argument_rule(object) ==
  IF "op" \in DOMAIN object.value THEN CompactRule(object) ELSE VerboseRule(object)

Readable(rule) ==
  /\ rule.operation # Err /\ rule.kind # Err /\ rule.conditions # << >>
  /\ \A i \in DOMAIN rule.conditions :
       rule.conditions[i].argument_index # Err /\ rule.conditions[i].value # Err

Entries(file, field) ==
  IF field \notin DOMAIN file.value THEN << >>
  ELSE IF file.value[field].type = "array" THEN file.value[field].value ELSE Err

parse_operation_list(file, field) ==
  LET entries == Entries(file, field) IN
  IF entries = Err THEN {Err}
  ELSE {IF entries[i].type = "string" THEN canonical_operation(entries[i].value) ELSE Err :
          i \in DOMAIN entries}

Rules(file) ==
  LET entries == Entries(file, "rules") IN
  [i \in DOMAIN entries |-> parse_argument_rule(entries[i])]

NoConflict(included, excluded) == included \cap excluded = {}

(* When parse_filter_config returns a configuration and not an error.      *)
parse_filter_config(file) ==
  LET included == parse_operation_list(file, "include")
      excluded == parse_operation_list(file, "exclude")
      entries  == Entries(file, "rules")
  IN /\ file.type = "object"
     /\ Err \notin included \cup excluded /\ NoConflict(included, excluded)
     /\ entries # Err /\ Len(entries) <= MaxArgumentRules
     /\ \A i \in DOMAIN entries : entries[i].type = "object" /\ Readable(Rules(file)[i])
-----------------------------------------------------------------------------
(* The window's decision.                                                  *)

Matches(rule, call) ==
  /\ call.valid
  /\ \A i \in DOMAIN rule.conditions :
       call.arguments[rule.conditions[i].argument_index] = rule.conditions[i].value

(* Mutant of argument_rules_allow: every "only" rule has to match.         *)
every_only_rule(rules, call, operation) ==
  \A i \in DOMAIN rules : rules[i].operation = operation =>
    (Matches(rules[i], call) <=> rules[i].kind = "only")

argument_rules_allow(rules, call, operation) ==
  LET own  == {i \in DOMAIN rules : rules[i].operation = operation}
      only == {i \in own : rules[i].kind = "only"}
  IN /\ \A i \in own \ only : ~Matches(rules[i], call)
     /\ only = {} \/ \E i \in only : Matches(rules[i], call)

operation_enabled(name) ==
  /\ name \notin excluded_operations
  /\ included_operations = {} \/ name \in included_operations

event_enabled(call) ==
  LET name == IF syscall_names THEN NameOf[call.id] ELSE "Unknown" IN
  operation_enabled(name) /\ argument_rules_allow(argument_rules, call, name)
-----------------------------------------------------------------------------
(* What send_config tells the driver.                                      *)

operation_mask ==
  {id \in Ids : IF syscall_names THEN operation_enabled(NameOf[id])
                                 ELSE included_operations = {}}

(* Mutant of DriverRule: the arguments are counted from one.               *)
DriverRuleFromOne(rule) ==
  [syscall_id |-> CHOOSE id \in Ids : NameOf[id] = rule.operation, action |-> rule.kind,
   conditions |-> [i \in DOMAIN rule.conditions |->
     [rule.conditions[i] EXCEPT !.argument_index = (@ + 1) % MAX_RULE_CONDITIONS]]]

(* The first id of that name.                                              *)
DriverRule(rule) ==
  [syscall_id |-> CHOOSE id \in Ids : /\ NameOf[id] = rule.operation
                                      /\ \A o \in Ids : NameOf[o] = rule.operation => id <= o,
   action |-> rule.kind, conditions |-> rule.conditions]

(* Of the rules that fit, those whose operation has an id.                 *)
WithId ==
  {i \in DOMAIN argument_rules :
     i <= MaxArgumentRules /\ argument_rules[i].operation \in KnownNames}

RuleWithId(k) ==
  argument_rules[CHOOSE i \in WithId : Cardinality({j \in WithId : j <= i}) = k]

DriverRules == [k \in 1..Cardinality(WithId) |-> DriverRule(RuleWithId(k))]

Config == [operations |-> operation_mask, rules |-> DriverRules]

send_config == sent' = Config'
-----------------------------------------------------------------------------
(* The driver: SET_CONFIG takes the rules that are in order (CaptureFilter *)
(* has its steps), EnqueueEvent asks both filters.                         *)

ValidRule(rule) ==
  /\ Len(rule.conditions) \in 1..MAX_RULE_CONDITIONS
  /\ \A i \in DOMAIN rule.conditions :
       rule.conditions[i].argument_index \in 0..MAX_RULE_CONDITIONS - 1

DriverAllows(call) ==
  LET own  == {i \in DOMAIN sent.rules :
                 ValidRule(sent.rules[i]) /\ sent.rules[i].syscall_id = call.id}
      only == {i \in own : sent.rules[i].action = "only"}
  IN /\ call.id \in sent.operations
     /\ \A i \in own \ only : ~Matches(sent.rules[i], call)
     /\ only # {} => \E i \in only : Matches(sent.rules[i], call)
-----------------------------------------------------------------------------
Init ==
  /\ syscall_names = FALSE /\ included_operations = {}
  /\ excluded_operations = DefaultExcluded /\ argument_rules = << >>
  /\ sent = Config /\ loaded = NoFile

(* drain_source                                                            *)
TakeTable ==
  /\ ~syscall_names /\ syscall_names' = TRUE
  /\ UNCHANGED <<filters, loaded>>
  /\ send_config

(* A file that cannot be read changes the status text only.                *)
load_filter_config(file) ==
  /\ parse_filter_config(file)
  /\ included_operations' = parse_operation_list(file, "include")
  /\ excluded_operations' = parse_operation_list(file, "exclude")
  /\ argument_rules' = Rules(file) /\ loaded' = file
  /\ UNCHANGED syscall_names
  /\ send_config

RemoveArgumentRule ==
  /\ \E i \in DOMAIN argument_rules : argument_rules' = RemoveAt(argument_rules, i)
  /\ loaded' = NoFile
  /\ UNCHANGED <<syscall_names, included_operations, excluded_operations>>
  /\ send_config

ClearAll ==
  /\ included_operations \cup excluded_operations # {} \/ argument_rules # << >>
  /\ included_operations' = {} /\ excluded_operations' = {}
  /\ argument_rules' = << >> /\ loaded' = NoFile
  /\ UNCHANGED syscall_names
  /\ send_config

ResetFilters ==
  /\ included_operations' = {} /\ excluded_operations' = DefaultExcluded
  /\ argument_rules' = << >> /\ loaded' = NoFile
  /\ UNCHANGED syscall_names
  /\ send_config

(* add_operation_rule takes a name of the table, the row menu the one that *)
(* a row shows.                                                            *)
SetOperation(name, include) ==
  /\ name \in (IF syscall_names THEN Names ELSE {"Unknown"})
  /\ included_operations' = IF include THEN included_operations \cup {name}
                                       ELSE included_operations \ {name}
  /\ excluded_operations' = IF include THEN excluded_operations \ {name}
                                       ELSE excluded_operations \cup {name}
  /\ UNCHANGED <<syscall_names, argument_rules, loaded>>
  /\ send_config

RemoveOperationRule(name) ==
  /\ included_operations' = included_operations \ {name}
  /\ excluded_operations' = excluded_operations \ {name}
  /\ UNCHANGED <<syscall_names, argument_rules, loaded>>
  /\ send_config

Next ==
  \/ TakeTable \/ RemoveArgumentRule \/ ClearAll \/ ResetFilters
  \/ \E file \in Files : load_filter_config(file)
  \/ \E name \in Names \cup {"Unknown"}, include \in BOOLEAN : SetOperation(name, include)
  \/ \E name \in included_operations \cup excluded_operations : RemoveOperationRule(name)

Spec == Init /\ [][Next]_vars
-----------------------------------------------------------------------------
(* README.md: filters "are applied in the driver before an event is        *)
(* queued": the driver queues exactly the calls that the window would show *)
(* under its filters, whatever edits led to them, once the table is there. *)
DriverDecidesAsWindow ==
  syscall_names => \A call \in Calls : DriverAllows(call) <=> event_enabled(call)

(* What a rule of a file says, in either syntax: its operation, whether it *)
(* skips, and the arguments listed with their values.                      *)
Listed(json) ==
  IF "op" \in DOMAIN json.value
  THEN LET skips == "skip" \in DOMAIN json.value
           map   == json.value[IF skips THEN "skip" ELSE "only"].value
       IN [operation |-> json.value.op.value, skips |-> skips,
           wants |-> {<<[type |-> "string", value |-> a], map[a]>> : a \in DOMAIN map}]
  ELSE [operation |-> json.value.operation.value,
        skips |-> json.value.type.value = "arguments_except",
        wants |-> {<<c.value.argument, c.value.equals>> : c \in Range(json.value.conditions.value)}]

(* README.md: "skip drops the call when all listed arguments match. [...]  *)
(* for that operation, only calls matching at least one only rule are      *)
(* retained.  Conditions inside one rule use AND; multiple rules use OR."  *)
LoadedRulesMeanFile ==
  loaded # NoFile =>
    LET rules == {Listed(json) : json \in Range(Entries(loaded, "rules"))}
        Meets(call, rule) ==
          call.valid /\ \A w \in rule.wants :
            call.arguments[OneBased(w[1]) - 1] = parse_u64_value(w[2])
    IN \A call \in Calls :
         LET own == {r \in rules : Spelled[r.operation] = NameOf[call.id]} IN
         argument_rules_allow(argument_rules, call, NameOf[call.id]) <=>
           /\ ~\E r \in own : r.skips /\ Meets(call, r)
           /\ (\E r \in own : ~r.skips) => \E r \in own : ~r.skips /\ Meets(call, r)
=============================================================================
