------------------------------ MODULE MCSources ------------------------------
(***************************************************************************)
(* The configurations and the table of the demo, for model checking.       *)
(***************************************************************************)
EXTENDS Sources

(* Configurations that differ in one filter each from the first; a table   *)
(* of three operations.                                                    *)
All ==
  [capture |-> TRUE, categories |-> {0, 1}, operations |-> 1..3, pids |-> << >>,
   names |-> {}, excluded |-> 1, rules |-> << >>]

Rule(id, action, conditions) == [id |-> id, action |-> action, conditions |-> conditions]

MCOrders ==
  {All, [All EXCEPT !.capture = FALSE], [All EXCEPT !.categories = {1}],
   [All EXCEPT !.operations = {1, 3}], [All EXCEPT !.pids = <<7, 8, 9>>],
   [All EXCEPT !.names = {"other.exe"}], [All EXCEPT !.pids = <<7, 8>>, !.excluded = 8],
   [All EXCEPT !.rules = <<Rule(1, "only", <<<<0, 16>>>>), Rule(1, "only", <<<<1, 33>>>>),
                           Rule(2, "except", <<<<3, 65>>, <<0, 17>>>>)>>],
   [All EXCEPT !.rules = <<Rule(3, "only", <<<<0, 18>>>>), Rule(3, "except", <<<<1, 34>>>>)>>]}

MCTable ==
  <<[id |-> 1, category |-> 0], [id |-> 2, category |-> 1], [id |-> 3, category |-> 1]>>

MCDefaultConfig == [All EXCEPT !.pids = <<42>>]
=============================================================================
