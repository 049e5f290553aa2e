-------------------------- MODULE MCCaptureFilter --------------------------
(***************************************************************************)
(* CaptureFilter on small instances: two operations in two categories, two *)
(* target slots of each kind, names of two words, two rules.               *)
(***************************************************************************)
EXTENDS CaptureFilter

TwoOperations == {1, 2}
TwoCategories == {"file", "registry"}
CategoryByOperation == [o \in TwoOperations |-> IF o = 1 THEN "file" ELSE "registry"]
Gui == 9

ThisName  == <<1, 1>>
OtherName == <<2, 2>>

Condition(value) == {[index |-> 1, value |-> value]}
Skip(o, value) == [operation |-> o, action |-> "except", conditions |-> Condition(value)]
Only(o, value) == [operation |-> o, action |-> "only", conditions |-> Condition(value)]
Broken == [operation |-> 1, action |-> "except", conditions |-> {}]

Config(pids, names, operations, configRules, categories) ==
  [capture |-> TRUE, pids |-> pids, names |-> names, operations |-> operations,
   rules |-> configRules, categories |-> categories, excluded |-> Gui]

Call(pid, name, o, argument) ==
  [pid |-> pid, name |-> name, operation |-> o, arguments |-> <<argument>>]

SomeCalls == {Call(1, ThisName, 1, 5), Call(3, OtherName, 1, 7),
              Call(2, OtherName, 2, 5), Call(Gui, ThisName, 2, 5)}

(* Everything changes at least once between some two of these: targets of  *)
(* both kinds and none, masks, the number, order and validity of rules.    *)
MixedConfigs ==
  {Config(<<1, 2>>, << >>, {1, 2}, <<Only(1, 5), Skip(2, 5)>>, TwoCategories),
   Config(<<1, 2>>, << >>, {1, 2}, <<Only(1, 5)>>, TwoCategories),
   Config(<<2>>, << >>, {1}, <<Broken, Only(1, 5)>>, TwoCategories),
   Config(<< >>, <<ThisName, OtherName>>, {1}, <<Only(1, 5)>>, {"file"}),
   [Config(<< >>, << >>, {2}, << >>, TwoCategories) EXCEPT !.capture = FALSE]}

(* Only the targets differ: first a PID, then a name.                      *)
PidThenName ==
  {Config(<<1>>, << >>, TwoOperations, << >>, TwoCategories),
   Config(<< >>, <<ThisName>>, TwoOperations, << >>, TwoCategories)}

(* The same rules twice; only a category is switched off.                  *)
SameRules ==
  {Config(<< >>, << >>, TwoOperations, <<Skip(1, 7)>>, TwoCategories),
   Config(<< >>, << >>, TwoOperations, <<Skip(1, 7)>>, {"file"})}
=============================================================================
