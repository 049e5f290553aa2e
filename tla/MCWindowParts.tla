---------------------------- MODULE MCWindowParts ----------------------------
(***************************************************************************)
(* Small inputs for the parts of the window (WindowParts).                 *)
(***************************************************************************)
EXTENDS WindowParts, SequencesExt, TLC
-----------------------------------------------------------------------------
(* Filter files of every syntax, right and wrong, over two operations, one *)
(* of them excluded from the start; u64 has eight bits.                    *)

OperationName == 0 :> "NtClose" @@ 1 :> "NtOpenProcess"
SpelledName ==
  "NtClose" :> "NtClose" @@ "ntclose" :> "NtClose" @@ " NtOpenProcess" :> "NtOpenProcess"
  @@ "NtMissing" :> "NtMissing"

Str(s) == [type |-> "string", value |-> s]
Num(n) == [type |-> "number", value |-> n]
Arr(seq) == [type |-> "array", value |-> seq]
Obj(fields) == [type |-> "object", value |-> fields]

Underscore == -1
Hex(digits) == Str([hex |-> TRUE, digits |-> digits])
Dec(digits) == Str([hex |-> FALSE, digits |-> digits])

(* 16 in three ways, and values that are none.                             *)
Sixteens == {Num(16), Hex(<<1, 0>>), Dec(<<1, Underscore, 6>>)}
NoValues == {Num(-1), Num(256), Hex(<<1, 0, 0>>), Hex(<< >>), Dec(<<1, 10>>), Obj(<< >>)}

Skip(op, map) == Obj([op |-> Str(op), skip |-> Obj(map)])
Only(op, map) == Obj([op |-> Str(op), only |-> Obj(map)])
Verbose(op, type, list) ==
  Obj([operation |-> Str(op), type |-> Str(type), conditions |-> Arr(list)])
Equals(argument, v) == Obj([argument |-> argument, equals |-> v])

RuleLists ==
  {<<Skip("ntclose", "arg1" :> v)>> : v \in Sixteens \cup NoValues}
  \cup {
    <<Skip("NtClose", "first" :> Num(1) @@ "arg2" :> Hex(<<1, 0>>))>>,
    <<Skip("NtClose", "arg1" :> Num(1)), Skip("NtClose", "arg1" :> Num(16))>>,
    <<Only("ntclose", "arg1" :> Num(1)), Only("NtClose", "arg4" :> Num(16)),
      Skip("NtClose", "arg2" :> Num(1))>>,
    <<Only("NtClose", "arg1" :> Num(1) @@ "first" :> Num(16))>>,
    <<Only(" NtOpenProcess", "third_argument" :> Num(1)), Skip("NtMissing", "arg1" :> Num(1))>>,
    <<Verbose("ntclose", "arguments_only", <<Equals(Num(2), Num(16)), Equals(Str("arg1"), Num(1))>>),
      Verbose(" NtOpenProcess", "arguments_except", <<Equals(Num(4), Dec(<<1>>))>>)>>,
    <<Verbose("NtClose", "arguments_only", <<Equals(Num(5), Num(1))>>)>>,
    <<Verbose("NtClose", "arguments_all", <<Equals(Num(1), Num(1))>>)>>,
    <<Verbose("NtClose", "arguments_only", << >>)>>,
    <<Skip("NtClose", << >>)>>, <<Skip("NtClose", "arg0" :> Num(1))>>,
    <<Obj([op |-> Str("NtClose"), skip |-> Obj("arg1" :> Num(1)), only |-> Obj("arg1" :> Num(1))])>>,
    <<Num(1)>>,
    <<Skip("NtClose", "arg1" :> Num(1)), Skip("NtClose", "arg2" :> Num(1)),
      Skip("NtClose", "arg3" :> Num(1)), Skip("NtClose", "arg4" :> Num(1))>> }

FilterFiles ==
  {Obj([rules |-> Arr(list)]) : list \in RuleLists}
  \cup {Num(1), Obj(<< >>), Obj([include |-> Str("NtClose")]),
        Obj([include |-> Arr(<<Str("ntclose")>>), exclude |-> Arr(<<Str("NtClose")>>)]),
        Obj([include |-> Arr(<<Str("ntclose")>>), exclude |-> Arr(<<Str(" NtOpenProcess")>>),
             rules |-> Arr(<<Only("NtClose", "arg3" :> Num(16))>>)]),
        Obj([exclude |-> Arr(<<Str("NtMissing")>>)])}
-----------------------------------------------------------------------------
(* Texts of three tokens with room for two targets; names of every length  *)
(* around those that matter, in fields of 10 of which the kernel keeps 8   *)
(* (16 and 14 in the code).                                                *)

Name(n, last) == [i \in 1..n |-> IF i = n THEN last ELSE "a"]
Suffix == <<".", "e", "x", "e">>

Tokens(lengths) ==
  {[type |-> "wildcard", name |-> << >>]}
  \cup [type : {"number"}, name : {<< >>}, pid : {0, 2}]
  \cup [type : {"name"}, name : {Name(n, "b") : n \in lengths} \cup {Suffix}
                                \cup {Name(n, "b") \o Suffix : n \in lengths}
                                \cup {Name(6, "b") \o <<".", "e">>}]

TextsUpTo(n, lengths) == UNION {[1..k -> Tokens(lengths)] : k \in 0..n}

MCTexts == TextsUpTo(3, {7, 10}) \cup TextsUpTo(1, 1..10)

MCProcesses ==
  [pid : {2, 3},
   file : {Name(n, c) \o s : n \in 1..10, c \in {"b", "c"}, s \in {Suffix, << >>, <<".">>}}]
-----------------------------------------------------------------------------
(* Histories of two events with every special character in names and       *)
(* details; a row fills the buffer.                                        *)

Event(pid, name, sequence, valid) ==
  [pid |-> pid, name |-> name, operation |-> "NtOpen", sequence |-> sequence, valid |-> valid]

MCHistories ==
  {<<Event("p1", <<"b">>, 1, TRUE), Event("p2", n, s, v)>> :
     n \in {<< >>, <<"backslash", "quote">>}, s \in {2, 3}, v \in BOOLEAN}

MCRows == "p1" :> <<"a", "comma", "quote">>
MCDetails == 1 :> <<"quote", "backslash", "comma">> @@ 2 :> <<"a", "newline">>
=============================================================================
