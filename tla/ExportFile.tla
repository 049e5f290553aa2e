----------------------------- MODULE ExportFile -----------------------------
(***************************************************************************)
(* The export of the view: rows made of the events shown, written through  *)
(* a BufWriter to a disk that may refuse, and read back by a reader of the *)
(* format.  The window waits for the export to end.                        *)
(*                                                                         *)
(* A text is a sequence of characters, most of which stand for words.      *)
(***************************************************************************)
EXTENDS Integers, Sequences, FiniteSets, SequencesExt

CONSTANTS
  Histories,       (* sequences of [pid, name, operation, sequence, valid]   *)
  Rows,            (* names of the processes that have a row: [pid -> text]  *)
  Details,         (* what the driver decoded: [sequence -> text]            *)
  Controls,        (* characters below 0x20, Newline among them              *)
  BufferSize       (* characters that a BufWriter holds                      *)

Newline == "newline"
Quote   == "quote"
Escape  == "backslash"
Comma   == "comma"

IsText(t) == t \in Seq({t[i] : i \in DOMAIN t})

ExportAssumption ==
  /\ Newline \in Controls /\ BufferSize \in Nat
  /\ \A list \in Histories : \A i \in DOMAIN list :
       IsText(list[i].name) /\ list[i].pid \notin {Quote, Escape, Comma, Newline}
  /\ \A pid \in DOMAIN Rows : IsText(Rows[pid])
  /\ \A number \in DOMAIN Details : IsText(Details[number])

VARIABLES
  events, visible, format,   (* chosen at the start                          *)
  file, buffer,
  next,                      (* the position in visible                      *)
  status, full               (* what the user reads; history: a write failed *)

chosen == <<events, visible, format>>
vars == <<chosen, file, buffer, next, status, full>>

Formats == {"csv", "jsonl", "txt"}
-----------------------------------------------------------------------------
(* What the view shows of an event.                                        *)

event_process_name(e) ==
  IF e.pid \in DOMAIN Rows THEN Rows[e.pid]
  ELSE IF e.name # << >> THEN e.name ELSE <<"Unknown">>

display_arguments(e) == IF e.valid THEN <<"raw">> ELSE <<"unavailable">>

argument_text(e) ==
  IF e.sequence \in DOMAIN Details THEN Details[e.sequence] ELSE display_arguments(e)

(* export_row looks the same up in tables of its own.                      *)
Known(table, key, otherwise) == IF key \in DOMAIN table THEN table[key] ELSE otherwise

process_name(e) == Known(Rows, e.pid, IF e.name = << >> THEN <<"Unknown">> ELSE e.name)

ExportRow(e) ==
  <<<<e.pid>>, process_name(e), <<e.operation>>, Known(Details, e.sequence, display_arguments(e))>>

(* Every c of the text is preceded by what it has in "by".                 *)
Escaped(text, by) ==
  FlattenSeq([i \in DOMAIN text |->
    IF text[i] \in DOMAIN by THEN <<by[text[i]], text[i]>> ELSE <<text[i]>>])

(* Mutant of csv_escape: quotes are escaped as in JSON.                    *)
csv_backslash(text) == Escaped(text, [c \in {Quote} |-> Escape])

csv_escape(text)  == Escaped(text, [c \in {Quote} |-> Quote])
json_escape(text) == Escaped(text, [c \in {Quote, Escape} |-> Escape])

Quoted(text) == <<Quote>> \o text \o <<Quote>>

Line(e) ==
  LET row == ExportRow(e)
      escape(text) == Quoted(IF format = "csv" THEN csv_escape(text) ELSE json_escape(text))
  IN IF format = "txt" THEN row[2] \o row[1] \o row[3] \o row[4] \o <<Newline>>
     ELSE row[1] \o <<Comma>> \o escape(row[2]) \o <<Comma>> \o escape(row[3]) \o <<Comma>>
          \o escape(row[4]) \o <<Newline>>
-----------------------------------------------------------------------------
(* export_csv, export_jsonl, export_txt                                    *)

Header == IF format = "csv" THEN <<"header", Newline>> ELSE << >>

(* File::create may fail.                                                  *)
Create ==
  /\ next = 0
  /\ \/ status = "" /\ next' = 1 /\ buffer' = Header /\ UNCHANGED status
     \/ status = "" /\ status' = "failed" /\ UNCHANGED <<next, buffer>>
  /\ UNCHANGED <<chosen, file, full>>

(* Mutant of Write: what was flushed stays in the buffer.                  *)
WriteTwice(all) ==
  \E n \in 0..Len(all) :
    /\ Len(all) - n <= BufferSize /\ (Len(all) <= BufferSize => n = 0)
    /\ file' = file \o SubSeq(all, 1, n) /\ buffer' = all

(* The buffer is flushed when it cannot take more: some part of the data   *)
(* goes to the file.                                                       *)
Write(all) ==
  \E n \in 0..Len(all) :
    /\ Len(all) - n <= BufferSize /\ (Len(all) <= BufferSize => n = 0)
    /\ file' = file \o SubSeq(all, 1, n)
    /\ buffer' = SubSeq(all, n + 1, Len(all))

WriteRow ==
  /\ next \in DOMAIN visible /\ status = ""
  /\ Write(buffer \o Line(events[visible[next]]))
  /\ next' = next + 1
  /\ UNCHANGED <<chosen, status, full>>

(* A flush that fails ends the export; the drop of the writer tries again. *)
WriteFails ==
  /\ next \in DOMAIN visible /\ status = ""
  /\ LET all == buffer \o Line(events[visible[next]]) IN
       /\ Len(all) > BufferSize
       /\ \E n \in 0..Len(all) - 1 : file' = file \o SubSeq(all, 1, n)
  /\ status' = "failed" /\ full' = TRUE /\ buffer' = << >>
  /\ UNCHANGED <<chosen, next>>

(* Ok(()), and then the writer is dropped: its last flush tells nobody of  *)
(* an error.                                                               *)
Finish ==
  /\ next = Len(visible) + 1 /\ status = ""
  /\ status' = "saved"
  /\ \E n \in 0..Len(buffer) :
       file' = file \o SubSeq(buffer, 1, n) /\ full' = (n < Len(buffer))
  /\ buffer' = << >>
  /\ UNCHANGED <<chosen, next>>

Init ==
  /\ events \in Histories /\ format \in Formats
  /\ visible \in {s \in UNION {[1..n -> DOMAIN events] : n \in 0..Len(events)} :
                   \A i, j \in DOMAIN s : i < j => s[i] < s[j]}
  /\ file = << >> /\ buffer = << >> /\ next = 0 /\ status = "" /\ full = FALSE

Next == Create \/ WriteRow \/ WriteFails \/ Finish

Spec == Init /\ [][Next]_vars
-----------------------------------------------------------------------------
Shown(i) ==
  LET e == events[visible[i]] IN
  <<<<e.pid>>, event_process_name(e), <<e.operation>>, argument_text(e)>>

(* A reader of CSV: fields are split at commas, records at line ends, but  *)
(* not inside quotes, where two quotes are one.                            *)
CsvRead(r, c) ==
  IF r.at = "quoted"
  THEN IF c = Quote THEN [r EXCEPT !.at = "quote"] ELSE [r EXCEPT !.field = Append(@, c)]
  ELSE CASE c = Quote ->
              [r EXCEPT !.at = "quoted", !.field = IF r.at = "quote" THEN Append(@, c) ELSE @]
         [] c = Comma -> [r EXCEPT !.at = "plain", !.record = Append(@, r.field), !.field = << >>]
         [] c = Newline -> [at |-> "plain", field |-> << >>, record |-> << >>,
                            records |-> Append(r.records, Append(r.record, r.field))]
         [] OTHER -> [r EXCEPT !.field = Append(@, c)]

(* A reader of JSON lines, of whose objects only the values are kept:      *)
(* inside a string a backslash takes the next character, and no control    *)
(* character may stand as it is.                                           *)
JsonRead(r, c) ==
  CASE r.at = "escaped" -> [r EXCEPT !.at = "quoted", !.field = Append(@, c)]
    [] r.at = "quoted" ->
         IF c = Escape THEN [r EXCEPT !.at = "escaped"]
         ELSE IF c = Quote THEN [r EXCEPT !.at = "plain"]
         ELSE IF c \in Controls THEN [r EXCEPT !.at = "invalid"]
         ELSE [r EXCEPT !.field = Append(@, c)]
    [] r.at = "invalid" -> r
    [] OTHER -> IF c = Escape THEN [r EXCEPT !.field = Append(@, c)] ELSE CsvRead(r, c)

ReadNext(r, c) == IF format = "csv" THEN CsvRead(r, c) ELSE JsonRead(r, c)

Nothing == [at |-> "plain", field |-> << >>, record |-> << >>, records |-> << >>]

Records ==
  LET after[i \in 0..Len(file)] ==
        IF i = 0 THEN Nothing ELSE ReadNext(after[i - 1], file[i])
  IN after[Len(file)].records

Written == status = "saved" /\ ~full

(* The file grows by whole characters of the right rows in the order of    *)
(* the view, whenever the buffer is flushed and wherever a write fails.    *)
FileIsPrefix ==
  IsPrefix(file, Header \o FlattenSeq([i \in DOMAIN visible |-> Line(events[visible[i]])]))

(* "CSV, JSONL, and TXT export": a CSV file that was written to the end    *)
(* says of each event in the view what the view shows, whatever quotes,    *)
(* commas and line ends a path has.                                        *)
CsvSaysWhatIsShown ==
  format = "csv" /\ Written =>
    Records = <<<<<<"header">>>>>> \o [i \in DOMAIN visible |-> Shown(i)]

(* The same of JSONL, unless the view shows a control character: those     *)
(* json_escape leaves as they are.                                         *)
Printable ==
  \A i \in DOMAIN visible : \A k \in DOMAIN Shown(i) : ToSet(Shown(i)[k]) \cap Controls = {}

JsonSaysWhatIsShown ==
  format = "jsonl" /\ Written /\ Printable =>
    Records = [i \in DOMAIN visible |-> Shown(i)]

(* "saved {} rows to {}": what the status says is in the file.             *)
SavedMeansWritten == status = "saved" => ~full
=============================================================================
