------------------------ MODULE ProcessScannerProofs ------------------------
(***************************************************************************)
(* Proofs about ProcessScanner, for any processes, programs and limits:    *)
(* rows that the history speaks of stay, and a refresh that was completed  *)
(* leaves no process without the icon it could have.                       *)
(***************************************************************************)
EXTENDS ProcessScanner, SequenceTheorems, TLAPS

Process == [pid : Pids, program : Programs]

Row == [pid : Pids, program : Programs, running : BOOLEAN, icon : BOOLEAN]

Update ==
  [kind : {"rows"}, set : SUBSET Process] \cup [kind : {"default", "complete"}]
  \cup [kind : {"icon"}, program : Programs]

ScannerType ==
  /\ alive \subseteq Process /\ snapshot \subseteq Process /\ processes \subseteq Row
  /\ updates \in Seq(Update)
  /\ process_refresh_pending \in BOOLEAN
-----------------------------------------------------------------------------
(* Rows.                                                                   *)

(* Icons that arrive change nothing else of a row.                         *)
LEMMA IconsOnly ==
  ASSUME NEW table \in SUBSET Row, NEW from, NEW to
  PROVE  /\ WithIcons(table, from, to) \in SUBSET Row
         /\ PidsOf(WithIcons(table, from, to)) = PidsOf(table)
         /\ \A s \in WithIcons(table, from, to) : \E r \in table :
              /\ s.program = r.program /\ s.running = r.running
              /\ s.icon <=> r.icon \/ IconIn(r.program, from, to)
<1> DEFINE new(r) == [r EXCEPT !.icon = @ \/ IconIn(r.program, from, to)]
<1>1. ASSUME NEW r \in Row
      PROVE  /\ new(r) \in Row /\ new(r).pid = r.pid /\ new(r).program = r.program
             /\ new(r).running = r.running
             /\ new(r).icon <=> r.icon \/ IconIn(r.program, from, to)
  <2>1. IconIn(r.program, from, to) \in BOOLEAN
    BY DEF IconIn
  <2> QED
    BY <2>1 DEF Row
<1>2. WithIcons(table, from, to) = {new(r) : r \in table}
  BY DEF WithIcons
<1> HIDE DEF new
<1> QED
  BY <1>1, <1>2 DEF PidsOf

LEMMA RowsReplaced ==
  ASSUME NEW table \in SUBSET Row, NEW set \in SUBSET Process
  PROVE  /\ NewRows(table, set) \in SUBSET Row
         /\ PidsOf(table) \cap PidsOf(EventsIn(events)) \subseteq PidsOf(NewRows(table, set))
         /\ \A s \in NewRows(table, set) : s.running =>
              /\ s.program \in {p.program : p \in set}
              /\ s.icon <=> \E r \in table : r.icon /\ r.program = s.program
<1> DEFINE icon(p) == \E r \in table : r.icon /\ r.program = p.program
           new(p) == [pid |-> p.pid, program |-> p.program, running |-> TRUE,
                      icon |-> icon(p)]
           kept(r) == [r EXCEPT !.running = FALSE]
           held == {o \in {r \in table : r.pid \notin PidsOf(set)} :
                      o.pid \in PidsOf(EventsIn(events))}
<1>1. NewRows(table, set) = {new(p) : p \in set} \cup {kept(r) : r \in held}
  BY DEF NewRows
<1>2. ASSUME NEW p \in Process
      PROVE  /\ new(p) \in Row /\ new(p).pid = p.pid /\ new(p).program = p.program
             /\ new(p).icon <=> icon(p)
  BY DEF Process, Row
<1>3. ASSUME NEW r \in Row
      PROVE  kept(r) \in Row /\ kept(r).pid = r.pid /\ kept(r).running = FALSE
  BY DEF Row
<1>4. \A p \in set : icon(p) <=> \E r \in table : r.icon /\ r.program = new(p).program
  BY <1>2
<1>5. held \in SUBSET table
  OBVIOUS
<1>6. PidsOf(table) \cap PidsOf(EventsIn(events)) \subseteq PidsOf(set) \cup PidsOf(held)
  BY DEF PidsOf
<1> HIDE DEF new, kept, held, icon
<1>7. PidsOf(set) \subseteq PidsOf(NewRows(table, set))
  BY <1>1, <1>2 DEF PidsOf
<1>8. PidsOf(held) \subseteq PidsOf(NewRows(table, set))
  BY <1>1, <1>3, <1>5 DEF PidsOf
<1>9. NewRows(table, set) \in SUBSET Row
  <2>1. \A p \in set : new(p) \in Row
    BY <1>2
  <2>2. \A r \in held : kept(r) \in Row
    BY <1>3, <1>5
  <2> QED
    BY <1>1, <2>1, <2>2
<1>10. ASSUME NEW s \in NewRows(table, set), s.running
       PROVE  /\ s.program \in {p.program : p \in set}
              /\ s.icon <=> \E r \in table : r.icon /\ r.program = s.program
  <2>1. PICK p \in set : s = new(p)
    BY <1>1, <1>3, <1>5, <1>10
  <2> QED
    BY <1>2, <1>4, <2>1
<1> QED
  BY <1>6, <1>7, <1>8, <1>9, <1>10

(* What a drain makes of the rows.                                         *)
LEMMA UpdatedType ==
  ASSUME ScannerType
  PROVE  /\ Updated(processes) \in SUBSET Row
         /\ PidsOf(processes) \cap PidsOf(EventsIn(events)) \subseteq PidsOf(Updated(processes))
<1>1. CASE "rows" \notin Kinds
  BY <1>1, IconsOnly DEF Updated, ScannerType
<1>2. CASE "rows" \in Kinds
  <2> DEFINE place == CHOOSE i \in DOMAIN updates : updates[i].kind = "rows"
             before == WithIcons(processes, 1, place - 1)
             replaced == NewRows(before, updates[place].set)
  <2>1. place \in DOMAIN updates /\ updates[place].kind = "rows"
    BY <1>2 DEF Kinds
  <2>2. Updated(processes) = WithIcons(replaced, place + 1, Len(updates))
    BY <1>2 DEF Updated
  <2> HIDE DEF place
  <2>3. updates[place].set \in SUBSET Process
    <3>1. updates[place] \in Update
      BY <2>1 DEF ScannerType
    <3> QED
      BY <2>1, <3>1 DEF Update
  <2>4. before \in SUBSET Row /\ PidsOf(before) = PidsOf(processes)
    BY IconsOnly DEF ScannerType
  <2> HIDE DEF before
  <2>5. /\ replaced \in SUBSET Row
        /\ PidsOf(before) \cap PidsOf(EventsIn(events)) \subseteq PidsOf(replaced)
    BY <2>3, <2>4, RowsReplaced
  <2> HIDE DEF replaced
  <2>6. \A from, to :
          /\ WithIcons(replaced, from, to) \in SUBSET Row
          /\ PidsOf(WithIcons(replaced, from, to)) = PidsOf(replaced)
    BY <2>5, IconsOnly
  <2> QED
    BY <2>2, <2>4, <2>5, <2>6
<1> QED
  BY <1>1, <1>2
-----------------------------------------------------------------------------
(* A refresh.                                                              *)

Found == {p.program : p \in snapshot}

HasIcon(program) == \E r \in processes : r.icon /\ r.program = program

IconSent(program) == IconIn(program, 1, Len(updates))

(* The programs the thread will not come to, and whose icon must be there. *)
Skipped == seen \cap WithIcon

(* The rows of the snapshot come first, or have been taken already.        *)
RowsFirst ==
  \A i \in DOMAIN updates :
    updates[i].kind = "rows" => i = 1 /\ updates[i].set = snapshot

(* While the rows are on their way, an icon the thread skips is in the old *)
(* rows or on its way as well.                                             *)
IconsOnTheWay ==
  \A program \in Skipped : HasIcon(program) \/ IconSent(program)

(* From then on it is in the new rows, or on its way.                      *)
IconsArriving ==
  \A r \in processes : r.running =>
    /\ r.program \in Found
    /\ r.program \in Skipped => r.icon \/ IconSent(r.program)

RefreshInv ==
  /\ scanner \in {"scan", "icons", "ended"}
  /\ ~process_refresh_pending => scanner = "ended" /\ updates = << >>
  /\ scanner = "scan" => updates = << >> /\ IconsOnTheWay
  /\ RowsFirst
  /\ "complete" \in Kinds => scanner = "ended" /\ Found \subseteq seen
  /\ scanner # "scan" /\ process_refresh_pending =>
       IF "rows" \in Kinds THEN IconsOnTheWay ELSE IconsArriving

ScannerInv == ScannerType /\ RefreshInv /\ IconsAreShown

(* What is appended to the updates is behind the others.                   *)
LEMMA OneMoreUpdate ==
  ASSUME ScannerType, NEW update \in Update, updates' = Append(updates, update)
  PROVE  /\ updates' \in Seq(Update)
         /\ Kinds' = Kinds \cup {update.kind}
         /\ \A program : IconSent(program)' <=>
              IconSent(program) \/ (update.kind = "icon" /\ update.program = program)
         /\ update.kind # "rows" /\ snapshot' = snapshot /\ RowsFirst => RowsFirst'
<1>1. /\ updates' \in Seq(Update) /\ Len(updates') = Len(updates) + 1
      /\ Len(updates) \in Nat /\ updates'[Len(updates) + 1] = update
      /\ \A i \in 1..Len(updates) : updates'[i] = updates[i]
      /\ DOMAIN updates = 1..Len(updates) /\ DOMAIN updates' = 1..Len(updates')
  BY AppendProperties, LenProperties DEF ScannerType
<1>2. \A i \in 1..Len(updates') : i \in 1..Len(updates) \/ i = Len(updates) + 1
  BY <1>1
<1>3. 1..Len(updates) \subseteq 1..Len(updates') /\ Len(updates) + 1 \in 1..Len(updates')
  BY <1>1
<1>4. Kinds' = Kinds \cup {update.kind}
  BY <1>1, <1>2, <1>3 DEF Kinds
<1>5. ASSUME NEW program
      PROVE  IconSent(program)' <=>
               IconSent(program) \/ (update.kind = "icon" /\ update.program = program)
  BY <1>1, <1>2, <1>3 DEF IconSent, IconIn
<1>6. ASSUME update.kind # "rows", snapshot' = snapshot, RowsFirst PROVE RowsFirst'
  BY <1>1, <1>2, <1>6 DEF RowsFirst
<1> QED
  BY <1>1, <1>4, <1>5, <1>6

(* While nothing is on its way, what is to be there is there.              *)
LEMMA NothingOnTheWay ==
  ASSUME updates = << >>
  PROVE  \A program : ~IconSent(program)
BY DEF IconSent, IconIn

LEMMA OtherKeepsScanner ==
  ASSUME ScannerInv, alive' \subseteq Process,
         UNCHANGED <<thread, processes, process_refresh_pending, complete>>
  PROVE  ScannerInv'
<1>1. UNCHANGED <<scanner, snapshot, seen, updates, processes, process_refresh_pending, complete>>
  BY DEF thread
<1>2. /\ Kinds' = Kinds /\ RowsFirst' = RowsFirst /\ Found' = Found
      /\ IconsOnTheWay' = IconsOnTheWay /\ IconsArriving' = IconsArriving
  BY <1>1 DEF Kinds, RowsFirst, Found, IconsOnTheWay, IconsArriving, Skipped, HasIcon,
              IconSent, IconIn
<1>3. ScannerType'
  BY <1>1 DEF ScannerInv, ScannerType
<1>4. RefreshInv'
  BY <1>1, <1>2 DEF ScannerInv, RefreshInv
<1>5. IconsAreShown'
  BY <1>1 DEF ScannerInv, IconsAreShown
<1> QED
  BY <1>3, <1>4, <1>5 DEF ScannerInv

LEMMA ThreadKeepsScanner ==
  ASSUME ScannerInv, Thread
  PROVE  ScannerInv'
<1> USE DEF world, refresh, rows, view
<1>0. ScannerType /\ RefreshInv
  BY DEF ScannerInv
<1>1. /\ UNCHANGED <<alive, processes, process_refresh_pending, complete>>
      /\ process_refresh_pending
  <2>1. /\ UNCHANGED <<alive, processes, process_refresh_pending, complete>>
        /\ scanner \in {"scan", "icons"}
    BY DEF Thread, Scan, LoadIcon, Complete, Die, Scanner
  <2> QED
    BY <1>0, <2>1 DEF RefreshInv
<1>2. IconsAreShown'
  BY <1>1 DEF IconsAreShown
<1>3. \A program : HasIcon(program)' <=> HasIcon(program)
  BY <1>1 DEF HasIcon
<1>4. CASE Scan
  <2> DEFINE first == [kind |-> "rows", set |-> alive]
             second == [kind |-> "default"]
             listed == Append(updates, first)
  <2>1. /\ scanner = "scan" /\ scanner' = "icons" /\ snapshot' = alive /\ seen' = seen
        /\ updates' = listed \/ updates' = Append(listed, second)
    BY <1>4 DEF Scan, Scanner
  <2>2. updates = << >> /\ IconsOnTheWay
    BY <1>0, <2>1 DEF RefreshInv
  <2>3. first \in Update /\ second \in Update
    BY <1>0 DEF Update, ScannerType
  <2>4. /\ listed \in Seq(Update) /\ listed[1] = first
        /\ Len(listed) = 1 /\ DOMAIN listed = 1..Len(listed)
    <3>1. updates \in Seq(Update) /\ Len(updates) = 0
      BY <1>0, <2>2 DEF ScannerType
    <3> HIDE DEF first
    <3> QED
      BY <2>3, <3>1, AppendProperties, LenProperties
  <2> HIDE DEF listed
  <2>5. updates' \in Seq(Update) /\ updates'[1] = first /\ 1 \in DOMAIN updates'
    <3> HIDE DEF first, second
    <3>1. CASE updates' = listed
      BY <2>4, <3>1
    <3>2. CASE updates' = Append(listed, second)
      BY <2>3, <2>4, <3>2, AppendProperties
    <3> QED
      BY <2>1, <3>1, <3>2
  <2>6. \A i \in DOMAIN updates' : i # 1 => updates'[i] = second
    <3> HIDE DEF first, second
    <3>1. CASE updates' = listed
      BY <2>4, <3>1
    <3>2. CASE updates' = Append(listed, second)
      <4>1. /\ Append(listed, second) \in Seq(Update)
            /\ Len(Append(listed, second)) = 2 /\ Append(listed, second)[2] = second
        BY <2>3, <2>4, AppendProperties, SMTT(40)
      <4>2. DOMAIN Append(listed, second) = 1..2
        BY <4>1, LenProperties
      <4> QED
        BY <3>2, <4>1, <4>2
    <3> QED
      BY <2>1, <3>1, <3>2
  <2>7. ScannerType'
    BY <1>0, <1>1, <2>1, <2>5 DEF ScannerType
  <2>8. RowsFirst'
    BY <2>1, <2>5, <2>6 DEF RowsFirst
  <2>9. "rows" \in Kinds' /\ "complete" \notin Kinds'
    BY <2>5, <2>6 DEF Kinds
  <2>10. IconsOnTheWay'
    BY <1>3, <2>1, <2>2, NothingOnTheWay DEF IconsOnTheWay, Skipped
  <2>11. RefreshInv'
    BY <1>1, <2>1, <2>8, <2>9, <2>10 DEF RefreshInv
  <2> QED
    BY <1>2, <2>7, <2>11 DEF ScannerInv
<1>5. ASSUME NEW program \in Programs, LoadIcon(program)
      PROVE  ScannerInv'
  <2>1. /\ scanner = "icons" /\ UNCHANGED <<scanner, snapshot>>
        /\ seen' = seen \cup {program} /\ program \in Found \ seen
        /\ updates' = IF program \in WithIcon
                      THEN Append(updates, [kind |-> "icon", program |-> program])
                      ELSE updates
    BY <1>5 DEF LoadIcon, Scanner, Found
  <2>2. [kind |-> "icon", program |-> program] \in Update
    BY DEF Update
  <2>3. /\ updates' \in Seq(Update) /\ RowsFirst'
        /\ "rows" \in Kinds' <=> "rows" \in Kinds
        /\ "complete" \in Kinds' <=> "complete" \in Kinds
        /\ \A p : IconSent(p)' <=> IconSent(p) \/ (p = program /\ program \in WithIcon)
    <3>1. CASE program \in WithIcon
      BY <1>0, <2>1, <2>2, <3>1, OneMoreUpdate DEF RefreshInv
    <3>2. CASE program \notin WithIcon
      BY <1>0, <2>1, <3>2
         DEF RefreshInv, ScannerType, RowsFirst, Kinds, IconSent, IconIn
    <3> QED
      BY <3>1, <3>2
  <2>4. Skipped' \subseteq Skipped \cup ({program} \cap WithIcon) /\ Found' = Found
    BY <2>1 DEF Skipped, Found
  <2>5. IconsOnTheWay => IconsOnTheWay'
    BY <1>3, <2>3, <2>4 DEF IconsOnTheWay
  <2>6. IconsArriving => IconsArriving'
    BY <1>1, <2>3, <2>4 DEF IconsArriving
  <2>7. ScannerType'
    BY <1>0, <1>1, <2>1, <2>3 DEF ScannerType
  <2>8. RefreshInv'
    BY <1>0, <1>1, <2>1, <2>3, <2>5, <2>6 DEF RefreshInv
  <2> QED
    BY <1>2, <2>7, <2>8 DEF ScannerInv
<1>6. CASE Complete
  <2>1. /\ scanner = "icons" /\ scanner' = "ended" /\ UNCHANGED <<snapshot, seen>>
        /\ Found \subseteq seen /\ updates' = Append(updates, [kind |-> "complete"])
    BY <1>6 DEF Complete, Scanner, Found
  <2>2. [kind |-> "complete"] \in Update
    BY DEF Update
  <2>3. /\ updates' \in Seq(Update) /\ RowsFirst'
        /\ "rows" \in Kinds' <=> "rows" \in Kinds
        /\ \A p : IconSent(p)' <=> IconSent(p)
    BY <1>0, <2>1, <2>2, OneMoreUpdate DEF RefreshInv
  <2>4. Skipped' = Skipped /\ Found' = Found
    BY <2>1 DEF Skipped, Found
  <2>5. IconsOnTheWay => IconsOnTheWay'
    BY <1>3, <2>3, <2>4 DEF IconsOnTheWay
  <2>6. IconsArriving => IconsArriving'
    BY <1>1, <2>3, <2>4 DEF IconsArriving
  <2>7. ScannerType'
    BY <1>0, <1>1, <2>1, <2>3 DEF ScannerType
  <2>8. RefreshInv'
    BY <1>0, <1>1, <2>1, <2>3, <2>4, <2>5, <2>6 DEF RefreshInv
  <2> QED
    BY <1>2, <2>7, <2>8 DEF ScannerInv
<1>7. CASE Die
  <2>1. /\ scanner = "icons" /\ scanner' = "ended" /\ UNCHANGED <<snapshot, seen, updates>>
    BY <1>7 DEF Die, Scanner
  <2>2. ScannerType'
    BY <1>0, <1>1, <2>1 DEF ScannerType
  <2>3. /\ Kinds' = Kinds /\ RowsFirst' = RowsFirst /\ Found' = Found
        /\ IconsOnTheWay' = IconsOnTheWay /\ IconsArriving' = IconsArriving
    BY <1>1, <2>1 DEF Kinds, RowsFirst, Found, IconsOnTheWay, IconsArriving, Skipped,
                      HasIcon, IconSent, IconIn
  <2>4. RefreshInv'
    BY <1>0, <1>1, <2>1, <2>3 DEF RefreshInv
  <2> QED
    BY <1>2, <2>2, <2>4 DEF ScannerInv
<1> QED
  BY <1>4, <1>5, <1>6, <1>7 DEF Thread

LEMMA NoIcons ==
  ASSUME NEW table \in SUBSET Row
  PROVE  WithIcons(table, 1, 0) = table
<1>1. ASSUME NEW r \in Row
      PROVE  [r EXCEPT !.icon = @ \/ IconIn(r.program, 1, 0)] = r
  <2>1. ~IconIn(r.program, 1, 0)
    BY DEF IconIn
  <2>2. r.icon \in BOOLEAN
    BY DEF Row
  <2>3. (r.icon \/ IconIn(r.program, 1, 0)) = r.icon
    BY <2>1, <2>2
  <2> QED
    BY <2>3 DEF Row
<1> QED
  BY <1>1 DEF WithIcons

(* After a drain that found the rows, or came after one that did, a        *)
(* program of the snapshot is one the thread has still to come to, or its  *)
(* icon is there.                                                          *)
LEMMA DrainShows ==
  ASSUME ScannerType, RowsFirst,
         IF "rows" \in Kinds THEN IconsOnTheWay ELSE IconsArriving
  PROVE  \A s \in Updated(processes) : s.running =>
           s.program \in Found /\ (s.program \in Skipped => s.icon)
<1>0. processes \in SUBSET Row /\ snapshot \in SUBSET Process /\ Len(updates) \in Nat
      /\ DOMAIN updates = 1..Len(updates)
  BY LenProperties DEF ScannerType
<1>1. CASE "rows" \notin Kinds
  <2>1. Updated(processes) = WithIcons(processes, 1, Len(updates))
    BY <1>1 DEF Updated
  <2> SUFFICES ASSUME NEW s \in WithIcons(processes, 1, Len(updates)), s.running
               PROVE  s.program \in Found /\ (s.program \in Skipped => s.icon)
    BY <2>1
  <2>2. PICK r \in processes :
          /\ s.program = r.program /\ s.running = r.running
          /\ s.icon <=> r.icon \/ IconIn(r.program, 1, Len(updates))
    <3>1. \A from, to : \A new \in WithIcons(processes, from, to) : \E r \in processes :
            /\ new.program = r.program /\ new.running = r.running
            /\ new.icon <=> r.icon \/ IconIn(r.program, from, to)
      BY <1>0, IconsOnly
    <3> QED
      BY <3>1
  <2> QED
    BY <1>1, <2>2 DEF IconsArriving, IconSent
<1>2. CASE "rows" \in Kinds
  <2> DEFINE place == CHOOSE i \in DOMAIN updates : updates[i].kind = "rows"
             replaced == NewRows(processes, snapshot)
  <2>1. place \in DOMAIN updates /\ updates[place].kind = "rows"
    BY <1>2 DEF Kinds
  <2>2. place = 1 /\ updates[place].set = snapshot
    BY <2>1 DEF RowsFirst
  <2>3. Updated(processes) =
          WithIcons(NewRows(WithIcons(processes, 1, place - 1), updates[place].set),
                    place + 1, Len(updates))
    BY <1>2 DEF Updated
  <2> HIDE DEF place
  <2>4. place - 1 = 0 /\ place + 1 = 2
    BY <2>2
  <2>5. Updated(processes) = WithIcons(replaced, 2, Len(updates))
    BY <1>0, <2>2, <2>3, <2>4, NoIcons
  <2>6. /\ replaced \in SUBSET Row
        /\ \A r \in replaced : r.running =>
             r.program \in Found /\ (r.icon <=> HasIcon(r.program))
    BY <1>0, RowsReplaced DEF Found, HasIcon
  <2> HIDE DEF replaced
  <2> SUFFICES ASSUME NEW s \in WithIcons(replaced, 2, Len(updates)), s.running
               PROVE  s.program \in Found /\ (s.program \in Skipped => s.icon)
    BY <2>5
  <2>7. PICK r \in replaced :
          /\ s.program = r.program /\ s.running = r.running
          /\ s.icon <=> r.icon \/ IconIn(r.program, 2, Len(updates))
    <3>1. \A from, to : \A new \in WithIcons(replaced, from, to) : \E r \in replaced :
            /\ new.program = r.program /\ new.running = r.running
            /\ new.icon <=> r.icon \/ IconIn(r.program, from, to)
      BY <2>6, IconsOnly
    <3> QED
      BY <3>1
  <2>8. ASSUME IconSent(r.program) PROVE IconIn(r.program, 2, Len(updates))
    <3>1. PICK i \in 1..Len(updates) :
            updates[i].kind = "icon" /\ updates[i].program = r.program
      BY <2>8 DEF IconSent, IconIn
    <3>2. i # 1
      BY <2>1, <2>2, <3>1
    <3>3. i \in 2..Len(updates)
      BY <1>0, <3>2
    <3> QED
      BY <3>1, <3>3 DEF IconIn
  <2> QED
    BY <1>2, <2>6, <2>7, <2>8 DEF IconsOnTheWay
<1> QED
  BY <1>1, <1>2

LEMMA DrainKeepsScanner ==
  ASSUME ScannerInv, DrainUpdates
  PROVE  ScannerInv'
<1> USE DEF world, view
<1>0. ScannerType /\ RefreshInv /\ IconsAreShown
  BY DEF ScannerInv
<1> DEFINE over == "complete" \in Kinds \/ scanner = "ended"
<1>1. /\ UNCHANGED <<alive, scanner, snapshot, seen>>
      /\ processes' = Updated(processes) /\ updates' = << >>
      /\ process_refresh_pending' = (process_refresh_pending /\ ~over)
      /\ complete' = IF process_refresh_pending THEN "complete" \in Kinds ELSE complete
  BY DEF DrainUpdates, Drain, Frame
<1>2. Kinds' = {} /\ RowsFirst' /\ Found' = Found /\ Skipped' = Skipped
  BY <1>1 DEF Kinds, RowsFirst, Found, Skipped
<1>3. ScannerType'
  <2>1. Updated(processes) \in SUBSET Row
    BY <1>0, UpdatedType
  <2>2. << >> \in Seq(Update)
    OBVIOUS
  <2>3. process_refresh_pending' \in BOOLEAN
    BY <1>0, <1>1 DEF ScannerType
  <2> QED
    BY <1>0, <1>1, <2>1, <2>2, <2>3 DEF ScannerType
<1>4. CASE updates = << >> /\ (scanner = "scan" \/ ~process_refresh_pending)
  <2>1. Kinds = {} /\ Len(updates) = 0
    BY <1>4 DEF Kinds
  <2>2. processes' = processes
    BY <1>0, <1>1, <2>1, NoIcons DEF Updated, ScannerType
  <2>3. IconsOnTheWay => IconsOnTheWay'
    BY <1>1, <1>2, <1>4, <2>2 DEF IconsOnTheWay, HasIcon, IconSent, IconIn
  <2>4. RefreshInv'
    BY <1>0, <1>1, <1>2, <1>4, <2>1, <2>3 DEF RefreshInv
  <2>5. IconsAreShown'
    BY <1>0, <1>1, <1>4, <2>1, <2>2 DEF IconsAreShown, RefreshInv
  <2> QED
    BY <1>3, <2>4, <2>5 DEF ScannerInv
<1>5. CASE scanner # "scan" /\ process_refresh_pending
  <2>1. \A s \in processes' : s.running =>
          s.program \in Found /\ (s.program \in Skipped => s.icon)
    BY <1>0, <1>1, <1>5, DrainShows DEF RefreshInv
  <2>2. IconsArriving'
    BY <1>2, <2>1 DEF IconsArriving
  <2>3. RefreshInv'
    BY <1>0, <1>1, <1>2, <1>5, <2>2 DEF RefreshInv
  <2>4. IconsAreShown'
    <3> SUFFICES ASSUME complete', ~process_refresh_pending' PROVE IconsAreShown'
      BY DEF IconsAreShown
    <3>1. Found \subseteq seen
      BY <1>0, <1>1, <1>5 DEF RefreshInv
    <3> QED
      BY <2>1, <3>1 DEF IconsAreShown, Skipped
  <2> QED
    BY <1>3, <2>3, <2>4 DEF ScannerInv
<1> QED
  BY <1>0, <1>4, <1>5 DEF RefreshInv, ScannerType

LEMMA RequestKeepsScanner ==
  ASSUME ScannerInv, RequestRefresh, UNCHANGED <<alive, processes, complete>>
  PROVE  ScannerInv'
<1> USE DEF thread
<1>0. ScannerType /\ RefreshInv /\ IconsAreShown
  BY DEF ScannerInv
<1>1. CASE UNCHANGED <<thread, process_refresh_pending>>
  BY <1>0, <1>1, OtherKeepsScanner DEF ScannerType
<1>2. CASE /\ scanner' = "scan" /\ seen' = CachedPaths /\ updates' = << >>
           /\ process_refresh_pending' = TRUE /\ UNCHANGED snapshot
  <2>1. << >> \in Seq(Update)
    OBVIOUS
  <2>2. ScannerType'
    BY <1>0, <1>2, <2>1 DEF ScannerType
  <2>3. Kinds' = {} /\ RowsFirst'
    BY <1>2 DEF Kinds, RowsFirst
  <2>4. IconsOnTheWay'
    BY <1>2 DEF IconsOnTheWay, Skipped, CachedPaths, HasIcon
  <2>5. RefreshInv'
    BY <1>2, <2>3, <2>4 DEF RefreshInv
  <2> QED
    BY <1>2, <2>2, <2>5 DEF ScannerInv, IconsAreShown
<1> QED
  BY <1>1, <1>2 DEF RequestRefresh

LEMMA WindowKeepsScanner ==
  ASSUME ScannerInv, Window
  PROVE  ScannerInv'
<1> USE DEF world, rows, refresh
<1>1. ASSUME NEW batch, DrainSource(batch) PROVE ScannerInv'
  BY <1>1, OtherKeepsScanner DEF DrainSource, Frame, ScannerInv, ScannerType
<1>2. CASE DrainUpdates
  BY <1>2, DrainKeepsScanner
<1>3. CASE Timer
  <2>1. UNCHANGED <<alive, processes, complete>>
    BY <1>3 DEF Timer, Frame
  <2>2. CASE RequestRefresh
    BY <2>1, <2>2, RequestKeepsScanner
  <2>3. CASE UNCHANGED <<thread, refresh>>
    BY <2>1, <2>3, OtherKeepsScanner DEF ScannerInv, ScannerType
  <2> QED
    BY <1>3, <2>2, <2>3 DEF Timer
<1>4. CASE NoWidget
  BY <1>4, OtherKeepsScanner DEF NoWidget, Frame, ScannerInv, ScannerType
<1>5. CASE ClickRefresh
  BY <1>5, RequestKeepsScanner DEF ClickRefresh, Widget, Frame
<1>6. ASSUME NEW program, ChangeFilter(program) PROVE ScannerInv'
  BY <1>6, OtherKeepsScanner DEF ChangeFilter, Widget, Frame, ScannerInv, ScannerType
<1>7. ASSUME NEW row, ChooseProcess(row) PROVE ScannerInv'
  BY <1>7, OtherKeepsScanner DEF ChooseProcess, Widget, Frame, ScannerInv, ScannerType
<1> QED
  BY <1>1, <1>2, <1>3, <1>4, <1>5, <1>6, <1>7 DEF Window

LEMMA ScannerInductive ==
  /\ Init => ScannerInv
  /\ ScannerInv /\ [Next]_vars => ScannerInv'
<1>1. ASSUME Init PROVE ScannerInv
  <2>1. /\ alive = {} /\ snapshot = {} /\ processes = {} /\ seen = {} /\ updates = << >>
        /\ process_refresh_pending \in BOOLEAN
        /\ scanner = IF process_refresh_pending THEN "scan" ELSE "ended"
    BY <1>1 DEF Init
  <2>2. ScannerType
    BY <2>1 DEF ScannerType
  <2>3. RefreshInv
    BY <2>1 DEF RefreshInv, RowsFirst, Kinds, IconsOnTheWay, Skipped
  <2> QED
    BY <2>1, <2>2, <2>3 DEF ScannerInv, IconsAreShown
<1>2. ASSUME ScannerInv, [Next]_vars PROVE ScannerInv'
  <2>1. CASE World
    <3>1. alive' \subseteq Process
      BY <1>2, <2>1 DEF World, StartProcess, EndProcess, ScannerInv, ScannerType, Process
    <3>2. UNCHANGED <<thread, processes, process_refresh_pending, complete>>
      BY <2>1 DEF World, StartProcess, EndProcess, rows, refresh
    <3> QED
      BY <1>2, <3>1, <3>2, OtherKeepsScanner
  <2>2. CASE Thread
    BY <1>2, <2>2, ThreadKeepsScanner
  <2>3. CASE Window
    BY <1>2, <2>3, WindowKeepsScanner
  <2>4. CASE UNCHANGED vars
    <3>1. alive' = alive /\ UNCHANGED <<thread, processes, process_refresh_pending, complete>>
      BY <2>4 DEF vars, world, rows, refresh
    <3> QED
      BY <1>2, <3>1, OtherKeepsScanner DEF ScannerInv, ScannerType
  <2> QED
    BY <1>2, <2>1, <2>2, <2>3, <2>4 DEF Next
<1> QED
  BY <1>1, <1>2

(* After a refresh that reached its end every running process shows the    *)
(* icon of its program, although the thread skipped what it was told was   *)
(* loaded, for any processes that start, end or share a program.           *)
THEOREM IconsShown == Spec => []IconsAreShown
<1>1. ScannerInv => IconsAreShown
  BY DEF ScannerInv
<1> QED
  BY <1>1, ScannerInductive, PTL DEF Spec

(* No step takes the row of a process that an event of the history needs.  *)
THEOREM RowsAreKept == Spec => RowsOfEventsStay
<1>1. ScannerInv /\ [Next]_vars
        => [PidsOf(processes) \cap PidsOf(EventsIn(events')) \subseteq PidsOf(processes')]_vars
  <2> SUFFICES ASSUME ScannerInv, Next
               PROVE  PidsOf(processes) \cap PidsOf(EventsIn(events')) \subseteq PidsOf(processes')
    OBVIOUS
  <2>1. CASE processes' = processes
    BY <2>1
  <2>2. CASE DrainUpdates
    <3>1. processes' = Updated(processes) /\ events' = events
      BY <2>2 DEF DrainUpdates, Drain, view
    <3> QED
      BY <3>1, UpdatedType DEF ScannerInv
  <2>3. processes' = processes \/ DrainUpdates
    <3> USE DEF rows
    <3>1. CASE World
      BY <3>1 DEF World, StartProcess, EndProcess
    <3>2. CASE Thread
      BY <3>2 DEF Thread, Scan, LoadIcon, Complete, Die, Scanner
    <3>3. CASE Window
      BY <3>3 DEF Window, DrainSource, Timer, NoWidget, ClickRefresh, ChangeFilter,
                  ChooseProcess, Widget
    <3> QED
      BY <3>1, <3>2, <3>3 DEF Next
  <2> QED
    BY <2>1, <2>2, <2>3
<1> QED
  BY <1>1, ScannerInductive, PTL DEF Spec, RowsOfEventsStay
=============================================================================
