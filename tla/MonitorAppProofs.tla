-------------------------- MODULE MonitorAppProofs --------------------------
(***************************************************************************)
(* Proofs about MonitorApp, for any operations, categories and limits:     *)
(* the driver is told what the window says, the table shows what passes    *)
(* the filters, the statistics add up, the selection stays, and so do the  *)
(* details where events arrive in order.                                   *)
(***************************************************************************)
EXTENDS MonitorApp, Iterations, FiniteSetTheorems, SequenceTheorems, TLAPS
-----------------------------------------------------------------------------
(* The driver is told.                                                     *)

(* What send_config reads.                                                 *)
LEMMA ConfigReads ==
  ASSUME UNCHANGED configVars, sent' = sent, ConfigIsCurrent
  PROVE  ConfigIsCurrent'
BY DEF configVars, operationVars, ConfigIsCurrent, Config, OperationMask,
       OperationEnabled

(* A widget of the filter bar leaves nothing for the driver to be told.    *)
LEMMA ChangesAreSent ==
  ASSUME send_config
  PROVE  ConfigIsCurrent'
BY DEF send_config, ConfigIsCurrent

LEMMA CollectorLeavesConfig ==
  ASSUME ConfigIsCurrent, Collector
  PROVE  ConfigIsCurrent'
<1>1. UNCHANGED configVars /\ sent' = sent
  BY DEF Collector, SendEvent, SendEvents, SendDetail, CollectorSends
<1> QED
  BY <1>1, ConfigReads

LEMMA FrameKeepsConfig ==
  ASSUME ConfigIsCurrent, Frame
  PROVE  ConfigIsCurrent'
<1> USE DEF configVars, operationVars, filterVars, historyVars, collectorVars
<1>1. CASE PushEvents \/ AddDetails
  <2>1. UNCHANGED configVars /\ sent' = sent
    BY <1>1 DEF PushEvents, AddDetails, Receive
  <2> QED
    BY <2>1, ConfigReads
<1>2. CASE TakeTable
  BY <1>2, ChangesAreSent DEF TakeTable
<1>3. CASE FinishDrain
  BY <1>3, ConfigReads DEF FinishDrain
<1>4. ASSUME NEW from, NEW to, NoWidget(from, to)
      PROVE  ConfigIsCurrent'
  BY <1>4, ConfigReads DEF NoWidget, Panel
<1>5. ASSUME NEW limit \in Limits, MoveSlider(limit)
      PROVE  ConfigIsCurrent'
  BY <1>5, ConfigReads DEF MoveSlider, Widget, Panel
<1>6. CASE Clear \/ ChangeView \/ Panic
  <2>1. UNCHANGED configVars /\ sent' = sent
    BY <1>6 DEF Clear, ChangeView, Panic, Widget, Panel
  <2> QED
    BY <2>1, ConfigReads
<1>7. CASE ToggleCapture \/ \E chosen \in Targets : ApplyCaptureProcess(chosen)
  BY <1>7, ChangesAreSent DEF ToggleCapture, ApplyCaptureProcess
<1>8. CASE ChangeSearch \/ ResetFilters \/ \E c \in Categories : ToggleCategory(c)
  BY <1>8, ChangesAreSent DEF ChangeSearch, ResetFilters, ToggleCategory
<1>9. ASSUME NEW included, NEW excluded, ChangeOperations(included, excluded)
      PROVE  ConfigIsCurrent'
  BY <1>9, ChangesAreSent DEF ChangeOperations
<1>10. CASE \E name \in Operations \cup {"Unknown"} :
              IncludeOperation(name) \/ ExcludeOperation(name) \/ ClearOperation(name)
  BY <1>9, <1>10 DEF IncludeOperation, ExcludeOperation, ClearOperation
<1>11. CASE \/ \E included, excluded \in SUBSET KnownNames :
                 LoadFilters(included, excluded)
            \/ ClearAll
  BY <1>9, <1>11 DEF LoadFilters, ClearAll
<1>12. ASSUME NEW i, SelectRow(i)
       PROVE  ConfigIsCurrent'
  BY <1>12, ConfigReads DEF SelectRow, Widget, Panel
<1> QED
  BY <1>1, <1>2, <1>3, <1>4, <1>5, <1>6, <1>7, <1>8, <1>10, <1>11, <1>12 DEF Frame

(* Whatever widgets are used and whenever the table of names arrives, the  *)
(* driver was last told what the window says.                              *)
THEOREM DriverIsTold == Spec => []ConfigIsCurrent
<1>1. Init => ConfigIsCurrent
  BY DEF Init, ConfigIsCurrent
<1>2. ConfigIsCurrent /\ [Next]_vars => ConfigIsCurrent'
  <2> SUFFICES ASSUME ConfigIsCurrent, [Next]_vars PROVE ConfigIsCurrent'
    OBVIOUS
  <2>1. CASE UNCHANGED vars
    BY <2>1, ConfigReads DEF vars
  <2> QED
    BY <2>1, CollectorLeavesConfig, FrameKeepsConfig DEF Next
<1> QED
  BY <1>1, <1>2, PTL DEF Spec
-----------------------------------------------------------------------------
(* The table shows what passes the filters.                                *)

Fresh ==
  /\ filters_dirty \in BOOLEAN
  /\ at = "bottom" => ~filters_dirty
  /\ ~filters_dirty => visible = Filtered

(* What rebuild_visible reads; details only when there is a search.        *)
LEMMA FilteredReads ==
  ASSUME Fresh, filters_dirty' = filters_dirty, visible' = visible, events' = events,
         UNCHANGED <<filterVars, syscall_names>>, details' = details \/ search = "",
         at' = at \/ at' # "bottom"
  PROVE  Fresh'
<1>1. \A e : Shown(e)' <=> Shown(e)
  BY DEF Shown, EventEnabled, OperationEnabled, NameFor, KnownNames, filterVars,
         operationVars
<1> QED
  BY <1>1 DEF Fresh, Filtered

(* Whatever marks the view dirty may change all that it depends on.        *)
LEMMA DirtyWaits ==
  ASSUME filters_dirty' = TRUE, at' # "bottom"
  PROVE  Fresh'
BY DEF Fresh

LEMMA CollectorLeavesView ==
  ASSUME Fresh, Collector
  PROVE  Fresh'
<1>1. /\ filters_dirty' = filters_dirty /\ visible' = visible /\ at' = at
      /\ UNCHANGED <<events, details, filterVars, syscall_names>>
  BY DEF Collector, SendEvent, SendEvents, SendDetail, CollectorSends, historyVars,
         configVars, filterVars, operationVars
<1> QED
  BY <1>1, FilteredReads

LEMMA FrameKeepsView ==
  ASSUME Fresh, Frame
  PROVE  Fresh'
<1> USE DEF configVars, operationVars, filterVars, historyVars, collectorVars
<1>1. CASE PushEvents \/ TakeTable
  BY <1>1, DirtyWaits DEF PushEvents, TakeTable, Receive
<1>2. CASE AddDetails
  <2>1. /\ visible' = visible /\ events' = events /\ at' = "drain"
        /\ UNCHANGED <<filterVars, syscall_names>>
        /\ filters_dirty' = (filters_dirty \/ search # "")
    BY <1>2 DEF AddDetails, Receive
  <2>2. CASE search = ""
    BY <2>1, <2>2, FilteredReads DEF Fresh
  <2>3. CASE search # ""
    BY <2>1, <2>3, DirtyWaits
  <2> QED
    BY <2>2, <2>3
<1>3. CASE FinishDrain
  <2>1. /\ UNCHANGED <<events, details, filterVars, syscall_names>>
        /\ visible' = Filtered /\ filters_dirty' = FALSE
    BY <1>3 DEF FinishDrain, Fresh
  <2>2. \A e : Shown(e)' <=> Shown(e)
    BY <2>1 DEF Shown, EventEnabled, OperationEnabled, NameFor, KnownNames
  <2> QED
    BY <2>1, <2>2 DEF Fresh, Filtered
<1>4. ASSUME NEW from, NEW to \in {"top", "central", "drain"}, NoWidget(from, to)
      PROVE  Fresh'
  BY <1>4, FilteredReads DEF NoWidget, Panel
<1>5. ASSUME NEW limit \in Limits, MoveSlider(limit)
      PROVE  Fresh'
  BY <1>5, DirtyWaits DEF MoveSlider, Widget, Panel
<1>6. CASE ChangeView \/ ToggleCapture
  <2>1. /\ filters_dirty' = filters_dirty /\ visible' = visible /\ at' = "central"
        /\ UNCHANGED <<events, details, filterVars, syscall_names>>
    BY <1>6 DEF ChangeView, ToggleCapture, Widget, Panel
  <2> QED
    BY <2>1, FilteredReads
<1>7. CASE Panic
  BY <1>7, FilteredReads DEF Panic, Panel
<1>8. CASE Clear
  <2>1. filters_dirty' = filters_dirty /\ at' = "central" /\ visible' = {} /\ events' = << >>
    BY <1>8 DEF Clear, EmptyHistory, Widget, Panel
  <2> QED
    BY <2>1 DEF Fresh, Filtered
<1>9. ASSUME NEW chosen \in Targets, ApplyCaptureProcess(chosen)
      PROVE  Fresh'
  <2>1. CASE chosen = {}
    <3>1. /\ filters_dirty' = filters_dirty /\ visible' = visible /\ at' = "central"
          /\ UNCHANGED <<events, details, filterVars, syscall_names>>
      BY <1>9, <2>1 DEF ApplyCaptureProcess, Widget, Panel
    <3> QED
      BY <3>1, FilteredReads
  <2>2. CASE chosen # {}
    BY <1>9, <2>2, DirtyWaits DEF ApplyCaptureProcess, Widget, Panel
  <2> QED
    BY <2>1, <2>2
<1>10. ASSUME ChangeFilter PROVE Fresh'
  BY <1>10, DirtyWaits DEF ChangeFilter, Widget, Panel
<1>11. CASE ChangeSearch \/ ResetFilters \/ \E c \in Categories : ToggleCategory(c)
  BY <1>10, <1>11 DEF ChangeSearch, ResetFilters, ToggleCategory
<1>12. ASSUME NEW included, NEW excluded, ChangeOperations(included, excluded)
       PROVE  Fresh'
  BY <1>10, <1>12 DEF ChangeOperations
<1>13. CASE \E name \in Operations \cup {"Unknown"} :
              IncludeOperation(name) \/ ExcludeOperation(name) \/ ClearOperation(name)
  BY <1>12, <1>13 DEF IncludeOperation, ExcludeOperation, ClearOperation
<1>14. CASE \/ \E included, excluded \in SUBSET KnownNames :
                 LoadFilters(included, excluded)
            \/ ClearAll
  BY <1>12, <1>14 DEF LoadFilters, ClearAll
<1>15. ASSUME NEW i, SelectRow(i)
       PROVE  Fresh'
  <2>1. /\ filters_dirty' = filters_dirty /\ visible' = visible /\ at' = "drain"
        /\ UNCHANGED <<events, details, filterVars, syscall_names>>
    BY <1>15 DEF SelectRow, Widget, Panel
  <2> QED
    BY <2>1, FilteredReads
<1> QED
  BY <1>1, <1>2, <1>3, <1>4, <1>5, <1>6, <1>7, <1>8, <1>9, <1>11, <1>13, <1>14, <1>15
     DEF Frame

(* Whatever arrives and whichever widget is used, the rows a frame draws   *)
(* are those that pass the filters as the window then shows them: nothing  *)
(* that rebuild_visible reads changes without marking the view dirty.      *)
THEOREM TableShowsFiltered == Spec => []VisibleIsFiltered
<1>1. Init => Fresh
  BY DEF Init, Fresh
<1>2. Fresh /\ [Next]_vars => Fresh'
  <2> SUFFICES ASSUME Fresh, [Next]_vars PROVE Fresh'
    OBVIOUS
  <2>1. CASE UNCHANGED vars
    BY <2>1, FilteredReads
       DEF vars, historyVars, configVars, filterVars, operationVars
  <2> QED
    BY <2>1, CollectorLeavesView, FrameKeepsView DEF Next
<1>3. Fresh => VisibleIsFiltered
  BY DEF Fresh, VisibleIsFiltered
<1> QED
  BY <1>1, <1>2, <1>3, PTL DEF Spec
-----------------------------------------------------------------------------
(* Counting positions.                                                     *)

(* How many of the first i positions are in P.                             *)
Rank(P, i) == Cardinality({j \in 1..i : j \in P})

(* Each position in P counts one more.                                     *)
LEMMA RankStep ==
  ASSUME NEW P, NEW i \in Nat
  PROVE  /\ Rank(P, 0) = 0 /\ Rank(P, i) \in 0..i
         /\ i + 1 \in P => Rank(P, i + 1) = Rank(P, i) + 1
         /\ i + 1 \notin P => Rank(P, i + 1) = Rank(P, i)
<1> DEFINE V(j) == {k \in 1..j : k \in P}
<1>1. ASSUME NEW j \in Nat
      PROVE  IsFiniteSet(V(j)) /\ Cardinality(V(j)) \in 0..j
  <2>1. IsFiniteSet(1..j) /\ Cardinality(1..j) = j /\ V(j) \subseteq 1..j
    BY FS_Interval
  <2>2. IsFiniteSet(V(j)) /\ Cardinality(V(j)) <= j
    BY <2>1, FS_Subset
  <2> QED
    BY <2>2, FS_CardinalityType
<1>2. Cardinality(V(0)) = 0
  BY <1>1
<1>3. ASSUME i + 1 \in P PROVE Cardinality(V(i + 1)) = Cardinality(V(i)) + 1
  <2>1. V(i + 1) = V(i) \cup {i + 1} /\ i + 1 \notin V(i)
    BY <1>3
  <2> HIDE DEF V
  <2> QED
    BY <1>1, <2>1, FS_AddElement
<1>4. ASSUME i + 1 \notin P PROVE V(i + 1) = V(i)
  BY <1>4
<1> QED
  BY <1>1, <1>2, <1>3, <1>4 DEF Rank

LEMMA RankGrows ==
  ASSUME NEW P, NEW j \in Nat, NEW i \in 0..j
  PROVE  Rank(P, i) <= Rank(P, j)
<1>1. {k \in 1..i : k \in P} \subseteq {k \in 1..j : k \in P}
      /\ {k \in 1..j : k \in P} \subseteq 1..j
  OBVIOUS
<1>2. IsFiniteSet(1..j)
  BY FS_Interval
<1>3. IsFiniteSet({k \in 1..j : k \in P})
  BY <1>1, <1>2, FS_Subset
<1> QED
  BY <1>1, <1>3, FS_Subset DEF Rank

(* No two positions of P have the same rank.                               *)
LEMMA RankOnce ==
  ASSUME NEW P, NEW i \in P, NEW j \in P, i \in Nat \ {0}, j \in Nat \ {0},
         Rank(P, i) = Rank(P, j)
  PROVE  i = j
<1>1. ASSUME NEW a \in Nat \ {0}, NEW b \in Nat \ {0}, b \in P, a < b
      PROVE  Rank(P, a) < Rank(P, b)
  <2>1. b - 1 \in Nat /\ a \in 0..b - 1 /\ b - 1 + 1 = b
    BY <1>1
  <2>2. Rank(P, a) <= Rank(P, b - 1)
    BY <2>1, RankGrows
  <2>3. Rank(P, b) = Rank(P, b - 1) + 1
    BY <1>1, <2>1, RankStep
  <2>4. Rank(P, a) \in Nat /\ Rank(P, b - 1) \in Nat
    BY <2>1, RankStep
  <2> QED
    BY <2>2, <2>3, <2>4
<1>2. Rank(P, i) \in Nat /\ Rank(P, j) \in Nat
  BY RankStep
<1>3. ~(i < j) /\ ~(j < i)
  BY <1>1, <1>2
<1> QED
  BY <1>3

(* Every rank up to the number of positions is that of a position.         *)
LEMMA RankReached ==
  ASSUME NEW P, NEW n \in Nat, NEW k \in 1..Rank(P, n)
  PROVE  \E i \in 1..n : i \in P /\ Rank(P, i) = k
<1> DEFINE T == {i \in 0..n : Rank(P, i) >= k}
<1>1. Rank(P, n) \in Nat /\ Rank(P, 0) = 0 /\ k \in Nat \ {0}
  BY RankStep
<1>2. T \in SUBSET Nat /\ n \in T
  BY <1>1
<1>3. PICK i \in T : \A j \in T : i <= j
  <2> HIDE DEF T
  <2> QED
    BY <1>2, Least
<1>4. i \in 1..n
  BY <1>1
<1>5. i - 1 \notin T /\ i - 1 \in 0..n /\ i - 1 + 1 = i
  BY <1>3, <1>4
<1>6. Rank(P, i - 1) \in Nat /\ Rank(P, i) \in Nat
  BY <1>4, <1>5, RankStep
<1>7. Rank(P, i - 1) < k /\ Rank(P, i) >= k
  BY <1>1, <1>5, <1>6
<1>8. /\ i \in P => Rank(P, i) = Rank(P, i - 1) + 1
      /\ i \notin P => Rank(P, i) = Rank(P, i - 1)
  BY <1>5, RankStep
<1> QED
  BY <1>1, <1>4, <1>6, <1>7, <1>8
-----------------------------------------------------------------------------
(* The statistics add up.                                                  *)

Event == [sequence : 1..MaxSequence, operation : Operations]

(* push_events keeps events of the batch, and nothing else.                *)
LEMMA KeptType ==
  ASSUME NEW batch \in Seq(Event)
  PROVE  Kept(batch) \in Seq(Event)
<1> DEFINE P == {j \in 1..Len(batch) : EventEnabled(batch[j])}
           n == Len(batch)
           place(k) == CHOOSE i \in 1..n : EventEnabled(batch[i]) /\ Passed(batch, i) = k
<1>1. n \in Nat
  OBVIOUS
<1>2. ASSUME NEW i \in 0..n PROVE Passed(batch, i) = Rank(P, i)
  <2>1. {j \in 1..i : EventEnabled(batch[j])} = {j \in 1..i : j \in P}
    BY <1>1
  <2> QED
    BY <2>1 DEF Passed, Rank
<1>3. Passed(batch, n) = Rank(P, n) /\ Rank(P, n) \in Nat
  BY <1>1, <1>2, RankStep
<1>4. ASSUME NEW k \in 1..Passed(batch, n) PROVE batch[place(k)] \in Event
  <2>1. PICK i \in 1..n : i \in P /\ Rank(P, i) = k
    BY <1>1, <1>3, RankReached
  <2>2. EventEnabled(batch[i]) /\ Passed(batch, i) = k
    BY <1>1, <1>2, <2>1
  <2>3. place(k) \in 1..n
    BY <2>1, <2>2
  <2> HIDE DEF place
  <2> QED
    BY <2>3, ElementOfSeq
<1>5. Kept(batch) = [k \in 1..Passed(batch, n) |-> batch[place(k)]]
  BY DEF Kept
<1> HIDE DEF P, n, place
<1> QED
  BY <1>3, <1>4, <1>5

(* Counting the events of seq adds one unit for each.                      *)
LEMMA CountedAdds ==
  ASSUME NEW counts \in [Categories -> Nat], IsFiniteSet(Units(counts)),
         NEW seq \in Seq(Event)
  PROVE  /\ Counted(counts, seq) \in [Categories -> Nat]
         /\ IsFiniteSet(Units(Counted(counts, seq)))
         /\ Cardinality(Units(Counted(counts, seq)))
              = Cardinality(Units(counts)) + Len(seq)
<1> DEFINE n == Len(seq)
           cat(i) == CategoryOf[seq[i].operation]
           P(c) == OfCategory(seq, c)
           next == Counted(counts, seq)
           New == Units(next) \ Units(counts)
           f == [i \in 1..n |-> <<cat(i), counts[cat(i)] + Rank(P(cat(i)), i)>>]
<1>1. n \in Nat /\ \A i \in 1..n : cat(i) \in Categories
  <2>1. ASSUME NEW i \in 1..n PROVE seq[i] \in Event
    BY ElementOfSeq
  <2> QED
    BY <2>1, WindowAssumption DEF Event
<1>2. ASSUME NEW c \in Categories
      PROVE  /\ Rank(P(c), n) \in Nat /\ next[c] = counts[c] + Rank(P(c), n)
             /\ counts[c] \in Nat
  <2>1. {j \in 1..n : j \in P(c)} = P(c)
    BY DEF OfCategory
  <2>2. Rank(P(c), n) = Cardinality(OfCategory(seq, c))
    BY <2>1 DEF Rank
  <2> QED
    BY <1>1, <2>2, RankStep DEF Counted
<1>3. next \in [Categories -> Nat]
  BY <1>2 DEF Counted
<1>4. ASSUME NEW p
      PROVE  /\ p \in Units(counts) <=>
                  \E c \in Categories : \E u \in 1..counts[c] : p = <<c, u>>
             /\ p \in Units(next) <=>
                  \E c \in Categories : \E u \in 1..next[c] : p = <<c, u>>
  BY DEF Units
<1>5. Units(counts) \subseteq Units(next)
  <2> SUFFICES ASSUME NEW c \in Categories, NEW u \in 1..counts[c]
               PROVE  u \in 1..next[c]
    BY <1>4
  <2> HIDE DEF next, P, n
  <2> QED
    BY <1>2
<1>6. ASSUME NEW c \in Categories, NEW u
      PROVE  <<c, u>> \in New <=> u \in counts[c] + 1..next[c]
  <2>1. /\ <<c, u>> \in Units(counts) <=> u \in 1..counts[c]
        /\ <<c, u>> \in Units(next) <=> u \in 1..next[c]
    BY <1>4
  <2>2. counts[c] \in Nat /\ next[c] \in Nat
    BY <1>3
  <2> HIDE DEF next
  <2> QED
    BY <2>1, <2>2
<1>7. ASSUME NEW i \in 1..n
      PROVE  /\ i \in P(cat(i)) /\ cat(i) \in Categories
             /\ Rank(P(cat(i)), i) \in 1..Rank(P(cat(i)), n)
             /\ f[i] = <<cat(i), counts[cat(i)] + Rank(P(cat(i)), i)>>
  <2>1. i \in P(cat(i)) /\ cat(i) \in Categories
    BY <1>1 DEF OfCategory
  <2> DEFINE Q == P(cat(i))
  <2>2. i \in Q
    BY <2>1
  <2> HIDE DEF Q
  <2>3. i - 1 \in Nat /\ i - 1 + 1 = i /\ i \in 0..n /\ n \in Nat /\ i \in Nat
    BY <1>1
  <2>4. Rank(Q, i) = Rank(Q, i - 1) + 1 /\ Rank(Q, i - 1) \in Nat /\ Rank(Q, n) \in Nat
    BY <2>2, <2>3, RankStep
  <2>5. Rank(Q, i) <= Rank(Q, n)
    BY <2>3, RankGrows
  <2>6. Rank(Q, i) \in 1..Rank(Q, n)
    BY <2>4, <2>5
  <2> QED
    BY <2>1, <2>6 DEF Q
<1>8. f \in [1..n -> New]
  <2> SUFFICES ASSUME NEW i \in 1..n PROVE f[i] \in New
    OBVIOUS
  <2> DEFINE c == cat(i)
             r == Rank(P(c), i)
  <2>1. c \in Categories /\ r \in 1..Rank(P(c), n) /\ f[i] = <<c, counts[c] + r>>
    BY <1>7
  <2>2. next[c] = counts[c] + Rank(P(c), n) /\ Rank(P(c), n) \in Nat /\ counts[c] \in Nat
    BY <1>2, <2>1
  <2> HIDE DEF c, r, next, New, f, P, n
  <2>3. counts[c] + r \in counts[c] + 1..next[c]
    BY <2>1, <2>2
  <2> QED
    BY <1>6, <2>1, <2>3
<1>9. ASSUME NEW i \in 1..n, NEW j \in 1..n, f[i] = f[j] PROVE i = j
  <2>1. /\ cat(i) \in Categories /\ cat(j) \in Categories /\ i \in P(cat(i)) /\ j \in P(cat(j))
        /\ f[i] = <<cat(i), counts[cat(i)] + Rank(P(cat(i)), i)>>
        /\ f[j] = <<cat(j), counts[cat(j)] + Rank(P(cat(j)), j)>>
    BY <1>7
  <2> HIDE DEF f, P, cat, n
  <2>a. <<cat(i), counts[cat(i)] + Rank(P(cat(i)), i)>>
          = <<cat(j), counts[cat(j)] + Rank(P(cat(j)), j)>>
    BY <1>9, <2>1, Zenon
  <2>b. ASSUME NEW a, NEW b, NEW x, NEW y, <<a, x>> = <<b, y>> PROVE a = b /\ x = y
    BY <2>b
  <2>2. cat(i) = cat(j)
        /\ counts[cat(i)] + Rank(P(cat(i)), i) = counts[cat(j)] + Rank(P(cat(j)), j)
    BY <2>a, <2>b
  <2> DEFINE c == cat(i)
             Q == P(c)
  <2>3. counts[c] + Rank(Q, i) = counts[c] + Rank(Q, j) /\ i \in Q /\ j \in Q
    <3>1. cat(j) = c /\ cat(i) = c /\ P(cat(j)) = Q /\ P(cat(i)) = Q
      BY <2>2
    <3> HIDE DEF c, Q
    <3>2. i \in Q /\ j \in Q
      BY <2>1, <3>1
    <3> QED
      BY <2>2, <3>1, <3>2
  <2>4. i \in Nat \ {0} /\ j \in Nat \ {0}
    BY <1>1 DEF n
  <2>c. c \in Categories
    BY <2>1
  <2> HIDE DEF c, Q
  <2>5. counts[c] \in Nat /\ Rank(Q, i) \in Nat /\ Rank(Q, j) \in Nat
    BY <2>c, <2>4, RankStep
  <2>6. Rank(Q, i) = Rank(Q, j)
    BY <2>3, <2>5
  <2> QED
    BY <2>3, <2>4, <2>6, RankOnce
<1>10. ASSUME NEW p \in New PROVE \E i \in 1..n : f[i] = p
  <2>a. PICK c \in Categories : \E u \in 1..next[c] : p = <<c, u>>
    BY <1>4
  <2>1. PICK u \in 1..next[c] : p = <<c, u>>
    BY <2>a
  <2>2. u \in counts[c] + 1..next[c]
    BY <1>6, <2>1
  <2> DEFINE Q == P(c)
             k == u - counts[c]
  <2>3. next[c] = counts[c] + Rank(Q, n) /\ Rank(Q, n) \in Nat /\ counts[c] \in Nat
    BY <1>2
  <2> HIDE DEF Q, next, n
  <2>4. k \in 1..Rank(Q, n) /\ u = counts[c] + k
    BY <2>2, <2>3
  <2>5. PICK i \in 1..n : i \in Q /\ Rank(Q, i) = k
    BY <1>1, <2>4, RankReached
  <2>6. cat(i) = c
    BY <2>5 DEF Q, OfCategory
  <2>7. f[i] = <<c, counts[c] + Rank(P(c), i)>>
    BY <1>7, <2>5, <2>6 DEF n
  <2> QED
    BY <2>1, <2>4, <2>5, <2>7 DEF Q
<1> HIDE DEF New, f, n, cat, P, next
<1>11. ExistsBijection(1..n, New)
  <2>1. f \in Injection(1..n, New) /\ f \in Surjection(1..n, New)
    BY <1>8, <1>9, <1>10 DEF Injection, Surjection, IsInjective
  <2> QED
    BY <2>1 DEF ExistsBijection, Bijection
<1>12. IsFiniteSet(New) /\ Cardinality(New) = n
  <2>1. IsFiniteSet(1..n) /\ Cardinality(1..n) = n
    BY <1>1, FS_Interval
  <2> QED
    BY <1>11, <2>1, FS_Bijection
<1>13. Units(next) = Units(counts) \cup New /\ Units(counts) \cap New = {}
  BY <1>5 DEF New
<1>14. /\ IsFiniteSet(Units(next))
       /\ Cardinality(Units(next)) = Cardinality(Units(counts)) + n - Cardinality({})
  <2>1. /\ IsFiniteSet(Units(counts) \cup New)
        /\ Cardinality(Units(counts) \cup New)
             = Cardinality(Units(counts)) + Cardinality(New)
                 - Cardinality(Units(counts) \cap New)
    BY <1>12, FS_Union
  <2> QED
    BY <1>12, <1>13, <2>1
<1>15. Cardinality(Units(counts)) \in Nat /\ Cardinality({}) = 0
  BY FS_CardinalityType, FS_EmptySet
<1> QED
  BY <1>1, <1>3, <1>14, <1>15 DEF next, n

Message ==
  [kind : {"table"}] \cup [kind : {"events"}, batch : Seq(Event)]
    \cup [kind : {"details"}, sequences : SUBSET (1..MaxSequence)]

HistoryType ==
  /\ messages \in Seq(Message)
  /\ unsent \subseteq 1..MaxSequence /\ undetailed \subseteq 1..MaxSequence
  /\ events \in Seq(Event) /\ selected \in 0..Len(events) /\ max_events \in Limits
  /\ category_counts \in [Categories -> Nat] /\ history_evicted \in Nat
  /\ IsFiniteSet(Units(category_counts))

HistoryInv == HistoryType /\ CountsAddUp

StatisticsKept ==
  UNCHANGED <<events, category_counts, history_evicted, max_events>>

LEMMA CollectorKeepsHistory ==
  ASSUME HistoryInv, Collector
  PROVE  HistoryInv' /\ StatisticsKept /\ selected' = selected
<1> USE DEF HistoryInv, HistoryType, historyVars, StatisticsKept
<1>1. ASSUME NEW message \in Message, CollectorSends(message),
             unsent' \subseteq unsent, undetailed' \subseteq undetailed
      PROVE  HistoryInv' /\ StatisticsKept /\ selected' = selected
  BY <1>1 DEF CollectorSends, CountsAddUp, Units
<1>2. ASSUME NEW s \in unsent, NEW o \in Operations, SendEvent(s, o)
      PROVE  HistoryInv' /\ StatisticsKept /\ selected' = selected
  <2>1. [sequence |-> s, operation |-> o] \in Event
    BY DEF Event
  <2>2. [kind |-> "events", batch |-> <<[sequence |-> s, operation |-> o]>>] \in Message
    BY <2>1 DEF Message
  <2> QED
    BY <1>1, <1>2, <2>2 DEF SendEvent
<1>3. ASSUME NEW s \in unsent, NEW t \in unsent, NEW o \in Operations, NEW p \in Operations,
             SendEvents(s, o, t, p)
      PROVE  HistoryInv' /\ StatisticsKept /\ selected' = selected
  <2>1. /\ [sequence |-> s, operation |-> o] \in Event
        /\ [sequence |-> t, operation |-> p] \in Event
    BY DEF Event
  <2>2. [kind |-> "events", batch |-> <<[sequence |-> s, operation |-> o],
                                        [sequence |-> t, operation |-> p]>>] \in Message
    BY <2>1 DEF Message
  <2> QED
    BY <1>1, <1>3, <2>2 DEF SendEvents
<1>4. ASSUME NEW s \in undetailed, SendDetail(s)
      PROVE  HistoryInv' /\ StatisticsKept /\ selected' = selected
  <2>1. [kind |-> "details", sequences |-> {s}] \in Message
    BY DEF Message
  <2> QED
    BY <1>1, <1>4, <2>1 DEF SendDetail
<1> QED
  BY <1>2, <1>3, <1>4 DEF Collector

(* What is left of a sequence when its first n elements go.                *)
LEMMA SuffixType ==
  ASSUME NEW S, NEW seq \in Seq(S), NEW n \in 0..Len(seq)
  PROVE  /\ Without(seq, n) \in Seq(S) /\ Len(Without(seq, n)) \in Nat
         /\ n + Len(Without(seq, n)) = Len(seq)
<1>1. n + 1 \in Int /\ Len(seq) \in Int /\ \A i \in n + 1..Len(seq) : seq[i] \in S
  OBVIOUS
<1>2. /\ SubSeq(seq, n + 1, Len(seq)) \in Seq(S)
      /\ Len(SubSeq(seq, n + 1, Len(seq)))
           = IF n + 1 <= Len(seq) THEN Len(seq) - (n + 1) + 1 ELSE 0
  BY <1>1, SubSeqProperties, ZenonT(60)
<1>3. /\ Len(SubSeq(seq, n + 1, Len(seq))) \in Nat
      /\ n + Len(SubSeq(seq, n + 1, Len(seq))) = Len(seq)
  BY <1>2
<1> QED
  BY <1>2, <1>3 DEF Without

(* Evicting from the front counts what it evicts, and drops the selection  *)
(* if it evicts anything.                                                  *)
LEMMA EvictionCounts ==
  ASSUME NEW seq \in Seq(Event), NEW limit \in Limits, NEW n,
         n = IF Len(seq) > limit THEN Len(seq) - limit ELSE 0
  PROVE  /\ Without(seq, n) \in Seq(Event) /\ n \in Nat
         /\ Len(Without(seq, n)) \in Nat /\ n + Len(Without(seq, n)) = Len(seq)
         /\ n = 0 => Without(seq, n) = seq
<1>1. Len(seq) \in Nat /\ limit \in Nat
  BY LenProperties, WindowAssumption
<1>2. n \in 0..Len(seq)
  BY <1>1
<1>3. /\ Without(seq, n) \in Seq(Event) /\ Len(Without(seq, n)) \in Nat
      /\ n + Len(Without(seq, n)) = Len(seq)
  BY <1>2, SuffixType
<1>4. ASSUME n = 0 PROVE Without(seq, n) = seq
  <2>1. Without(seq, n) = SubSeq(seq, 1, Len(seq))
    BY <1>4 DEF Without
  <2> QED
    BY <2>1, SubSeqFull
<1> QED
  BY <1>2, <1>3, <1>4

(* The rows of the table are indices, although not always of an event.     *)
RowsAreIndices == visible \subseteq Nat \ {0}

LEMMA RowsStayIndices ==
  ASSUME RowsAreIndices, [Next]_vars
  PROVE  RowsAreIndices'
<1>1. visible' = visible \/ visible' = {} \/ visible' = Filtered
  <2>1. CASE Collector
    BY <2>1 DEF Collector, SendEvent, SendEvents, SendDetail, CollectorSends
  <2>2. CASE PushEvents \/ AddDetails \/ TakeTable
    BY <2>2 DEF PushEvents, AddDetails, TakeTable, Receive
  <2>3. CASE FinishDrain
    BY <2>3 DEF FinishDrain
  <2>4. ASSUME NEW from, NEW to, NoWidget(from, to) PROVE visible' = visible
    BY <2>4 DEF NoWidget
  <2>5. ASSUME NEW limit, MoveSlider(limit) PROVE visible' = visible
    BY <2>5 DEF MoveSlider
  <2>6. CASE ToggleCapture \/ ChangeView \/ Panic
    BY <2>6 DEF ToggleCapture, ChangeView, Panic
  <2>7. CASE Clear \/ \E chosen \in Targets : ApplyCaptureProcess(chosen)
    BY <2>7 DEF Clear, ApplyCaptureProcess, EmptyHistory
  <2>8. ASSUME ChangeFilter PROVE visible' = visible
    BY <2>8 DEF ChangeFilter
  <2>9. CASE ChangeSearch \/ ResetFilters \/ \E c \in Categories : ToggleCategory(c)
    BY <2>8, <2>9 DEF ChangeSearch, ResetFilters, ToggleCategory
  <2>10. ASSUME NEW included, NEW excluded, ChangeOperations(included, excluded)
         PROVE  visible' = visible
    BY <2>8, <2>10 DEF ChangeOperations
  <2>11. CASE \E name \in Operations \cup {"Unknown"} :
                IncludeOperation(name) \/ ExcludeOperation(name) \/ ClearOperation(name)
    BY <2>10, <2>11 DEF IncludeOperation, ExcludeOperation, ClearOperation
  <2>12. CASE \/ \E included, excluded \in SUBSET KnownNames :
                   LoadFilters(included, excluded)
              \/ ClearAll
    BY <2>10, <2>12 DEF LoadFilters, ClearAll
  <2>13. CASE \E i \in visible : SelectRow(i)
    BY <2>13 DEF SelectRow
  <2>14. CASE UNCHANGED vars
    BY <2>14 DEF vars
  <2> QED
    BY <2>1, <2>2, <2>3, <2>4, <2>5, <2>6, <2>7, <2>9, <2>11, <2>12, <2>13, <2>14
       DEF Next, Frame
<1>2. Filtered \subseteq Nat \ {0}
  BY DEF Filtered
<1> QED
  BY <1>1, <1>2 DEF RowsAreIndices

LEMMA FrameKeepsHistory ==
  ASSUME HistoryInv, RowsAreIndices, Frame
  PROVE  /\ HistoryInv'
         /\ selected # 0 /\ selected' = selected => events'[selected] = events[selected]
<1> DEFINE Goal == /\ HistoryInv'
                   /\ selected # 0 /\ selected' = selected
                        => events'[selected] = events[selected]
<1> USE DEF HistoryInv, HistoryType, historyVars, collectorVars, filterVars
<1>0. /\ history_evicted \in Nat /\ Len(events) \in Nat /\ selected \in 0..Len(events)
      /\ events \in Seq(Event) /\ max_events \in Limits
      /\ category_counts \in [Categories -> Nat] /\ IsFiniteSet(Units(category_counts))
      /\ Cardinality(Units(category_counts)) = history_evicted + Len(events)
  BY LenProperties DEF CountsAddUp
<1>1. ASSUME NEW kind, Receive(kind)
      PROVE  /\ messages' \in Seq(Message) /\ Head(messages) \in Message
             /\ Head(messages).kind = kind
             /\ UNCHANGED <<unsent, undetailed, max_events>>
  BY <1>1, HeadTailProperties DEF Receive
<1>2. ASSUME UNCHANGED <<unsent, undetailed>>, messages' \in Seq(Message), StatisticsKept,
             selected' \in 0..Len(events)
      PROVE  Goal
  BY <1>2 DEF StatisticsKept, CountsAddUp
<1>3. CASE PushEvents
  <2> DEFINE kept == Kept(Head(messages).batch)
             all == events \o kept
             n == Surplus(all)
  <2>1. /\ messages' \in Seq(Message) /\ UNCHANGED <<unsent, undetailed, max_events>>
        /\ Head(messages).batch \in Seq(Event)
    <3>1. Receive("events")
      BY <1>3 DEF PushEvents
    <3>2. Head(messages) \in Message /\ Head(messages).kind = "events"
      BY <1>1, <3>1
    <3> QED
      BY <1>1, <3>1, <3>2 DEF Message
  <2>2. /\ events' = Without(all, n) /\ history_evicted' = history_evicted + n
        /\ category_counts' = Counted(category_counts, kept)
        /\ selected' = IF n > 0 THEN 0 ELSE selected
    BY <1>3 DEF PushEvents
  <2>3. kept \in Seq(Event)
    BY <2>1, KeptType
  <2> HIDE DEF kept, HistoryInv
  <2>4. /\ all \in Seq(Event) /\ Len(all) = Len(events) + Len(kept)
        /\ \A i \in 1..Len(events) : all[i] = events[i]
    BY <1>0, <2>3, ConcatProperties
  <2>5. n = IF Len(all) > max_events THEN Len(all) - max_events ELSE 0
    BY DEF Surplus
  <2> HIDE DEF all, n
  <2>6. /\ events' \in Seq(Event) /\ Len(events') \in Nat /\ n \in Nat
        /\ n + Len(events') = Len(all)
        /\ n = 0 => events' = all
    BY <1>0, <2>2, <2>4, <2>5, EvictionCounts
  <2>7. /\ category_counts' \in [Categories -> Nat] /\ IsFiniteSet(Units(category_counts'))
        /\ Cardinality(Units(category_counts'))
             = Cardinality(Units(category_counts)) + Len(kept)
    BY <1>0, <2>2, <2>3, CountedAdds
  <2>8. Len(kept) \in Nat
    BY <2>3, LenProperties
  <2>9. CountsAddUp'
    <3>1. n + Len(events') = Len(events) + Len(kept)
      BY <2>4, <2>6
    <3>2. /\ history_evicted \in Nat /\ n \in Nat /\ Len(events') \in Nat
          /\ Len(events) \in Nat /\ Len(kept) \in Nat
      BY <1>0, <2>6, <2>8
    <3>3. (history_evicted + Len(events)) + Len(kept) = (history_evicted + n) + Len(events')
      BY <3>1, <3>2
    <3>4. Cardinality(Units(category_counts')) = (history_evicted + Len(events)) + Len(kept)
      BY <1>0, <2>7
    <3> QED
      BY <2>2, <3>3, <3>4 DEF CountsAddUp
  <2>10. selected' \in 0..Len(events')
    <3>1. CASE n = 0
      BY <1>0, <2>2, <2>4, <2>6, <2>8, <3>1
    <3>2. CASE n # 0
      BY <1>0, <2>2, <2>6, <3>2
    <3> QED
      BY <3>1, <3>2
  <2>11. history_evicted' \in Nat
    BY <1>0, <2>2, <2>6
  <2>12. HistoryType'
    BY <2>1, <2>6, <2>7, <2>10, <2>11 DEF HistoryInv
  <2>13. selected # 0 /\ selected' = selected => events'[selected] = events[selected]
    BY <1>0, <2>2, <2>4, <2>6, <2>8
  <2> QED
    BY <2>9, <2>12, <2>13 DEF HistoryInv
<1>4. CASE AddDetails \/ TakeTable
  <2>1. PICK kind : Receive(kind)
    BY <1>4 DEF AddDetails, TakeTable
  <2>2. UNCHANGED <<events, category_counts, history_evicted, selected>>
    BY <1>4 DEF AddDetails, TakeTable
  <2> QED
    BY <1>1, <1>2, <2>1, <2>2 DEF StatisticsKept
<1>5. CASE FinishDrain
  BY <1>2, <1>5 DEF FinishDrain, StatisticsKept
<1>6. ASSUME NEW from, NEW to, NoWidget(from, to) PROVE Goal
  BY <1>2, <1>6 DEF NoWidget, Panel, StatisticsKept
<1>7. ASSUME NEW limit \in Limits, MoveSlider(limit) PROVE Goal
  <2> DEFINE n == IF Len(events) > limit THEN Len(events) - limit ELSE 0
  <2>1. /\ events' = Without(events, n) /\ history_evicted' = history_evicted + n
        /\ selected' = (IF n > 0 THEN 0 ELSE selected) /\ max_events' = limit
        /\ UNCHANGED <<messages, unsent, undetailed, category_counts>>
    BY <1>7 DEF MoveSlider, Widget, Panel
  <2>2. n = IF Len(events) > limit THEN Len(events) - limit ELSE 0
    OBVIOUS
  <2> HIDE DEF n, HistoryInv
  <2>3. /\ events' \in Seq(Event) /\ Len(events') \in Nat /\ n \in Nat
        /\ n + Len(events') = Len(events)
        /\ n = 0 => events' = events
    BY <1>0, <2>1, <2>2, EvictionCounts
  <2>4. CountsAddUp'
    <3>1. history_evicted + Len(events) = (history_evicted + n) + Len(events')
      <4>1. /\ history_evicted \in Nat /\ n \in Nat /\ Len(events') \in Nat
            /\ n + Len(events') = Len(events)
        BY <1>0, <2>3
      <4> QED
        BY <4>1
    <3> QED
      BY <1>0, <2>1, <3>1 DEF CountsAddUp
  <2>5. selected' \in 0..Len(events') /\ history_evicted' \in Nat
    BY <1>0, <2>1, <2>3
  <2>6. HistoryType'
    BY <2>1, <2>3, <2>5 DEF HistoryInv
  <2> QED
    BY <2>1, <2>3, <2>4, <2>6 DEF HistoryInv
<1>8. ASSUME EmptyHistory, UNCHANGED <<messages, unsent, undetailed, max_events>>
      PROVE  Goal
  <2>1. events' = << >> /\ category_counts' = NoCounts /\ history_evicted' = 0 /\ selected' = 0
    BY <1>8 DEF EmptyHistory
  <2>2. category_counts' \in [Categories -> Nat] /\ Units(category_counts') = {}
    BY <2>1 DEF NoCounts, Units
  <2>3. IsFiniteSet({}) /\ Cardinality({}) = 0
    BY FS_EmptySet
  <2>4. CountsAddUp'
    BY <2>1, <2>2, <2>3 DEF CountsAddUp
  <2>5. HistoryType'
    BY <1>8, <2>1, <2>2, <2>3
  <2> QED
    BY <2>1, <2>4, <2>5
<1>9. CASE ChangeView \/ ToggleCapture \/ Panic
  BY <1>2, <1>9 DEF ChangeView, ToggleCapture, Panic, Widget, Panel, StatisticsKept
<1>10. CASE Clear
  BY <1>8, <1>10 DEF Clear, Widget, Panel
<1>11. ASSUME NEW chosen \in Targets, ApplyCaptureProcess(chosen) PROVE Goal
  <2>1. CASE chosen = {}
    BY <1>2, <1>11, <2>1 DEF ApplyCaptureProcess, Widget, Panel, StatisticsKept
  <2>2. CASE chosen # {}
    BY <1>8, <1>11, <2>2 DEF ApplyCaptureProcess, Widget, Panel
  <2> QED
    BY <2>1, <2>2
<1>12. ASSUME ChangeFilter PROVE Goal
  BY <1>2, <1>12 DEF ChangeFilter, Widget, Panel, StatisticsKept
<1>13. CASE ChangeSearch \/ ResetFilters \/ \E c \in Categories : ToggleCategory(c)
  BY <1>12, <1>13 DEF ChangeSearch, ResetFilters, ToggleCategory
<1>14. ASSUME NEW included, NEW excluded, ChangeOperations(included, excluded) PROVE Goal
  BY <1>12, <1>14 DEF ChangeOperations
<1>15. CASE \E name \in Operations \cup {"Unknown"} :
              IncludeOperation(name) \/ ExcludeOperation(name) \/ ClearOperation(name)
  BY <1>14, <1>15 DEF IncludeOperation, ExcludeOperation, ClearOperation
<1>16. CASE \/ \E included, excluded \in SUBSET KnownNames :
                 LoadFilters(included, excluded)
            \/ ClearAll
  BY <1>14, <1>16 DEF LoadFilters, ClearAll
<1>17. ASSUME NEW i \in visible, SelectRow(i) PROVE Goal
  <2>1. i \in Nat \ {0} /\ i <= Len(events)
    BY <1>17, LenProperties DEF SelectRow, OutOfRange, RowsAreIndices
  <2> QED
    BY <1>2, <1>17, <2>1 DEF SelectRow, Widget, Panel, StatisticsKept
<1> QED
  BY <1>3, <1>4, <1>5, <1>6, <1>7, <1>9, <1>10, <1>11, <1>13, <1>15, <1>16, <1>17
     DEF Frame

LEMMA HistoryInductive ==
  /\ Init => HistoryInv /\ RowsAreIndices
  /\ HistoryInv /\ RowsAreIndices /\ [Next]_vars
       => /\ HistoryInv' /\ RowsAreIndices'
          /\ selected # 0 /\ selected' = selected => events'[selected] = events[selected]
<1>1. ASSUME Init PROVE HistoryInv /\ RowsAreIndices
  <2>1. /\ events = << >> /\ visible = {} /\ category_counts = NoCounts
        /\ history_evicted = 0 /\ selected = 0 /\ max_events \in Limits
        /\ unsent = 1..MaxSequence /\ undetailed = 1..MaxSequence
    BY <1>1 DEF Init
  <2>2. messages \in Seq(Message)
    <3>1. [kind |-> "table"] \in Message
      BY DEF Message
    <3>2. <<[kind |-> "table"]>> \in Seq(Message)
      BY <3>1
    <3>3. << >> \in Seq(Message)
      OBVIOUS
    <3> QED
      BY <1>1, <3>2, <3>3 DEF Init
  <2>3. category_counts \in [Categories -> Nat] /\ Units(category_counts) = {}
    BY <2>1 DEF NoCounts, Units
  <2>4. IsFiniteSet({}) /\ Cardinality({}) = 0
    BY FS_EmptySet
  <2>5. CountsAddUp
    BY <2>1, <2>3, <2>4 DEF CountsAddUp
  <2>6. HistoryType
    BY <2>1, <2>2, <2>3, <2>4 DEF HistoryType
  <2> QED
    BY <2>1, <2>5, <2>6 DEF HistoryInv, RowsAreIndices
<1>2. ASSUME HistoryInv, RowsAreIndices, [Next]_vars
      PROVE  /\ HistoryInv' /\ RowsAreIndices'
             /\ selected # 0 /\ selected' = selected
                  => events'[selected] = events[selected]
  <2>1. CASE Collector
    <3>1. HistoryInv' /\ events' = events
      BY <1>2, <2>1, CollectorKeepsHistory DEF StatisticsKept
    <3> QED
      BY <1>2, <3>1, RowsStayIndices
  <2>2. CASE Frame
    BY <1>2, <2>2, FrameKeepsHistory, RowsStayIndices
  <2>3. CASE UNCHANGED vars
    <3>1. /\ UNCHANGED <<messages, unsent, undetailed, events, selected, max_events>>
          /\ UNCHANGED <<category_counts, history_evicted, visible>>
      BY <2>3 DEF vars, collectorVars, historyVars
    <3> QED
      BY <1>2, <3>1 DEF HistoryInv, HistoryType, CountsAddUp, RowsAreIndices
  <2> QED
    BY <1>2, <2>1, <2>2, <2>3 DEF Next
<1> QED
  BY <1>1, <1>2

(* Whatever the driver sends and the user touches, each event counted in a *)
(* category of the statistics is retained or was counted as evicted.       *)
THEOREM StatisticsAddUp == Spec => []CountsAddUp
<1>1. HistoryInv => CountsAddUp
  BY DEF HistoryInv
<1> QED
  BY <1>1, HistoryInductive, PTL DEF Spec

(* Whatever is received, evicted, cleared or refiltered, a row that stays  *)
(* selected stays the same event.                                          *)
THEOREM SelectionNeverSlips == Spec => SelectionStays
<1>1. HistoryInv /\ RowsAreIndices /\ [Next]_vars
        => [selected # 0 /\ selected' = selected
              => events'[selected] = events[selected]]_vars
  BY HistoryInductive
<1> QED
  BY <1>1, HistoryInductive, PTL DEF Spec, SelectionStays
-----------------------------------------------------------------------------
(* Details of events that arrive in order.  The oldest first: in a         *)
(* sequence of events, between two of them, and among those still to come. *)

Ascending(seq) == \A i, j \in 1..Len(seq) : i <= j => seq[i].sequence <= seq[j].sequence

Earlier(seq, other) ==
  \A i \in 1..Len(seq), j \in 1..Len(other) : seq[i].sequence <= other[j].sequence

Older(seq, numbers) == \A i \in 1..Len(seq), u \in numbers : seq[i].sequence <= u

Ordered(seq, queue, left) ==
  /\ Ascending(seq) /\ Older(seq, left)
  /\ \A k \in 1..Len(queue) : queue[k].kind = "events" =>
       /\ Earlier(seq, queue[k].batch)
       /\ Ascending(queue[k].batch) /\ Older(queue[k].batch, left)
       /\ \A l \in 1..Len(queue) :
            k < l /\ queue[l].kind = "events" => Earlier(queue[k].batch, queue[l].batch)

LEMMA EventNumber ==
  ASSUME NEW seq \in Seq(Event), NEW i \in 1..Len(seq)
  PROVE  seq[i] \in Event /\ seq[i].sequence \in Int
<1>1. seq[i] \in Event
  BY ElementOfSeq
<1>2. seq[i].sequence \in 1..MaxSequence
  BY <1>1 DEF Event
<1>3. seq[i].sequence \in Int
  BY <1>2
<1> QED
  BY <1>1, <1>3

(* What is kept of a batch is in its order.                                *)
LEMMA KeptInOrder ==
  ASSUME NEW batch \in Seq(Event), NEW k \in 1..Len(Kept(batch)), NEW l \in 1..Len(Kept(batch)),
         k <= l
  PROVE  \E i, j \in 1..Len(batch) :
           i <= j /\ Kept(batch)[k] = batch[i] /\ Kept(batch)[l] = batch[j]
<1> DEFINE P == {j \in 1..Len(batch) : EventEnabled(batch[j])}
           n == Len(batch)
           place(m) == CHOOSE i \in 1..n : EventEnabled(batch[i]) /\ Passed(batch, i) = m
<1>1. n \in Nat
  OBVIOUS
<1>2. ASSUME NEW i \in 0..n PROVE Passed(batch, i) = Rank(P, i)
  <2>1. {j \in 1..i : EventEnabled(batch[j])} = {j \in 1..i : j \in P}
    BY <1>1
  <2> QED
    BY <2>1 DEF Passed, Rank
<1>3. Passed(batch, n) = Rank(P, n) /\ Rank(P, n) \in Nat
  BY <1>1, <1>2, RankStep
<1>4. Kept(batch) = [m \in 1..Rank(P, n) |-> batch[place(m)]]
  BY <1>3 DEF Kept
<1>5. Len(Kept(batch)) = Rank(P, n)
  <2>1. Kept(batch) \in Seq(Event)
    BY KeptType
  <2> HIDE DEF place, P, n
  <2>2. DOMAIN Kept(batch) = 1..Rank(P, n)
    BY <1>4
  <2> QED
    BY <1>3, <2>1, <2>2, LenProperties
<1>6. ASSUME NEW m \in 1..Rank(P, n)
      PROVE  place(m) \in 1..n /\ Rank(P, place(m)) = m /\ Kept(batch)[m] = batch[place(m)]
  <2>1. PICK i \in 1..n : i \in P /\ Rank(P, i) = m
    BY <1>1, RankReached
  <2>2. EventEnabled(batch[i]) /\ Passed(batch, i) = m
    BY <1>1, <1>2, <2>1
  <2>3. place(m) \in 1..n /\ Passed(batch, place(m)) = m
    BY <2>1, <2>2
  <2> HIDE DEF place, P, n
  <2>4. Kept(batch)[m] = batch[place(m)]
    BY <1>4
  <2> QED
    BY <1>1, <1>2, <2>3, <2>4
<1> HIDE DEF P, n
<1>7. k \in 1..Rank(P, n) /\ l \in 1..Rank(P, n)
  BY <1>5
<1> DEFINE a == place(k)
           b == place(l)
<1>8. /\ a \in 1..n /\ Rank(P, a) = k /\ Kept(batch)[k] = batch[a]
      /\ b \in 1..n /\ Rank(P, b) = l /\ Kept(batch)[l] = batch[b]
  BY <1>6, <1>7
<1> HIDE DEF a, b, place
<1>9. CASE a <= b
  BY <1>8, <1>9 DEF n
<1>10. CASE ~(a <= b)
  <2>1. a \in Nat /\ b \in 0..a
    BY <1>1, <1>8, <1>10
  <2>2. Rank(P, b) <= Rank(P, a)
    BY <2>1, RankGrows
  <2>3. k = l
    BY <1>3, <1>7, <1>8, <2>2
  <2> QED
    BY <1>1, <1>8, <2>3 DEF n
<1> QED
  BY <1>9, <1>10

(* What takes its events from another sequence in their order is as much   *)
(* in order.                                                               *)
LEMMA PartOrdered ==
  ASSUME NEW seq \in Seq(Event), NEW part \in Seq(Event), NEW queue, NEW left,
         Ordered(seq, queue, left),
         \A k, l \in 1..Len(part) : k <= l =>
           \E i, j \in 1..Len(seq) : i <= j /\ part[k] = seq[i] /\ part[l] = seq[j]
  PROVE  Ordered(part, queue, left)
<1>1. \A k \in 1..Len(part) : \E i \in 1..Len(seq) : part[k] = seq[i]
  OBVIOUS
<1>2. Ascending(part)
  BY DEF Ordered, Ascending
<1>3. Older(part, left)
  BY <1>1 DEF Ordered, Older
<1>4. ASSUME NEW batch, Earlier(seq, batch) PROVE Earlier(part, batch)
  BY <1>1, <1>4 DEF Earlier
<1> QED
  BY <1>2, <1>3, <1>4, Zenon DEF Ordered

LEMMA SuffixOrdered ==
  ASSUME NEW seq \in Seq(Event), NEW queue, NEW left, Ordered(seq, queue, left),
         NEW n \in 0..Len(seq)
  PROVE  Ordered(Without(seq, n), queue, left)
<1> DEFINE part == Without(seq, n)
<1>1. part \in Seq(Event) /\ Len(part) \in Nat /\ n + Len(part) = Len(seq)
  BY SuffixType
<1>2. \A i \in 1..Len(part) : part[i] = seq[n + i]
  <2>1. Len(seq) \in Nat /\ n + 1 \in Int
    BY LenProperties
  <2>2. \A i \in (n + 1)..Len(seq) : seq[i] \in Event
    BY <2>1, ElementOfSeq
  <2>3. \A i \in 1..(Len(seq) - (n + 1) + 1) : SubSeq(seq, n + 1, Len(seq))[i] = seq[n + 1 + i - 1]
    BY <2>1, <2>2, SubSeqProperties
  <2>4. Len(part) = Len(seq) - (n + 1) + 1
    BY <1>1, <2>1
  <2>5. \A i \in 1..Len(part) : n + 1 + i - 1 = n + i
    BY <1>1, <2>1
  <2> QED
    BY <2>3, <2>4, <2>5 DEF Without
<1>3. ASSUME NEW k \in 1..Len(part), NEW l \in 1..Len(part), k <= l
      PROVE  \E i, j \in 1..Len(seq) : i <= j /\ part[k] = seq[i] /\ part[l] = seq[j]
  <2>1. n + k \in 1..Len(seq) /\ n + l \in 1..Len(seq) /\ n + k <= n + l
    BY <1>1, <1>3
  <2> QED
    BY <1>2, <2>1
<1> HIDE DEF part
<1>4. Ordered(part, queue, left)
  BY <1>1, <1>3, PartOrdered
<1> QED
  BY <1>4 DEF part

LEMMA EmptyOrdered ==
  ASSUME NEW seq \in Seq(Event), NEW queue, NEW left, Ordered(seq, queue, left)
  PROVE  Ordered(<< >>, queue, left)
<1> DEFINE none == << >>
<1>1. none \in Seq(Event) /\ Len(none) = 0
  OBVIOUS
<1> HIDE DEF none
<1>2. \A k \in 1..Len(none) : FALSE
  BY <1>1
<1>3. Ordered(none, queue, left)
  BY <1>1, <1>2, PartOrdered
<1> QED
  BY <1>3 DEF none

(* The channel without its first message.                                  *)
LEMMA TailOrdered ==
  ASSUME NEW seq, NEW queue \in Seq(Message), queue # << >>, NEW left, Ordered(seq, queue, left)
  PROVE  /\ Ordered(seq, Tail(queue), left)
         /\ Head(queue).kind = "events" =>
              /\ Earlier(seq, Head(queue).batch)
              /\ Ascending(Head(queue).batch) /\ Older(Head(queue).batch, left)
              /\ \A k \in 1..Len(Tail(queue)) : Tail(queue)[k].kind = "events" =>
                   Earlier(Head(queue).batch, Tail(queue)[k].batch)
<1>1. /\ Len(queue) \in Nat /\ Len(queue) # 0 /\ Head(queue) = queue[1]
      /\ Len(Tail(queue)) = Len(queue) - 1
      /\ \A k \in 1..Len(Tail(queue)) : Tail(queue)[k] = queue[k + 1]
  BY EmptySeq, LenProperties, HeadTailProperties
<1>2. 1 \in 1..Len(queue) /\ \A k \in 1..Len(Tail(queue)) : k + 1 \in 1..Len(queue) /\ 1 < k + 1
  BY <1>1
<1>3. \A k, l \in 1..Len(Tail(queue)) : k < l => k + 1 < l + 1
  BY <1>1
<1>4. Ordered(seq, Tail(queue), left)
  BY <1>1, <1>2, <1>3 DEF Ordered
<1> QED
  BY <1>1, <1>2, <1>4 DEF Ordered

(* push_events: what is kept of the first batch comes behind the history.  *)
LEMMA PushOrdered ==
  ASSUME NEW seq \in Seq(Event), NEW queue \in Seq(Message), queue # << >>, NEW left \in SUBSET Int,
         Ordered(seq, queue, left), Head(queue).kind = "events", Head(queue).batch \in Seq(Event)
  PROVE  Ordered(seq \o Kept(Head(queue).batch), Tail(queue), left)
<1> DEFINE batch == Head(queue).batch
           kept == Kept(batch)
           all == seq \o kept
           rest == Tail(queue)
<1>1. /\ Ordered(seq, rest, left)
      /\ Earlier(seq, batch) /\ Ascending(batch) /\ Older(batch, left)
      /\ \A k \in 1..Len(rest) : rest[k].kind = "events" => Earlier(batch, rest[k].batch)
  BY TailOrdered
<1>2. kept \in Seq(Event) /\ batch \in Seq(Event)
  BY KeptType
<1>3. \A k, l \in 1..Len(kept) : k <= l =>
        \E i, j \in 1..Len(batch) : i <= j /\ kept[k] = batch[i] /\ kept[l] = batch[j]
  BY KeptInOrder
<1> HIDE DEF batch, kept, rest
<1>4. Len(seq) \in Nat /\ Len(kept) \in Nat
  BY <1>2, LenProperties
<1>5. /\ Len(all) = Len(seq) + Len(kept)
      /\ \A i \in 1..Len(all) : all[i] = IF i <= Len(seq) THEN seq[i] ELSE kept[i - Len(seq)]
  BY <1>2, ConcatProperties
<1> HIDE DEF all
<1>6. \A k \in 1..Len(kept) : \E i \in 1..Len(batch) : kept[k] = batch[i]
  BY <1>3, <1>4
<1>7. ASSUME NEW i \in 1..Len(all)
      PROVE  \/ i <= Len(seq) /\ i \in 1..Len(seq) /\ all[i] = seq[i]
             \/ ~(i <= Len(seq)) /\ i - Len(seq) \in 1..Len(kept) /\ all[i] = kept[i - Len(seq)]
  BY <1>4, <1>5
<1>8. Ascending(kept) /\ Earlier(seq, kept) /\ Older(kept, left)
  BY <1>1, <1>3, <1>6 DEF Ascending, Earlier, Older
<1>9. Ascending(all)
  <2> SUFFICES ASSUME NEW i \in 1..Len(all), NEW j \in 1..Len(all), i <= j
               PROVE  all[i].sequence <= all[j].sequence
    BY DEF Ascending
  <2>1. CASE j <= Len(seq)
    <3>1. i \in 1..Len(seq) /\ j \in 1..Len(seq) /\ all[i] = seq[i] /\ all[j] = seq[j]
      BY <1>4, <1>5, <1>7, <2>1
    <3> QED
      BY <1>1, <3>1 DEF Ordered, Ascending
  <2>2. CASE ~(j <= Len(seq)) /\ i <= Len(seq)
    BY <1>7, <1>8, <2>2 DEF Earlier
  <2>3. CASE ~(j <= Len(seq)) /\ ~(i <= Len(seq))
    <3>1. i - Len(seq) \in 1..Len(kept) /\ j - Len(seq) \in 1..Len(kept)
          /\ all[i] = kept[i - Len(seq)] /\ all[j] = kept[j - Len(seq)]
      BY <1>7, <2>3
    <3>2. i - Len(seq) <= j - Len(seq)
      BY <1>4, <1>5
    <3> QED
      BY <1>8, <3>1, <3>2 DEF Ascending
  <2> QED
    BY <2>1, <2>2, <2>3
<1>10. Older(all, left)
  BY <1>1, <1>7, <1>8 DEF Ordered, Older
<1>11. ASSUME NEW other, Earlier(seq, other), Earlier(batch, other)
       PROVE  Earlier(all, other)
  <2> SUFFICES ASSUME NEW i \in 1..Len(all), NEW j \in 1..Len(other)
               PROVE  all[i].sequence <= other[j].sequence
    BY DEF Earlier
  <2>1. CASE i \in 1..Len(seq) /\ all[i] = seq[i]
    BY <1>11, <2>1 DEF Earlier
  <2>2. CASE i - Len(seq) \in 1..Len(kept) /\ all[i] = kept[i - Len(seq)]
    <3>1. PICK k \in 1..Len(batch) : kept[i - Len(seq)] = batch[k]
      BY <1>6, <2>2
    <3> QED
      BY <1>11, <2>2, <3>1 DEF Earlier
  <2> QED
    BY <1>7, <2>1, <2>2
<1>12. Ordered(all, rest, left)
  <2>1. ASSUME NEW k \in 1..Len(rest), rest[k].kind = "events"
        PROVE  Earlier(all, rest[k].batch)
    BY <1>1, <1>11, <2>1 DEF Ordered
  <2> QED
    BY <1>1, <1>9, <1>10, <2>1 DEF Ordered
<1> QED
  BY <1>12 DEF all, rest, kept, batch

(* A message behind the others: its events are among those still to come.  *)
LEMMA SendOrdered ==
  ASSUME NEW seq \in Seq(Event), NEW queue \in Seq(Message), NEW left, NEW fewer \in SUBSET left,
         Ordered(seq, queue, left), NEW m \in Message,
         m.kind = "events" =>
           /\ Ascending(m.batch) /\ Older(m.batch, fewer)
           /\ \A i \in 1..Len(m.batch) : m.batch[i].sequence \in left
  PROVE  Ordered(seq, Append(queue, m), fewer)
<1> DEFINE n == Len(queue)
           longer == Append(queue, m)
<1>1. /\ n \in Nat /\ Len(longer) = n + 1 /\ longer[n + 1] = m
      /\ \A k \in 1..n : longer[k] = queue[k]
  BY LenProperties, AppendProperties
<1> HIDE DEF n, longer
<1>2. ASSUME NEW k \in 1..(n + 1)
      PROVE  \/ k \in 1..n /\ longer[k] = queue[k]
             \/ k = n + 1 /\ longer[k] = m
  BY <1>1
<1>3. ASSUME NEW other, Older(other, left)
      PROVE  Older(other, fewer) /\ (m.kind = "events" => Earlier(other, m.batch))
  BY <1>3 DEF Older, Earlier
<1>4. Ascending(seq) /\ Older(seq, left)
  BY DEF Ordered
<1>5. ASSUME NEW k \in 1..n, queue[k].kind = "events"
      PROVE  /\ Earlier(seq, queue[k].batch)
             /\ Ascending(queue[k].batch) /\ Older(queue[k].batch, left)
             /\ \A l \in 1..n :
                  k < l /\ queue[l].kind = "events" => Earlier(queue[k].batch, queue[l].batch)
  BY <1>5 DEF Ordered, n
<1>6. ASSUME NEW k \in 1..(n + 1), longer[k].kind = "events"
      PROVE  /\ Earlier(seq, longer[k].batch)
             /\ Ascending(longer[k].batch) /\ Older(longer[k].batch, fewer)
             /\ \A l \in 1..(n + 1) :
                  k < l /\ longer[l].kind = "events" => Earlier(longer[k].batch, longer[l].batch)
  <2>1. CASE k \in 1..n /\ longer[k] = queue[k]
    <3>1. ASSUME NEW l \in 1..(n + 1), k < l, longer[l].kind = "events"
          PROVE  Earlier(longer[k].batch, longer[l].batch)
      <4>1. CASE l \in 1..n /\ longer[l] = queue[l]
        BY <1>5, <1>6, <2>1, <3>1, <4>1
      <4>2. CASE l = n + 1 /\ longer[l] = m
        BY <1>3, <1>5, <1>6, <2>1, <3>1, <4>2
      <4> QED
        BY <1>2, <4>1, <4>2
    <3> QED
      BY <1>3, <1>5, <1>6, <2>1, <3>1
  <2>2. CASE k = n + 1 /\ longer[k] = m
    <3>1. \A l \in 1..(n + 1) : ~(k < l)
      BY <1>1, <2>2
    <3> QED
      BY <1>3, <1>4, <1>6, <2>2, <3>1
  <2> QED
    BY <1>2, <2>1, <2>2
<1>7. Ordered(seq, longer, fewer)
  BY <1>1, <1>3, <1>4, <1>6 DEF Ordered
<1> QED
  BY <1>7 DEF longer

(* A detail that the limit pushes out leaves as many as the limit allows.  *)
LEMMA NewestKeeps ==
  ASSUME NEW set, IsFiniteSet(set), NEW s \in set, NEW d, s \in Int, NEW limit \in Nat,
         s \notin Newest(set \cup {d}, limit)
  PROVE  Cardinality(set) >= limit
<1> DEFINE larger == {u \in set \cup {d} : u > s}
           rest == set \ {s}
<1>1. ~(Cardinality(larger) < limit)
  BY DEF Newest
<1>2. larger \subseteq rest \cup {d}
  OBVIOUS
<1> HIDE DEF larger
<1>3. /\ IsFiniteSet(rest) /\ Cardinality(rest) = Cardinality(set) - 1
      /\ Cardinality(set) \in Nat
  BY FS_RemoveElement, FS_CardinalityType
<1> HIDE DEF rest
<1>4. IsFiniteSet(rest \cup {d}) /\ Cardinality(rest \cup {d}) <= Cardinality(rest) + 1
  <2>1. /\ IsFiniteSet(rest \cup {d})
        /\ Cardinality(rest \cup {d}) = IF d \in rest THEN Cardinality(rest) ELSE Cardinality(rest) + 1
    BY <1>3, FS_AddElement
  <2> QED
    BY <1>3, <2>1
<1>5. Cardinality(larger) <= Cardinality(rest \cup {d}) /\ Cardinality(larger) \in Nat
  <2>1. IsFiniteSet(larger) /\ Cardinality(larger) <= Cardinality(rest \cup {d})
    BY <1>2, <1>4, FS_Subset
  <2> QED
    BY <2>1, FS_CardinalityType
<1>6. Cardinality(rest \cup {d}) \in Nat
  BY <1>4, FS_CardinalityType
<1> QED
  BY <1>1, <1>3, <1>4, <1>5, <1>6

(* Details come one at a time.                                             *)
DetailsInv ==
  /\ details \subseteq 1..MaxSequence /\ IsFiniteSet(details)
  /\ \A k \in 1..Len(messages) : messages[k].kind = "details" =>
       \E s \in 1..MaxSequence : messages[k].sequences = {s}

OrderInv == Ordered(events, messages, unsent) /\ DetailsInv

(* What the steps do to the history, the details and the channel.          *)
LEMMA Moves ==
  ASSUME [Next]_vars
  PROVE  \/ UNCHANGED <<events, details, messages, unsent>>
         \/ events' = << >> /\ details' = {} /\ UNCHANGED <<messages, unsent>>
         \/ \E limit \in Limits : MoveSlider(limit)
         \/ Collector \/ PushEvents \/ AddDetails \/ TakeTable
<1> DEFINE Goal ==
      \/ UNCHANGED <<events, details, messages, unsent>>
      \/ events' = << >> /\ details' = {} /\ UNCHANGED <<messages, unsent>>
<1>1. ASSUME NEW from, NEW to, Panel(from, to)
      PROVE  UNCHANGED <<messages, unsent>>
  BY <1>1 DEF Panel, collectorVars
<1>2. ASSUME NEW from, NEW to, Widget(from, to)
      PROVE  UNCHANGED <<messages, unsent>>
  BY <1>1, <1>2 DEF Widget
<1>3. ASSUME NEW from, NEW to, NoWidget(from, to)
      PROVE  UNCHANGED <<events, details, messages, unsent>>
  BY <1>1, <1>3 DEF NoWidget, historyVars
<1>4. ASSUME ChangeFilter PROVE UNCHANGED <<events, details, messages, unsent>>
  BY <1>2, <1>4 DEF ChangeFilter, historyVars
<1>5. ASSUME NEW included, NEW excluded, ChangeOperations(included, excluded)
      PROVE  UNCHANGED <<events, details, messages, unsent>>
  BY <1>4, <1>5 DEF ChangeOperations
<1>6. CASE FinishDrain
  BY <1>6 DEF FinishDrain, collectorVars, historyVars
<1>7. CASE ToggleCapture \/ ChangeView
  BY <1>2, <1>7 DEF ToggleCapture, ChangeView, historyVars
<1>8. CASE Panic
  BY <1>1, <1>8 DEF Panic, historyVars
<1>9. CASE Clear
  BY <1>2, <1>9 DEF Clear, EmptyHistory
<1>10. CASE \E chosen \in Targets : ApplyCaptureProcess(chosen)
  BY <1>2, <1>10 DEF ApplyCaptureProcess, EmptyHistory, historyVars
<1>11. CASE ChangeSearch \/ ResetFilters \/ \E c \in Categories : ToggleCategory(c)
  BY <1>4, <1>11 DEF ChangeSearch, ResetFilters, ToggleCategory
<1>12. CASE \E name \in Operations \cup {"Unknown"} :
              IncludeOperation(name) \/ ExcludeOperation(name) \/ ClearOperation(name)
  BY <1>5, <1>12 DEF IncludeOperation, ExcludeOperation, ClearOperation
<1>13. CASE \/ \E included, excluded \in SUBSET KnownNames : LoadFilters(included, excluded)
            \/ ClearAll
  BY <1>5, <1>13 DEF LoadFilters, ClearAll
<1>14. CASE \E i \in visible : SelectRow(i)
  BY <1>2, <1>14 DEF SelectRow
<1>15. CASE UNCHANGED vars
  BY <1>15 DEF vars, collectorVars, historyVars
<1> QED
  BY <1>3, <1>6, <1>7, <1>8, <1>9, <1>10, <1>11, <1>12, <1>13, <1>14, <1>15 DEF Next, Frame

(* The events of a batch that is sent are among those that wait, and ahead *)
(* of the rest.                                                            *)
LEMMA CollectorKeepsOrder ==
  ASSUME InOrder, HistoryInv, OrderInv, Collector
  PROVE  OrderInv' /\ UNCHANGED <<events, details>>
<1>1. /\ events \in Seq(Event) /\ messages \in Seq(Message)
      /\ unsent \subseteq 1..MaxSequence /\ undetailed \subseteq 1..MaxSequence
  BY DEF HistoryInv, HistoryType
<1>2. ASSUME NEW m \in Message, CollectorSends(m), unsent' \subseteq unsent,
             m.kind = "events" =>
               /\ Ascending(m.batch) /\ Older(m.batch, unsent')
               /\ \A i \in 1..Len(m.batch) : m.batch[i].sequence \in unsent,
             m.kind = "details" => \E s \in 1..MaxSequence : m.sequences = {s}
      PROVE  OrderInv' /\ UNCHANGED <<events, details>>
  <2>1. messages' = Append(messages, m) /\ UNCHANGED <<events, details>>
    BY <1>2 DEF CollectorSends, historyVars
  <2>2. Ordered(events, Append(messages, m), unsent')
    BY <1>1, <1>2, SendOrdered DEF OrderInv
  <2>3. /\ Len(messages) \in Nat /\ Len(messages') = Len(messages) + 1
        /\ messages'[Len(messages) + 1] = m
        /\ \A k \in 1..Len(messages) : messages'[k] = messages[k]
    BY <1>1, <2>1, LenProperties, AppendProperties
  <2>4. ASSUME NEW k \in 1..Len(messages'), messages'[k].kind = "details"
        PROVE  \E s \in 1..MaxSequence : messages'[k].sequences = {s}
    <3>1. CASE k \in 1..Len(messages)
      BY <2>3, <2>4, <3>1 DEF OrderInv, DetailsInv
    <3>2. CASE k = Len(messages) + 1
      BY <1>2, <2>3, <2>4, <3>2
    <3> QED
      BY <2>3, <3>1, <3>2
  <2>5. DetailsInv'
    BY <2>1, <2>4 DEF OrderInv, DetailsInv
  <2> QED
    BY <2>1, <2>2, <2>5 DEF OrderInv
<1>3. ASSUME NEW s \in unsent, NEW o \in Operations, SendEvent(s, o)
      PROVE  OrderInv' /\ UNCHANGED <<events, details>>
  <2> DEFINE e == [sequence |-> s, operation |-> o]
             batch == <<e>>
             m == [kind |-> "events", batch |-> batch]
  <2>1. e \in Event /\ s \in Int
    BY <1>1 DEF Event
  <2>2. m \in Message /\ m.kind = "events" /\ m.batch = batch
    BY <2>1 DEF Message
  <2>3. CollectorSends(m) /\ unsent' = unsent \ {s} /\ \A u \in unsent : s <= u
    BY <1>3 DEF SendEvent
  <2>4. Len(batch) = 1 /\ batch[1].sequence = s
    OBVIOUS
  <2> HIDE DEF m, batch, e
  <2>5. \A i \in 1..Len(batch) : batch[i].sequence = s
    BY <2>4
  <2>6. Ascending(batch) /\ Older(batch, unsent')
    BY <2>1, <2>3, <2>5 DEF Ascending, Older
  <2>7. unsent' \subseteq unsent /\ \A i \in 1..Len(batch) : batch[i].sequence \in unsent
    BY <2>3, <2>5
  <2>8. m.kind # "details"
    BY <2>2
  <2> QED
    BY <1>2, <2>2, <2>3, <2>6, <2>7, <2>8
<1>4. ASSUME NEW s \in unsent, NEW t \in unsent, NEW o \in Operations, NEW p \in Operations,
             SendEvents(s, o, t, p)
      PROVE  OrderInv' /\ UNCHANGED <<events, details>>
  <2> DEFINE e == [sequence |-> s, operation |-> o]
             f == [sequence |-> t, operation |-> p]
             batch == <<e, f>>
             m == [kind |-> "events", batch |-> batch]
  <2>1. e \in Event /\ f \in Event /\ s \in Int /\ t \in Int
    BY <1>1 DEF Event
  <2>2. m \in Message /\ m.kind = "events" /\ m.batch = batch
    BY <2>1 DEF Message
  <2>3. /\ CollectorSends(m) /\ unsent' = unsent \ {s, t} /\ s < t
        /\ \A u \in unsent \ {s} : t <= u
    BY <1>4 DEF SendEvents
  <2>4. Len(batch) = 2 /\ batch[1].sequence = s /\ batch[2].sequence = t
    OBVIOUS
  <2> HIDE DEF m, batch, e, f
  <2>5. \A i \in 1..Len(batch) : i \in {1, 2}
    BY <2>4
  <2>6. Ascending(batch)
    BY <2>1, <2>3, <2>4, <2>5 DEF Ascending
  <2>9. Older(batch, unsent')
    <3> SUFFICES ASSUME NEW u \in unsent' PROVE s <= u /\ t <= u
      BY <2>4, <2>5 DEF Older
    <3>1. u \in unsent \ {s} /\ u \in Int
      BY <1>1, <2>3
    <3> QED
      BY <2>1, <2>3, <3>1
  <2>7. unsent' \subseteq unsent /\ \A i \in 1..Len(batch) : batch[i].sequence \in unsent
    BY <2>3, <2>4, <2>5
  <2>8. m.kind # "details"
    BY <2>2
  <2> QED
    BY <1>2, <2>2, <2>3, <2>6, <2>7, <2>8, <2>9
<1>5. ASSUME NEW s \in undetailed, SendDetail(s)
      PROVE  OrderInv' /\ UNCHANGED <<events, details>>
  <2> DEFINE m == [kind |-> "details", sequences |-> {s}]
  <2>1. m \in Message /\ m.kind = "details" /\ m.sequences = {s} /\ s \in 1..MaxSequence
    BY <1>1 DEF Message
  <2>2. CollectorSends(m) /\ unsent' = unsent
    BY <1>5 DEF SendDetail
  <2> HIDE DEF m
  <2>3. m.kind # "events"
    BY <2>1
  <2> QED
    BY <1>2, <2>1, <2>2, <2>3
<1> QED
  BY <1>3, <1>4, <1>5 DEF Collector

(* The detail of an event stays while there is room for it.                *)
Keeps ==
  \A e \in EventsAsSet' :
    e.sequence \in details /\ e.sequence \notin details' => Cardinality(details) >= max_events

(* What leaves the channel by its first message, and the details as they   *)
(* were or fewer.                                                          *)
LEMMA ReceiveKeepsDetails ==
  ASSUME DetailsInv, messages \in Seq(Message), messages # << >>, messages' = Tail(messages),
         details' \subseteq details
  PROVE  DetailsInv'
<1>1. /\ Len(messages) \in Nat /\ Len(messages) # 0 /\ Len(messages') = Len(messages) - 1
      /\ \A k \in 1..Len(messages') : messages'[k] = messages[k + 1]
  BY EmptySeq, LenProperties, HeadTailProperties
<1>2. \A k \in 1..Len(messages') : k + 1 \in 1..Len(messages)
  BY <1>1
<1>3. details' \subseteq 1..MaxSequence /\ IsFiniteSet(details')
  BY FS_Subset DEF DetailsInv
<1> QED
  BY <1>1, <1>2, <1>3 DEF DetailsInv

LEMMA PushKeepsOrder ==
  ASSUME HistoryInv, OrderInv, PushEvents
  PROVE  OrderInv' /\ Keeps
<1> DEFINE batch == Head(messages).batch
           kept == Kept(batch)
           all == events \o kept
           n == Surplus(all)
<1>1. /\ events \in Seq(Event) /\ messages \in Seq(Message) /\ max_events \in Limits
      /\ unsent \subseteq 1..MaxSequence
  BY DEF HistoryInv, HistoryType
<1>2. /\ messages # << >> /\ Head(messages).kind = "events" /\ messages' = Tail(messages)
      /\ UNCHANGED <<unsent, max_events>>
      /\ events' = Without(all, n) /\ details' = RetainFrom(events', details)
  BY DEF PushEvents, Receive
<1>3. batch \in Seq(Event)
  <2>1. Head(messages) \in Message
    BY <1>1, <1>2, HeadTailProperties
  <2> QED
    BY <1>2, <2>1 DEF Message
<1>4. all \in Seq(Event)
  <2>1. kept \in Seq(Event)
    BY <1>3, KeptType
  <2> HIDE DEF kept
  <2> QED
    BY <1>1, <2>1, ConcatProperties
<1>5. unsent \in SUBSET Int
  BY <1>1
<1>6. Ordered(all, Tail(messages), unsent)
  BY <1>1, <1>2, <1>3, <1>5, PushOrdered DEF OrderInv
<1>7. n \in 0..Len(all)
  <2> HIDE DEF all
  <2>1. Len(all) \in Nat /\ max_events \in Nat
    BY <1>1, <1>4, LenProperties, WindowAssumption
  <2> QED
    BY <2>1 DEF Surplus
<1> HIDE DEF n, all, kept, batch
<1>8. Ordered(events', messages', unsent') /\ events' \in Seq(Event)
  BY <1>2, <1>4, <1>6, <1>7, SuffixOrdered, SuffixType
<1>9. details' \subseteq details
  BY <1>2 DEF RetainFrom
<1>10. DetailsInv'
  BY <1>1, <1>2, <1>9, ReceiveKeepsDetails DEF OrderInv
<1>11. ASSUME NEW e \in EventsAsSet', e.sequence \in details
       PROVE  e.sequence \in details'
  <2>1. PICK i \in 1..Len(events') : e = events'[i]
    BY <1>11 DEF EventsAsSet
  <2>2. Len(events') \in Nat /\ 1 \in 1..Len(events') /\ 1 <= i
    BY <1>8, <2>1, LenProperties
  <2>3. events'[1].sequence <= e.sequence
    BY <1>8, <2>1, <2>2 DEF Ordered, Ascending
  <2>4. events'[1].sequence \in Int /\ e.sequence \in Int
    BY <1>8, <2>1, <2>2, EventNumber
  <2>5. e.sequence >= events'[1].sequence
    BY <2>3, <2>4
  <2> QED
    BY <1>2, <1>11, <2>5 DEF RetainFrom
<1> QED
  BY <1>8, <1>10, <1>11 DEF OrderInv, Keeps

LEMMA AddKeepsOrder ==
  ASSUME HistoryInv, OrderInv, AddDetails
  PROVE  OrderInv' /\ Keeps
<1>1. /\ events \in Seq(Event) /\ messages \in Seq(Message) /\ max_events \in Nat
  BY WindowAssumption DEF HistoryInv, HistoryType
<1>2. /\ messages # << >> /\ Head(messages).kind = "details" /\ messages' = Tail(messages)
      /\ UNCHANGED <<unsent, events>>
      /\ details' = Newest(details \cup Head(messages).sequences, max_events)
  BY DEF AddDetails, Receive
<1>3. Ordered(events', messages', unsent')
  BY <1>1, <1>2, TailOrdered DEF OrderInv
<1>4. /\ Len(messages) \in Nat /\ Len(messages) # 0 /\ Head(messages) = messages[1]
      /\ Len(messages') = Len(messages) - 1
      /\ \A k \in 1..Len(messages') : messages'[k] = messages[k + 1]
  BY <1>1, <1>2, EmptySeq, LenProperties, HeadTailProperties
<1>5. 1 \in 1..Len(messages) /\ \A k \in 1..Len(messages') : k + 1 \in 1..Len(messages)
  BY <1>4
<1>6. PICK d \in 1..MaxSequence : Head(messages).sequences = {d}
  BY <1>2, <1>4, <1>5 DEF OrderInv, DetailsInv
<1>7. details' = Newest(details \cup {d}, max_events)
  BY <1>2, <1>6
<1>8. details \subseteq 1..MaxSequence /\ IsFiniteSet(details)
  BY DEF OrderInv, DetailsInv
<1>9. details' \subseteq 1..MaxSequence /\ IsFiniteSet(details')
  <2>1. details' \subseteq details \cup {d}
    BY <1>7 DEF Newest
  <2>2. IsFiniteSet(details \cup {d})
    BY <1>8, FS_AddElement
  <2> QED
    BY <1>8, <2>1, <2>2, FS_Subset
<1>10. DetailsInv'
  BY <1>4, <1>5, <1>9 DEF OrderInv, DetailsInv
<1>11. ASSUME NEW s \in details, s \notin details'
       PROVE  Cardinality(details) >= max_events
  <2>1. s \in Int /\ d \in Int
    BY <1>8
  <2> QED
    BY <1>1, <1>7, <1>8, <1>11, <2>1, NewestKeeps
<1> QED
  BY <1>3, <1>10, <1>11 DEF OrderInv, Keeps

LEMMA SliderKeepsOrder ==
  ASSUME HistoryInv, OrderInv, NEW limit \in Limits, MoveSlider(limit)
  PROVE  OrderInv' /\ UNCHANGED details
<1> DEFINE n == IF Len(events) > limit THEN Len(events) - limit ELSE 0
<1>1. events \in Seq(Event) /\ Len(events) \in Nat /\ limit \in Nat
  BY LenProperties, WindowAssumption DEF HistoryInv, HistoryType
<1>2. n \in 0..Len(events)
  BY <1>1
<1>3. events' = Without(events, n) /\ UNCHANGED <<messages, unsent, details>>
  BY DEF MoveSlider, Widget, Panel, collectorVars
<1> HIDE DEF n
<1>4. Ordered(events', messages', unsent')
  BY <1>1, <1>2, <1>3, SuffixOrdered DEF OrderInv
<1> QED
  BY <1>3, <1>4 DEF OrderInv, DetailsInv

LEMMA OrderInductive ==
  ASSUME InOrder
  PROVE  /\ Init => OrderInv
         /\ HistoryInv /\ OrderInv /\ [Next]_vars => OrderInv' /\ Keeps
<1>1. ASSUME Init PROVE OrderInv
  <2>1. /\ events = << >> /\ details = {}
        /\ messages \in {<<[kind |-> "table"]>>, << >>}
    BY <1>1 DEF Init
  <2>2. Len(events) = 0 /\ \A k \in 1..Len(messages) : messages[k].kind = "table"
    BY <2>1
  <2>3. \A i \in 1..Len(events) : FALSE
    BY <2>2
  <2>4. \A k \in 1..Len(messages) : messages[k].kind # "events" /\ messages[k].kind # "details"
    BY <2>2
  <2>5. Ordered(events, messages, unsent)
    BY <2>3, <2>4 DEF Ordered, Ascending, Older
  <2>6. DetailsInv
    BY <2>1, <2>4, FS_EmptySet DEF DetailsInv
  <2> QED
    BY <2>5, <2>6 DEF OrderInv
<1>2. ASSUME HistoryInv, OrderInv, [Next]_vars PROVE OrderInv' /\ Keeps
  <2>1. ASSUME UNCHANGED details PROVE Keeps
    BY <2>1 DEF Keeps
  <2>2. CASE UNCHANGED <<events, details, messages, unsent>>
    BY <1>2, <2>1, <2>2 DEF OrderInv, DetailsInv
  <2>3. CASE events' = << >> /\ details' = {} /\ UNCHANGED <<messages, unsent>>
    <3>1. Ordered(<< >>, messages, unsent)
      BY <1>2, EmptyOrdered DEF OrderInv, HistoryInv, HistoryType
    <3>2. Ordered(events', messages', unsent')
      BY <2>3, <3>1
    <3>3. DetailsInv'
      BY <1>2, <2>3, FS_EmptySet DEF OrderInv, DetailsInv
    <3>4. EventsAsSet' = {}
      BY <2>3 DEF EventsAsSet
    <3> QED
      BY <3>2, <3>3, <3>4 DEF OrderInv, Keeps
  <2>4. CASE \E limit \in Limits : MoveSlider(limit)
    BY <1>2, <2>1, <2>4, SliderKeepsOrder
  <2>5. CASE Collector
    BY <1>2, <2>1, <2>5, CollectorKeepsOrder
  <2>6. CASE PushEvents \/ AddDetails
    BY <1>2, <2>6, PushKeepsOrder, AddKeepsOrder
  <2>7. CASE TakeTable
    <3>1. /\ messages # << >> /\ messages' = Tail(messages)
          /\ UNCHANGED <<unsent, events, details>>
      BY <2>7 DEF TakeTable, Receive, historyVars
    <3>2. messages \in Seq(Message)
      BY <1>2 DEF HistoryInv, HistoryType
    <3>3. Ordered(events, Tail(messages), unsent)
      BY <1>2, <3>1, <3>2, TailOrdered DEF OrderInv
    <3>4. DetailsInv'
      BY <1>2, <3>1, <3>2, ReceiveKeepsDetails DEF OrderInv
    <3> QED
      BY <2>1, <3>1, <3>3, <3>4 DEF OrderInv
  <2> QED
    BY <1>2, <2>2, <2>3, <2>4, <2>5, <2>6, <2>7, Moves
<1> QED
  BY <1>1, <1>2

(* Where the driver hands out events in the order of their numbers and     *)
(* details come one per message, as in SendDetail, a retained event keeps  *)
(* the detail that arrived for it, unless more details than the limit      *)
(* allows push it out: push_events, which throws away what is older than   *)
(* the first event, then throws away none of them.                         *)
THEOREM DetailsStayInOrder == InOrder => (Spec => DetailsKept)
<1> SUFFICES ASSUME InOrder PROVE Spec => DetailsKept
  OBVIOUS
<1>1. Init => HistoryInv /\ RowsAreIndices /\ OrderInv
  BY HistoryInductive, OrderInductive
<1>2. HistoryInv /\ RowsAreIndices /\ OrderInv /\ [Next]_vars
        => HistoryInv' /\ RowsAreIndices' /\ OrderInv' /\ Keeps
  BY HistoryInductive, OrderInductive
<1>3. HistoryInv /\ RowsAreIndices /\ OrderInv /\ [Next]_vars
        => [\A e \in EventsAsSet' :
              e.sequence \in details /\ e.sequence \notin details'
                => Cardinality(details) >= max_events]_vars
  BY <1>2 DEF Keeps
<1> QED
  BY <1>1, <1>2, <1>3, PTL DEF Spec, DetailsKept
=============================================================================
