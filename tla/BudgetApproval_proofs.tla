------------------------ MODULE BudgetApproval_proofs ------------------------
(***************************************************************************)
(* What holds of a file's budgets for any users, figures, threshold and    *)
(* number of budgets.  The invariant is one of a table of budgets, so that *)
(* it can also be stated of the table between the two writes of a revision.*)
(***************************************************************************)
EXTENDS BudgetApproval, SequenceTheorems, FiniteSetTheorems,
        WellFoundedInduction, TLAPS

-----------------------------------------------------------------------------
(* Numbers of rows.                                                        *)

\* A set of row numbers up to n that is not empty has a greatest element.
LEMMA LastRow ==
  ASSUME NEW n \in Nat, NEW T, T \subseteq 1..n, T # {}
  PROVE  \E i \in T : \A j \in T : j <= i
  <1> DEFINE D == {n - i : i \in T}
  <1>1. D \subseteq Nat /\ D # {}
    <2>1. \A i \in T : i \in 1..n
      OBVIOUS
    <2>2. \A i \in 1..n : n - i \in Nat
      OBVIOUS
    <2> QED BY <2>1, <2>2
  <1> HIDE DEF D
  <1>2. PICK d \in D : \A e \in D : ~(<<e, d>> \in OpToRel(<, Nat))
    BY <1>1, NatLessThanWellFounded, WFMin
  <1>3. \A e \in D : ~(e < d)
    BY <1>1, <1>2 DEF OpToRel
  <1>4. PICK i \in T : d = n - i
    BY <1>2 DEF D
  <1>5. \A j \in T : ~(n - j < n - i)
    BY <1>3, <1>4 DEF D
  <1>6. \A j \in T : j \in 1..n /\ i \in 1..n
    OBVIOUS
  <1>7. \A j \in T : j <= i
    BY <1>5, <1>6
  <1> QED BY <1>7

\* A set of row numbers is finite.
LEMMA RowsFinite ==
  ASSUME NEW n \in Nat, NEW T, T \subseteq 1..n
  PROVE  IsFiniteSet(T)
  <1>1. IsFiniteSet(1..n)
    BY FS_Interval
  <1> QED BY <1>1, FS_Subset

-----------------------------------------------------------------------------
(* The invariant of a table t of budgets; scr: only screens write it.      *)

\* From the screens a superseded budget is out of use; and unless a PUT may
\* set the status back, a pending budget has no unresolved variance.
RowOK(b, scr) ==
  /\ scr /\ b.status = "Superseded" => ~b.active
  /\ "Pending Review" \notin EditStatuses /\ b.status = "Pending Review"
       => ~b.unresolved

Chained(t, scr) ==
  \A i \in DOMAIN t : t[i].parent # 0 =>
    /\ t[i].parent \in 1..(i - 1)
    /\ t[i].revision = t[t[i].parent].revision + 1
    /\ scr => /\ t[t[i].parent].status = "Superseded"
              /\ ~t[t[i].parent].active
              /\ \A j \in DOMAIN t : t[j].parent = t[i].parent => j = i

Series(t) == {i \in DOMAIN t : t[i].code.series = "BGT"}

\* From the screens, the numbers of the first series grow with the rows.
Coded(t, scr) ==
  scr => /\ \A i \in Series(t) : t[i].code.rev = 0
         /\ \A i, j \in Series(t) : i < j => t[i].code.number < t[j].code.number

TableOK(t, scr) ==
  /\ t \in Seq(Row)
  /\ \A i \in DOMAIN t : RowOK(t[i], scr)
  /\ Chained(t, scr) /\ Coded(t, scr)

\* Rows are rewritten: none changes its place in a chain or its code, and
\* the screens do not touch what is not in use.
Rewritten(s, t, scr) ==
  /\ t \in Seq(Row)
  /\ DOMAIN t = DOMAIN s
  /\ \A j \in DOMAIN s : /\ t[j].parent = s[j].parent
                         /\ t[j].revision = s[j].revision
                         /\ t[j].code = s[j].code
                         /\ RowOK(t[j], scr)
                         /\ scr /\ ~s[j].active => t[j] = s[j]

\* Rewriting keeps the invariant.
LEMMA RewriteTable ==
  ASSUME NEW s, NEW t, NEW scr \in BOOLEAN,
         TableOK(s, scr), Rewritten(s, t, scr)
  PROVE  TableOK(t, scr)
  <1>1. t \in Seq(Row) /\ DOMAIN t = DOMAIN s
    BY DEF Rewritten
  <1>2. \A i \in DOMAIN t : RowOK(t[i], scr)
    BY DEF Rewritten
  <1>3. Chained(t, scr)
    <2> SUFFICES ASSUME NEW i \in DOMAIN t, t[i].parent # 0
                 PROVE  /\ t[i].parent \in 1..(i - 1)
                        /\ t[i].revision = t[t[i].parent].revision + 1
                        /\ scr => /\ t[t[i].parent].status = "Superseded"
                                  /\ ~t[t[i].parent].active
                                  /\ \A j \in DOMAIN t :
                                       t[j].parent = t[i].parent => j = i
      BY DEF Chained
    <2> DEFINE p == s[i].parent
    <2>1. i \in DOMAIN s /\ t[i].parent = p /\ p # 0
      BY <1>1 DEF Rewritten
    <2>2. /\ p \in 1..(i - 1) /\ s[i].revision = s[p].revision + 1
          /\ scr => /\ s[p].status = "Superseded" /\ ~s[p].active
                    /\ \A j \in DOMAIN s : s[j].parent = p => j = i
      BY <2>1 DEF TableOK, Chained
    <2>3. p \in DOMAIN s
      BY <2>1, <2>2 DEF TableOK
    <2> HIDE DEF p
    <2>4. /\ t[i].revision = s[i].revision /\ t[p].revision = s[p].revision
          /\ scr /\ ~s[p].active => t[p] = s[p]
          /\ \A j \in DOMAIN s : t[j].parent = s[j].parent
      BY <2>1, <2>3 DEF Rewritten
    <2> QED BY <1>1, <2>1, <2>2, <2>4
  <1>4. Coded(t, scr)
    BY DEF Rewritten, TableOK, Coded, Series
  <1> QED BY <1>1, <1>2, <1>3, <1>4 DEF TableOK

\* A row is appended: a budget of its own or the revision of a retired one,
\* with a number above those of its series.
LEMMA AppendTable ==
  ASSUME NEW t, NEW scr \in BOOLEAN, TableOK(t, scr),
         NEW row \in Row, RowOK(row, scr),
         row.parent # 0 =>
           /\ row.parent \in DOMAIN t
           /\ row.revision = t[row.parent].revision + 1
           /\ scr => /\ t[row.parent].status = "Superseded"
                     /\ ~t[row.parent].active
                     /\ \A j \in DOMAIN t : t[j].parent # row.parent,
         scr /\ row.code.series = "BGT" =>
           /\ row.code.rev = 0
           /\ \A i \in Series(t) : t[i].code.number < row.code.number
  PROVE  TableOK(Append(t, row), scr)
  <1> DEFINE u == Append(t, row)
             n == Len(t) + 1
  <1>1. t \in Seq(Row) /\ Len(t) \in Nat /\ DOMAIN t = 1..Len(t)
    BY DEF TableOK
  <1>2. /\ u \in Seq(Row) /\ DOMAIN u = 1..n /\ u[n] = row
        /\ \A i \in DOMAIN t : u[i] = t[i] /\ i \in DOMAIN u
        /\ \A i \in DOMAIN u : i \in DOMAIN t \/ i = n
    BY <1>1
  <1>3. \A i \in DOMAIN t : i < n
    BY <1>1
  <1> HIDE DEF u, n
  <1>4. \A i \in DOMAIN u : RowOK(u[i], scr)
    BY <1>2 DEF TableOK
  <1>5. Chained(u, scr)
    <2> SUFFICES ASSUME NEW i \in DOMAIN u, u[i].parent # 0
                 PROVE  /\ u[i].parent \in 1..(i - 1)
                        /\ u[i].revision = u[u[i].parent].revision + 1
                        /\ scr => /\ u[u[i].parent].status = "Superseded"
                                  /\ ~u[u[i].parent].active
                                  /\ \A j \in DOMAIN u :
                                       u[j].parent = u[i].parent => j = i
      BY DEF Chained
    <2>1. CASE i \in DOMAIN t
      <3> DEFINE p == t[i].parent
      <3>1. u[i] = t[i] /\ p # 0
        BY <1>2, <2>1
      <3>2. /\ p \in 1..(i - 1) /\ t[i].revision = t[p].revision + 1
            /\ scr => /\ t[p].status = "Superseded" /\ ~t[p].active
                      /\ \A j \in DOMAIN t : t[j].parent = p => j = i
        BY <2>1, <3>1 DEF TableOK, Chained
      <3>3. p \in DOMAIN t /\ u[p] = t[p]
        BY <1>1, <1>2, <2>1, <3>2
      <3>4. scr => row.parent # p
        BY <2>1, <3>1, <3>2
      <3> HIDE DEF p
      <3>5. scr => \A j \in DOMAIN u : u[j].parent = p => j = i
        BY <1>2, <3>2, <3>4
      <3>6. u[i].parent = p
        BY <3>1 DEF p
      <3> QED BY <3>1, <3>2, <3>3, <3>5, <3>6
    <2>2. CASE i \notin DOMAIN t
      <3>1. i = n /\ u[i] = row
        BY <1>2, <2>2
      <3>2. row.parent \in DOMAIN t /\ u[row.parent] = t[row.parent]
        BY <1>2, <3>1
      <3>3. row.parent \in 1..(i - 1)
        BY <1>1, <3>1, <3>2 DEF n
      <3>4. scr => \A j \in DOMAIN u : u[j].parent = row.parent => j = i
        BY <1>2, <3>1
      <3> QED BY <3>1, <3>2, <3>3, <3>4
    <2> QED BY <2>1, <2>2
  <1>6. Coded(u, scr)
    <2> SUFFICES ASSUME scr
                 PROVE  /\ \A i \in Series(u) : u[i].code.rev = 0
                        /\ \A i, j \in Series(u) :
                             i < j => u[i].code.number < u[j].code.number
      BY DEF Coded
    <2>1. \A i \in Series(u) : \/ i \in Series(t) /\ u[i] = t[i]
                               \/ i = n /\ row.code.series = "BGT" /\ u[i] = row
      BY <1>2 DEF Series
    <2>2. \A i \in Series(t) : t[i].code.rev = 0
      BY DEF TableOK, Coded
    <2>3. \A i, j \in Series(t) : i < j => t[i].code.number < t[j].code.number
      BY DEF TableOK, Coded
    <2>4. ~(n < n) /\ \A j \in Series(t) : ~(n < j)
      BY <1>1, <1>3 DEF Series, n
    <2>5. row.code.series = "BGT" =>
            /\ row.code.rev = 0
            /\ \A i \in Series(t) : t[i].code.number < row.code.number
      OBVIOUS
    <2>6. \A i \in Series(u) : u[i].code.rev = 0
      BY <2>1, <2>2, <2>5
    <2>7. ASSUME NEW i \in Series(u), NEW j \in Series(u), i < j
          PROVE  u[i].code.number < u[j].code.number
      <3>1. CASE i \in Series(t) /\ u[i] = t[i] /\ j \in Series(t) /\ u[j] = t[j]
        BY <2>3, <2>7, <3>1
      <3>2. CASE i \in Series(t) /\ u[i] = t[i] /\ j = n /\ u[j] = row
                 /\ row.code.series = "BGT"
        BY <2>5, <3>2
      <3>3. ~(i = n)
        BY <2>1, <2>4, <2>7
      <3> QED BY <2>1, <2>7, <3>1, <3>2, <3>3
    <2> QED BY <2>6, <2>7
  <1> QED BY <1>2, <1>4, <1>5, <1>6 DEF TableOK, u

\* One row is rewritten.
LEMMA RewriteRow ==
  ASSUME NEW t, NEW scr \in BOOLEAN, TableOK(t, scr), NEW i \in DOMAIN t,
         NEW row \in Row, RowOK(row, scr), scr => t[i].active,
         row.parent = t[i].parent, row.revision = t[i].revision,
         row.code = t[i].code
  PROVE  /\ TableOK([t EXCEPT ![i] = row], scr)
         /\ DOMAIN [t EXCEPT ![i] = row] = DOMAIN t
         /\ \A j \in DOMAIN t : [t EXCEPT ![i] = row][j] = IF j = i THEN row ELSE t[j]
  <1> DEFINE u == [t EXCEPT ![i] = row]
  <1>1. t \in Seq(Row) /\ i \in 1..Len(t)
    BY DEF TableOK
  <1>2. u \in Seq(Row)
    BY <1>1, ExceptSeq
  <1>3. DOMAIN u = DOMAIN t /\ \A j \in DOMAIN t : u[j] = IF j = i THEN row ELSE t[j]
    OBVIOUS
  <1> HIDE DEF u
  <1>4. Rewritten(t, u, scr)
    BY <1>2, <1>3 DEF Rewritten, TableOK
  <1>5. TableOK(u, scr)
    BY <1>4, RewriteTable
  <1> QED BY <1>3, <1>5 DEF u

-----------------------------------------------------------------------------
(* The invariant of the state.                                             *)

BudgetInv == /\ TableOK(budgets, screens)
             /\ prefill \in Figures /\ fetched \in Figures
             /\ screens \in BOOLEAN

\* The screens leave what is not in use as it is.
UnusedKept == screens => \A i \in Ids : ~budgets[i].active => budgets'[i] = budgets[i]

\* A second budget comes into force by an edit only.
NoSecond == screens =>
  \/ Cardinality(LinkedActive') <= Cardinality(LinkedActive)
  \/ LinkedActive = {}
  \/ \E i \in Ids : ~budgets[i].linked /\ budgets'[i].linked

\* The budgets in force are finitely many, and fewer are no more.
LEMMA LiveCounted ==
  ASSUME BudgetInv
  PROVE  /\ IsFiniteSet(LinkedActive)
         /\ LinkedActive' \subseteq LinkedActive => NoSecond
  <1>1. LinkedActive \subseteq 1..Len(budgets) /\ Len(budgets) \in Nat
    BY DEF BudgetInv, TableOK, LinkedActive, Ids
  <1>2. IsFiniteSet(LinkedActive)
    BY <1>1, RowsFinite
  <1>3. LinkedActive' \subseteq LinkedActive =>
          Cardinality(LinkedActive') <= Cardinality(LinkedActive)
    BY <1>2, FS_Subset
  <1> QED BY <1>2, <1>3 DEF NoSecond

\* Every row is typed and satisfies its part.
LEMMA RowGood ==
  ASSUME BudgetInv, NEW i \in Ids
  PROVE  budgets[i] \in Row /\ RowOK(budgets[i], screens) /\ i \in DOMAIN budgets
  BY DEF BudgetInv, TableOK, Ids

\* The rows of the series are those the model names.
LEMMA SeriesRows == SeriesIds = Series(budgets)
  BY DEF SeriesIds, Series, Ids

\* The proposed code is one, and from the screens above all of its series.
LEMMA GeneratedGood ==
  ASSUME BudgetInv
  PROVE  /\ GeneratedCode \in Code
         /\ GeneratedCode.series = "BGT" /\ GeneratedCode.rev = 0
         /\ screens => \A i \in Series(budgets) :
                         budgets[i].code.number < GeneratedCode.number
  <1>1. budgets \in Seq(Row)
    BY DEF BudgetInv, TableOK
  <1>2. CASE SeriesIds = {}
    BY <1>2, SeriesRows DEF GeneratedCode, Code
  <1>3. CASE SeriesIds # {}
    <2>1. SeriesIds \subseteq 1..Len(budgets) /\ Len(budgets) \in Nat
      BY <1>1 DEF SeriesIds, Ids
    <2>2. LastOfSeries \in SeriesIds /\ \A j \in SeriesIds : j <= LastOfSeries
      BY <1>3, <2>1, LastRow DEF LastOfSeries
    <2> DEFINE last == budgets[LastOfSeries].code
    <2>3. budgets[LastOfSeries] \in Row /\ last \in Code
      <3>1. LastOfSeries \in 1..Len(budgets)
        BY <2>1, <2>2
      <3>2. budgets[LastOfSeries] \in Row
        BY <1>1, <3>1
      <3> QED BY <3>2 DEF Row
    <2>4. last.number \in Nat /\ last.rev \in Nat
      BY <2>3 DEF Code
    <2>5. GeneratedCode = [series |-> "BGT", rev |-> 0,
                           number |-> IF last.rev > 0 THEN 1 ELSE last.number + 1]
      BY <1>3 DEF GeneratedCode
    <2>6. GeneratedCode \in Code /\ GeneratedCode.series = "BGT" /\ GeneratedCode.rev = 0
      BY <2>4, <2>5 DEF Code
    <2>7. ASSUME screens, NEW i \in SeriesIds
          PROVE  budgets[i].code.number < GeneratedCode.number
      <3>1. last.rev = 0
        BY <2>2, <2>7, SeriesRows DEF BudgetInv, TableOK, Coded
      <3>2. i < LastOfSeries \/ i = LastOfSeries
        BY <2>1, <2>2
      <3>3. i < LastOfSeries => budgets[i].code.number < last.number
        BY <2>2, <2>7, SeriesRows DEF BudgetInv, TableOK, Coded
      <3>4. budgets[i].code.number \in Nat
        <4>1. budgets[i] \in Row
          BY <1>1, <2>1
        <4> QED BY <4>1 DEF Row, Code
      <3>5. GeneratedCode.number = last.number + 1
        BY <2>5, <3>1
      <3>6. budgets[i].code.number = last.number \/ budgets[i].code.number < last.number
        BY <3>2, <3>3
      <3> QED BY <2>4, <3>4, <3>5, <3>6
    <2> QED BY <2>6, <2>7, SeriesRows
  <1> QED BY <1>2, <1>3

\* A new budget is a row, pending review and clean.
LEMMA NewRowGood ==
  ASSUME BudgetInv, NEW l \in BOOLEAN, NEW c \in Figures
  PROVE  /\ NewRow(l, c) \in Row /\ RowOK(NewRow(l, c), screens)
         /\ NewRow(l, c).parent = 0 /\ NewRow(l, c).linked = l
         /\ NewRow(l, c).code = GeneratedCode
  <1>1. GeneratedCode \in Code
    BY GeneratedGood
  <1> QED BY <1>1 DEF NewRow, Row, Statuses, RowOK

\* A budget of its own is inserted.
LEMMA InsertNewGood ==
  ASSUME BudgetInv, NEW l \in BOOLEAN, NEW c \in Figures,
         Insert(NewRow(l, c), budgets), l => LinkedActive = {}
  PROVE  BudgetInv' /\ UnusedKept /\ NoSecond
  <1> DEFINE row == NewRow(l, c)
  <1>1. /\ row \in Row /\ RowOK(row, screens) /\ row.parent = 0 /\ row.linked = l
        /\ row.code = GeneratedCode
    BY NewRowGood
  <1>2. screens => /\ row.code.rev = 0
                   /\ \A i \in Series(budgets) :
                        budgets[i].code.number < row.code.number
    BY <1>1, GeneratedGood
  <1>3. row.linked => LinkedActive = {}
    BY <1>1
  <1>4. TableOK(budgets, screens) /\ screens \in BOOLEAN
    BY DEF BudgetInv
  <1>5. budgets' = Append(budgets, row) /\ UNCHANGED <<prefill, fetched, screens>>
    BY DEF Insert
  <1> HIDE DEF row
  <1>6. TableOK(Append(budgets, row), screens)
    BY <1>1, <1>2, <1>4, AppendTable
  <1>7. budgets \in Seq(Row)
    BY <1>4 DEF TableOK
  <1>8. UnusedKept
    BY <1>1, <1>5, <1>7 DEF UnusedKept, Ids
  <1>9. NoSecond
    <2>1. CASE row.linked
      BY <1>3, <2>1 DEF NoSecond
    <2>2. CASE ~row.linked
      <3>1. LinkedActive' \subseteq LinkedActive
        BY <1>5, <1>7, <2>2 DEF LinkedActive, Ids
      <3> QED BY <3>1, LiveCounted
    <2> QED BY <2>1, <2>2
  <1> QED BY <1>5, <1>6, <1>8, <1>9 DEF BudgetInv

\* One budget is stored.
LEMMA StoreGood ==
  ASSUME BudgetInv, NEW i \in Ids, NEW row \in Row, Store(i, row),
         RowOK(row, screens), screens => budgets[i].active,
         row.parent = budgets[i].parent, row.revision = budgets[i].revision,
         row.code = budgets[i].code
  PROVE  BudgetInv' /\ UnusedKept /\ NoSecond
  <1>1. TableOK(budgets, screens) /\ screens \in BOOLEAN /\ i \in DOMAIN budgets
    BY DEF BudgetInv, Ids
  <1>2. budgets' = [budgets EXCEPT ![i] = row] /\ UNCHANGED <<prefill, fetched, screens>>
    BY DEF Store
  <1>3. /\ TableOK(budgets', screens) /\ DOMAIN budgets' = DOMAIN budgets
        /\ \A j \in DOMAIN budgets : budgets'[j] = IF j = i THEN row ELSE budgets[j]
    BY <1>1, <1>2, RewriteRow
  <1>4. UnusedKept
    BY <1>3 DEF UnusedKept, Ids
  <1>5. NoSecond
    <2> SUFFICES ASSUME screens PROVE NoSecond
      BY DEF NoSecond
    <2>1. CASE ~budgets[i].linked /\ row.linked
      BY <1>3, <2>1 DEF NoSecond, Ids
    <2>2. CASE budgets[i].linked \/ ~row.linked
      <3>1. LinkedActive' \subseteq LinkedActive
        BY <1>3, <2>2 DEF LinkedActive, Ids
      <3> QED BY <3>1, LiveCounted
    <2> QED BY <2>1, <2>2
  <1> QED BY <1>2, <1>3, <1>4, <1>5 DEF BudgetInv

-----------------------------------------------------------------------------
(* financial_approval.                                                     *)

\* Creation and copies.
LEMMA CreateCloneGood ==
  ASSUME BudgetInv,
         \/ \E c \in Figures : Create(c)
         \/ \E i \in Ids, c \in Figures : Clone(i, c)
  PROVE  BudgetInv' /\ UnusedKept /\ NoSecond
  <1>1. ASSUME NEW c \in Figures, Create(c)
        PROVE  BudgetInv' /\ UnusedKept /\ NoSecond
    BY <1>1, InsertNewGood DEF Create
  <1>2. ASSUME NEW i \in Ids, NEW c \in Figures, Clone(i, c)
        PROVE  BudgetInv' /\ UnusedKept /\ NoSecond
    BY <1>2, InsertNewGood DEF Clone
  <1> QED BY <1>1, <1>2

\* Approval, deletion, restoration and override.
LEMMA FlagsGood ==
  ASSUME BudgetInv, NEW i \in Ids,
         Approve(i) \/ Delete(i) \/ Restore(i) \/ Override(i)
  PROVE  BudgetInv' /\ UnusedKept /\ NoSecond
  <1> DEFINE b == budgets[i]
  <1>1. b \in Row /\ RowOK(b, screens)
    BY RowGood
  <1>2. CASE Approve(i)
    <2> DEFINE row == [b EXCEPT !.status = "Budget Approved"]
    <2>1. /\ row \in Row /\ row.status = "Budget Approved"
          /\ row.active = b.active /\ row.linked = b.linked
          /\ row.parent = b.parent /\ row.revision = b.revision /\ row.code = b.code
      BY <1>1 DEF Row, Statuses
    <2>2. RowOK(row, screens)
      BY <2>1 DEF RowOK
    <2>3. Store(i, row) /\ b.active
      BY <1>2 DEF Approve
    <2> QED BY <2>1, <2>2, <2>3, StoreGood
  <1>3. CASE Delete(i)
    <2> DEFINE row == [b EXCEPT !.active = FALSE]
    <2>1. /\ row \in Row /\ row.status = b.status /\ ~row.active
          /\ row.unresolved = b.unresolved
          /\ row.parent = b.parent /\ row.revision = b.revision /\ row.code = b.code
      BY <1>1 DEF Row
    <2>2. RowOK(row, screens)
      BY <1>1, <2>1 DEF RowOK
    <2>3. Store(i, row) /\ b.active
      BY <1>3 DEF Delete
    <2> QED BY <2>1, <2>2, <2>3, StoreGood
  <1>4. CASE Restore(i)
    <2> DEFINE row == [b EXCEPT !.active = TRUE]
    <2>1. /\ row \in Row /\ row.status = b.status /\ row.unresolved = b.unresolved
          /\ row.parent = b.parent /\ row.revision = b.revision /\ row.code = b.code
      BY <1>1 DEF Row
    <2>2. Store(i, row) /\ ~screens
      BY <1>4 DEF Restore
    <2>3. RowOK(row, screens)
      BY <1>1, <2>1, <2>2 DEF RowOK
    <2> QED BY <2>1, <2>2, <2>3, StoreGood
  <1>5. CASE Override(i)
    <2> DEFINE row == [b EXCEPT !.unresolved = FALSE, !.excused = TRUE,
                                !.hardPending = FALSE]
    <2>1. /\ row \in Row /\ ~row.unresolved
          /\ row.parent = b.parent /\ row.revision = b.revision /\ row.code = b.code
      BY <1>1 DEF Row
    <2>2. Store(i, row) /\ ~screens
      BY <1>5 DEF Override
    <2>3. RowOK(row, screens)
      BY <2>1, <2>2 DEF RowOK
    <2> QED BY <2>1, <2>2, <2>3, StoreGood
  <1> QED BY <1>2, <1>3, <1>4, <1>5

\* An edit: the screens keep the status.
LEMMA UpdateGood ==
  ASSUME BudgetInv, NEW i \in Ids, NEW c \in Figures, NEW l \in BOOLEAN,
         NEW s \in Statuses, Update(i, c, l, s)
  PROVE  BudgetInv' /\ UnusedKept /\ NoSecond
  <1> DEFINE b == budgets[i]
             row == [b EXCEPT !.cost = c, !.linked = l, !.status = s]
  <1>1. b \in Row /\ RowOK(b, screens)
    BY RowGood
  <1>2. /\ row \in Row /\ row.status = s /\ row.linked = l
        /\ row.active = b.active /\ row.unresolved = b.unresolved
        /\ row.parent = b.parent /\ row.revision = b.revision /\ row.code = b.code
    BY <1>1 DEF Row
  <1>3. /\ Store(i, row) /\ b.active
        /\ s = b.status \/ (~screens /\ s \in EditStatuses)
    BY DEF Update
  <1>4. RowOK(row, screens)
    BY <1>1, <1>2, <1>3 DEF RowOK
  <1> QED BY <1>2, <1>3, <1>4, StoreGood

\* What an evaluation makes of a row that is not superseded.
LEMMA EvaluatedGood ==
  ASSUME BudgetInv, NEW b \in Row, RowOK(b, screens), b.status # "Superseded",
         NEW user \in Users
  PROVE  LET e == Evaluated(b, user)
         IN  /\ e \in Row /\ RowOK(e, screens)
             /\ e.active = b.active /\ e.linked = b.linked
             /\ e.parent = b.parent /\ e.revision = b.revision /\ e.code = b.code
  <1>1. (b.hardPending \/ Hard(b.cost, prefill)) \in BOOLEAN /\ prefill \in Figures
    BY DEF Row, BudgetInv
  <1>2. b.status \in {"Draft", "Pending Review", "Needs Revalidation",
                      "Budget Approved"}
    BY DEF Row, Statuses
  <1>3. CASE b.status = "Draft"
    BY <1>1, <1>3 DEF Evaluated, Row, RowOK
  <1>4. CASE b.status \in {"Pending Review", "Needs Revalidation"}
    BY <1>1, <1>4 DEF Evaluated, Row, RowOK, Statuses
  <1>5. CASE b.status = "Budget Approved"
    BY <1>1, <1>5 DEF Evaluated, Row, RowOK
  <1> QED BY <1>2, <1>3, <1>4, <1>5

\* An evaluation of all budgets in force.
LEMMA EvaluateGood ==
  ASSUME BudgetInv, NEW user \in Users, Evaluate(user)
  PROVE  BudgetInv' /\ UnusedKept /\ NoSecond
  <1> DEFINE new(i) == IF i \in ToEvaluate THEN Evaluated(budgets[i], user)
                                           ELSE budgets[i]
  <1>1. /\ budgets' = [i \in Ids |-> new(i)]
        /\ UNCHANGED <<prefill, fetched, screens>>
    BY DEF Evaluate
  <1>2. ASSUME NEW i \in Ids
        PROVE  /\ new(i) \in Row /\ RowOK(new(i), screens)
               /\ new(i).active = budgets[i].active
               /\ new(i).linked = budgets[i].linked
               /\ new(i).parent = budgets[i].parent
               /\ new(i).revision = budgets[i].revision
               /\ new(i).code = budgets[i].code
               /\ ~budgets[i].active => new(i) = budgets[i]
    <2>1. CASE i \in ToEvaluate
      BY <2>1, RowGood, EvaluatedGood DEF ToEvaluate, LinkedActive
    <2>2. CASE i \notin ToEvaluate
      BY <2>2, RowGood
    <2> QED BY <2>1, <2>2
  <1>3. budgets \in Seq(Row) /\ Ids = 1..Len(budgets) /\ Len(budgets) \in Nat
    BY DEF BudgetInv, TableOK, Ids
  <1> HIDE DEF new
  <1>4. budgets' \in Seq(Row) /\ DOMAIN budgets' = DOMAIN budgets
    BY <1>1, <1>2, <1>3 DEF Ids
  <1>5. \A i \in Ids : budgets'[i] = new(i)
    BY <1>1
  <1>6. Rewritten(budgets, budgets', screens)
    BY <1>2, <1>4, <1>5 DEF Rewritten, Ids
  <1>7. TableOK(budgets', screens)
    BY <1>6, RewriteTable DEF BudgetInv
  <1>8. UnusedKept
    BY <1>2, <1>5 DEF UnusedKept
  <1>9. LinkedActive' \subseteq LinkedActive
    BY <1>2, <1>4, <1>5 DEF LinkedActive, Ids
  <1> QED BY <1>1, <1>7, <1>8, <1>9, LiveCounted DEF BudgetInv

-----------------------------------------------------------------------------
(* Revisions.                                                              *)

\* A revision is typed and clean, and names what it replaces.
LEMMA RevisionGood ==
  ASSUME BudgetInv, NEW i \in Ids, NEW c \in Figures, NEW code \in Code,
         NEW user \in Users \cup {Nobody}, NEW x \in BOOLEAN
  PROVE  LET row == Revision(i, c, code, user, x)
         IN  /\ row \in Row /\ RowOK(row, screens)
             /\ row.parent = i /\ row.code = code
             /\ row.revision = budgets[i].revision + 1
             /\ row.linked = budgets[i].linked
  <1>1. budgets[i] \in Row /\ i \in Nat
    BY RowGood DEF BudgetInv, TableOK, Ids
  <1>2. budgets[i].linked \in BOOLEAN /\ budgets[i].revision + 1 \in Nat
    BY <1>1 DEF Row
  <1> DEFINE new == NewRow(budgets[i].linked, c)
  <1>3. /\ new \in Row /\ new.status = "Pending Review" /\ ~new.unresolved
        /\ new.linked = budgets[i].linked
    BY <1>2, NewRowGood DEF NewRow
  <1> HIDE DEF new
  <1> DEFINE row == [new EXCEPT !.modifier = user, !.excused = x, !.code = code,
                                !.parent = i, !.revision = budgets[i].revision + 1]
  <1>4. /\ row \in Row /\ row.status = "Pending Review" /\ ~row.unresolved
        /\ row.parent = i /\ row.code = code
        /\ row.revision = budgets[i].revision + 1
        /\ row.linked = budgets[i].linked
    BY <1>1, <1>2, <1>3 DEF Row
  <1>5. RowOK(row, screens)
    BY <1>4 DEF RowOK
  <1> QED BY <1>4, <1>5 DEF Revision, new

\* Synchronisation, which no screen offers.
LEMMA SyncGood ==
  ASSUME BudgetInv, NEW i \in Ids, NEW user \in Users, NEW j \in BOOLEAN,
         Sync(i, user, j)
  PROVE  BudgetInv' /\ UnusedKept /\ NoSecond
  <1> DEFINE b == budgets[i]
             code == [b.code EXCEPT !.rev = b.revision + 1]
  <1>1. b \in Row /\ RowOK(b, screens) /\ i \in DOMAIN budgets
    BY RowGood
  <1>2. ~screens /\ screens \in BOOLEAN /\ prefill \in Figures
    BY DEF Sync, BudgetInv
  <1>3. CASE b.status = "Budget Approved"
    <2> DEFINE old == [b EXCEPT !.status = "Superseded", !.unresolved = FALSE,
                                !.hardPending = FALSE]
               rows == [budgets EXCEPT ![i] = old]
               new == Revision(i, prefill, code, b.modifier, j)
    <2>1. /\ old \in Row /\ old.parent = b.parent /\ old.revision = b.revision
          /\ old.code = b.code /\ old.status = "Superseded"
      BY <1>1 DEF Row, Statuses
    <2>2. RowOK(old, screens)
      BY <1>2, <2>1 DEF RowOK
    <2> HIDE DEF old
    <2>3. /\ TableOK(rows, screens) /\ DOMAIN rows = DOMAIN budgets
          /\ \A k \in DOMAIN budgets : rows[k] = IF k = i THEN old ELSE budgets[k]
      BY <1>1, <1>2, <2>1, <2>2, RewriteRow DEF BudgetInv
    <2>4. code \in Code /\ b.modifier \in Users \cup {Nobody}
      BY <1>1 DEF Row, Code
    <2>5. /\ new \in Row /\ RowOK(new, screens) /\ new.parent = i
          /\ new.revision = b.revision + 1
      BY <1>2, <2>4, RevisionGood
    <2>6. rows = [budgets EXCEPT ![i].status = "Superseded",
                                 ![i].unresolved = FALSE,
                                 ![i].hardPending = FALSE]
      BY DEF old
    <2>7. budgets' = Append(rows, new) /\ UNCHANGED <<prefill, fetched, screens>>
      BY <1>3, <2>6 DEF Sync, Insert
    <2> HIDE DEF rows, new
    <2>8. new.revision = rows[i].revision + 1
      BY <1>1, <2>1, <2>3, <2>5
    <2>9. TableOK(Append(rows, new), screens)
      BY <1>1, <1>2, <2>3, <2>5, <2>8, AppendTable
    <2> QED BY <1>2, <2>7, <2>9 DEF BudgetInv, UnusedKept, NoSecond
  <1>4. CASE b.status # "Budget Approved"
    <2> DEFINE s == IF b.status = "Draft" THEN "Draft" ELSE "Pending Review"
               row == [b EXCEPT !.status = s, !.cost = prefill,
                         !.unresolved = FALSE, !.hardPending = FALSE, !.excused = j]
    <2>1. s \in Statuses
      BY DEF Statuses
    <2>2. Store(i, row)
      BY <1>4 DEF Sync
    <2>3. /\ row \in Row /\ ~row.unresolved
          /\ row.parent = b.parent /\ row.revision = b.revision /\ row.code = b.code
      BY <1>1, <1>2, <2>1 DEF Row
    <2>4. RowOK(row, screens)
      BY <1>2, <2>3 DEF RowOK
    <2> QED BY <1>2, <2>2, <2>3, <2>4, StoreGood
  <1> QED BY <1>3, <1>4

\* Recalculation: the revised budget is retired in the same step.
LEMMA ApplyGood ==
  ASSUME BudgetInv, NEW i \in Ids, NEW user \in Users, NEW j \in BOOLEAN,
         Apply(i, user, j)
  PROVE  BudgetInv' /\ UnusedKept /\ NoSecond
  <1> DEFINE b == budgets[i]
             code == [series |-> "BDG", number |-> Len(budgets) + 1, rev |-> 0]
  <1>1. b \in Row /\ RowOK(b, screens) /\ i \in DOMAIN budgets
    BY RowGood
  <1>2. /\ b.active /\ b.linked /\ fetched \in Figures
        /\ TableOK(budgets, screens) /\ screens \in BOOLEAN
    BY DEF Apply, BudgetInv
  <1>3. CASE b.status = "Budget Approved"
    <2> DEFINE old == [b EXCEPT !.status = "Superseded", !.active = FALSE]
               rows == [budgets EXCEPT ![i] = old]
               new == Revision(i, fetched, code, user, j)
    <2>1. /\ old \in Row /\ old.parent = b.parent /\ old.revision = b.revision
          /\ old.code = b.code /\ old.status = "Superseded" /\ ~old.active
      BY <1>1 DEF Row, Statuses
    <2>2. RowOK(old, screens)
      BY <2>1 DEF RowOK
    <2> HIDE DEF old
    <2>3. /\ TableOK(rows, screens) /\ DOMAIN rows = DOMAIN budgets
          /\ \A k \in DOMAIN budgets : rows[k] = IF k = i THEN old ELSE budgets[k]
      BY <1>1, <1>2, <2>1, <2>2, RewriteRow
    <2>4. code \in Code
      <3>1. Len(budgets) \in Nat
        BY <1>2 DEF TableOK
      <3> QED BY <3>1 DEF Code
    <2>5. code.series = "BDG"
      OBVIOUS
    <2> HIDE DEF code
    <2>6. /\ new \in Row /\ RowOK(new, screens) /\ new.parent = i
          /\ new.revision = b.revision + 1 /\ new.code = code
      BY <1>2, <2>4, RevisionGood
    <2>7. rows = [budgets EXCEPT ![i].status = "Superseded", ![i].active = FALSE]
      BY DEF old
    <2>8. budgets' = Append(rows, new) /\ UNCHANGED <<prefill, fetched, screens>>
      BY <1>3, <2>7 DEF Apply, Insert, code
    <2> HIDE DEF rows, new
    <2>9. /\ new.revision = rows[i].revision + 1
          /\ rows[i].status = "Superseded" /\ ~rows[i].active
      BY <1>1, <2>1, <2>3, <2>6
    <2>10. screens => \A k \in DOMAIN rows : rows[k].parent # i
      <3> SUFFICES ASSUME screens, NEW k \in DOMAIN rows, rows[k].parent = i
                   PROVE  FALSE
        OBVIOUS
      <3>1. k \in DOMAIN budgets /\ budgets[k].parent = i
        BY <2>1, <2>3
      <3>2. i # 0
        BY <1>1, <1>2 DEF TableOK
      <3>3. ~budgets[i].active
        BY <1>2, <3>1, <3>2 DEF TableOK, Chained
      <3> QED BY <1>2, <3>3
    <2>11. new.code.series # "BGT"
      BY <2>5, <2>6
    <2>12. TableOK(Append(rows, new), screens)
      BY <1>1, <1>2, <2>3, <2>6, <2>9, <2>10, <2>11, AppendTable
    <2>13. /\ \A k \in DOMAIN budgets : k # i => budgets'[k] = budgets[k]
           /\ budgets'[i] = old
           /\ DOMAIN budgets' = DOMAIN budgets \cup {Len(budgets) + 1}
      <3>1. /\ rows \in Seq(Row) /\ budgets \in Seq(Row)
            /\ Len(rows) = Len(budgets)
        BY <1>2, <2>3 DEF TableOK
      <3> QED BY <1>1, <2>3, <2>6, <2>8, <3>1
    <2>14. UnusedKept
      BY <1>2, <2>13 DEF UnusedKept, Ids
    <2>15. NoSecond
      <3> DEFINE n == Len(budgets) + 1
                 Rest == LinkedActive \ {i}
      <3>1. i \in LinkedActive
        BY <1>1, <1>2 DEF LinkedActive, Ids
      <3>2. IsFiniteSet(LinkedActive)
        BY LiveCounted
      <3>3. /\ IsFiniteSet(Rest) /\ Cardinality(Rest) = Cardinality(LinkedActive) - 1
            /\ Cardinality(Rest) \in Nat /\ Cardinality(LinkedActive) \in Nat
        BY <3>1, <3>2, FS_RemoveElement, FS_CardinalityType
      <3>4. LinkedActive' \subseteq Rest \cup {n}
        BY <2>1, <2>13 DEF LinkedActive, Ids
      <3> HIDE DEF Rest, n
      <3>5. /\ IsFiniteSet(Rest \cup {n})
            /\ Cardinality(Rest \cup {n}) <= Cardinality(LinkedActive)
        <4>1. \/ Cardinality(Rest \cup {n}) = Cardinality(Rest)
              \/ Cardinality(Rest \cup {n}) = Cardinality(Rest) + 1
          BY <3>3, FS_AddElement
        <4>2. IsFiniteSet(Rest \cup {n})
          BY <3>3, FS_AddElement
        <4> QED BY <3>3, <4>1, <4>2
      <3>6. /\ Cardinality(LinkedActive') <= Cardinality(Rest \cup {n})
            /\ Cardinality(LinkedActive') \in Nat
            /\ Cardinality(Rest \cup {n}) \in Nat
        BY <3>4, <3>5, FS_Subset, FS_CardinalityType
      <3>7. Cardinality(LinkedActive') <= Cardinality(LinkedActive)
        BY <3>3, <3>5, <3>6
      <3> QED BY <3>7 DEF NoSecond
    <2> QED BY <1>2, <2>8, <2>12, <2>14, <2>15 DEF BudgetInv
  <1>4. CASE b.status # "Budget Approved"
    <2> DEFINE s == IF b.status = "Draft" THEN "Draft" ELSE "Pending Review"
               row == [b EXCEPT !.status = s, !.cost = fetched,
                         !.unresolved = FALSE, !.modifier = user,
                         !.excused = b.excused \/ j]
    <2>1. s \in Statuses /\ s # "Superseded" /\ (b.excused \/ j) \in BOOLEAN
      BY DEF Statuses
    <2>2. Store(i, row)
      BY <1>4 DEF Apply
    <2> HIDE DEF s
    <2>3. /\ row \in Row /\ ~row.unresolved /\ row.status = s
          /\ row.parent = b.parent /\ row.revision = b.revision /\ row.code = b.code
      BY <1>1, <1>2, <2>1 DEF Row
    <2>4. RowOK(row, screens)
      BY <2>1, <2>3 DEF RowOK
    <2> HIDE DEF row
    <2> QED BY <1>2, <2>2, <2>3, <2>4, StoreGood
  <1> QED BY <1>3, <1>4

-----------------------------------------------------------------------------
(* The invariant and what follows.                                         *)

\* There is no budget at first.
LEMMA BudgetInit == Init => BudgetInv
  BY DEF Init, BudgetInv, TableOK, Chained, Coded, Series

LEMMA BudgetStep == BudgetInv /\ [Next]_vars => BudgetInv' /\ UnusedKept /\ NoSecond
  <1> SUFFICES ASSUME BudgetInv, [Next]_vars PROVE BudgetInv' /\ UnusedKept /\ NoSecond
    OBVIOUS
  <1>1. CASE \/ \E c \in Figures : Create(c)
             \/ \E i \in Ids, c \in Figures : Clone(i, c)
    BY <1>1, CreateCloneGood
  <1>2. CASE \E i \in Ids : Approve(i) \/ Delete(i) \/ Restore(i) \/ Override(i)
    BY <1>2, FlagsGood
  <1>3. CASE \E i \in Ids, c \in Figures, l \in BOOLEAN, s \in Statuses :
               Update(i, c, l, s)
    BY <1>3, UpdateGood
  <1>4. CASE \E u \in Users : Evaluate(u)
    BY <1>4, EvaluateGood
  <1>5. CASE \E i \in Ids, u \in Users, j \in BOOLEAN : Sync(i, u, j)
    BY <1>5, SyncGood
  <1>6. CASE \E i \in Ids, u \in Users, j \in BOOLEAN : Apply(i, u, j)
    BY <1>6, ApplyGood
  <1>7. CASE \E p \in Figures, f \in Figures : Upstream(p, f)
    <2>1. LinkedActive' \subseteq LinkedActive
      BY <1>7 DEF Upstream, LinkedActive, Ids
    <2> QED BY <1>7, <2>1, LiveCounted DEF Upstream, BudgetInv, UnusedKept
  <1>8. CASE UNCHANGED vars
    <2>1. LinkedActive' \subseteq LinkedActive
      BY <1>8 DEF vars, LinkedActive, Ids
    <2> QED BY <1>8, <2>1, LiveCounted DEF vars, BudgetInv, UnusedKept
  <1> QED BY <1>1, <1>2, <1>3, <1>4, <1>5, <1>6, <1>7, <1>8 DEF Next

\* In every reachable state the table is as described.
THEOREM BudgetAlways == Spec => []BudgetInv
  BY BudgetInit, BudgetStep, PTL DEF Spec

\* The budgets and the figures upstream keep their types.
THEOREM BudgetTyped == Spec => []TypeOK
  <1>1. BudgetInv => TypeOK
    BY DEF BudgetInv, TableOK, TypeOK
  <1> QED BY <1>1, BudgetAlways, PTL

\* From the screens, only an edit puts a second budget of a file in force.
THEOREM SecondBudgetByEdit == Spec => SecondByEditOnly
  <1> DEFINE Edited == \E i \in Ids : ~budgets[i].linked /\ budgets'[i].linked
             Grown == Cardinality(LinkedActive') > Cardinality(LinkedActive)
  <1>1. ASSUME BudgetInv, BudgetInv', [Next]_vars
        PROVE  [screens /\ Grown => LinkedActive = {} \/ Edited]_vars
    <2>1. NoSecond
      BY <1>1, BudgetStep
    <2>2. Cardinality(LinkedActive) \in Nat /\ Cardinality(LinkedActive') \in Nat
      <3>1. IsFiniteSet(LinkedActive)
        BY <1>1, LiveCounted
      <3>2. LinkedActive' \subseteq 1..Len(budgets') /\ Len(budgets') \in Nat
        BY <1>1 DEF BudgetInv, TableOK, LinkedActive, Ids
      <3>3. IsFiniteSet(LinkedActive')
        BY <3>2, RowsFinite
      <3> QED BY <3>1, <3>3, FS_CardinalityType
    <2> QED BY <2>1, <2>2 DEF NoSecond
  <1> QED BY <1>1, BudgetAlways, PTL DEF Spec, SecondByEditOnly

\* Revisions form chains, and from the screens none branches.
THEOREM RevisionsChain == Spec => []RevisionChain
  <1>1. BudgetInv => RevisionChain
    BY DEF BudgetInv, TableOK, Chained, RevisionChain, Ids
  <1> QED BY <1>1, BudgetAlways, PTL

\* Unless a PUT sets the status back, a pending budget has no unresolved
\* variance, whichever engine and whichever client touched it.
THEOREM PendingClean ==
  ASSUME "Pending Review" \notin EditStatuses
  PROVE  Spec => []PendingIsClean
  <1>1. BudgetInv => PendingIsClean
    BY DEF BudgetInv, TableOK, RowOK, PendingIsClean, Ids
  <1> QED BY <1>1, BudgetAlways, PTL

\* From the screens, the code proposed for a new budget is free.
THEOREM CodesFresh == Spec => []FreshCodeOnScreens
  <1>1. BudgetInv => FreshCodeOnScreens
    <2> SUFFICES ASSUME BudgetInv, screens, NEW i \in Ids,
                        budgets[i].code = GeneratedCode
                 PROVE  FALSE
      BY DEF FreshCodeOnScreens, FreshCode, CodeFree
    <2>1. i \in Series(budgets)
      BY GeneratedGood DEF Series, Ids
    <2>2. GeneratedCode.number < GeneratedCode.number
      BY <2>1, GeneratedGood
    <2>3. GeneratedCode.number \in Nat
      BY GeneratedGood DEF Code
    <2> QED BY <2>2, <2>3
  <1> QED BY <1>1, BudgetAlways, PTL

\* From the screens, a superseded budget stays as it was approved.
THEOREM SupersededStays == Spec => SupersededFrozen
  <1>1. BudgetInv /\ [Next]_vars =>
          [screens => \A i \in Ids : budgets[i].status = "Superseded"
                                       => budgets'[i] = budgets[i]]_vars
    BY BudgetStep, RowGood DEF UnusedKept, RowOK
  <1> QED BY <1>1, BudgetAlways, PTL DEF Spec, SupersededFrozen
=============================================================================
