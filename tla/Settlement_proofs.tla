-------------------------- MODULE Settlement_proofs --------------------------
(***************************************************************************)
(* What holds of the settlements of a file for any number of settlements   *)
(* and clearance invoices: their types, that nothing has two lines, and    *)
(* that the chain of the last tasks is handed on.                          *)
(***************************************************************************)
EXTENDS Settlement, SequenceTheorems, WellFoundedInduction, TLAPS

-----------------------------------------------------------------------------
(* Bags of lines.                                                          *)

Bag == [Charges -> Nat]

SameLine(l, m) == l.kind = m.kind /\ l.ref = m.ref

AtMostOnce(lines) ==
  \A l, m \in {c \in Charges : lines[c] > 0} :
    lines[l] = 1 /\ (SameLine(l, m) => l = m)

Shape == [kind : Kinds, ref : Nat, bears : Fields \cup {"own"}]

\* What a line is made of; a line of a field is the only one of its kind.
LEMMA ChargesShape ==
  /\ Charges \subseteq Shape
  /\ \A c \in Charges : c.kind \in Fields => c = Of(c.kind)
  <1>1. OwnLines \subseteq Shape
    <2>1. \A kind \in Kinds : Of(kind) \in Shape
      BY DEF Of, Shape
    <2>2. \A k \in 1..MaxInvoices : Clearance(k) \in Shape
      BY DEF Clearance, Of, Shape, Kinds
    <2> QED BY <2>1, <2>2 DEF OwnLines
  <1>2. \A l \in Overwritable, f \in Fields :
          /\ Bearing(l, f) \in Shape
          /\ Bearing(l, f).kind \in {"service", "clearance"}
    BY <1>1 DEF Overwritable, Shape, Bearing
  <1>3. \A c \in OwnLines : c.kind \in Fields => c = Of(c.kind)
    BY DEF OwnLines, Of, Clearance, Fields
  <1>4. \A c \in Charges : c \in OwnLines
          \/ \E l \in Overwritable, f \in Fields : c = Bearing(l, f)
    BY DEF Charges
  <1>5. Charges \subseteq Shape
    BY <1>1, <1>2, <1>4
  <1>6. \A c \in Charges : c.kind \in Fields => c = Of(c.kind)
    BY <1>2, <1>3, <1>4 DEF Fields
  <1> QED BY <1>5, <1>6

\* Lines are equal if their parts are.
LEMMA Extensional ==
  ASSUME NEW l \in Charges, NEW m \in Charges, SameLine(l, m), l.bears = m.bears
  PROVE  l = m
  BY ChargesShape DEF Shape, SameLine

\* The lines an invoice, a form or a module makes bear their own amounts.
LEMMA OwnBear == /\ \A kind : Of(kind).bears = "own" /\ Of(kind).kind = kind
                 /\ \A k : Clearance(k).bears = "own"
                          /\ Clearance(k).kind = "clearance"
  BY DEF Of, Clearance

\* Counting such lines once each makes a bag without repetitions.
LEMMA OnceBag ==
  ASSUME NEW S, \A c \in S : c.bears = "own"
  PROVE  Once(S) \in Bag /\ AtMostOnce(Once(S))
  <1>1. Once(S) \in Bag
    BY DEF Once, Bag
  <1>2. \A c \in Charges : Once(S)[c] > 0 => c \in S /\ Once(S)[c] = 1
    BY DEF Once
  <1>3. \A l, m \in {c \in Charges : Once(S)[c] > 0} :
          SameLine(l, m) => l = m
    BY <1>2, Extensional
  <1> QED BY <1>1, <1>2, <1>3 DEF AtMostOnce

\* Taking lines out leaves a bag, and repeats none.
LEMMA WithoutBag ==
  ASSUME NEW b \in Bag, NEW K
  PROVE  /\ Without(b, K) \in Bag
         /\ AtMostOnce(b) => AtMostOnce(Without(b, K))
  <1>1. \A c \in Charges : Without(b, K)[c] > 0 => Without(b, K)[c] = b[c]
    BY DEF Without, Bag
  <1> QED BY <1>1 DEF Without, Bag, AtMostOnce

\* Adding lines makes a bag.
LEMMA PlusBag ==
  ASSUME NEW a \in Bag, NEW b \in Bag
  PROVE  Plus(a, b) \in Bag
  BY DEF Plus, Bag

\* Lines of other kinds are added without repeating any.
LEMMA PlusDisjoint ==
  ASSUME NEW a \in Bag, NEW b \in Bag, AtMostOnce(a), AtMostOnce(b),
         \A l, m \in Charges : a[l] > 0 /\ b[m] > 0 => l.kind # m.kind
  PROVE  AtMostOnce(Plus(a, b))
  <1>1. \A c \in Charges : /\ Plus(a, b)[c] = a[c] + b[c]
                          /\ a[c] \in Nat /\ b[c] \in Nat
    BY DEF Plus, Bag
  <1> SUFFICES ASSUME NEW l \in Charges, NEW m \in Charges,
                      Plus(a, b)[l] > 0, Plus(a, b)[m] > 0
               PROVE  Plus(a, b)[l] = 1 /\ (SameLine(l, m) => l = m)
    BY DEF AtMostOnce
  <1>2. \A c \in Charges : a[c] = 0 \/ b[c] = 0
    BY <1>1
  <1>3. (a[l] > 0 \/ b[l] > 0) /\ (a[m] > 0 \/ b[m] > 0)
    BY <1>1
  <1>4. Plus(a, b)[l] = 1
    BY <1>1, <1>2, <1>3 DEF AtMostOnce
  <1>5. ASSUME SameLine(l, m) PROVE l = m
    BY <1>3, <1>5 DEF AtMostOnce, SameLine
  <1> QED BY <1>4, <1>5

\* What is left after taking out kinds, and what is among the lines made.
LEMMA Counts ==
  ASSUME NEW b \in Bag, NEW K, NEW S, NEW c \in Charges
  PROVE  /\ Without(b, K)[c] > 0 => c.kind \notin K
         /\ Once(S)[c] > 0 => c \in S
  BY DEF Without, Once

\* The engine's total is a bag.
LEMMA EngineBag ==
  ASSUME NEW b \in Bag
  PROVE  EngineTotal(b) \in Bag
  BY WithoutBag DEF EngineTotal

\* The clearance lines of the active invoices: a bag of clearance charges.
LEMMA InvoiceBag ==
  ASSUME NEW rows
  PROVE  /\ InvoiceLines(rows) \in Bag /\ AtMostOnce(InvoiceLines(rows))
         /\ \A c \in Charges : InvoiceLines(rows)[c] > 0 => c.kind = "clearance"
  <1> DEFINE S == {Clearance(k) : k \in {r \in DOMAIN rows : rows[r].active}}
  <1>1. \A c \in S : c.bears = "own" /\ c.kind = "clearance"
    BY OwnBear
  <1>2. \A c \in Charges : Once(S)[c] > 0 => c \in S
    BY DEF Once
  <1> QED BY <1>1, <1>2, OnceBag DEF InvoiceLines

\* A live cost is written over one line, or on a new one of its kind.
LEMMA WrittenOnce ==
  ASSUME NEW b \in Bag, AtMostOnce(b), NEW f \in Fields, NEW l \in Targets(b, f)
  PROVE  Written(b, l, f) \in Bag /\ AtMostOnce(Written(b, l, f))
  <1>1. CASE l.kind = f
    <2>1. l = Of(f) /\ l \in Charges
      <3>1. Of(f) \in Charges
        BY DEF Charges, OwnLines, Kinds, Fields
      <3>2. l \in Charges
        BY <3>1 DEF Targets
      <3> QED BY <1>1, <3>2, ChargesShape
    <2>2. \A m \in Charges : SameLine(l, m) => m = l
      BY <1>1, <2>1, ChargesShape DEF SameLine
    <2>3. \A m \in Charges : SameLine(m, l) => m = l
      BY <2>2 DEF SameLine
    <2> DEFINE w == IF b[l] > 0 THEN b ELSE [b EXCEPT ![l] = 0, ![l] = 1]
    <2>4. w \in Bag
      BY <2>1 DEF Bag
    <2>5. \A m \in Charges : m # l => w[m] = b[m]
      BY DEF Bag
    <2>6. w[l] > 0 => w[l] = 1
      BY <2>1 DEF Bag, AtMostOnce
    <2>7. AtMostOnce(w)
      BY <2>2, <2>3, <2>5, <2>6 DEF AtMostOnce
    <2> QED BY <1>1, <2>4, <2>7 DEF Written
  <1>2. CASE l.kind # f
    <2> DEFINE p == Bearing(l, f)
               w == IF b[p] > 0 THEN b ELSE [b EXCEPT ![l] = 0, ![p] = 1]
    <2>1. l \in Charges /\ b[l] > 0 /\ l.kind \in {"service", "clearance"}
      BY <1>2, OwnBear DEF Targets, Matches
    <2>2. l \in Shape
      BY <2>1, ChargesShape
    <2>3. p \in Shape /\ SameLine(l, p)
      BY <2>2 DEF Shape, SameLine, Bearing
    <2>4. p \in Charges
      <3>1. PICK o \in Overwritable : SameLine(o, l) /\ o.bears = "own" /\ o \in Shape
        <4>1. CASE l \in OwnLines
          <5>1. l.bears = "own"
            BY <4>1, OwnBear DEF OwnLines
          <5> QED BY <2>1, <2>2, <4>1, <5>1 DEF Overwritable, SameLine
        <4>2. CASE l \notin OwnLines
          <5>1. PICK o \in Overwritable, g \in Fields : l = Bearing(o, g)
            BY <2>1, <4>2 DEF Charges
          <5>2. o \in Charges /\ o \in OwnLines
            BY <5>1 DEF Overwritable, Charges
          <5>3. o \in Shape
            BY <5>2, ChargesShape
          <5>4. o.bears = "own"
            BY <5>2, OwnBear DEF OwnLines
          <5> QED BY <5>1, <5>3, <5>4 DEF Shape, SameLine, Bearing
        <4> QED BY <4>1, <4>2
      <3>2. p = Bearing(o, f)
        BY <3>1 DEF SameLine, Bearing
      <3> QED BY <3>1, <3>2 DEF Charges
    <2>5. b[p] > 0 => p = l
      BY <2>1, <2>3, <2>4 DEF AtMostOnce
    <2>6. CASE p = l
      <3>1. w = b
        BY <2>1, <2>6
      <3> QED BY <1>2, <3>1 DEF Written
    <2>7. CASE p # l
      <3>1. /\ w[l] = 0 /\ w[p] = 1
            /\ \A m \in Charges : m # l /\ m # p => w[m] = b[m]
        BY <2>1, <2>4, <2>5, <2>7 DEF Bag
      <3>2. w \in Bag
        BY <2>1, <2>4, <2>5, <2>7 DEF Bag
      <3>3. \A m \in Charges : w[m] > 0 => m = p \/ (m # l /\ b[m] > 0 /\ w[m] = b[m])
        <4> HIDE DEF w, p
        <4> QED BY <3>1
      <3>4. \A m \in Charges : b[m] > 0 /\ (SameLine(m, p) \/ SameLine(p, m)) => m = l
        BY <2>1, <2>3 DEF AtMostOnce, SameLine
      <3>5. AtMostOnce(w)
        BY <3>1, <3>3, <3>4 DEF AtMostOnce
      <3> QED BY <1>2, <3>2, <3>5 DEF Written
    <2> QED BY <2>6, <2>7
  <1> QED BY <1>1, <1>2

-----------------------------------------------------------------------------
(* Rows.                                                                   *)

Good(row) == row \in Row /\ AtMostOnce(row.lines)

RowsInv == TypeOK /\ \A i \in Ids : Good(settlements[i])

\* The engine's result on such lines is a good row.
LEMMA CalculatedGood ==
  ASSUME NEW b \in Bag, AtMostOnce(b)
  PROVE  Good(Calculated(b))
  BY EngineBag DEF Calculated, Good, Row, Bag

\* A good row's lines, with the status and the flag it has.
LEMMA GoodLines ==
  ASSUME NEW r, Good(r)
  PROVE  /\ r.lines \in Bag /\ AtMostOnce(r.lines)
         /\ r.active \in BOOLEAN
         /\ r.status \in {"Draft", "Calculated", "Approved"}
         /\ r.total \in Bag
  BY DEF Good, Row, Bag

\* The first active settlement is one of the settlements.
LEMMA FirstIsActive ==
  ASSUME TypeOK, ActiveIds # {}
  PROVE  First \in Ids /\ settlements[First].active
  <1>1. ActiveIds \subseteq Nat /\ ActiveIds \subseteq Ids
    BY DEF ActiveIds, Ids, TypeOK
  <1>2. \E i \in ActiveIds : \A j \in ActiveIds : i <= j
    <2>1. PICK i \in ActiveIds :
            \A j \in ActiveIds : ~(<<j, i>> \in OpToRel(<, Nat))
      BY <1>1, NatLessThanWellFounded, WFMin
    <2>2. \A j \in ActiveIds : ~(j < i)
      BY <1>1, <2>1 DEF OpToRel
    <2> QED BY <1>1, <2>2
  <1> QED BY <1>1, <1>2 DEF First, ActiveIds

-----------------------------------------------------------------------------
(* The two ways a row is written.                                          *)

SettlementsGood == /\ settlements \in Seq(Row)
                   /\ \A i \in Ids : Good(settlements[i])

OthersTyped == /\ invoices \in Seq(Invoice)
               /\ Len(invoices) <= MaxInvoices
               /\ file \in [arrived : BOOLEAN, allocated : BOOLEAN]
               /\ tasks \in [1..4 -> {"none", "open", "closed"}]

\* The parts of the invariant, apart.
LEMMA RowsInvParts == RowsInv <=> SettlementsGood /\ OthersTyped
  BY DEF RowsInv, SettlementsGood, OthersTyped, TypeOK

\* A good row in the place of another keeps all rows good.
LEMMA ReplaceGood ==
  ASSUME SettlementsGood, NEW i, NEW row, Good(row),
         settlements' = [settlements EXCEPT ![i] = row]
  PROVE  SettlementsGood'
  <1>1. row \in Row
    BY DEF Good
  <1>2. settlements \in Seq(Row) /\ \A j \in DOMAIN settlements : Good(settlements[j])
    BY DEF SettlementsGood, Ids
  <1>3. settlements' \in Seq(Row) /\ DOMAIN settlements' = DOMAIN settlements
    <2>1. CASE i \in 1..Len(settlements)
      BY <1>1, <1>2, <2>1, ExceptSeq
    <2>2. CASE i \notin 1..Len(settlements)
      <3>1. settlements' = settlements
        BY <1>2, <2>2
      <3> QED BY <1>2, <3>1
    <2> QED BY <2>1, <2>2
  <1>4. \A j \in DOMAIN settlements : Good(settlements'[j])
    BY <1>2
  <1> QED BY <1>3, <1>4 DEF SettlementsGood, Ids

\* The first active settlement is replaced, or the row is appended.
LEMMA PutFirstGood ==
  ASSUME SettlementsGood, NEW row, Good(row), PutFirst(row)
  PROVE  SettlementsGood'
  <1>1. CASE ActiveIds = {}
    <2>1. settlements' = Append(settlements, row)
      BY <1>1 DEF PutFirst
    <2>2. row \in Row
      BY DEF Good
    <2>3. settlements' \in Seq(Row)
      BY <2>1, <2>2 DEF SettlementsGood
    <2>4. \A i \in Ids' : Good(settlements'[i])
      BY <2>1, <2>2 DEF SettlementsGood, Ids
    <2> QED BY <2>3, <2>4 DEF SettlementsGood
  <1>2. CASE ActiveIds # {}
    BY <1>2, ReplaceGood DEF PutFirst
  <1> QED BY <1>1, <1>2

-----------------------------------------------------------------------------
(* The actions.                                                            *)

\* The engine runs on other lines of a settlement.
LEMMA StoreGoodRow ==
  ASSUME RowsInv, NEW i, NEW row, Good(row), Store(i, row)
  PROVE  RowsInv'
  <1>1. SettlementsGood'
    BY RowsInvParts, ReplaceGood DEF Store
  <1>2. OthersTyped'
    BY RowsInvParts DEF OthersTyped, Store
  <1> QED BY <1>1, <1>2, RowsInvParts DEF RowsInv, SettlementsGood, OthersTyped, TypeOK

\* A new settlement has a line for what is entered and what is fetched.
LEMMA CreateGood ==
  ASSUME RowsInv, NEW e \in SUBSET Fields, NEW v \in BOOLEAN, Create(e, v)
  PROVE  RowsInv'
  <1> DEFINE S == {Of(kind) : kind \in e}
                    \cup If("duty" \notin e /\ file.arrived, "duty")
                    \cup If("duty" \notin e /\ v, "service")
  <1>1. \A c \in S : c.bears = "own"
    BY OwnBear DEF If
  <1>2. Good(Calculated(Once(S)))
    BY <1>1, OnceBag, CalculatedGood
  <1>3. SettlementsGood'
    BY <1>2, PutFirstGood, RowsInvParts DEF Create
  <1>4. OthersTyped'
    BY RowsInvParts DEF OthersTyped, Create
  <1> QED BY <1>3, <1>4 DEF RowsInv, SettlementsGood, OthersTyped, TypeOK

\* An update keeps lines of other kinds and adds what is entered.
LEMMA UpdateGood ==
  ASSUME RowsInv, NEW i \in Ids, NEW d \in Kinds, NEW e \in SUBSET Fields,
         Update(i, d, e)
  PROVE  RowsInv'
  <1> DEFINE kept == Without(settlements[i].lines, e \cup {d})
             added == Once({Of(kind) : kind \in e})
  <1>1. kept \in Bag /\ AtMostOnce(kept)
    BY GoodLines, WithoutBag DEF RowsInv
  <1>2. added \in Bag /\ AtMostOnce(added)
    <2>1. \A c \in {Of(kind) : kind \in e} : c.bears = "own"
      BY OwnBear
    <2> QED BY <2>1, OnceBag
  <1>3. \A l, m \in Charges : kept[l] > 0 /\ added[m] > 0 => l.kind # m.kind
    <2>1. \A l \in Charges : kept[l] > 0 => l.kind \notin e
      BY DEF Without
    <2>2. \A m \in Charges : added[m] > 0 => m.kind \in e
      BY OwnBear DEF Once
    <2> QED BY <2>1, <2>2
  <1>4. Good(Calculated(Plus(kept, added)))
    BY <1>1, <1>2, <1>3, PlusBag, PlusDisjoint, CalculatedGood
  <1> QED BY <1>4, StoreGoodRow DEF Update

\* The live costs go to lines, one after the other.
LEMMA ApplyUpstreamGood ==
  ASSUME RowsInv, NEW i \in Ids, NEW changed \in SUBSET Fields,
         ApplyUpstream(i, changed)
  PROVE  RowsInv'
  <1>1. \A b \in Bag : AtMostOnce(b) =>
          \A f \in Fields : \A w \in Apply(b, f, changed) :
            w \in Bag /\ AtMostOnce(w)
    BY WrittenOnce DEF Apply
  <1>2. settlements[i].lines \in Bag /\ AtMostOnce(settlements[i].lines)
    BY GoodLines DEF RowsInv
  <1>3. PICK w \in Apply(settlements[i].lines, "duty", changed) :
          \E fees \in Apply(w, "fees", changed) : Store(i, Calculated(fees))
    BY DEF ApplyUpstream
  <1>4. w \in Bag /\ AtMostOnce(w)
    BY <1>1, <1>2, <1>3 DEF Fields
  <1>5. PICK fees \in Apply(w, "fees", changed) : Store(i, Calculated(fees))
    BY <1>3
  <1>6. fees \in Bag /\ AtMostOnce(fees)
    BY <1>1, <1>4, <1>5 DEF Fields
  <1>7. Good(Calculated(fees))
    BY <1>6, CalculatedGood
  <1> QED BY <1>5, <1>7, StoreGoodRow

\* Recalculation, deletion and restoration keep the lines.
LEMMA RewriteGood ==
  ASSUME RowsInv, NEW i \in Ids, Recalculate(i) \/ Delete(i) \/ Restore(i)
  PROVE  RowsInv'
  <1>1. Good(settlements[i])
    BY DEF RowsInv
  <1>2. Good(Calculated(settlements[i].lines))
    BY <1>1, GoodLines, CalculatedGood
  <1>3. \A a \in BOOLEAN : Good([settlements[i] EXCEPT !.active = a])
    BY <1>1 DEF Good, Row
  <1> QED BY <1>2, <1>3, StoreGoodRow DEF Recalculate, Delete, Restore

\* A synchronisation makes the clearance lines anew.
LEMMA SyncGood ==
  ASSUME RowsInv, NEW rows, Sync(rows)
  PROVE  SettlementsGood'
  <1>1. CASE ActiveIds = {}
    BY <1>1, RowsInvParts DEF Sync, SettlementsGood, Ids
  <1>2. CASE ActiveIds # {}
    <2> DEFINE old == settlements[First]
               kept == Without(old.lines, {"clearance"})
               new == [old EXCEPT !.lines = Plus(kept, InvoiceLines(rows)),
                                  !.total = InvoiceLines(rows)]
    <2>1. Good(old)
      BY <1>2, FirstIsActive DEF RowsInv
    <2>2. kept \in Bag /\ AtMostOnce(kept)
      BY <2>1, GoodLines, WithoutBag
    <2>3. \A l, m \in Charges :
            kept[l] > 0 /\ InvoiceLines(rows)[m] > 0 => l.kind # m.kind
      <3>1. \A l \in Charges : kept[l] > 0 => l.kind # "clearance"
        BY DEF Without
      <3> QED BY <3>1, InvoiceBag
    <2>4. /\ Plus(kept, InvoiceLines(rows)) \in Bag
          /\ AtMostOnce(Plus(kept, InvoiceLines(rows)))
      BY <2>2, <2>3, InvoiceBag, PlusBag, PlusDisjoint
    <2>5. Good(new)
      BY <2>1, <2>4, InvoiceBag DEF Good, Row, Bag
    <2>6. settlements' = [settlements EXCEPT ![First] = new]
      BY <1>2 DEF Sync
    <2> QED BY <2>5, <2>6, ReplaceGood, RowsInvParts
  <1> QED BY <1>1, <1>2

\* Recording and deleting an invoice.
LEMMA InvoicesGood ==
  ASSUME RowsInv,
         \/ \E customs \in BOOLEAN : RecordInvoice(customs)
         \/ \E k \in InvoiceIds : DeleteInvoice(k)
  PROVE  RowsInv'
  <1>1. SettlementsGood'
    BY SyncGood DEF RecordInvoice, DeleteInvoice
  <1>2. OthersTyped'
    <2>1. ASSUME NEW customs \in BOOLEAN, RecordInvoice(customs)
          PROVE  OthersTyped'
      <3>1. [active |-> TRUE, customs |-> customs] \in Invoice
        BY DEF Invoice
      <3> QED BY <2>1, <3>1, RowsInvParts, BoundsAssumption
              DEF OthersTyped, RecordInvoice
    <2>2. ASSUME NEW k \in InvoiceIds, DeleteInvoice(k)
          PROVE  OthersTyped'
      <3>1. invoices \in Seq(Invoice) /\ k \in 1..Len(invoices)
        BY RowsInvParts DEF OthersTyped, InvoiceIds
      <3>2. invoices[k] \in Invoice
        BY <3>1
      <3>3. [invoices[k] EXCEPT !.active = FALSE] \in Invoice
        BY <3>2 DEF Invoice
      <3>4. invoices' = [invoices EXCEPT ![k] = [invoices[k] EXCEPT !.active = FALSE]]
        BY <2>2 DEF DeleteInvoice
      <3>5. invoices' \in Seq(Invoice) /\ Len(invoices') = Len(invoices)
        BY <3>1, <3>3, <3>4, ExceptSeq
      <3> QED BY <2>2, <3>5, RowsInvParts DEF OthersTyped, DeleteInvoice
    <2> QED BY <2>1, <2>2
  <1> QED BY <1>1, <1>2 DEF RowsInv, SettlementsGood, OthersTyped, TypeOK

\* The demurrage replaces the line of an earlier push.
LEMMA PushGood ==
  ASSUME RowsInv, PushDemurrage
  PROVE  RowsInv'
  <1> DEFINE old == IF ActiveIds = {}
                    THEN [Calculated(Once({})) EXCEPT !.status = "Draft"]
                    ELSE settlements[First]
             kept == Without(old.lines, {"demurrage"})
             added == Once({Of("demurrage")})
             new == [old EXCEPT !.lines = Plus(kept, added),
                                !.total = EngineTotal(Plus(kept, added))]
  <1>1. Good(old)
    <2>1. CASE ActiveIds = {}
      <3>1. Once({}) \in Bag /\ AtMostOnce(Once({}))
        BY OnceBag
      <3>2. Good(Calculated(Once({})))
        BY <3>1, CalculatedGood
      <3> QED BY <2>1, <3>2 DEF Good, Row
    <2>2. CASE ActiveIds # {}
      BY <2>2, FirstIsActive DEF RowsInv
    <2> QED BY <2>1, <2>2
  <1>2. kept \in Bag /\ AtMostOnce(kept) /\ added \in Bag /\ AtMostOnce(added)
    BY <1>1, GoodLines, WithoutBag, OnceBag, OwnBear
  <1>3. \A l, m \in Charges : kept[l] > 0 /\ added[m] > 0 => l.kind # m.kind
    BY OwnBear DEF Without, Once
  <1>4. /\ Plus(kept, added) \in Bag /\ AtMostOnce(Plus(kept, added))
        /\ EngineTotal(Plus(kept, added)) \in Bag
    BY <1>2, <1>3, PlusBag, PlusDisjoint, EngineBag
  <1>5. Good(new)
    BY <1>1, <1>4 DEF Good, Row, Bag
  <1>6. PutFirst(new) /\ UNCHANGED <<invoices, file, tasks>>
    BY DEF PushDemurrage
  <1>7. SettlementsGood'
    BY <1>5, <1>6, PutFirstGood, RowsInvParts
  <1>8. OthersTyped'
    BY <1>6, RowsInvParts DEF OthersTyped
  <1> QED BY <1>7, <1>8 DEF RowsInv, SettlementsGood, OthersTyped, TypeOK

\* Handing a task on keeps the tasks' types.
LEMMA HandTyped ==
  ASSUME OthersTyped, NEW t \in 1..3
  PROVE  Hand(t) \in [1..4 -> {"none", "open", "closed"}]
  BY DEF OthersTyped, Hand

\* The approval leaves one category line in the place of all others.
LEMMA ApproveGood ==
  ASSUME RowsInv, NEW d \in BOOLEAN, ApproveActual(d)
  PROVE  RowsInv'
  <1> DEFINE row == [active |-> TRUE, lines |-> Once({Of("category")}),
                     total |-> ActualTotal(d), status |-> "Approved"]
  <1>1. ActualTotal(d) \in Bag
    BY InvoiceBag, OnceBag, PlusBag, OwnBear DEF ActualTotal, If
  <1>2. Good(row)
    BY <1>1, OnceBag, OwnBear DEF Good, Row, Bag
  <1>3. SettlementsGood'
    BY <1>2, PutFirstGood, RowsInvParts DEF ApproveActual
  <1>4. OthersTyped'
    <2>1. tasks' \in [1..4 -> {"none", "open", "closed"}]
      BY RowsInvParts, HandTyped DEF ApproveActual
    <2> QED BY <2>1, RowsInvParts DEF OthersTyped, ApproveActual
  <1> QED BY <1>3, <1>4 DEF RowsInv, SettlementsGood, OthersTyped, TypeOK

\* The tasks, the closing and the arrival leave the settlements alone.
LEMMA TasksGood ==
  ASSUME RowsInv,
         \/ ReturnContainers \/ ConfirmInvoices \/ ExportDossier
         \/ Close \/ Arrive
  PROVE  RowsInv'
  <1>1. SettlementsGood'
    BY RowsInvParts DEF SettlementsGood, Ids, ReturnContainers, ConfirmInvoices,
                        ExportDossier, Close, Arrive
  <1>2. OthersTyped'
    <2>1. CASE ReturnContainers \/ Close \/ Arrive
      <3>1. OthersTyped
        BY RowsInvParts
      <3>2. CASE ReturnContainers
        BY <3>1, <3>2 DEF OthersTyped, ReturnContainers
      <3>3. CASE Close
        BY <3>1, <3>3 DEF OthersTyped, Close
      <3>4. CASE Arrive
        BY <3>1, <3>4 DEF OthersTyped, Arrive
      <3> QED BY <2>1, <3>2, <3>3, <3>4
    <2>2. CASE ConfirmInvoices \/ ExportDossier
      BY <2>2, RowsInvParts, HandTyped
         DEF OthersTyped, ConfirmInvoices, ExportDossier
    <2> QED BY <2>1, <2>2
  <1> QED BY <1>1, <1>2 DEF RowsInv, SettlementsGood, OthersTyped, TypeOK

-----------------------------------------------------------------------------
(* The invariant and what follows.                                         *)

\* Nothing exists at first.
LEMMA RowsInit == Init => RowsInv
  BY BoundsAssumption DEF Init, RowsInv, TypeOK, Ids

LEMMA RowsStep == RowsInv /\ [Next]_vars => RowsInv'
  <1> SUFFICES ASSUME RowsInv, [Next]_vars PROVE RowsInv'
    OBVIOUS
  <1>1. CASE \E e \in SUBSET Fields, v \in BOOLEAN : Create(e, v)
    BY <1>1, CreateGood
  <1>2. CASE \E i \in Ids, changed \in SUBSET Fields : ApplyUpstream(i, changed)
    BY <1>2, ApplyUpstreamGood
  <1>3. CASE \E i \in Ids : Recalculate(i) \/ Delete(i) \/ Restore(i)
    BY <1>3, RewriteGood
  <1>4. CASE \E i \in Ids, d \in Kinds, e \in SUBSET Fields : Update(i, d, e)
    BY <1>4, UpdateGood
  <1>5. CASE \/ \E customs \in BOOLEAN : RecordInvoice(customs)
             \/ \E k \in InvoiceIds : DeleteInvoice(k)
    BY <1>5, InvoicesGood
  <1>6. CASE PushDemurrage
    BY <1>6, PushGood
  <1>7. CASE \/ ReturnContainers \/ ConfirmInvoices \/ ExportDossier
             \/ Close \/ Arrive
    BY <1>7, TasksGood
  <1>8. CASE \E d \in BOOLEAN : ApproveActual(d)
    BY <1>8, ApproveGood
  <1>9. CASE UNCHANGED vars
    BY <1>9 DEF RowsInv, TypeOK, Ids, vars
  <1> QED BY <1>1, <1>2, <1>3, <1>4, <1>5, <1>6, <1>7, <1>8, <1>9 DEF Next

\* In every reachable state each settlement is typed and gives no expense two
\* lines.
THEOREM RowsAlways == Spec => []RowsInv
  BY RowsInit, RowsStep, PTL DEF Spec

\* The settlements, the invoices, the file and the tasks keep their types.
THEOREM SettlementTyped == Spec => []TypeOK
  <1>1. RowsInv => TypeOK
    BY DEF RowsInv
  <1> QED BY <1>1, RowsAlways, PTL

\* No expense is given a second line, whoever charges it and however often.
THEOREM NoSecondLine == Spec => []OneLineEach
  <1>1. RowsInv => OneLineEach
    BY DEF RowsInv, Good, AtMostOnce, SameLine, OneLineEach
  <1> QED BY <1>1, RowsAlways, PTL

\* A hand-over closes a task and leaves its successor created; no task is
\* ever taken back to "none".
LEMMA HandHandsOn ==
  ASSUME TypeOK, TasksHandedOn, NEW t \in 1..3, tasks' = Hand(t)
  PROVE  TasksHandedOn'
  <1>1. \A s \in 1..4 : tasks[s] # "none" => tasks'[s] # "none"
    BY DEF TypeOK, Hand
  <1>2. \A s \in 1..3 : s # t /\ tasks'[s] = "closed" => tasks[s] = "closed"
    BY DEF TypeOK, Hand
  <1>3. tasks'[t + 1] # "none"
    BY DEF TypeOK, Hand
  <1> QED BY <1>1, <1>2, <1>3 DEF TasksHandedOn

\* No task of the chain is closed before the next one was created.
THEOREM WorkHandedOn == Spec => []TasksHandedOn
  <1>1. Init => TasksHandedOn
    BY DEF Init, TasksHandedOn
  <1>2. TypeOK /\ TasksHandedOn /\ [Next]_vars => TasksHandedOn'
    <2> SUFFICES ASSUME TypeOK, TasksHandedOn, [Next]_vars
                 PROVE  TasksHandedOn'
      OBVIOUS
    <2>1. CASE ConfirmInvoices \/ ExportDossier \/ \E d \in BOOLEAN : ApproveActual(d)
      <3>1. tasks' = Hand(1) \/ tasks' = Hand(2) \/ tasks' = Hand(3)
        BY <2>1 DEF ConfirmInvoices, ExportDossier, ApproveActual
      <3>2. 1 \in 1..3 /\ 2 \in 1..3 /\ 3 \in 1..3
        OBVIOUS
      <3> QED BY <3>1, <3>2, HandHandsOn
    <2>2. CASE ReturnContainers \/ Close
      BY <2>2 DEF TypeOK, TasksHandedOn, ReturnContainers, Close
    <2>3. CASE UNCHANGED tasks
      BY <2>3 DEF TasksHandedOn
    <2> QED BY <2>1, <2>2, <2>3
            DEF Next, Create, Recalculate, ApplyUpstream, Delete, Restore, Update,
                Store, RecordInvoice, DeleteInvoice, PushDemurrage, Arrive, vars
  <1> QED BY <1>1, <1>2, SettlementTyped, PTL DEF Spec
=============================================================================
