----------------------------- MODULE Settlement -----------------------------
(***************************************************************************)
(* The landed cost of one import file and the tasks that lead to its       *)
(* closing: modules/financial_settlement, the clearance invoices of        *)
(* modules/customs_clearance and the demurrage of modules/                 *)
(* demurrage_detention that are charged to the settlement, and the export  *)
(* and the closing of modules/file_closure.                                *)
(*                                                                         *)
(* A settlement's id is its place in `settlements`, an invoice's in        *)
(* `invoices`.  Amounts, taxes and rounding are left out: of a line it is  *)
(* kept what it was made for and whose amount it bears, and of a total     *)
(* which lines were added up.  A settlement's lines are a bag: their order *)
(* matters where recalculation looks for the first line it can write to,   *)
(* and since a PUT may send the lines in any order, it takes any of them.  *)
(* People are taken not to enter one expense twice.  Lines of freight,     *)
(* transport and storage are left out: no other line is written for them,  *)
(* and they for no other.  The file's own total of the clearance invoices  *)
(* always is that of the active ones, and is left out.  So are the value   *)
(* of the goods, the shares of the items and what the closing itself       *)
(* stores.  The goods have a value: an approved landed cost is never zero. *)
(* Each request is one step.                                               *)
(***************************************************************************)
EXTENDS Integers, Sequences

CONSTANTS
  MaxSettlements,  \* bound: rows of landed_cost_settlements
  MaxInvoices      \* bound: rows of clearance_expense_invoices

ASSUME BoundsAssumption == MaxSettlements \in Nat /\ MaxInvoices \in Nat

VARIABLES
  settlements,  \* landed_cost_settlements
  invoices,     \* clearance_expense_invoices
  file,         \* what import_files and other modules say
  tasks         \* TSK-0901 to TSK-0904

vars == <<settlements, invoices, file, tasks>>

Ids == DOMAIN settlements
InvoiceIds == DOMAIN invoices

\* The costs recalculation fetches; a line of each may be entered by hand.
Fields == {"duty", "fees"}

\* "service": the customs services of a released declaration.
Kinds == Fields \cup {"service", "demurrage", "clearance", "category"}

\* A line and whose amount it bears: its own or that of a field.
Of(kind) == [kind |-> kind, ref |-> 0, bears |-> "own"]
Clearance(k) == [kind |-> "clearance", ref |-> k, bears |-> "own"]

OwnLines == {Of(kind) : kind \in Kinds \ {"clearance"}}
              \cup {Clearance(k) : k \in 1..MaxInvoices}

\* Lines of a clearance may come to bear the live amount of a field.
Bearing(l, field) == [kind |-> l.kind, ref |-> l.ref, bears |-> field]
Overwritable == {l \in OwnLines : l.kind \in {"service", "clearance"}}
Charges ==
  OwnLines \cup {Bearing(l, f) : l \in Overwritable, f \in Fields}

\* lines: how many lines there are of each; total: how often it counts each.
Row == [active : BOOLEAN, lines : [Charges -> Nat], total : [Charges -> Nat],
        status : {"Draft", "Calculated", "Approved"}]

\* customs: does the category name "Customs", as the form's default does.
Invoice == [active : BOOLEAN, customs : BOOLEAN]

TypeOK == /\ settlements \in Seq(Row)
          /\ invoices \in Seq(Invoice)
          /\ Len(invoices) <= MaxInvoices
          /\ file \in [arrived : BOOLEAN, allocated : BOOLEAN]
          /\ tasks \in [1..4 -> {"none", "open", "closed"}]

Init == /\ settlements = <<>>
        /\ invoices = <<>>
        /\ file = [arrived |-> FALSE, allocated |-> FALSE]
        /\ tasks = [t \in 1..4 |-> "none"]

-----------------------------------------------------------------------------
(* Lines and rows                                                          *)

\* One line for each of these charges.
Once(charges) == [c \in Charges |-> IF c \in charges THEN 1 ELSE 0]

Plus(lines, more) == [c \in Charges |-> lines[c] + more[c]]

WithoutOne(lines, kinds) ==  \* Slip: takes a line out, also of none.
  [c \in Charges |-> IF c.kind \in kinds THEN lines[c] - 1 ELSE lines[c]]

Without(lines, kinds) ==
  [c \in Charges |-> IF c.kind \in kinds THEN 0 ELSE lines[c]]

If(condition, kind) == IF condition THEN {Of(kind)} ELSE {}

\* The engine adds up amount_egp, which the category lines do not have.
EngineTotal(lines) == Without(lines, {"category"})

ActiveIds == {i \in Ids : settlements[i].active}
First == CHOOSE i \in ActiveIds : \A j \in ActiveIds : i <= j

\* The first active settlement; without one, a new row is inserted.
PutFirst(row) == IF ActiveIds = {}
                 THEN /\ Len(settlements) < MaxSettlements
                      /\ settlements' = Append(settlements, row)
                 ELSE settlements' = [settlements EXCEPT ![First] = row]

Calculated(lines) == [active |-> TRUE, lines |-> lines, status |-> "Calculated",
                      total |-> EngineTotal(lines)]

-----------------------------------------------------------------------------
(* financial_settlement                                                    *)

\* To what was entered are added the duty and the services of the released
\* declaration, unless a line of the duty was entered.
Create(entered, services) ==
  /\ ActiveIds = {}
  /\ services => file.arrived
  /\ PutFirst(Calculated(Once(
       {Of(kind) : kind \in entered}
         \cup If("duty" \notin entered /\ file.arrived, "duty")
         \cup If("duty" \notin entered /\ services, "service"))))
  /\ UNCHANGED <<invoices, file, tasks>>

Store(i, row) == /\ settlements' = [settlements EXCEPT ![i] = row]
                 /\ UNCHANGED <<invoices, file, tasks>>

Recalculate(i) == /\ settlements[i].active
                  /\ Store(i, Calculated(settlements[i].lines))

\* PUT: lines of a kind are dropped, others entered; then the engine runs.
Update(i, dropped, entered) ==
  /\ settlements[i].active
  /\ Store(i, Calculated(Plus(Without(settlements[i].lines, entered \cup {dropped}),
                              Once({Of(kind) : kind \in entered}))))

\* Words of the field in the line's category.
Matches(l, field) ==
  \/ l.kind = field
  \/ field = "fees" /\ l.kind \in {"service", "clearance"}
  \/ field = "duty" /\ l.kind = "clearance" /\ invoices[l.ref].customs

\* One of the lines that match, or a new one.  There are category lines for
\* all fields: the one that is given an amount becomes a line of the field.
Targets(lines, field) ==
  LET matching == {l \in Charges : lines[l] > 0 /\ Matches(l, field)}
  IN  matching \cup (IF matching = {} \/ lines[Of("category")] > 0
                     THEN {Of(field)} ELSE {})

\* The line bears the live amount, whatever it bore.
Written(lines, l, field) ==
  LET written == IF l.kind = field THEN l ELSE Bearing(l, field)
  IN  IF lines[written] > 0 THEN lines
      ELSE [lines EXCEPT ![l] = 0, ![written] = 1]

Apply(lines, field, changed) ==
  IF field \notin changed THEN {lines}
  ELSE {Written(lines, l, field) : l \in Targets(lines, field)}

\* recalculation's apply: the fields whose live value differs, one after the
\* other, then the engine.
ApplyUpstream(i, changed) ==
  /\ settlements[i].active
  /\ \E duty \in Apply(settlements[i].lines, "duty", changed) :
       \E fees \in Apply(duty, "fees", changed) : Store(i, Calculated(fees))

Delete(i) == /\ settlements[i].active
             /\ Store(i, [settlements[i] EXCEPT !.active = FALSE])

Restore(i) == Store(i, [settlements[i] EXCEPT !.active = TRUE])

-----------------------------------------------------------------------------
(* Expenses charged by other modules                                       *)

InvoiceLines(rows) == Once({Clearance(k) : k \in {r \in DOMAIN rows : rows[r].active}})

\* Slip: the lines of the last synchronisation stay.
SyncAppending(rows) ==
  settlements' =
    IF ActiveIds = {} THEN settlements
    ELSE [settlements EXCEPT ![First].lines = Plus(@, InvoiceLines(rows))]

\* _recalculate_clearance_expenses_aggregates: the clearance lines are made
\* anew, and the total adds up net_payable_egp, which only they have.
Sync(rows) ==
  settlements' =
    IF ActiveIds = {} THEN settlements
    ELSE [settlements EXCEPT
            ![First].lines = Plus(Without(@, {"clearance"}), InvoiceLines(rows)),
            ![First].total = InvoiceLines(rows)]

RecordInvoice(customs) ==
  /\ Len(invoices) < MaxInvoices
  /\ invoices' = Append(invoices, [active |-> TRUE, customs |-> customs])
  /\ Sync(invoices')
  /\ UNCHANGED <<file, tasks>>

DeleteInvoice(k) == /\ invoices[k].active
                    /\ invoices' = [invoices EXCEPT ![k].active = FALSE]
                    /\ Sync(invoices')
                    /\ UNCHANGED <<file, tasks>>

\* push_demurrage_to_financial_settlement: the line of this tracking is
\* replaced; the landed cost and the status stay.
PushDemurrage ==
  LET old == IF ActiveIds = {}
             THEN [Calculated(Once({})) EXCEPT !.status = "Draft"]
             ELSE settlements[First]
      lines == Plus(Without(old.lines, {"demurrage"}), Once({Of("demurrage")}))
  IN  /\ PutFirst([old EXCEPT !.lines = lines, !.total = EngineTotal(lines)])
      /\ UNCHANGED <<invoices, file, tasks>>

-----------------------------------------------------------------------------
(* The last tasks                                                          *)

\* Slip: a pattern that finds the next task as well.
HandBoth(t) == [tasks EXCEPT ![t] = IF @ = "none" THEN @ ELSE "closed",
                             ![t + 1] = IF @ = "none" THEN "open" ELSE "closed"]

\* A task is created once for a file; closing takes it whatever its status.
Hand(t) == [tasks EXCEPT ![t] = IF @ = "none" THEN @ ELSE "closed",
                         ![t + 1] = IF @ = "none" THEN "open" ELSE @]

\* The containers have been returned: TSK-0901, whose code is unique.
ReturnContainers == /\ tasks[1] = "none"
                    /\ tasks' = [tasks EXCEPT ![1] = "open"]
                    /\ UNCHANGED <<settlements, invoices, file>>

ConfirmInvoices == /\ tasks' = Hand(1)
                   /\ UNCHANGED <<settlements, invoices, file>>

\* What aggregate_shipment_invoices finds: the duty, the clearance invoices
\* and the demurrage, if there is any.
ActualTotal(demurrage) ==
  Plus(InvoiceLines(invoices),
       Once(If(file.arrived, "duty") \cup If(demurrage, "demurrage")))

ApproveActual(demurrage) ==
  /\ PutFirst([active |-> TRUE, lines |-> Once({Of("category")}),
               total |-> ActualTotal(demurrage), status |-> "Approved"])
  /\ file' = [file EXCEPT !.allocated = TRUE]
  /\ tasks' = Hand(2)
  /\ UNCHANGED invoices

\* No look at the settlement.
ExportDossier == /\ tasks' = Hand(3)
                 /\ UNCHANGED <<settlements, invoices, file>>

\* The final closing, with everything ticked off on the client's checklist.
\* Nothing here asks whether the file is closed.
Close ==
  /\ file.arrived
  /\ \/ file.allocated
     \/ \E i \in ActiveIds : settlements[i].status # "Draft"
  /\ tasks' = [tasks EXCEPT ![4] = IF @ = "open" THEN "closed" ELSE @]
  /\ UNCHANGED <<settlements, invoices, file>>

\* Customs releases the goods and the warehouse receives them.
Arrive == /\ file' = [file EXCEPT !.arrived = TRUE]
          /\ UNCHANGED <<settlements, invoices, tasks>>

Next ==
  \/ \E e \in SUBSET Fields, services \in BOOLEAN : Create(e, services)
  \/ \E i \in Ids : Recalculate(i) \/ Delete(i) \/ Restore(i)
  \/ \E i \in Ids, changed \in SUBSET Fields : ApplyUpstream(i, changed)
  \/ \E i \in Ids, d \in Kinds, e \in SUBSET Fields : Update(i, d, e)
  \/ \E customs \in BOOLEAN : RecordInvoice(customs)
  \/ \E k \in InvoiceIds : DeleteInvoice(k)
  \/ PushDemurrage
  \/ ReturnContainers \/ ConfirmInvoices \/ ExportDossier \/ Close \/ Arrive
  \/ \E d \in BOOLEAN : ApproveActual(d)

Spec == Init /\ [][Next]_vars

-----------------------------------------------------------------------------
(* Properties                                                              *)

(* No expense is given a second line: whatever is pushed, recorded,        *)
(* approved, synchronised or recalculated again, in any order, a           *)
(* settlement has one line for each.  (A live cost written over another    *)
(* expense's line takes that line from it.)                                *)
OneLineEach ==
  \A i \in Ids : \A l, m \in {c \in Charges : settlements[i].lines[c] > 0} :
    /\ settlements[i].lines[l] = 1
    /\ l.kind = m.kind /\ l.ref = m.ref => l = m

(* The work on a file is handed on: no task of the chain to its closing is *)
(* closed before the next one was created, in whatever order the invoices  *)
(* are confirmed, the cost approved and the dossier exported.              *)
TasksHandedOn ==
  \A t \in 1..3 : tasks[t] = "closed" => tasks[t + 1] # "none"

(* The expense total of a calculated settlement is that of its lines,      *)
(* whichever module charged them.                                          *)
TotalOfLines ==
  \A i \in Ids : settlements[i].status = "Calculated" =>
    settlements[i].total = EngineTotal(settlements[i].lines)
=============================================================================
