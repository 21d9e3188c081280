--------------------------- MODULE BudgetApproval ---------------------------
(***************************************************************************)
(* The budgets of one import file (modules/financial_approval) under the   *)
(* two engines that bring them up to date with the costs upstream: the     *)
(* variance engine of the same module and modules/recalculation.           *)
(*                                                                         *)
(* A budget's id is its place in `budgets`; rows are only ever added.  The *)
(* four cost figures are one, and of the variance log what approval asks:  *)
(* is a hard-block line of this budget pending.  `prefill` and `fetched`   *)
(* are what the two engines find upstream: one takes the dearest freight   *)
(* offer and converts it, the other the recommended offer as quoted.       *)
(* Each request is one step; a swallowed failure of the board's advance    *)
(* leaves nothing behind here.  What a screen looked at before it sent a   *)
(* request may be out of date, so its own checks are no guards here: the   *)
(* `screens` only bound which requests there are and what they carry.      *)
(***************************************************************************)
EXTENDS Integers, Sequences, FiniteSets

CONSTANTS
  Users,         \* who edits costs, synchronises and approves
  Admins,        \* those of them with the role ADMIN
  Figures,       \* amounts a cost can take
  Threshold,     \* variance_threshold_percentage, in percent
  MaxBudgets,    \* bound: rows ever created
  EditStatuses   \* statuses a PUT of another client than the screens may set

Nobody == "nobody"

ASSUME UsersAssumption == Nobody \notin Users /\ Admins \subseteq Users
ASSUME FiguresAssumption == Figures \subseteq Nat /\ Figures # {}
ASSUME BoundsAssumption == Threshold \in Nat /\ MaxBudgets \in Nat \ {0}

Statuses == {"Draft", "Pending Review", "Needs Revalidation",
             "Budget Approved", "Superseded"}
ASSUME EditAssumption == EditStatuses \subseteq Statuses

VARIABLES
  budgets,   \* the table import_budget_approvals
  prefill,   \* total of get_budget_prefill_service
  fetched,   \* total of the recalculation engine's fetchers
  screens    \* every client is the Flutter application: never changes

vars == <<budgets, prefill, fetched, screens>>

Ids == DOMAIN budgets

Code == [series : {"BGT", "BDG"}, number : Nat, rev : Nat]

Row == [status : Statuses, active : BOOLEAN, linked : BOOLEAN,
        cost : Figures, unresolved : BOOLEAN, hardPending : BOOLEAN,
        excused : BOOLEAN, modifier : Users \cup {Nobody},
        parent : Nat, revision : Nat, code : Code]

TypeOK == /\ budgets \in Seq(Row)
          /\ prefill \in Figures
          /\ fetched \in Figures
          /\ screens \in BOOLEAN

Distance(a, b) == IF a > b THEN a - b ELSE b - a

\* The difference of two amounts exceeds the threshold; of zero, any does.
Hard(old, new) == Distance(old, new) * 100 > Threshold * old

Init == /\ budgets = <<>>
        /\ prefill \in Figures
        /\ fetched \in Figures
        /\ screens \in BOOLEAN

-----------------------------------------------------------------------------
(* Rows                                                                    *)

LinkedActive == {i \in Ids : budgets[i].active /\ budgets[i].linked}

\* generate_budget_code: one more than the last BGT row's number, and one
\* when that row's code does not end in a number.
SeriesIds == {i \in Ids : budgets[i].code.series = "BGT"}
LastOfSeries == CHOOSE i \in SeriesIds : \A j \in SeriesIds : j <= i
GeneratedCodeCounting ==  \* Slip: counts the budgets in force.
  [series |-> "BGT", rev |-> 0, number |-> Cardinality(LinkedActive) + 1]
GeneratedCode ==
  [series |-> "BGT", rev |-> 0,
   number |-> IF SeriesIds = {} \/ budgets[LastOfSeries].code.rev > 0
              THEN 1
              ELSE budgets[LastOfSeries].code.number + 1]

CodeFree(c) == \A i \in Ids : budgets[i].code # c

NewRow(linked, cost) ==
  [status |-> "Pending Review", active |-> TRUE, linked |-> linked,
   cost |-> cost, unresolved |-> FALSE, hardPending |-> FALSE,
   excused |-> FALSE, modifier |-> Nobody,
   parent |-> 0, revision |-> 1, code |-> GeneratedCode]

\* An INSERT; the unique constraint on the code refuses a second one.
Insert(row, rows) == /\ Len(budgets) < MaxBudgets
                     /\ CodeFree(row.code)
                     /\ budgets' = Append(rows, row)
                     /\ UNCHANGED <<prefill, fetched, screens>>

Store(i, row) == /\ budgets' = [budgets EXCEPT ![i] = row]
                 /\ UNCHANGED <<prefill, fetched, screens>>

-----------------------------------------------------------------------------
(* financial_approval                                                      *)

CreateUnchecked(cost) ==  \* Slip: the file's own budget is not looked for.
  Insert(NewRow(TRUE, cost), budgets)

Create(cost) == /\ LinkedActive = {}
                /\ Insert(NewRow(TRUE, cost), budgets)

\* Of a budget of this file: the copy has no file.  Of another file's, with
\* this one as the target: refused when this file has one.
Clone(i, rate) ==
  /\ budgets[i].active
  /\ \/ Insert(NewRow(FALSE, rate), budgets)
     \/ ~budgets[i].linked /\ LinkedActive = {}
        /\ Insert(NewRow(TRUE, rate), budgets)

Approvable(b) ==
  ~(b.unresolved /\ ~b.excused /\ b.hardPending)

\* From any status; every budget was once pending, and a dialog opened then
\* still offers to approve it.
Approve(i) ==
  /\ budgets[i].active
  /\ Approvable(budgets[i])
  /\ Store(i, [budgets[i] EXCEPT !.status = "Budget Approved"])

\* PUT: any figure, the file and, for a caller other than the screens, the
\* status.  The screen warns of a file that has a budget in the list it
\* loaded, when the file is picked; saving looks at nothing.
Update(i, cost, linked, status) ==
  /\ budgets[i].active
  /\ status = budgets[i].status \/ (~screens /\ status \in EditStatuses)
  /\ Store(i, [budgets[i] EXCEPT !.cost = cost, !.linked = linked,
                                 !.status = status])

Delete(i) == /\ budgets[i].active
             /\ Store(i, [budgets[i] EXCEPT !.active = FALSE])

Restore(i) == /\ ~screens
              /\ ~budgets[i].active
              /\ Store(i, [budgets[i] EXCEPT !.active = TRUE])

\* Slip: a pending budget keeps its status.
EvaluatedInPlace(b, user) ==
  [b EXCEPT !.unresolved = TRUE, !.hardPending = @ \/ Hard(b.cost, prefill),
            !.modifier = user]

\* Slip: the new total is added to the old one.
EvaluatedAdding(b, user) ==
  [b EXCEPT !.cost = @ + prefill, !.modifier = user]

\* What an evaluation of the costs does to a row that is out of line.
Evaluated(b, user) ==
  CASE b.status = "Draft" ->
         [b EXCEPT !.cost = prefill, !.unresolved = FALSE, !.modifier = user]
    [] b.status \in {"Pending Review", "Needs Revalidation"} ->
         [b EXCEPT !.status = "Needs Revalidation", !.unresolved = TRUE,
                   !.hardPending = @ \/ Hard(b.cost, prefill),
                   !.modifier = user]
    [] b.status = "Budget Approved" ->
         [b EXCEPT !.unresolved = TRUE,
                   !.hardPending = @ \/ Hard(b.cost, prefill),
                   !.modifier = user]

ToEvaluate == {i \in LinkedActive : /\ budgets[i].status # "Superseded"
                                    /\ budgets[i].cost # prefill}

\* evaluate_and_record_budget_variance, called when a consultation is saved.
Evaluate(user) ==
  /\ budgets' = [i \in Ids |-> IF i \in ToEvaluate
                               THEN Evaluated(budgets[i], user)
                               ELSE budgets[i]]
  /\ UNCHANGED <<prefill, fetched, screens>>

\* Segregation of duties, as both engines test it.
Separate(b, user) ==
  b.status \in {"Budget Approved", "Superseded"}
     => b.modifier # user \/ user \in Admins

Revision(i, cost, code, user, excused) ==
  [NewRow(budgets[i].linked, cost) EXCEPT
     !.modifier = user, !.excused = excused, !.code = code,
     !.parent = i, !.revision = budgets[i].revision + 1]

\* sync_budget_with_upstream; a justification is only demanded for a hard
\* difference, but it may always be given.
Sync(i, user, justified) ==
  LET b == budgets[i]
      code == [b.code EXCEPT !.rev = b.revision + 1]
  IN  /\ ~screens
      /\ b.active /\ b.linked
      /\ Separate(b, user)
      /\ Hard(b.cost, prefill) /\ b.status # "Draft" => justified
      /\ IF b.status = "Budget Approved"
         THEN Insert(Revision(i, prefill, code, b.modifier, justified),
                     [budgets EXCEPT ![i].status = "Superseded",
                                     ![i].unresolved = FALSE,
                                     ![i].hardPending = FALSE])
         ELSE Store(i, [b EXCEPT
                !.status = IF @ = "Draft" THEN "Draft" ELSE "Pending Review",
                !.cost = prefill, !.unresolved = FALSE,
                !.hardPending = FALSE, !.excused = justified])

\* override_budget_variance: a written note, no figure changes.
Override(i) ==
  /\ ~screens
  /\ budgets[i].active
  /\ Store(i, [budgets[i] EXCEPT !.unresolved = FALSE, !.excused = TRUE,
                                 !.hardPending = FALSE])

-----------------------------------------------------------------------------
(* recalculation                                                           *)

\* Slip: the budget that was revised stays in force.
ApplyKeepingOriginal(i, user, justified) ==
  /\ budgets[i].active /\ budgets[i].linked
  /\ Separate(budgets[i], user)
  /\ budgets[i].cost # fetched
  /\ Insert(Revision(i, fetched,
                     [series |-> "BDG", number |-> Len(budgets) + 1, rev |-> 0],
                     user, justified),
            [budgets EXCEPT ![i].status = "Superseded"])

\* apply: nothing to do when the figures agree; the variance log of the
\* other engine is left as it is.
Apply(i, user, justified) ==
  LET b == budgets[i]
      code == [series |-> "BDG", number |-> Len(budgets) + 1, rev |-> 0]
  IN  /\ b.active /\ b.linked
      /\ Separate(b, user)
      /\ b.cost # fetched
      /\ Hard(b.cost, fetched) => justified
      /\ IF b.status = "Budget Approved"
         THEN Insert(Revision(i, fetched, code, user, justified),
                     [budgets EXCEPT ![i].status = "Superseded",
                                     ![i].active = FALSE])
         ELSE Store(i, [b EXCEPT
                !.status = IF @ = "Draft" THEN "Draft" ELSE "Pending Review",
                !.cost = fetched, !.unresolved = FALSE,
                !.modifier = user, !.excused = @ \/ justified])

\* An order, a freight offer or a consultation changes.  Only the last
\* is followed by an evaluation.
Upstream(p, f) == /\ prefill' = p
                  /\ fetched' = f
                  /\ UNCHANGED <<budgets, screens>>

Next ==
  \/ \E c \in Figures : Create(c)
  \/ \E i \in Ids, c \in Figures : Clone(i, c)
  \/ \E i \in Ids : Approve(i)
  \/ \E i \in Ids, c \in Figures, l \in BOOLEAN, s \in Statuses :
       Update(i, c, l, s)
  \/ \E i \in Ids : Delete(i)
  \/ \E i \in Ids : Restore(i)
  \/ \E u \in Users : Evaluate(u)
  \/ \E i \in Ids, u \in Users, j \in BOOLEAN : Sync(i, u, j)
  \/ \E i \in Ids : Override(i)
  \/ \E i \in Ids, u \in Users, j \in BOOLEAN : Apply(i, u, j)
  \/ \E p \in Figures, f \in Figures : Upstream(p, f)

Spec == Init /\ [][Next]_vars
-----------------------------------------------------------------------------
(* Properties.                                                             *)

(* From the screens, only an edit that gives the file a budget which had   *)
(* none puts a second budget in force: create and clone look for one, and  *)
(* a revision retires the budget it replaces.                              *)
SecondByEditOnly ==
  [][screens /\ Cardinality(LinkedActive') > Cardinality(LinkedActive) =>
       \/ LinkedActive = {}
       \/ \E i \in Ids : ~budgets[i].linked /\ budgets'[i].linked]_vars

(* Revisions form chains: each comes after the budget it replaces and has  *)
(* the next number; from the screens, that budget is retired for good and  *)
(* is not revised a second time.                                           *)
RevisionChain ==
  \A i \in Ids : budgets[i].parent # 0 =>
    LET p == budgets[i].parent
    IN  /\ p \in 1..(i - 1)
        /\ budgets[i].revision = budgets[p].revision + 1
        /\ screens => /\ budgets[p].status = "Superseded"
                      /\ ~budgets[p].active
                      /\ \A j \in Ids : budgets[j].parent = p => j = i

(* A budget that is pending review has no unresolved variance: an          *)
(* evaluation moves it to Needs Revalidation, and only an engine that      *)
(* brings the figures up to date moves it back.                            *)
PendingIsClean ==
  \A i \in Ids : budgets[i].active /\ budgets[i].status = "Pending Review"
                   => ~budgets[i].unresolved

(* The code proposed for a new budget is not taken, so that a budget can   *)
(* always be created.                                                      *)
FreshCode == CodeFree(GeneratedCode)

(* The same when every client is a screen, which revises through the       *)
(* recalculation engine and its own series of codes.                       *)
FreshCodeOnScreens == screens => FreshCode

(* A superseded budget is preserved as it was approved.                    *)
SupersededFrozen ==
  [][screens => \A i \in Ids : budgets[i].status = "Superseded"
                                 => budgets'[i] = budgets[i]]_vars

=============================================================================
