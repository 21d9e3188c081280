--------------------------- MODULE PaymentRequests ---------------------------
(***************************************************************************)
(* The payment requests of one import file and the SWIFT batches that      *)
(* settle them (modules/financial_approval).  A request's id is its place  *)
(* in `requests`, a batch's its place in `batches`.  Amounts, dates and    *)
(* banks are left out, and so is the version check of the PUT, which only  *)
(* refuses.  A transfer is named by its batch, or Typed when a person      *)
(* typed the reference (or the service made one up from the request's id). *)
(* Each service call is one step.  A screen offers what the status it      *)
(* loaded allows, which need not be the status there is: a dialog stays    *)
(* open, and its button works, while others change the request.            *)
(***************************************************************************)
EXTENDS Integers, Sequences, FiniteSets

CONSTANTS
  Types,        \* payment types
  MaxRequests,  \* bound: rows of payment_request_sessions
  MaxBatches,   \* bound: rows of swift_extraction_batches
  Moves         \* an edit may move a request to another file and back

ASSUME BoundsAssumption == MaxRequests \in Nat /\ MaxBatches \in Nat
ASSUME MovesAssumption == Moves \in BOOLEAN

Statuses == {"Draft", "Pending Approval", "Approved", "Paid", "Rejected"}
Open == {"Draft", "Pending Approval", "Approved"}

NoTransfer == 0
Typed == MaxBatches + 1
Transfers == 0..(MaxBatches + 1)

VARIABLES
  requests,   \* payment_request_sessions
  batches,    \* swift_extraction_batches
  swiftNo,    \* import_files.swift_no
  acidTasks,  \* open tasks of the file that ask for the ACID number, by origin
  screens     \* every client is the Flutter application: never changes

vars == <<requests, batches, swiftNo, acidTasks, screens>>

Ids == DOMAIN requests

\* task: the request's own task for the finance officer.  approved: it has
\* been approved once, so a dialog opened then may still offer to pay it.
Row == [type : Types, status : Statuses, active : BOOLEAN, linked : BOOLEAN,
        transfer : Transfers, task : {"none", "open", "closed"},
        approved : BOOLEAN]

Batch == [status : {"Pending Review", "Reviewed", "Reconciled"},
          complete : BOOLEAN, matched : 0..MaxRequests]

TypeOK == /\ requests \in Seq(Row)
          /\ batches \in Seq(Batch)
          /\ swiftNo \in Transfers
          /\ acidTasks \subseteq {"board", "desk"}
          /\ screens \in BOOLEAN

Init == /\ requests = <<>>
        /\ batches = <<>>
        /\ swiftNo = NoTransfer
        /\ acidTasks = {}
        /\ screens \in BOOLEAN

-----------------------------------------------------------------------------
(* Requests                                                                *)

\* validate_status_transition: what a PUT may do to the status.
Transition(from, to) ==
  \/ from = to
  \/ from = "Draft" /\ to \in {"Pending Approval", "Rejected"}
  \/ from = "Pending Approval" /\ to \in {"Approved", "Rejected", "Draft"}
  \/ from = "Approved" /\ to \in {"Paid", "Rejected"}
  \/ from = "Rejected" /\ to = "Draft"

Add(row) == /\ Len(requests) < MaxRequests
            /\ requests' = Append(requests, row)
            /\ UNCHANGED <<batches, swiftNo, acidTasks, screens>>

Store(i, row) == /\ requests' = [requests EXCEPT ![i] = row]
                 /\ UNCHANGED <<batches, swiftNo, acidTasks, screens>>

\* A request in progress of the same type stops a second one of the file.
Create(type, linked, status) ==
  /\ screens => status = "Draft"
  /\ linked => \A i \in Ids : ~(/\ requests[i].active /\ requests[i].linked
                                /\ requests[i].type = type
                                /\ requests[i].status \in Open)
  /\ Add([type |-> type, status |-> status, active |-> TRUE,
          linked |-> linked, transfer |-> NoTransfer, task |-> "open",
          approved |-> status = "Approved"])

\* The copy is a draft without task; no look at what else is in progress.
Clone(i, unlink) ==
  /\ requests[i].active
  /\ Add([requests[i] EXCEPT !.status = "Draft", !.transfer = NoTransfer,
                             !.linked = @ /\ ~unlink, !.task = "none",
                             !.approved = FALSE])

UpdateToDraft(i, type, linked, status, transfer) ==  \* Slip: the form's default.
  /\ requests[i].active
  /\ linked # requests[i].linked => Moves
  /\ Store(i, [requests[i] EXCEPT !.type = type, !.linked = linked,
                                  !.status = "Draft"])

Update(i, type, linked, status, transfer) ==
  LET r == requests[i]
  IN  /\ r.active
      /\ Transition(r.status, status)
      /\ screens => status = r.status /\ transfer = r.transfer
      /\ transfer \in {r.transfer, Typed}
      /\ linked # r.linked => Moves
      /\ Store(i, [r EXCEPT !.type = type, !.linked = linked,
                            !.status = status, !.transfer = transfer,
                            !.approved = @ \/ status = "Approved"])

\* From any status: every request was once a draft, so a dialog that still
\* shows it as one may send this at any time.
Approve(i) ==
  /\ requests[i].active
  /\ Store(i, [requests[i] EXCEPT !.status = "Approved", !.approved = TRUE])

Delete(i) == /\ requests[i].active
             /\ Store(i, [requests[i] EXCEPT !.active = FALSE])

Restore(i) == /\ ~screens
              /\ ~requests[i].active
              /\ Store(i, [requests[i] EXCEPT !.active = TRUE])

-----------------------------------------------------------------------------
(* Settlement                                                              *)

\* Slip: closed with a word of its own.
CloseTaskDone(r) == [r EXCEPT !.task = "done"]

\* Tasks of the file with a payment's reminder type are all closed, this
\* request's and the others'.
CloseTask(r) == IF r.linked /\ r.task = "open" THEN [r EXCEPT !.task = "closed"]
                                               ELSE r

\* Slip: the finance officer's task is left to him.
CompleteOnly(i, transfer, advanced) ==
  /\ requests' = [requests EXCEPT ![i].status = "Paid",
                                  ![i].transfer = transfer]
  /\ swiftNo' = IF requests[i].linked THEN transfer ELSE swiftNo
  /\ acidTasks' = acidTasks \cup {"desk"}
  /\ UNCHANGED screens

\* Slip: the file is given the transfer of a request that is not its own.
CompleteForeign(i, transfer, advanced) ==
  /\ requests' = [requests EXCEPT ![i] =
                     CloseTask([@ EXCEPT !.status = "Paid",
                                         !.transfer = transfer])]
  /\ swiftNo' = transfer
  /\ acidTasks' = acidTasks \cup {"desk"}
  /\ UNCHANGED screens

\* _handle_swift_payment_completion_workflow.  `advanced`: the advance to
\* STEP_05 created the board's task; when no ACID task is open after it,
\* the finance desk creates one.
Complete(i, transfer, advanced) ==
  LET paid == [requests[i] EXCEPT !.status = "Paid", !.transfer = transfer]
      open == acidTasks \cup (IF advanced THEN {"board"} ELSE {})
  IN  /\ UNCHANGED screens
      /\ IF paid.linked
         THEN /\ requests' = [j \in Ids |->
                    CloseTask(IF j = i THEN paid ELSE requests[j])]
              /\ swiftNo' = transfer
              /\ acidTasks' = IF open = {} THEN {"desk"} ELSE open
         ELSE /\ requests' = [requests EXCEPT ![i] = paid]
              /\ UNCHANGED <<swiftNo, acidTasks>>

\* Without a reference the one on record serves, or one made from the id.
\* The service does not look at the status; the screen looks at the one it
\* loaded.
Execute(i, given, advanced) ==
  /\ requests[i].active
  /\ screens => requests[i].approved
  /\ Complete(i, IF given \/ requests[i].transfer = NoTransfer
                 THEN Typed ELSE requests[i].transfer, advanced)
  /\ UNCHANGED batches

\* Reconciliation against a transfer: with `execute` the request is paid,
\* without it only the references are recorded.
Settle(i, transfer, execute, advanced) ==
  /\ requests[i].active
  /\ screens => execute
  /\ IF execute
     THEN Complete(i, transfer, advanced)
     ELSE /\ requests' = [requests EXCEPT ![i].transfer = transfer]
          /\ swiftNo' = IF requests[i].linked THEN transfer ELSE swiftNo
          /\ UNCHANGED <<acidTasks, screens>>

\* reconcile_swift and smart_reconcile_swift: the reference is typed.
Reconcile(i, execute, advanced) ==
  /\ Settle(i, Typed, execute, advanced)
  /\ UNCHANGED batches

-----------------------------------------------------------------------------
(* Batches                                                                 *)

StoreBatch(b, row) == /\ batches' = [batches EXCEPT ![b] = row]
                      /\ UNCHANGED <<requests, swiftNo, acidTasks, screens>>

\* complete: every mandatory field was found.
Extract(complete) ==
  /\ Len(batches) < MaxBatches
  /\ batches' = Append(batches, [status |-> "Pending Review",
                                 complete |-> complete, matched |-> 0])
  /\ UNCHANGED <<requests, swiftNo, acidTasks, screens>>

EditField(b, complete) ==
  /\ batches[b].status # "Reconciled"
  /\ StoreBatch(b, [batches[b] EXCEPT !.complete = complete])

\* Reading a field again from the text has no look at the status.
ReExtractField(b, complete) ==
  StoreBatch(b, [batches[b] EXCEPT !.complete = complete])

Confirm(b) == /\ batches[b].complete
              /\ StoreBatch(b, [batches[b] EXCEPT !.status = "Reviewed"])

ReconcileBatch(b, i, execute, advanced) ==
  /\ batches[b].status \in {"Reviewed", "Reconciled"}
  /\ Settle(i, b, execute, advanced)
  /\ batches' = [batches EXCEPT ![b].status = "Reconciled", ![b].matched = i]

\* The logistics officer closes a task for the ACID number.
FinishAcid(t) == /\ t \in acidTasks
                 /\ acidTasks' = acidTasks \ {t}
                 /\ UNCHANGED <<requests, batches, swiftNo, screens>>

Next ==
  \/ \E t \in Types, l \in BOOLEAN, s \in Statuses : Create(t, l, s)
  \/ \E i \in Ids, u \in BOOLEAN : Clone(i, u)
  \/ \E i \in Ids, t \in Types, l \in BOOLEAN, s \in Statuses,
        x \in Transfers : Update(i, t, l, s, x)
  \/ \E i \in Ids : Approve(i)
  \/ \E i \in Ids : Delete(i)
  \/ \E i \in Ids : Restore(i)
  \/ \E i \in Ids, g, a \in BOOLEAN : Execute(i, g, a)
  \/ \E i \in Ids, e, a \in BOOLEAN : Reconcile(i, e, a)
  \/ \E c \in BOOLEAN : Extract(c)
  \/ \E b \in DOMAIN batches, c \in BOOLEAN : EditField(b, c)
  \/ \E b \in DOMAIN batches, c \in BOOLEAN : ReExtractField(b, c)
  \/ \E b \in DOMAIN batches : Confirm(b)
  \/ \E b \in DOMAIN batches, i \in Ids, e, a \in BOOLEAN :
       ReconcileBatch(b, i, e, a)
  \/ \E t \in acidTasks : FinishAcid(t)

Spec == Init /\ [][Next]_vars

-----------------------------------------------------------------------------
(* Properties                                                              *)

(* From the screens, a payment is undone by a late approval only, never by *)
(* an edit, a deletion, a second transfer or a batch confirmed again, and  *)
(* the approval leaves the transfer on record.                             *)
UndoneByApprovalOnly ==
  [][screens => \A i \in Ids :
       requests[i].status = "Paid" /\ requests'[i].status # "Paid" =>
         requests'[i] = [requests[i] EXCEPT !.status = "Approved",
                                            !.approved = TRUE]]_vars

(* From the screens, a paid request names its transfer, and its task is    *)
(* no longer open, whichever way it was paid.                              *)
PaidIsSettled ==
  screens /\ ~Moves =>
    \A i \in Ids : requests[i].status = "Paid" =>
      /\ requests[i].transfer # NoTransfer
      /\ requests[i].linked => requests[i].task # "open"

\* Its transfer was made, though it may have been approved again since.
WasPaid(r) == r.transfer # NoTransfer /\ r.status \in {"Paid", "Approved"}

(* From the screens, the SWIFT number shown on the file is that of one of  *)
(* its requests that was paid, also after a request is settled again, and  *)
(* after a late approval.                                                  *)
SwiftNoOfPayment ==
  screens /\ ~Moves /\ swiftNo # NoTransfer =>
    \E i \in Ids : /\ requests[i].linked
                   /\ WasPaid(requests[i])
                   /\ requests[i].transfer = swiftNo

(* From the screens, the request a batch was matched with was paid, also   *)
(* when the batch is confirmed again after it was reconciled.              *)
MatchedWasPaid ==
  screens => \A b \in DOMAIN batches : batches[b].matched # 0 =>
               /\ batches[b].matched \in Ids
               /\ WasPaid(requests[batches[b].matched])

(* Both at once: the file and the batches show payments that were made.    *)
PaymentsShown == SwiftNoOfPayment /\ MatchedWasPaid

=============================================================================
