--------------------------- MODULE CustomsRelease ---------------------------
(***************************************************************************)
(* Customs clearance of one import file (modules/customs_clearance), from  *)
(* the broker's authorization to the release order, and the receipt of the *)
(* goods in the warehouse (modules/warehouse_receiving).  Two ways lead to *)
(* the release: payment of the duties, or withdrawal of the goods under    *)
(* bond and quarantine until a laboratory has tested them.                 *)
(*                                                                         *)
(* A record's id is its place in `records`, a receipt's in `receipts`.     *)
(* Amounts, numbers and dates are left out, also of the ACID, of which     *)
(* only its expiry matters; and so are the texts that stage and next       *)
(* action show, and the status of a receipt, which no guard reads.  Each   *)
(* request is one step.  The PUT of a clearance record, which the client   *)
(* has no call for, is not modelled; the PUT of a receipt is.              *)
(***************************************************************************)
EXTENDS Integers, Sequences, FiniteSets

CONSTANTS
  MaxRecords,   \* bound: rows of customs_clearance_records
  MaxReceipts,  \* bound: rows of warehouse_receiving_records
  Followed      \* the stages' tasks that are looked at

Tasks == {"CS-01", "CS-02", "CS-03", "CL-01", "CL-02", "CL-03", "CL-04",
          "TR-01", "TR-02"}

ASSUME BoundsAssumption == MaxRecords \in Nat /\ MaxReceipts \in Nat
ASSUME FollowedAssumption == Followed \subseteq Tasks

VARIABLES
  records,   \* customs_clearance_records
  receipts,  \* warehouse_receiving_records
  file,      \* what import_files says of the customs
  tasks      \* the file's smart_tasks, one for each stage at most

vars == <<records, receipts, file, tasks>>

Ids == DOMAIN records
ReceiptIds == DOMAIN receipts

\* "In Clearance" is one of the declaration, inspection and assessment.
Statuses == {"Open", "Authorized", "Delivered", "In Clearance", "Duty Paid",
             "Released", "Under Bond", "Rejected"}

Record == [status : Statuses, active : BOOLEAN, paid : BOOLEAN,
           bond : BOOLEAN, locked : BOOLEAN, dispatch : BOOLEAN,
           lab : {"None", "Pending", "Conforming", "Non-Conforming"}]

Verdicts == {"PENDING", "ACCEPTED_FULL", "ACCEPTED_WITH_DISCREPANCY",
             "REJECTED_QUARANTINED"}

\* locked: quarantine_lock_active and dispatch_blocked, always set together.
\* byHand: the verdict was written with a PUT and not by an inspection
\* since (history, for the properties only).
Receipt == [active : BOOLEAN, locked : BOOLEAN, verdict : Verdicts,
            byHand : BOOLEAN]

TypeOK == /\ records \in Seq(Record)
          /\ receipts \in Seq(Receipt)
          /\ file \in [released : BOOLEAN, paid : BOOLEAN, expired : BOOLEAN]
          /\ tasks \in [Followed -> {"none", "open", "closed"}]

\* The originals' receipt may have asked for the authorization.
Init == /\ records = <<>>
        /\ receipts = <<>>
        /\ file = [released |-> FALSE, paid |-> FALSE, expired |-> FALSE]
        /\ \E s \in {"none", "open"} :
             tasks = [t \in Followed |-> IF t = "CS-01" THEN s ELSE "none"]

-----------------------------------------------------------------------------
(* Records and tasks                                                       *)

NewRecord == [status |-> "Open", active |-> TRUE, paid |-> FALSE,
              bond |-> FALSE, locked |-> FALSE, dispatch |-> FALSE,
              lab |-> "None"]

ActiveIds == {i \in Ids : records[i].active}

\* The first active record serves; without one each stage inserts one.
Current == CHOOSE i \in ActiveIds : \A j \in ActiveIds : i <= j
Base == IF ActiveIds = {} THEN NewRecord ELSE records[Current]
Put(row) == IF ActiveIds = {}
            THEN /\ Len(records) < MaxRecords
                 /\ records' = Append(records, row)
            ELSE records' = [records EXCEPT ![Current] = row]

\* The release order names a record, which serves while it is active.
BaseOf(named) == IF named \in ActiveIds THEN records[named] ELSE Base
PutAs(named, row) == IF named \in ActiveIds
                     THEN records' = [records EXCEPT ![named] = row]
                     ELSE Put(row)

\* Slip: the delivery order's stage closes them both.
ClosesBoth(stage) == IF stage = "CS-02" THEN {"CL-03", "CS-02"} ELSE {stage}

\* Which tasks a stage closes: those with a keyword of the stage in their
\* title.  The keyword of the duty payment is the word for payment, which
\* the title of the delivery order's task holds as well.
Closes(stage) == IF stage = "CL-03" THEN {"CL-03", "CS-02"} ELSE {stage}

\* Close, then create the next tasks, unless one was ever created.
Finish(stage, next) ==
  tasks' = [t \in Followed |->
              IF t \in Closes(stage) /\ tasks[t] = "open" THEN "closed"
              ELSE IF t \in next /\ tasks[t] = "none" THEN "open"
              ELSE tasks[t]]

-----------------------------------------------------------------------------
(* The stages, each for the file                                           *)

Create == /\ ~file.expired
          /\ ActiveIds = {}
          /\ Put(NewRecord)
          /\ UNCHANGED <<receipts, file, tasks>>

\* A record that is further on keeps its status.
Authorize ==
  /\ Put([Base EXCEPT !.status = IF @ = "Open" THEN "Authorized" ELSE @])
  /\ Finish("CS-01", {"CS-02"})
  /\ UNCHANGED <<receipts, file>>

PayDeliveryOrder ==
  /\ Put([Base EXCEPT !.status = IF @ \in {"Open", "Authorized"}
                                 THEN "Delivered" ELSE @])
  /\ Finish("CS-02", {"CS-03"})
  /\ UNCHANGED <<receipts, file>>

\* These three set their status whatever it was.
Declare == /\ Put([Base EXCEPT !.status = "In Clearance"])
           /\ Finish("CS-03", {"CL-01"})
           /\ UNCHANGED <<receipts, file>>

Inspect == /\ Put([Base EXCEPT !.status = "In Clearance"])
           /\ Finish("CL-01", {"CL-02"})
           /\ UNCHANGED <<receipts, file>>

\* "Payment Requested" replaces "Unpaid", never a payment.
Assess == /\ Put([Base EXCEPT !.status = "In Clearance"])
          /\ Finish("CL-02", {"CL-03"})
          /\ UNCHANGED <<receipts, file>>

PayDuty == /\ Put([Base EXCEPT !.status = "Duty Paid", !.paid = TRUE])
           /\ file' = [file EXCEPT !.paid = TRUE]
           /\ Finish("CL-03", {"CL-04"})
           /\ UNCHANGED receipts

\* The ACID may have expired once the file is released.
AcidAllows == file.expired => file.released

IssueReleaseUnpaid(named, dispatch) ==  \* Slip: the payment is not asked for.
  /\ AcidAllows
  /\ PutAs(named, [BaseOf(named) EXCEPT !.status = "Released",
                                        !.dispatch = dispatch])
  /\ file' = [file EXCEPT !.released = TRUE]
  /\ Finish("CL-04", {"TR-01", "TR-02"})
  /\ UNCHANGED receipts

IssueRelease(named, dispatch) ==
  /\ AcidAllows
  /\ BaseOf(named).paid \/ file.paid
  /\ PutAs(named, [BaseOf(named) EXCEPT !.status = "Released",
                                        !.dispatch = dispatch])
  /\ file' = [file EXCEPT !.released = TRUE]
  /\ Finish("CL-04", {"TR-01", "TR-02"})
  /\ UNCHANGED receipts

-----------------------------------------------------------------------------
(* Operations on a record of the list                                      *)

Store(i, row) == /\ records[i].active
                 /\ records' = [records EXCEPT ![i] = row]
                 /\ UNCHANGED <<receipts, tasks>>

SubmitPayment(i) ==
  /\ Store(i, [records[i] EXCEPT !.status = "Duty Paid", !.paid = TRUE])
  /\ UNCHANGED file

CompleteRelease(i, dispatch) ==
  /\ AcidAllows
  /\ records[i].paid
  /\ Store(i, [records[i] EXCEPT !.status = "Released", !.dispatch = dispatch])
  /\ file' = [file EXCEPT !.released = TRUE]

UnderBondRequested(i) ==  \* Slip: a result no reader knows.
  /\ Store(i, [records[i] EXCEPT !.status = "Under Bond", !.bond = TRUE,
                 !.locked = TRUE, !.dispatch = FALSE, !.lab = "Requested"])
  /\ UNCHANGED file

UnderBond(i) ==
  /\ Store(i, [records[i] EXCEPT !.status = "Under Bond", !.bond = TRUE,
                 !.locked = TRUE, !.dispatch = FALSE, !.lab = "Pending"])
  /\ UNCHANGED file

LabResult(i, conforming, lift) ==
  LET r == [records[i] EXCEPT
              !.lab = IF conforming THEN "Conforming" ELSE "Non-Conforming"]
  IN  /\ r.bond
      /\ \/ /\ conforming /\ lift
            /\ Store(i, [r EXCEPT !.status = "Released", !.locked = FALSE,
                                  !.dispatch = TRUE])
            /\ file' = [file EXCEPT !.released = TRUE]
         \/ /\ conforming /\ ~lift
            /\ Store(i, r)
            /\ UNCHANGED file
         \/ /\ ~conforming
            /\ Store(i, [r EXCEPT !.status = "Rejected", !.locked = TRUE,
                                  !.dispatch = FALSE])
            /\ UNCHANGED file

Delete(i) == /\ Store(i, [records[i] EXCEPT !.active = FALSE])
             /\ UNCHANGED file

\* No look at whether the file has got another record meanwhile.
Restore(i) == /\ records' = [records EXCEPT ![i].active = TRUE]
              /\ UNCHANGED <<receipts, file, tasks>>

-----------------------------------------------------------------------------
(* Warehouse                                                               *)

\* The lock is copied from the newest active record, once.
Quarantined == ActiveIds # {} /\
  LET r == records[CHOOSE i \in ActiveIds : \A j \in ActiveIds : j <= i]
  IN  r.bond /\ r.locked

Receive ==
  /\ Len(receipts) < MaxReceipts
  /\ \A j \in ReceiptIds : ~receipts[j].active
  /\ receipts' = Append(receipts, [active |-> TRUE, locked |-> Quarantined,
                                   verdict |-> "PENDING", byHand |-> FALSE])
  /\ UNCHANGED <<records, file, tasks>>

StoreReceipt(j, row) == /\ receipts' = [receipts EXCEPT ![j] = row]
                        /\ UNCHANGED <<records, file, tasks>>

\* A PUT that carries a verdict writes it like any other field, whatever it
\* says and whether the goods are locked or not.
WriteVerdict(j, verdict) ==
  /\ receipts[j].active
  /\ StoreReceipt(j, [receipts[j] EXCEPT !.verdict = verdict, !.byHand = TRUE])

\* Slip: only the zone decides, not the lock.
ProtocolByZone(j, short, zone, named) ==
  /\ receipts[j].active
  /\ StoreReceipt(j, [receipts[j] EXCEPT
       !.byHand = FALSE,
       !.verdict = IF zone THEN "REJECTED_QUARANTINED"
                   ELSE IF short THEN named
                   ELSE "ACCEPTED_FULL"])

\* The inspection protocol; the client may name the verdict.  short: the
\* counts it sends, or those on record, show a shortage or a damage.
Protocol(j, short, zone, named) ==
  /\ receipts[j].active
  /\ StoreReceipt(j, [receipts[j] EXCEPT
       !.byHand = FALSE,
       !.verdict = IF zone \/ receipts[j].locked THEN "REJECTED_QUARANTINED"
                   ELSE IF short THEN named
                   ELSE "ACCEPTED_FULL"])

DeleteReceipt(j) ==
  /\ receipts[j].active
  /\ StoreReceipt(j, [receipts[j] EXCEPT !.active = FALSE])

RestoreReceipt(j) == StoreReceipt(j, [receipts[j] EXCEPT !.active = TRUE])

\* Time passes; the ACID is renewed.
Expire(e) == /\ file' = [file EXCEPT !.expired = e]
             /\ UNCHANGED <<records, receipts, tasks>>

Next ==
  \/ Create \/ Authorize \/ PayDeliveryOrder \/ Declare \/ Inspect \/ Assess
  \/ PayDuty
  \/ \E n \in Ids \cup {0}, d \in BOOLEAN : IssueRelease(n, d)
  \/ \E i \in Ids : SubmitPayment(i) \/ UnderBond(i) \/ Delete(i) \/ Restore(i)
  \/ \E i \in Ids, d \in BOOLEAN : CompleteRelease(i, d)
  \/ \E i \in Ids, c, l \in BOOLEAN : LabResult(i, c, l)
  \/ Receive
  \/ \E j \in ReceiptIds, v \in Verdicts : WriteVerdict(j, v)
  \/ \E j \in ReceiptIds, s, z \in BOOLEAN, v \in Verdicts : Protocol(j, s, z, v)
  \/ \E j \in ReceiptIds : DeleteReceipt(j) \/ RestoreReceipt(j)
  \/ \E e \in BOOLEAN : Expire(e)

Spec == Init /\ [][Next]_vars

-----------------------------------------------------------------------------
(* Properties                                                              *)

(* A record that shows the final release has been earned: its duties or    *)
(* the file's were paid, or the laboratory found the goods conforming,     *)
(* through all repetitions of a stage, deletions and restorations.         *)
ReleaseIsEarned ==
  \A i \in Ids : records[i].status = "Released" =>
    records[i].paid \/ file.paid \/ records[i].lab = "Conforming"

(* Goods that arrived under quarantine are never accepted by an            *)
(* inspection, however often they are counted, inspected, deleted and      *)
(* restored: an accepting verdict on them was written by hand, and the     *)
(* next inspection takes it back.                                          *)
BlockedGoodsNotAccepted ==
  \A j \in ReceiptIds : receipts[j].locked /\ ~receipts[j].byHand =>
    receipts[j].verdict \in {"PENDING", "REJECTED_QUARANTINED"}

(* The task that asks for the payment of the duties is closed by that      *)
(* payment and by no other stage.                                          *)
DutyTaskWaits ==
  "CL-03" \in Followed /\ tasks["CL-03"] = "closed" => file.paid

(* Goods withdrawn under bond are not released for dispatch while their    *)
(* quarantine lasts.                                                       *)
QuarantineHolds ==
  \A i \in Ids : records[i].active /\ records[i].locked => ~records[i].dispatch
=============================================================================
