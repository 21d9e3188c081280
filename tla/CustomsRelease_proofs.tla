------------------------ MODULE CustomsRelease_proofs ------------------------
(***************************************************************************)
(* What holds of the clearance of a file for any number of records and     *)
(* receipts and whichever tasks are followed: types, that a release was    *)
(* earned, that no inspection accepts locked goods, and that only the      *)
(* payment closes the task that asks for it.                               *)
(***************************************************************************)
EXTENDS CustomsRelease, SequenceTheorems, WellFoundedInduction, TLAPS

-----------------------------------------------------------------------------
(* Rows of a table.                                                        *)

\* A row in the place of another, or of none, keeps a table a table.
LEMMA ReplaceRow ==
  ASSUME NEW S, NEW s \in Seq(S), NEW i, NEW row \in S
  PROVE  /\ [s EXCEPT ![i] = row] \in Seq(S)
         /\ DOMAIN [s EXCEPT ![i] = row] = DOMAIN s
         /\ \A j \in DOMAIN s :
              [s EXCEPT ![i] = row][j] = IF j = i THEN row ELSE s[j]
  <1>1. CASE i \in 1..Len(s)
    BY <1>1, ExceptSeq
  <1>2. CASE i \notin 1..Len(s)
    <2>1. [s EXCEPT ![i] = row] = s
      BY <1>2
    <2> QED BY <1>2, <2>1
  <1> QED BY <1>1, <1>2

\* A row is appended behind those there are.
LEMMA AppendRow ==
  ASSUME NEW S, NEW s \in Seq(S), NEW row \in S
  PROVE  /\ Append(s, row) \in Seq(S)
         /\ \A j \in DOMAIN Append(s, row) :
              \/ j \in DOMAIN s /\ Append(s, row)[j] = s[j]
              \/ Append(s, row)[j] = row
  OBVIOUS

\* A set of row numbers that is not empty has a least element.
LEMMA LeastRow ==
  ASSUME NEW T, T \subseteq Nat, T # {}
  PROVE  \E i \in T : \A j \in T : i <= j
  <1>1. PICK i \in T : \A j \in T : ~(<<j, i>> \in OpToRel(<, Nat))
    BY NatLessThanWellFounded, WFMin
  <1>2. \A j \in T : ~(j < i)
    BY <1>1 DEF OpToRel
  <1>3. \A j \in T : j \in Nat /\ i \in Nat
    BY <1>1
  <1>4. \A j \in T : i <= j
    BY <1>2, <1>3
  <1> QED BY <1>1, <1>4

-----------------------------------------------------------------------------
(* The invariant, in four parts.                                           *)

\* Who released this record had been paid or had the laboratory's answer.
Earned(r) == r.status = "Released" => r.paid \/ file.paid \/ r.lab = "Conforming"

RecordsGood == /\ records \in Seq(Record)
               /\ \A i \in Ids : Earned(records[i])

ReceiptsGood == /\ receipts \in Seq(Receipt)
                /\ BlockedGoodsNotAccepted

TasksGood == /\ tasks \in [Followed -> {"none", "open", "closed"}]
             /\ DutyTaskWaits

FileTyped == file \in [released : BOOLEAN, paid : BOOLEAN, expired : BOOLEAN]

ClearanceInv == RecordsGood /\ ReceiptsGood /\ TasksGood /\ FileTyped

\* A payment is never taken back.
PaidKept == file.paid => file'.paid

\* A file without new facts keeps them all; so do the parts left alone.
LEMMA Untouched ==
  ASSUME ClearanceInv
  PROVE  /\ UNCHANGED file => FileTyped' /\ PaidKept
         /\ UNCHANGED receipts => ReceiptsGood'
         /\ PaidKept /\ UNCHANGED tasks => TasksGood'
         /\ PaidKept /\ UNCHANGED records => RecordsGood'
  BY DEF ClearanceInv, FileTyped, PaidKept, ReceiptsGood, TasksGood, RecordsGood,
         BlockedGoodsNotAccepted, DutyTaskWaits, Earned, Ids, ReceiptIds

-----------------------------------------------------------------------------
(* Writing a record.                                                       *)

\* A good record takes the place of another.
LEMMA ReplaceRecord ==
  ASSUME RecordsGood, PaidKept, NEW i, NEW row \in Record, Earned(row),
         records' = [records EXCEPT ![i] = row]
  PROVE  RecordsGood'
  <1>1. /\ records' \in Seq(Record) /\ DOMAIN records' = DOMAIN records
        /\ \A j \in DOMAIN records :
             records'[j] = IF j = i THEN row ELSE records[j]
    BY ReplaceRow DEF RecordsGood
  <1> QED BY <1>1 DEF RecordsGood, Earned, PaidKept, Ids

\* The first active record is one of the table.
LEMMA CurrentIsActive ==
  ASSUME records \in Seq(Record), ActiveIds # {}
  PROVE  Current \in Ids
  <1>1. ActiveIds \subseteq Nat /\ ActiveIds \subseteq Ids
    BY DEF ActiveIds, Ids
  <1> QED BY <1>1, LeastRow DEF Current

\* What a stage starts from is a good record.
LEMMA BaseGood ==
  ASSUME RecordsGood
  PROVE  Base \in Record /\ Earned(Base)
  <1>1. CASE ActiveIds = {}
    BY <1>1 DEF Base, NewRecord, Record, Statuses, Earned
  <1>2. CASE ActiveIds # {}
    <2>1. Current \in Ids /\ records[Current] \in Record
      BY <1>2, CurrentIsActive DEF RecordsGood, Ids
    <2> QED BY <1>2, <2>1 DEF Base, RecordsGood
  <1> QED BY <1>1, <1>2

\* The stage's record is stored, or inserted.  Payment and laboratory are
\* taken as they are after the step.
LEMMA PutGood ==
  ASSUME RecordsGood, PaidKept, NEW row \in Record, Put(row),
         row.status = "Released" => row.paid \/ file'.paid \/ row.lab = "Conforming"
  PROVE  RecordsGood'
  <1>1. CASE ActiveIds = {}
    <2>1. records' = Append(records, row)
      BY <1>1 DEF Put
    <2>2. /\ records' \in Seq(Record)
          /\ \A j \in DOMAIN records' :
               \/ j \in DOMAIN records /\ records'[j] = records[j]
               \/ records'[j] = row
      BY <2>1, AppendRow DEF RecordsGood
    <2> QED BY <2>2 DEF RecordsGood, Earned, PaidKept, Ids
  <1>2. CASE ActiveIds # {}
    <2>1. /\ records' \in Seq(Record) /\ DOMAIN records' = DOMAIN records
          /\ \A j \in DOMAIN records :
               records'[j] = IF j = Current THEN row ELSE records[j]
      BY <1>2, ReplaceRow DEF RecordsGood, Put
    <2> QED BY <2>1 DEF RecordsGood, Earned, PaidKept, Ids
  <1> QED BY <1>1, <1>2

-----------------------------------------------------------------------------
(* The tasks.                                                              *)

\* A stage leaves the duty's task open unless the duty is paid by then.
LEMMA FinishGood ==
  ASSUME TasksGood, PaidKept, NEW stage, NEW next, Finish(stage, next),
         stage # "CL-03" \/ file'.paid
  PROVE  TasksGood'
  <1>1. tasks' \in [Followed -> {"none", "open", "closed"}]
    BY DEF TasksGood, Finish
  <1>2. ASSUME "CL-03" \in Followed, tasks'["CL-03"] = "closed", stage # "CL-03"
        PROVE  tasks["CL-03"] = "closed"
    <2>1. "CL-03" \notin Closes(stage)
      BY <1>2 DEF Closes
    <2> QED BY <1>2, <2>1 DEF Finish
  <1>3. DutyTaskWaits'
    BY <1>2 DEF DutyTaskWaits, TasksGood, PaidKept
  <1> QED BY <1>1, <1>3 DEF TasksGood

-----------------------------------------------------------------------------
(* The actions.                                                            *)

\* The stages before the payment.
LEMMA StagesGood ==
  ASSUME ClearanceInv,
         Create \/ Authorize \/ PayDeliveryOrder \/ Declare \/ Inspect \/ Assess
  PROVE  ClearanceInv'
  <1>1. /\ RecordsGood /\ TasksGood /\ Base \in Record /\ Earned(Base)
        /\ UNCHANGED <<receipts, file>>
    BY BaseGood DEF ClearanceInv, Create, Authorize, PayDeliveryOrder, Declare,
                    Inspect, Assess
  <1>2. FileTyped' /\ ReceiptsGood' /\ PaidKept
    BY <1>1, Untouched
  <1>3. NewRecord \in Record /\ Earned(NewRecord)
    BY DEF NewRecord, Record, Statuses, Earned
  <1>4. CASE Create
    BY <1>1, <1>2, <1>3, <1>4, PutGood, Untouched
       DEF Create, ClearanceInv, NewRecord
  <1>5. ASSUME NEW s \in Statuses \ {"Released"}
        PROVE  /\ [Base EXCEPT !.status = s] \in Record
               /\ [Base EXCEPT !.status = s].status # "Released"
    BY <1>1 DEF Record
  <1>6. CASE Authorize
    <2>1. PICK row \in Record : Put(row) /\ (row.status = "Released" => row = Base)
      <3> DEFINE s == IF Base.status = "Open" THEN "Authorized" ELSE Base.status
      <3>1. [Base EXCEPT !.status = s] \in Record
        BY <1>1 DEF Record, Statuses
      <3>2. [Base EXCEPT !.status = s].status = s
        BY <1>1 DEF Record
      <3>3. s = "Released" => [Base EXCEPT !.status = s] = Base
        BY <1>1 DEF Record
      <3>4. Put([Base EXCEPT !.status = s])
        BY <1>6 DEF Authorize
      <3> HIDE DEF s
      <3> QED BY <3>1, <3>2, <3>3, <3>4
    <2>2. RecordsGood'
      BY <1>1, <1>2, <2>1, PutGood DEF Earned, PaidKept
    <2>3. TasksGood'
      BY <1>1, <1>2, <1>6, FinishGood DEF Authorize
    <2> QED BY <1>2, <2>2, <2>3 DEF ClearanceInv
  <1>7. CASE PayDeliveryOrder
    <2>1. PICK row \in Record : Put(row) /\ (row.status = "Released" => row = Base)
      <3> DEFINE s == IF Base.status \in {"Open", "Authorized"}
                      THEN "Delivered" ELSE Base.status
      <3>1. [Base EXCEPT !.status = s] \in Record
        BY <1>1 DEF Record, Statuses
      <3>2. [Base EXCEPT !.status = s].status = s
        BY <1>1 DEF Record
      <3>3. s = "Released" => [Base EXCEPT !.status = s] = Base
        BY <1>1 DEF Record
      <3>4. Put([Base EXCEPT !.status = s])
        BY <1>7 DEF PayDeliveryOrder
      <3> HIDE DEF s
      <3> QED BY <3>1, <3>2, <3>3, <3>4
    <2>2. RecordsGood'
      BY <1>1, <1>2, <2>1, PutGood DEF Earned, PaidKept
    <2>3. TasksGood'
      BY <1>1, <1>2, <1>7, FinishGood DEF PayDeliveryOrder
    <2> QED BY <1>2, <2>2, <2>3 DEF ClearanceInv
  <1>8. CASE Declare \/ Inspect \/ Assess
    <2>1. "In Clearance" \in Statuses \ {"Released"}
      BY DEF Statuses
    <2>2. RecordsGood'
      BY <1>1, <1>2, <1>5, <1>8, <2>1, PutGood DEF Declare, Inspect, Assess
    <2>3. TasksGood'
      BY <1>1, <1>2, <1>8, FinishGood DEF Declare, Inspect, Assess
    <2> QED BY <1>2, <2>2, <2>3 DEF ClearanceInv
  <1> QED BY <1>4, <1>6, <1>7, <1>8

\* The payment, for the record and for the file.
LEMMA PayDutyGood ==
  ASSUME ClearanceInv, PayDuty
  PROVE  ClearanceInv'
  <1>1. RecordsGood /\ TasksGood /\ FileTyped /\ Base \in Record
    BY BaseGood DEF ClearanceInv
  <1>2. FileTyped' /\ PaidKept /\ file'.paid /\ ReceiptsGood'
    BY <1>1, Untouched DEF PayDuty, FileTyped, PaidKept
  <1>3. /\ [Base EXCEPT !.status = "Duty Paid", !.paid = TRUE] \in Record
    BY <1>1 DEF Record, Statuses
  <1>4. RecordsGood'
    BY <1>1, <1>2, <1>3, PutGood DEF PayDuty
  <1>5. TasksGood'
    BY <1>1, <1>2, FinishGood DEF PayDuty
  <1> QED BY <1>2, <1>4, <1>5 DEF ClearanceInv

\* The release order asks for a payment, of the record or of the file.
LEMMA IssueReleaseGood ==
  ASSUME ClearanceInv, NEW n, NEW d \in BOOLEAN, IssueRelease(n, d)
  PROVE  ClearanceInv'
  <1> DEFINE row == [BaseOf(n) EXCEPT !.status = "Released", !.dispatch = d]
  <1>1. RecordsGood /\ TasksGood /\ FileTyped /\ BaseOf(n) \in Record
    <2>1. n \in ActiveIds => records[n] \in Record
      BY DEF ClearanceInv, RecordsGood, ActiveIds, Ids
    <2> QED BY <2>1, BaseGood DEF ClearanceInv, BaseOf
  <1>2. FileTyped' /\ PaidKept /\ ReceiptsGood'
    BY <1>1, Untouched DEF IssueRelease, FileTyped, PaidKept
  <1>3. row \in Record /\ row.paid = BaseOf(n).paid
    BY <1>1 DEF Record, Statuses
  <1>4. row.paid \/ file'.paid
    BY <1>2, <1>3 DEF IssueRelease, PaidKept
  <1>5. PutAs(n, row)
    BY DEF IssueRelease
  <1> HIDE DEF row
  <1>6. RecordsGood'
    <2>1. CASE n \in ActiveIds
      <3>1. /\ records' \in Seq(Record) /\ DOMAIN records' = DOMAIN records
            /\ \A j \in DOMAIN records :
                 records'[j] = IF j = n THEN row ELSE records[j]
        BY <1>3, <1>5, <2>1, ReplaceRow DEF RecordsGood, PutAs, ClearanceInv
      <3> QED BY <1>1, <1>2, <1>4, <3>1 DEF RecordsGood, Earned, PaidKept, Ids
    <2>2. CASE n \notin ActiveIds
      BY <1>1, <1>2, <1>3, <1>4, <1>5, <2>2, PutGood DEF PutAs
    <2> QED BY <2>1, <2>2
  <1>7. TasksGood'
    BY <1>1, <1>2, FinishGood DEF IssueRelease
  <1> QED BY <1>2, <1>6, <1>7 DEF ClearanceInv

\* A record of the list is stored as a good record.
LEMMA StoreGood ==
  ASSUME ClearanceInv, NEW i, NEW row \in Record, Store(i, row),
         row.status = "Released" => row.paid \/ file'.paid \/ row.lab = "Conforming",
         FileTyped', PaidKept
  PROVE  ClearanceInv'
  <1>1. /\ records' \in Seq(Record) /\ DOMAIN records' = DOMAIN records
        /\ \A j \in DOMAIN records :
             records'[j] = IF j = i THEN row ELSE records[j]
    BY ReplaceRow DEF ClearanceInv, RecordsGood, Store
  <1>2. RecordsGood'
    BY <1>1 DEF ClearanceInv, RecordsGood, Earned, PaidKept, Ids
  <1>3. ReceiptsGood' /\ TasksGood'
    BY Untouched DEF Store
  <1> QED BY <1>2, <1>3 DEF ClearanceInv

\* Operations on one record: payment, release, bond, deletion.
LEMMA RecordStepGood ==
  ASSUME ClearanceInv, NEW i \in Ids,
         \/ SubmitPayment(i) \/ UnderBond(i) \/ Delete(i)
         \/ \E d \in BOOLEAN : CompleteRelease(i, d)
  PROVE  ClearanceInv'
  <1>1. records[i] \in Record /\ Earned(records[i]) /\ FileTyped
    BY DEF ClearanceInv, RecordsGood, Ids
  <1>2. CASE SubmitPayment(i)
    <2> DEFINE row == [records[i] EXCEPT !.status = "Duty Paid", !.paid = TRUE]
    <2>1. row \in Record /\ row.paid
      BY <1>1 DEF Record, Statuses
    <2> QED BY <1>2, <2>1, StoreGood, Untouched DEF SubmitPayment
  <1>3. CASE UnderBond(i)
    <2> DEFINE row == [records[i] EXCEPT !.status = "Under Bond", !.bond = TRUE,
                         !.locked = TRUE, !.dispatch = FALSE, !.lab = "Pending"]
    <2>1. row \in Record /\ row.status # "Released"
      BY <1>1 DEF Record, Statuses
    <2> QED BY <1>3, <2>1, StoreGood, Untouched DEF UnderBond
  <1>4. CASE Delete(i)
    <2> DEFINE row == [records[i] EXCEPT !.active = FALSE]
    <2>1. /\ row \in Record /\ row.status = records[i].status
          /\ row.paid = records[i].paid /\ row.lab = records[i].lab
      BY <1>1 DEF Record
    <2>2. UNCHANGED file
      BY <1>4 DEF Delete
    <2> QED BY <1>1, <1>4, <2>1, <2>2, StoreGood, Untouched DEF Delete, Earned
  <1>5. ASSUME NEW d \in BOOLEAN, CompleteRelease(i, d)
        PROVE  ClearanceInv'
    <2> DEFINE row == [records[i] EXCEPT !.status = "Released", !.dispatch = d]
    <2>1. row \in Record /\ row.paid
      BY <1>1, <1>5 DEF Record, Statuses, CompleteRelease
    <2>2. FileTyped' /\ PaidKept
      BY <1>1, <1>5 DEF CompleteRelease, FileTyped, PaidKept
    <2> QED BY <1>5, <2>1, <2>2, StoreGood DEF CompleteRelease
  <1> QED BY <1>2, <1>3, <1>4, <1>5

\* The laboratory's answer.
LEMMA LabResultGood ==
  ASSUME ClearanceInv, NEW i \in Ids, NEW c \in BOOLEAN, NEW l \in BOOLEAN,
         LabResult(i, c, l)
  PROVE  ClearanceInv'
  <1> DEFINE r == [records[i] EXCEPT
                     !.lab = IF c THEN "Conforming" ELSE "Non-Conforming"]
             lifted == [r EXCEPT !.status = "Released", !.locked = FALSE,
                                 !.dispatch = TRUE]
             refused == [r EXCEPT !.status = "Rejected", !.locked = TRUE,
                                  !.dispatch = FALSE]
  <1>1. records[i] \in Record /\ FileTyped
    BY DEF ClearanceInv, RecordsGood, Ids
  <1>2. r \in Record /\ (c => r.lab = "Conforming")
    BY <1>1 DEF Record
  <1>3. CASE c /\ l
    <2>1. lifted \in Record /\ lifted.lab = "Conforming"
      BY <1>2, <1>3 DEF Record, Statuses
    <2>2. Store(i, lifted) /\ FileTyped' /\ PaidKept
      BY <1>1, <1>3 DEF LabResult, FileTyped, PaidKept
    <2> QED BY <2>1, <2>2, StoreGood
  <1>4. CASE c /\ ~l
    <2>1. Store(i, r) /\ UNCHANGED file
      BY <1>4 DEF LabResult
    <2> QED BY <1>2, <1>4, <2>1, StoreGood, Untouched
  <1>5. CASE ~c
    <2>1. refused \in Record /\ refused.status # "Released"
      BY <1>2 DEF Record, Statuses
    <2>2. Store(i, refused) /\ UNCHANGED file
      BY <1>5 DEF LabResult
    <2> QED BY <2>1, <2>2, StoreGood, Untouched
  <1> QED BY <1>3, <1>4, <1>5

\* A deleted record comes back as it was.
LEMMA RestoreGood ==
  ASSUME ClearanceInv, NEW i \in Ids, Restore(i)
  PROVE  ClearanceInv'
  <1> DEFINE row == [records[i] EXCEPT !.active = TRUE]
  <1>1. records[i] \in Record /\ Earned(records[i])
    BY DEF ClearanceInv, RecordsGood, Ids
  <1>2. row \in Record /\ Earned(row)
    BY <1>1 DEF Record, Earned
  <1>3. records' = [records EXCEPT ![i] = row] /\ UNCHANGED <<receipts, file, tasks>>
    BY DEF Restore
  <1>4. PaidKept
    BY <1>3, Untouched
  <1> QED BY <1>2, <1>3, <1>4, ReplaceRecord, Untouched DEF ClearanceInv

-----------------------------------------------------------------------------
(* The warehouse.                                                          *)

\* A receipt on which no inspection accepted locked goods.
Cautious(r) == r.locked /\ ~r.byHand => r.verdict \in {"PENDING", "REJECTED_QUARANTINED"}

\* A cautious receipt is stored in the place of another.
LEMMA StoreReceiptGood ==
  ASSUME ClearanceInv, NEW j, NEW row \in Receipt, Cautious(row),
         StoreReceipt(j, row)
  PROVE  ClearanceInv'
  <1>1. /\ receipts' \in Seq(Receipt) /\ DOMAIN receipts' = DOMAIN receipts
        /\ \A k \in DOMAIN receipts :
             receipts'[k] = IF k = j THEN row ELSE receipts[k]
    BY ReplaceRow DEF ClearanceInv, ReceiptsGood, StoreReceipt
  <1>2. ReceiptsGood'
    BY <1>1 DEF ClearanceInv, ReceiptsGood, BlockedGoodsNotAccepted, Cautious,
                ReceiptIds
  <1> QED BY <1>2, Untouched DEF ClearanceInv, StoreReceipt

\* The goods arrive, quarantined or not, and no one has judged them yet.
LEMMA ReceiveGood ==
  ASSUME ClearanceInv, Receive
  PROVE  ClearanceInv'
  <1> DEFINE row == [active |-> TRUE, locked |-> Quarantined,
                     verdict |-> "PENDING", byHand |-> FALSE]
  <1>1. Quarantined \in BOOLEAN
    BY DEF Quarantined
  <1>2. row \in Receipt /\ Cautious(row)
    BY <1>1 DEF Receipt, Verdicts, Cautious
  <1>3. /\ receipts' \in Seq(Receipt)
        /\ \A k \in DOMAIN receipts' :
             \/ k \in DOMAIN receipts /\ receipts'[k] = receipts[k]
             \/ receipts'[k] = row
    BY <1>2, AppendRow DEF ClearanceInv, ReceiptsGood, Receive
  <1>4. ReceiptsGood'
    BY <1>2, <1>3 DEF ClearanceInv, ReceiptsGood, BlockedGoodsNotAccepted,
                      Cautious, ReceiptIds
  <1> QED BY <1>4, Untouched DEF ClearanceInv, Receive

\* Verdict by hand, inspection, deletion and restoration of a receipt.
LEMMA ReceiptStepGood ==
  ASSUME ClearanceInv, NEW j \in ReceiptIds,
         \/ \E v \in Verdicts : WriteVerdict(j, v)
         \/ \E s, z \in BOOLEAN, v \in Verdicts : Protocol(j, s, z, v)
         \/ DeleteReceipt(j) \/ RestoreReceipt(j)
  PROVE  ClearanceInv'
  <1>1. receipts[j] \in Receipt /\ Cautious(receipts[j])
    BY DEF ClearanceInv, ReceiptsGood, ReceiptIds, BlockedGoodsNotAccepted, Cautious
  <1>2. ASSUME NEW v \in Verdicts, WriteVerdict(j, v)
        PROVE  ClearanceInv'
    <2>1. LET row == [receipts[j] EXCEPT !.verdict = v, !.byHand = TRUE]
          IN  row \in Receipt /\ Cautious(row)
      BY <1>1 DEF Receipt, Cautious
    <2> QED BY <1>2, <2>1, StoreReceiptGood DEF WriteVerdict
  <1>3. ASSUME NEW s \in BOOLEAN, NEW z \in BOOLEAN, NEW v \in Verdicts,
               Protocol(j, s, z, v)
        PROVE  ClearanceInv'
    <2> DEFINE verdict == IF z \/ receipts[j].locked THEN "REJECTED_QUARANTINED"
                          ELSE IF s THEN v ELSE "ACCEPTED_FULL"
               row == [receipts[j] EXCEPT !.byHand = FALSE, !.verdict = verdict]
    <2>1. row \in Receipt /\ Cautious(row)
      BY <1>1 DEF Receipt, Verdicts, Cautious
    <2> QED BY <1>3, <2>1, StoreReceiptGood DEF Protocol
  <1>4. ASSUME DeleteReceipt(j) \/ RestoreReceipt(j)
        PROVE  ClearanceInv'
    <2>1. ASSUME NEW a \in BOOLEAN
          PROVE  LET row == [receipts[j] EXCEPT !.active = a]
                 IN  row \in Receipt /\ Cautious(row)
      BY <1>1 DEF Receipt, Cautious
    <2> QED BY <1>4, <2>1, StoreReceiptGood DEF DeleteReceipt, RestoreReceipt
  <1> QED BY <1>2, <1>3, <1>4

\* The ACID expires or is renewed.
LEMMA ExpireGood ==
  ASSUME ClearanceInv, NEW e \in BOOLEAN, Expire(e)
  PROVE  ClearanceInv'
  <1>1. FileTyped' /\ PaidKept
    BY DEF ClearanceInv, FileTyped, Expire, PaidKept
  <1> QED BY <1>1, Untouched DEF ClearanceInv, Expire

-----------------------------------------------------------------------------
(* The invariant and what follows.                                         *)

\* Nothing is recorded at first.
LEMMA ClearanceInit == Init => ClearanceInv
  <1> SUFFICES ASSUME Init PROVE ClearanceInv
    OBVIOUS
  <1>1. RecordsGood /\ ReceiptsGood /\ FileTyped
    BY DEF Init, RecordsGood, ReceiptsGood, FileTyped, BlockedGoodsNotAccepted,
           Ids, ReceiptIds
  <1>2. PICK s \in {"none", "open"} :
          tasks = [t \in Followed |-> IF t = "CS-01" THEN s ELSE "none"]
    BY DEF Init
  <1>3. TasksGood
    BY <1>2 DEF TasksGood, DutyTaskWaits
  <1> QED BY <1>1, <1>3 DEF ClearanceInv

LEMMA ClearanceStep == ClearanceInv /\ [Next]_vars => ClearanceInv'
  <1> SUFFICES ASSUME ClearanceInv, [Next]_vars PROVE ClearanceInv'
    OBVIOUS
  <1>1. CASE \/ Create \/ Authorize \/ PayDeliveryOrder \/ Declare \/ Inspect
             \/ Assess \/ PayDuty \/ \E n \in Ids \cup {0}, d \in BOOLEAN : IssueRelease(n, d)
    BY <1>1, StagesGood, PayDutyGood, IssueReleaseGood
  <1>2. CASE \E i \in Ids : \/ SubmitPayment(i) \/ UnderBond(i) \/ Delete(i)
                            \/ \E d \in BOOLEAN : CompleteRelease(i, d)
    BY <1>2, RecordStepGood
  <1>3. CASE \E i \in Ids : Restore(i)
    BY <1>3, RestoreGood
  <1>4. CASE \E i \in Ids, c, l \in BOOLEAN : LabResult(i, c, l)
    BY <1>4, LabResultGood
  <1>5. CASE Receive
    BY <1>5, ReceiveGood
  <1>6. CASE \E j \in ReceiptIds :
               \/ \E v \in Verdicts : WriteVerdict(j, v)
               \/ \E s, z \in BOOLEAN, v \in Verdicts : Protocol(j, s, z, v)
               \/ DeleteReceipt(j) \/ RestoreReceipt(j)
    BY <1>6, ReceiptStepGood
  <1>7. CASE \E e \in BOOLEAN : Expire(e)
    BY <1>7, ExpireGood
  <1>8. CASE UNCHANGED vars
    BY <1>8, Untouched DEF ClearanceInv, vars
  <1> QED BY <1>1, <1>2, <1>3, <1>4, <1>5, <1>6, <1>7, <1>8 DEF Next

\* In every reachable state all four parts hold.
THEOREM ClearanceAlways == Spec => []ClearanceInv
  BY ClearanceInit, ClearanceStep, PTL DEF Spec

\* Records, receipts, the file and the tasks keep their types.
THEOREM ClearanceTyped == Spec => []TypeOK
  <1>1. ClearanceInv => TypeOK
    BY DEF ClearanceInv, RecordsGood, ReceiptsGood, TasksGood, FileTyped, TypeOK
  <1> QED BY <1>1, ClearanceAlways, PTL

\* Whichever way a record came to its release, the release was earned.
THEOREM ReleasesEarned == Spec => []ReleaseIsEarned
  <1>1. ClearanceInv => ReleaseIsEarned
    BY DEF ClearanceInv, RecordsGood, Earned, ReleaseIsEarned
  <1> QED BY <1>1, ClearanceAlways, PTL

\* No inspection accepts goods that arrived under quarantine.
THEOREM QuarantinedNotAccepted == Spec => []BlockedGoodsNotAccepted
  <1>1. ClearanceInv => BlockedGoodsNotAccepted
    BY DEF ClearanceInv, ReceiptsGood
  <1> QED BY <1>1, ClearanceAlways, PTL

\* Only the payment closes the task that asks for it.
THEOREM DutyTaskClosedByPayment == Spec => []DutyTaskWaits
  <1>1. ClearanceInv => DutyTaskWaits
    BY DEF ClearanceInv, TasksGood
  <1> QED BY <1>1, ClearanceAlways, PTL
=============================================================================
