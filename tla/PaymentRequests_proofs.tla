----------------------- MODULE PaymentRequests_proofs -----------------------
(***************************************************************************)
(* What holds of the payment requests of a file for any number of requests *)
(* and batches: types, and, from the screens, that payments are undone by  *)
(* late approvals only, name their transfer, and are what the file and the *)
(* batches show.                                                           *)
(***************************************************************************)
EXTENDS PaymentRequests, SequenceTheorems, TLAPS

-----------------------------------------------------------------------------
(* Rows of a table.                                                        *)

\* A row in the place of another keeps a table a table.
LEMMA ReplaceRow ==
  ASSUME NEW S, NEW s \in Seq(S), NEW i \in DOMAIN s, NEW row \in S
  PROVE  /\ [s EXCEPT ![i] = row] \in Seq(S)
         /\ DOMAIN [s EXCEPT ![i] = row] = DOMAIN s
         /\ Len([s EXCEPT ![i] = row]) = Len(s)
         /\ \A j \in DOMAIN s :
              [s EXCEPT ![i] = row][j] = IF j = i THEN row ELSE s[j]
  <1>1. i \in 1..Len(s)
    OBVIOUS
  <1> QED BY <1>1, ExceptSeq

\* A row is appended behind those there are.
LEMMA AppendRow ==
  ASSUME NEW S, NEW s \in Seq(S), NEW row \in S
  PROVE  /\ Append(s, row) \in Seq(S)
         /\ Len(Append(s, row)) = Len(s) + 1
         /\ DOMAIN s \subseteq DOMAIN Append(s, row)
         /\ \A j \in DOMAIN s : Append(s, row)[j] = s[j]
         /\ \A j \in DOMAIN Append(s, row) :
              j \in DOMAIN s \/ Append(s, row)[j] = row
  OBVIOUS

\* The transfers are those of the batches and the one that is typed.
LEMMA TransferRange ==
  /\ NoTransfer \in Transfers /\ Typed \in Transfers \ {NoTransfer}
  /\ \A b \in 1..MaxBatches : b \in Transfers \ {NoTransfer}
  BY BoundsAssumption DEF NoTransfer, Typed, Transfers

-----------------------------------------------------------------------------
(* The invariant, in parts.                                                *)

\* A paid request's traces, as far as nobody but the screens writes it.
Settled(r) == screens /\ ~Moves /\ r.status = "Paid" =>
                /\ r.transfer # NoTransfer
                /\ r.linked => r.task # "open"

RequestsGood == /\ requests \in Seq(Row)
                /\ Len(requests) <= MaxRequests
                /\ \A i \in Ids : Settled(requests[i])

SwiftGood == swiftNo \in Transfers /\ SwiftNoOfPayment

BatchesGood == /\ batches \in Seq(Batch)
               /\ Len(batches) <= MaxBatches
               /\ MatchedWasPaid

RestTyped == acidTasks \subseteq {"board", "desk"} /\ screens \in BOOLEAN

PaymentInv == RequestsGood /\ SwiftGood /\ BatchesGood /\ RestTyped

\* A late approval leaves the rest of a paid request as it is.
PaidInto(old, new) == old.status = "Paid" /\ new.status # "Paid" =>
  new = [old EXCEPT !.status = "Approved", !.approved = TRUE]

\* No row disappears, and from the screens what was paid remains so, but
\* for its status after a late approval.
PaidKept == /\ UNCHANGED screens
            /\ Ids \subseteq Ids'
            /\ screens => \A i \in Ids :
                 /\ PaidInto(requests[i], requests'[i])
                 /\ WasPaid(requests[i]) => WasPaid(requests'[i])

\* What the file shows of a payment stays as it is, too.
TracesKept == screens /\ ~Moves =>
  \A i \in Ids : WasPaid(requests[i]) =>
    /\ requests'[i].linked = requests[i].linked
    /\ requests'[i].transfer = requests[i].transfer

\* A batch stays matched with a payment.
LEMMA BatchesKept ==
  ASSUME BatchesGood, PaidKept, UNCHANGED batches
  PROVE  BatchesGood'
  BY DEF BatchesGood, PaidKept, MatchedWasPaid

\* The file's SWIFT number stays that of a payment.
LEMMA SwiftKept ==
  ASSUME SwiftGood, PaidKept, TracesKept, UNCHANGED swiftNo
  PROVE  SwiftGood'
  <1>1. swiftNo' \in Transfers
    BY DEF SwiftGood
  <1>2. SwiftNoOfPayment'
    <2> SUFFICES ASSUME screens', ~Moves, swiftNo' # NoTransfer
                 PROVE  \E i \in Ids' : /\ requests'[i].linked
                                        /\ WasPaid(requests'[i])
                                        /\ requests'[i].transfer = swiftNo'
      BY DEF SwiftNoOfPayment
    <2>1. PICK i \in Ids : /\ requests[i].linked
                           /\ WasPaid(requests[i])
                           /\ requests[i].transfer = swiftNo
      BY DEF SwiftGood, SwiftNoOfPayment, PaidKept
    <2>2. /\ i \in Ids' /\ WasPaid(requests'[i])
          /\ requests'[i].linked /\ requests'[i].transfer = swiftNo'
      BY <2>1 DEF PaidKept, TracesKept
    <2> QED BY <2>2
  <1> QED BY <1>1, <1>2 DEF SwiftGood

-----------------------------------------------------------------------------
(* Requests: insertion and edits.                                          *)

\* A draft, or any other row that is not a payment made from the screens.
LEMMA AddGood ==
  ASSUME PaymentInv, NEW row \in Row, Add(row), screens => row.status # "Paid"
  PROVE  PaymentInv' /\ PaidKept
  <1>1. /\ requests' \in Seq(Row) /\ Len(requests') = Len(requests) + 1
        /\ Ids \subseteq Ids'
        /\ \A j \in Ids : requests'[j] = requests[j]
        /\ \A j \in Ids' : j \in Ids \/ requests'[j] = row
    BY AppendRow DEF PaymentInv, RequestsGood, Add, Ids
  <1>2. UNCHANGED <<batches, swiftNo, acidTasks, screens>>
    BY DEF Add
  <1>3. PaidKept /\ TracesKept
    BY <1>1, <1>2 DEF PaidKept, PaidInto, TracesKept
  <1>4. Len(requests') <= MaxRequests
    BY <1>1, BoundsAssumption DEF Add, PaymentInv, RequestsGood
  <1>5. \A j \in Ids' : Settled(requests[j])'
    BY <1>1, <1>2 DEF PaymentInv, RequestsGood, Settled
  <1>6. RequestsGood'
    BY <1>1, <1>4, <1>5 DEF RequestsGood
  <1> QED BY <1>2, <1>3, <1>6, BatchesKept, SwiftKept DEF PaymentInv, RestTyped

\* A request is stored so that what was paid from the screens remains so.
LEMMA StoreGood ==
  ASSUME PaymentInv, NEW i \in Ids, NEW row \in Row, Store(i, row), Settled(row),
         screens => PaidInto(requests[i], row),
         screens /\ WasPaid(requests[i]) => WasPaid(row),
         screens /\ ~Moves /\ WasPaid(requests[i]) =>
           row.linked = requests[i].linked /\ row.transfer = requests[i].transfer
  PROVE  PaymentInv' /\ PaidKept
  <1>1. /\ requests' \in Seq(Row) /\ Ids' = Ids /\ Len(requests') = Len(requests)
        /\ \A j \in Ids : requests'[j] = IF j = i THEN row ELSE requests[j]
    BY ReplaceRow DEF PaymentInv, RequestsGood, Store, Ids
  <1>2. UNCHANGED <<batches, swiftNo, acidTasks, screens>>
    BY DEF Store
  <1>3. PaidKept /\ TracesKept
    <2>1. PaidKept
      BY <1>1, <1>2 DEF PaidKept, PaidInto
    <2>2. TracesKept
      BY <1>1, <1>2 DEF TracesKept
    <2> QED BY <2>1, <2>2
  <1>4. \A j \in Ids' : Settled(requests[j])'
    BY <1>1, <1>2 DEF PaymentInv, RequestsGood, Settled
  <1>5. RequestsGood'
    BY <1>1, <1>4 DEF PaymentInv, RequestsGood
  <1> QED BY <1>2, <1>3, <1>5, BatchesKept, SwiftKept DEF PaymentInv, RestTyped

\* Every row of the table is typed and settled.
LEMMA RowGood ==
  ASSUME PaymentInv, NEW i \in Ids
  PROVE  requests[i] \in Row /\ Settled(requests[i])
  BY DEF PaymentInv, RequestsGood, Ids

\* A request is entered, or copied as a draft.
LEMMA InsertsGood ==
  ASSUME PaymentInv,
         \/ \E t \in Types, l \in BOOLEAN, s \in Statuses : Create(t, l, s)
         \/ \E i \in Ids, u \in BOOLEAN : Clone(i, u)
  PROVE  PaymentInv' /\ PaidKept
  <1>1. ASSUME NEW t \in Types, NEW l \in BOOLEAN, NEW s \in Statuses,
               Create(t, l, s)
        PROVE  PaymentInv' /\ PaidKept
    <2> DEFINE row == [type |-> t, status |-> s, active |-> TRUE, linked |-> l,
                       transfer |-> NoTransfer, task |-> "open",
                       approved |-> s = "Approved"]
    <2>1. row \in Row
      BY TransferRange DEF Row
    <2>2. Add(row) /\ (screens => row.status # "Paid")
      BY <1>1 DEF Create
    <2> QED BY <2>1, <2>2, AddGood
  <1>2. ASSUME NEW i \in Ids, NEW u \in BOOLEAN, Clone(i, u)
        PROVE  PaymentInv' /\ PaidKept
    <2> DEFINE row == [requests[i] EXCEPT !.status = "Draft",
                         !.transfer = NoTransfer, !.linked = @ /\ ~u,
                         !.task = "none", !.approved = FALSE]
    <2>1. (requests[i].linked /\ ~u) \in BOOLEAN
      BY RowGood DEF Row
    <2>2. row \in Row /\ row.status # "Paid"
      BY <2>1, RowGood, TransferRange DEF Row, Statuses
    <2>3. Add(row)
      BY <1>2 DEF Clone
    <2> QED BY <2>2, <2>3, AddGood
  <1> QED BY <1>1, <1>2

\* A PUT; the screens send neither a status nor a transfer of their own.
LEMMA UpdateGood ==
  ASSUME PaymentInv, NEW i \in Ids, NEW t \in Types, NEW l \in BOOLEAN,
         NEW s \in Statuses, NEW x \in Transfers, Update(i, t, l, s, x)
  PROVE  PaymentInv' /\ PaidKept
  <1> DEFINE row == [requests[i] EXCEPT !.type = t, !.linked = l,
                                        !.status = s, !.transfer = x,
                                        !.approved = @ \/ s = "Approved"]
  <1>1. requests[i] \in Row /\ Settled(requests[i])
    BY RowGood
  <1>0. (requests[i].approved \/ s = "Approved") \in BOOLEAN
    OBVIOUS
  <1>2. row \in Row /\ row.task = requests[i].task /\ row.linked = l
        /\ row.status = s /\ row.transfer = x
    BY <1>0, <1>1 DEF Row
  <1>3. /\ Store(i, row)
        /\ screens => s = requests[i].status /\ x = requests[i].transfer
        /\ ~Moves => l = requests[i].linked
    BY DEF Update
  <1>4. Settled(row)
    BY <1>1, <1>2, <1>3 DEF Settled
  <1>5. screens => /\ PaidInto(requests[i], row)
                   /\ WasPaid(requests[i]) => WasPaid(row)
    BY <1>2, <1>3 DEF PaidInto, WasPaid
  <1> HIDE DEF row
  <1> QED BY <1>2, <1>3, <1>4, <1>5, StoreGood

\* Approval, deletion and restoration.
LEMMA RewriteGood ==
  ASSUME PaymentInv, NEW i \in Ids, Approve(i) \/ Delete(i) \/ Restore(i)
  PROVE  PaymentInv' /\ PaidKept
  <1>1. requests[i] \in Row /\ Settled(requests[i])
    BY RowGood
  <1>2. CASE Approve(i)
    <2> DEFINE row == [requests[i] EXCEPT !.status = "Approved",
                                          !.approved = TRUE]
    <2>1. /\ row \in Row /\ row.status = "Approved"
          /\ row.linked = requests[i].linked /\ row.transfer = requests[i].transfer
      BY <1>1 DEF Row, Statuses
    <2>2. Settled(row)
      BY <2>1 DEF Settled
    <2>3. Store(i, row)
      BY <1>2 DEF Approve
    <2>4. PaidInto(requests[i], row) /\ (WasPaid(requests[i]) => WasPaid(row))
      BY <2>1 DEF PaidInto, WasPaid
    <2> HIDE DEF row
    <2> QED BY <2>1, <2>2, <2>3, <2>4, StoreGood
  <1>3. CASE Delete(i) \/ Restore(i)
    <2>1. PICK a \in BOOLEAN : Store(i, [requests[i] EXCEPT !.active = a])
      BY <1>3 DEF Delete, Restore
    <2> DEFINE row == [requests[i] EXCEPT !.active = a]
    <2>2. /\ row \in Row /\ row.status = requests[i].status
          /\ row.linked = requests[i].linked /\ row.task = requests[i].task
          /\ row.transfer = requests[i].transfer
      BY <1>1 DEF Row
    <2>3. Settled(row)
      BY <1>1, <2>2 DEF Settled
    <2>4. PaidInto(requests[i], row) /\ (WasPaid(requests[i]) => WasPaid(row))
      BY <2>2 DEF PaidInto, WasPaid
    <2>5. Store(i, row)
      BY <2>1
    <2> HIDE DEF row
    <2> QED BY <2>2, <2>3, <2>4, <2>5, StoreGood
  <1> QED BY <1>2, <1>3

-----------------------------------------------------------------------------
(* Settlement.                                                             *)

\* What becomes of requests, file and tasks when a payment is completed or
\* its references are recorded; the batches are the caller's.
Paying(i) == /\ RequestsGood' /\ SwiftGood' /\ RestTyped' /\ PaidKept
             /\ Ids' = Ids
             /\ screens => WasPaid(requests'[i])

\* Closing a task changes no more than the task.
LEMMA CloseTaskGood ==
  ASSUME NEW r \in Row
  PROVE  /\ CloseTask(r) \in Row
         /\ CloseTask(r).status = r.status /\ CloseTask(r).linked = r.linked
         /\ CloseTask(r).transfer = r.transfer
         /\ CloseTask(r).linked => CloseTask(r).task # "open"
  BY DEF CloseTask, Row

\* The completion workflow, of a request of the file and of one without.
LEMMA CompleteGood ==
  ASSUME PaymentInv, NEW i \in Ids, NEW x \in Transfers \ {NoTransfer},
         NEW a \in BOOLEAN, Complete(i, x, a)
  PROVE  Paying(i)
  <1> DEFINE paid == [requests[i] EXCEPT !.status = "Paid", !.transfer = x]
             open == acidTasks \cup (IF a THEN {"board"} ELSE {})
  <1>1. /\ paid \in Row /\ paid.status = "Paid" /\ paid.transfer = x
        /\ paid.linked = requests[i].linked
    BY RowGood DEF Row, Statuses
  <1>2. UNCHANGED screens
    BY DEF Complete
  <1>3. requests \in Seq(Row) /\ Len(requests) <= MaxRequests
        /\ \A j \in Ids : requests[j] \in Row /\ Settled(requests[j])
    BY RowGood DEF PaymentInv, RequestsGood
  <1>4. CASE paid.linked
    <2>1. requests' = [j \in Ids |-> CloseTask(IF j = i THEN paid ELSE requests[j])]
      BY <1>4 DEF Complete
    <2>2. swiftNo' = x /\ acidTasks' = IF open = {} THEN {"desk"} ELSE open
      BY <1>4 DEF Complete
    <2>3. \A j \in Ids : (IF j = i THEN paid ELSE requests[j]) \in Row
      BY <1>1, <1>3
    <2>4. \A j \in Ids : /\ requests'[j] \in Row
                         /\ requests'[j].linked => requests'[j].task # "open"
                         /\ j # i => /\ requests'[j].status = requests[j].status
                                     /\ requests'[j].transfer = requests[j].transfer
                                     /\ requests'[j].linked = requests[j].linked
      BY <2>1, <2>3, CloseTaskGood
    <2>5. requests'[i].status = "Paid" /\ requests'[i].transfer = x /\ requests'[i].linked
      BY <1>1, <1>4, <2>1, CloseTaskGood
    <2>6. Ids = 1..Len(requests) /\ Len(requests) \in Nat
      BY <1>3 DEF Ids
    <2>7. requests' \in Seq(Row) /\ Len(requests') = Len(requests) /\ Ids' = Ids
      BY <2>1, <2>4, <2>6 DEF Ids
    <2>8. \A j \in Ids' : Settled(requests[j])'
      BY <1>2, <1>3, <2>4, <2>5, <2>7 DEF Settled
    <2>9. RequestsGood'
      BY <1>3, <2>7, <2>8 DEF RequestsGood
    <2>10. WasPaid(requests'[i])
      BY <2>5 DEF WasPaid
    <2>11. SwiftGood'
      BY <2>2, <2>5, <2>7, <2>10 DEF SwiftGood, SwiftNoOfPayment
    <2>12. \A j \in Ids : /\ PaidInto(requests[j], requests'[j])
                          /\ WasPaid(requests[j]) => WasPaid(requests'[j])
      BY <2>4, <2>5, <2>10 DEF PaidInto, WasPaid
    <2>13. PaidKept
      BY <1>2, <2>7, <2>12 DEF PaidKept
    <2>14. RestTyped'
      BY <1>2, <2>2 DEF PaymentInv, RestTyped
    <2> QED BY <2>7, <2>9, <2>10, <2>11, <2>13, <2>14 DEF Paying
  <1>5. CASE ~paid.linked
    <2>1. requests' = [requests EXCEPT ![i] = paid] /\ UNCHANGED <<swiftNo, acidTasks>>
      BY <1>5 DEF Complete
    <2>2. /\ requests' \in Seq(Row) /\ Ids' = Ids /\ Len(requests') = Len(requests)
          /\ \A j \in Ids : requests'[j] = IF j = i THEN paid ELSE requests[j]
      BY <1>1, <1>3, <2>1, ReplaceRow DEF Ids
    <2>3. \A j \in Ids' : Settled(requests[j])'
      BY <1>1, <1>2, <1>3, <1>5, <2>2 DEF Settled
    <2>4. RequestsGood'
      BY <1>3, <2>2, <2>3 DEF RequestsGood
    <2>5. WasPaid(requests'[i]) /\ PaidKept
      <3>1. \A j \in Ids : /\ PaidInto(requests[j], requests'[j])
                           /\ WasPaid(requests[j]) => WasPaid(requests'[j])
        BY <1>1, <2>2 DEF PaidInto, WasPaid
      <3> QED BY <1>1, <1>2, <2>2, <3>1 DEF PaidKept, WasPaid
    <2>6. SwiftGood'
      <3>1. swiftNo' \in Transfers
        BY <2>1 DEF PaymentInv, SwiftGood
      <3>2. ASSUME screens, ~Moves, swiftNo # NoTransfer
            PROVE  \E j \in Ids : /\ requests'[j].linked
                                  /\ WasPaid(requests'[j])
                                  /\ requests'[j].transfer = swiftNo
        <4>1. PICK j \in Ids : /\ requests[j].linked
                               /\ WasPaid(requests[j])
                               /\ requests[j].transfer = swiftNo
          BY <3>2 DEF PaymentInv, SwiftGood, SwiftNoOfPayment
        <4>2. j # i
          BY <1>1, <1>5, <4>1
        <4> QED BY <2>2, <4>1, <4>2
      <3> QED BY <1>2, <2>1, <2>2, <3>1, <3>2 DEF SwiftGood, SwiftNoOfPayment
    <2>7. RestTyped'
      BY <1>2, <2>1 DEF PaymentInv, RestTyped
    <2> QED BY <1>1, <2>2, <2>4, <2>5, <2>6, <2>7 DEF Paying
  <1> QED BY <1>4, <1>5

\* A reconciliation that does not pay is no request of the screens.
LEMMA SettleGood ==
  ASSUME PaymentInv, NEW i \in Ids, NEW x \in Transfers \ {NoTransfer},
         NEW e \in BOOLEAN, NEW a \in BOOLEAN, Settle(i, x, e, a)
  PROVE  Paying(i)
  <1>1. CASE e
    BY <1>1, CompleteGood DEF Settle
  <1>2. CASE ~e
    <2> DEFINE row == [requests[i] EXCEPT !.transfer = x]
    <2>1. row \in Row
      BY RowGood DEF Row
    <2>2. /\ ~screens /\ UNCHANGED <<acidTasks, screens>>
          /\ requests' = [requests EXCEPT ![i] = row]
          /\ swiftNo' \in {x, swiftNo}
      BY <1>2 DEF Settle
    <2>3. requests' \in Seq(Row) /\ Ids' = Ids /\ Len(requests') = Len(requests)
      BY <2>1, <2>2, ReplaceRow DEF PaymentInv, RequestsGood, Ids
    <2>4. RequestsGood'
      BY <2>2, <2>3 DEF PaymentInv, RequestsGood, Settled
    <2>5. SwiftGood'
      BY <2>2 DEF PaymentInv, SwiftGood, SwiftNoOfPayment
    <2> QED BY <2>2, <2>3, <2>4, <2>5 DEF Paying, PaidKept, PaymentInv, RestTyped
  <1> QED BY <1>1, <1>2

\* Payments that leave the batches alone.
LEMMA DirectGood ==
  ASSUME PaymentInv, NEW i \in Ids,
         \/ \E g, a \in BOOLEAN : Execute(i, g, a)
         \/ \E e, a \in BOOLEAN : Reconcile(i, e, a)
  PROVE  PaymentInv' /\ PaidKept
  <1>1. ASSUME NEW g \in BOOLEAN, NEW a \in BOOLEAN, Execute(i, g, a)
        PROVE  Paying(i) /\ UNCHANGED batches
    <2> DEFINE x == IF g \/ requests[i].transfer = NoTransfer
                    THEN Typed ELSE requests[i].transfer
    <2>1. x \in Transfers \ {NoTransfer}
      BY RowGood, TransferRange DEF Row
    <2>2. Complete(i, x, a) /\ UNCHANGED batches
      BY <1>1 DEF Execute
    <2> QED BY <2>1, <2>2, CompleteGood
  <1>2. ASSUME NEW e \in BOOLEAN, NEW a \in BOOLEAN, Reconcile(i, e, a)
        PROVE  Paying(i) /\ UNCHANGED batches
    BY <1>2, TransferRange, SettleGood DEF Reconcile
  <1>3. Paying(i) /\ UNCHANGED batches
    BY <1>1, <1>2
  <1> QED BY <1>3, BatchesKept DEF Paying, PaymentInv

-----------------------------------------------------------------------------
(* Batches.                                                                *)

\* A batch is matched with a request in the act of paying it.
LEMMA ReconcileBatchGood ==
  ASSUME PaymentInv, NEW b \in DOMAIN batches, NEW i \in Ids,
         NEW e \in BOOLEAN, NEW a \in BOOLEAN, ReconcileBatch(b, i, e, a)
  PROVE  PaymentInv' /\ PaidKept
  <1> DEFINE row == [batches[b] EXCEPT !.status = "Reconciled", !.matched = i]
  <1>1. batches \in Seq(Batch) /\ Len(batches) <= MaxBatches /\ batches[b] \in Batch
    BY DEF PaymentInv, BatchesGood
  <1>2. b \in 1..MaxBatches
    BY <1>1, BoundsAssumption
  <1>3. Paying(i)
    BY <1>2, TransferRange, SettleGood DEF ReconcileBatch
  <1>4. i \in 0..MaxRequests
    BY BoundsAssumption DEF PaymentInv, RequestsGood, Ids
  <1>5. row \in Batch /\ row.matched = i
    BY <1>1, <1>4 DEF Batch
  <1>6. batches' = [batches EXCEPT ![b] = row]
    BY DEF ReconcileBatch
  <1>7. /\ batches' \in Seq(Batch) /\ DOMAIN batches' = DOMAIN batches
        /\ Len(batches') = Len(batches)
        /\ \A c \in DOMAIN batches :
             batches'[c] = IF c = b THEN row ELSE batches[c]
    BY <1>1, <1>5, <1>6, ReplaceRow
  <1>8. MatchedWasPaid'
    BY <1>3, <1>5, <1>7 DEF PaymentInv, BatchesGood, MatchedWasPaid, Paying, PaidKept
  <1> QED BY <1>1, <1>3, <1>7, <1>8 DEF PaymentInv, BatchesGood, Paying

\* The review of a batch changes nothing but the batch, and not its match.
LEMMA ReviewGood ==
  ASSUME PaymentInv,
         \/ \E c \in BOOLEAN : Extract(c)
         \/ \E b \in DOMAIN batches, c \in BOOLEAN :
              EditField(b, c) \/ ReExtractField(b, c)
         \/ \E b \in DOMAIN batches : Confirm(b)
  PROVE  PaymentInv' /\ PaidKept
  <1>1. UNCHANGED <<requests, swiftNo, acidTasks, screens>>
    BY DEF Extract, EditField, ReExtractField, Confirm, StoreBatch
  <1>2. PaidKept /\ TracesKept /\ RequestsGood' /\ RestTyped' /\ SwiftGood'
    BY <1>1 DEF PaidKept, PaidInto, TracesKept, Ids, PaymentInv, RequestsGood, RestTyped,
                SwiftGood, SwiftNoOfPayment, Settled
  <1>3. batches \in Seq(Batch) /\ Len(batches) <= MaxBatches /\ MatchedWasPaid
    BY DEF PaymentInv, BatchesGood
  <1>4. ASSUME NEW c \in BOOLEAN, Extract(c)
        PROVE  BatchesGood'
    <2> DEFINE row == [status |-> "Pending Review", complete |-> c, matched |-> 0]
    <2>1. row \in Batch /\ row.matched = 0
      BY BoundsAssumption DEF Batch
    <2>2. batches' = Append(batches, row) /\ Len(batches) < MaxBatches
      BY <1>4 DEF Extract
    <2> HIDE DEF row
    <2>3. /\ batches' \in Seq(Batch) /\ Len(batches') = Len(batches) + 1
          /\ \A d \in DOMAIN batches : batches'[d] = batches[d]
          /\ \A d \in DOMAIN batches' : d \in DOMAIN batches \/ batches'[d] = row
      BY <1>3, <2>1, <2>2, AppendRow
    <2>4. Len(batches') <= MaxBatches
      BY <1>3, <2>2, <2>3, BoundsAssumption
    <2>5. MatchedWasPaid'
      BY <1>1, <1>3, <2>1, <2>3 DEF MatchedWasPaid, Ids
    <2> QED BY <2>3, <2>4, <2>5 DEF BatchesGood
  <1>5. ASSUME NEW b \in DOMAIN batches, NEW row \in Batch,
               row.matched = batches[b].matched, StoreBatch(b, row)
        PROVE  BatchesGood'
    <2>1. /\ batches' \in Seq(Batch) /\ DOMAIN batches' = DOMAIN batches
          /\ Len(batches') = Len(batches)
          /\ \A c \in DOMAIN batches :
               batches'[c] = IF c = b THEN row ELSE batches[c]
      BY <1>3, <1>5, ReplaceRow DEF StoreBatch
    <2>2. MatchedWasPaid'
      BY <1>1, <1>3, <1>5, <2>1 DEF MatchedWasPaid, Ids
    <2> QED BY <1>3, <2>1, <2>2 DEF BatchesGood
  <1>6. ASSUME NEW b \in DOMAIN batches, NEW c \in BOOLEAN,
               EditField(b, c) \/ ReExtractField(b, c)
        PROVE  BatchesGood'
    <2> DEFINE row == [batches[b] EXCEPT !.complete = c]
    <2>0. batches[b] \in Batch
      BY <1>3
    <2>1. row \in Batch /\ row.matched = batches[b].matched
      BY <2>0 DEF Batch
    <2>2. StoreBatch(b, row)
      BY <1>6 DEF EditField, ReExtractField
    <2> QED BY <1>5, <2>1, <2>2
  <1>7. ASSUME NEW b \in DOMAIN batches, Confirm(b)
        PROVE  BatchesGood'
    <2> DEFINE row == [batches[b] EXCEPT !.status = "Reviewed"]
    <2>0. batches[b] \in Batch
      BY <1>3
    <2>1. row \in Batch /\ row.matched = batches[b].matched
      BY <2>0 DEF Batch
    <2>2. StoreBatch(b, row)
      BY <1>7 DEF Confirm
    <2> QED BY <1>5, <2>1, <2>2
  <1> QED BY <1>2, <1>4, <1>6, <1>7 DEF PaymentInv

\* A task for the ACID number is closed.
LEMMA FinishAcidGood ==
  ASSUME PaymentInv, NEW t, FinishAcid(t)
  PROVE  PaymentInv' /\ PaidKept
  BY DEF FinishAcid, PaymentInv, RequestsGood, SwiftGood, BatchesGood, RestTyped,
         PaidKept, PaidInto, Settled, SwiftNoOfPayment, MatchedWasPaid, Ids

-----------------------------------------------------------------------------
(* The invariant and what follows.                                         *)

\* No request has been made at first.
LEMMA PaymentInit == Init => PaymentInv
  BY BoundsAssumption, TransferRange
     DEF Init, PaymentInv, RequestsGood, SwiftGood, BatchesGood, RestTyped,
         SwiftNoOfPayment, MatchedWasPaid, Ids

LEMMA PaymentStep == PaymentInv /\ [Next]_vars => PaymentInv' /\ PaidKept
  <1> SUFFICES ASSUME PaymentInv, [Next]_vars PROVE PaymentInv' /\ PaidKept
    OBVIOUS
  <1>1. CASE \/ \E t \in Types, l \in BOOLEAN, s \in Statuses : Create(t, l, s)
             \/ \E i \in Ids, u \in BOOLEAN : Clone(i, u)
    BY <1>1, InsertsGood
  <1>2. CASE \E i \in Ids, t \in Types, l \in BOOLEAN, s \in Statuses,
               x \in Transfers : Update(i, t, l, s, x)
    BY <1>2, UpdateGood
  <1>3. CASE \E i \in Ids : Approve(i) \/ Delete(i) \/ Restore(i)
    BY <1>3, RewriteGood
  <1>4. CASE \E i \in Ids : \/ \E g, a \in BOOLEAN : Execute(i, g, a)
                            \/ \E e, a \in BOOLEAN : Reconcile(i, e, a)
    BY <1>4, DirectGood
  <1>5. CASE \/ \E c \in BOOLEAN : Extract(c)
             \/ \E b \in DOMAIN batches, c \in BOOLEAN :
                  EditField(b, c) \/ ReExtractField(b, c)
             \/ \E b \in DOMAIN batches : Confirm(b)
    BY <1>5, ReviewGood
  <1>6. CASE \E b \in DOMAIN batches, i \in Ids, e, a \in BOOLEAN :
               ReconcileBatch(b, i, e, a)
    BY <1>6, ReconcileBatchGood
  <1>7. CASE \E t \in acidTasks : FinishAcid(t)
    BY <1>7, FinishAcidGood
  <1>8. CASE UNCHANGED vars
    BY <1>8 DEF vars, PaymentInv, RequestsGood, SwiftGood, BatchesGood, RestTyped,
                PaidKept, PaidInto, Settled, SwiftNoOfPayment, MatchedWasPaid, Ids
  <1> QED BY <1>1, <1>2, <1>3, <1>4, <1>5, <1>6, <1>7, <1>8 DEF Next

\* In every reachable state all parts hold.
THEOREM PaymentAlways == Spec => []PaymentInv
  BY PaymentInit, PaymentStep, PTL DEF Spec

\* Requests, batches, the file's SWIFT number and the tasks keep their types.
THEOREM PaymentTyped == Spec => []TypeOK
  <1>1. PaymentInv => TypeOK
    BY DEF PaymentInv, RequestsGood, SwiftGood, BatchesGood, RestTyped, TypeOK
  <1> QED BY <1>1, PaymentAlways, PTL

\* From the screens, a paid request names its transfer and has no open task.
THEOREM PaymentsSettled == Spec => []PaidIsSettled
  <1>1. PaymentInv => PaidIsSettled
    BY DEF PaymentInv, RequestsGood, Settled, PaidIsSettled
  <1> QED BY <1>1, PaymentAlways, PTL

\* From the screens, the file shows the transfer of a request that was paid.
THEOREM FileShowsPayment == Spec => []SwiftNoOfPayment
  <1>1. PaymentInv => SwiftNoOfPayment
    BY DEF PaymentInv, SwiftGood
  <1> QED BY <1>1, PaymentAlways, PTL

\* From the screens, a batch is matched with a request that was paid.
THEOREM BatchesMatchPayments == Spec => []MatchedWasPaid
  <1>1. PaymentInv => MatchedWasPaid
    BY DEF PaymentInv, BatchesGood
  <1> QED BY <1>1, PaymentAlways, PTL

\* From the screens, file and batches show payments that were made.
THEOREM PaymentsAreShown == Spec => []PaymentsShown
  <1>1. SwiftNoOfPayment /\ MatchedWasPaid => PaymentsShown
    BY DEF PaymentsShown
  <1> QED BY <1>1, FileShowsPayment, BatchesMatchPayments, PTL

\* From the screens, nothing but a late approval undoes a payment.
THEOREM PaymentsUndoneByApproval == Spec => UndoneByApprovalOnly
  <1>1. PaymentInv /\ [Next]_vars =>
          [screens => \A i \in Ids :
             requests[i].status = "Paid" /\ requests'[i].status # "Paid" =>
               requests'[i] = [requests[i] EXCEPT !.status = "Approved",
                                                  !.approved = TRUE]]_vars
    BY PaymentStep DEF PaidKept, PaidInto
  <1> QED BY <1>1, PaymentAlways, PTL DEF Spec, UndoneByApprovalOnly
=============================================================================
