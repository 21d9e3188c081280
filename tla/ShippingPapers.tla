--------------------------- MODULE ShippingPapers ---------------------------
(***************************************************************************)
(* The papers of one shipment from its departure to the customs broker,    *)
(* and the tasks by which four modules hand the file on: the departure of  *)
(* modules/freight_booking asks for the review of the draft bill of lading *)
(* (SH-02), its certification in modules/import_documentation for the      *)
(* transfer by CargoX (SH-03), the transfer of modules/cargox for the      *)
(* original documents (SH-04), and their receipt in modules/               *)
(* original_documents_collection for a broker (CS-01).                     *)
(*                                                                         *)
(* A review's id is its place in `reviews`, an envelope's in `envelopes`;  *)
(* both are those of the one file.  The board's advance and the approvals  *)
(* these operations write are modelled in LifecycleBoard and DocsApproval. *)
(* Left out: which fields differ, letters, names and dates; the deletion   *)
(* of envelopes and collections; the PUTs of a review and of an envelope,  *)
(* which no client sends; people who edit tasks by hand.  Each request is  *)
(* one step.                                                               *)
(***************************************************************************)
EXTENDS Integers, Sequences

CONSTANTS
  MaxReviews,   \* bound: rows of draft_bl_review_sessions
  MaxEnvelopes  \* bound: rows of cargox_envelopes

ASSUME BoundsAssumption == MaxReviews \in Nat /\ MaxEnvelopes \in Nat

VARIABLES
  reviews,    \* draft_bl_review_sessions
  envelopes,  \* cargox_envelopes
  originals,  \* the file's collection of original documents
  tasks,      \* how many open tasks of each title the file has
  past        \* what has happened to the file

vars == <<reviews, envelopes, originals, tasks, past>>

Ids == DOMAIN reviews
EnvelopeIds == DOMAIN envelopes

Titles == {"SH-02", "SH-03", "SH-04", "CS-01"}

\* importer, broker: who has approved; code: the number, and for each new
\* version of it the version's.
Review == [active : BOOLEAN, draft : BOOLEAN, open : BOOLEAN,
           blocking : BOOLEAN, importer : BOOLEAN, broker : BOOLEAN,
           status : {"DRAFT", "REVISION_REQUIRED", "REVIEWED_PENDING_APPROVAL",
                     "APPROVED", "FINAL"},
           code : Seq(Nat)]

\* complete: invoice, packing list and bill of lading are attached; the other
\* statuses of an envelope that customs has not accepted make no difference.
Envelope == [complete : BOOLEAN, accepted : BOOLEAN]

\* full: all documents were received, or all verified.
Collection == {"none", "partial", "full"}

\* certified: a review was completed; form4: the bank's document came in;
\* broker: there is a CS-01, open or not.
Events == {"certified", "form4", "broker"}

TypeOK == /\ reviews \in Seq(Review)
          /\ envelopes \in Seq(Envelope)
          /\ originals \in Collection
          /\ tasks \in [Titles -> Nat]
          /\ past \in [Events -> BOOLEAN]

\* The departure has been confirmed, for the first time.
Init == /\ reviews = <<>>
        /\ envelopes = <<>>
        /\ originals = "none"
        /\ tasks = [t \in Titles |-> IF t = "SH-02" THEN 1 ELSE 0]
        /\ past = [e \in Events |-> FALSE]

-----------------------------------------------------------------------------
(* freight_booking: the departure                                          *)

\* Slip: the new task is created before the older ones are closed, whose
\* titles name the bill of lading too.
AskedThenClosed(t) == [tasks EXCEPT ![t] = 0]

Asked(t) == [tasks EXCEPT ![t] = 1]

\* Confirmed again, say with another bill of lading, the older task makes
\* room for the new one.
Depart == /\ tasks' = Asked("SH-02")
          /\ UNCHANGED <<reviews, envelopes, originals, past>>

-----------------------------------------------------------------------------
(* import_documentation: the reviews of the draft bill of lading           *)

ActiveIds == {i \in Ids : reviews[i].active}
Certified == {i \in ActiveIds : ~reviews[i].draft}
Newest(i) == i \in ActiveIds /\ \A j \in ActiveIds : j <= i

\* generate_bl_review_code: one more than the last row's number, and one when
\* that row's code ends in a version.
GeneratedCode == IF reviews # <<>> /\ Len(reviews[Len(reviews)].code) = 1
                 THEN <<reviews[Len(reviews)].code[1] + 1>>
                 ELSE <<1>>

\* An INSERT; the code is unique.
Insert(row) == /\ Len(reviews) < MaxReviews
               /\ \A i \in Ids : reviews[i].code # row.code
               /\ reviews' = Append(reviews, row)
               /\ UNCHANGED <<envelopes, originals>>

Store(i, row) == /\ reviews' = [reviews EXCEPT ![i] = row]
                 /\ UNCHANGED <<envelopes, originals>>

Quiet == UNCHANGED <<tasks, past>>

\* _complete_draft_bl_review_workflow
Complete == /\ tasks' = [tasks EXCEPT !["SH-02"] = 0,
                                      !["SH-03"] = IF @ = 0 THEN 1 ELSE @]
            /\ past' = [past EXCEPT !["certified"] = TRUE]

NewRow(draft, open, blocking, status, code) ==
  [active |-> TRUE, draft |-> draft, open |-> open, blocking |-> blocking,
   importer |-> FALSE, broker |-> FALSE, status |-> status, code |-> code]

\* The newest review, while it is a draft, is the one that is saved over,
\* with whatever was answered to it.
SaveDraft(open, blocking) ==
  /\ \/ \E i \in ActiveIds :
          /\ Newest(i)
          /\ reviews[i].draft
          /\ Store(i, [reviews[i] EXCEPT !.open = open, !.blocking = blocking,
                                         !.status = "DRAFT"])
     \/ /\ \A i \in ActiveIds : Newest(i) => ~reviews[i].draft
        /\ Insert(NewRow(TRUE, open, blocking, "DRAFT", GeneratedCode))
  /\ Quiet

\* The client always sends its checklist: a review without discrepancies is
\* final at once, whoever was asked to approve it.
Create(open, blocking) ==
  /\ Certified = {}
  /\ IF open \/ blocking
     THEN /\ Insert(NewRow(FALSE, open, blocking, "REVISION_REQUIRED",
                           GeneratedCode))
          /\ Quiet
     ELSE /\ Insert(NewRow(FALSE, FALSE, FALSE, "APPROVED", GeneratedCode))
          /\ Complete

SaveChecklistKeeping(i, open) ==  \* Slip: what was final stays final.
  /\ reviews[i].active
  /\ Store(i, [reviews[i] EXCEPT
                 !.open = open,
                 !.status = IF @ = "FINAL" THEN @
                            ELSE IF open THEN "REVISION_REQUIRED"
                            ELSE "REVIEWED_PENDING_APPROVAL"])
  /\ Quiet

\* The answers given to the earlier checklist stay.
SaveChecklist(i, open) ==
  /\ reviews[i].active
  /\ Store(i, [reviews[i] EXCEPT
                 !.open = open,
                 !.status = IF open THEN "REVISION_REQUIRED"
                            ELSE "REVIEWED_PENDING_APPROVAL"])
  /\ Quiet

Answered(row, tier, approved) ==
  IF tier = "importer" THEN [row EXCEPT !.importer = approved]
  ELSE [row EXCEPT !.broker = approved]

BothApproved(row) == row.importer /\ row.broker

\* process_dual_approval_service: it looks at the open discrepancies only.
Answer(i, tier, approved) ==
  LET row == Answered(reviews[i], tier, approved)
  IN  /\ reviews[i].active
      /\ ~reviews[i].open
      /\ IF BothApproved(row)
         THEN Store(i, [row EXCEPT !.status = "FINAL"]) /\ Complete
         ELSE /\ Store(i, IF approved THEN row
                          ELSE [row EXCEPT !.status = "REVISION_REQUIRED"])
              /\ Quiet

\* One person, for both.
ApproveAlone(i) ==
  /\ reviews[i].active
  /\ ~reviews[i].open /\ ~reviews[i].blocking
  /\ Store(i, [reviews[i] EXCEPT !.status = "FINAL", !.importer = TRUE,
                                 !.broker = TRUE])
  /\ Complete

\* A version of its own, with no answer yet.  The older one stays active.
NewVersion(i, open, blocking) ==
  LET code == reviews[i].code
  IN  /\ reviews[i].active
      /\ Insert(NewRow(FALSE, open, blocking,
                       IF open THEN "REVISION_REQUIRED"
                       ELSE "REVIEWED_PENDING_APPROVAL",
                       Append(code, Len(code) + 1)))
      /\ Quiet

Delete(i) == /\ Store(i, [reviews[i] EXCEPT !.active = FALSE])
             /\ Quiet

\* _handle_banking_document_verification_workflow: the words by which it finds
\* the bank's tasks are also in SH-03 and CS-01.
ReceiveForm4 == /\ tasks' = [tasks EXCEPT !["SH-03"] = 0, !["CS-01"] = 0]
                /\ past' = [past EXCEPT !["form4"] = TRUE]
                /\ UNCHANGED <<reviews, envelopes, originals>>

-----------------------------------------------------------------------------
(* cargox                                                                  *)

\* A draft may have no document; no operation adds one later.
CreateEnvelope(complete) ==
  /\ Len(envelopes) < MaxEnvelopes
  /\ envelopes' = Append(envelopes, [complete |-> complete, accepted |-> FALSE])
  /\ UNCHANGED <<reviews, originals, tasks, past>>

SealCounting(e) ==  \* Slip: one task is expected to have asked for it.
  /\ envelopes[e].complete /\ ~envelopes[e].accepted
  /\ envelopes' = [envelopes EXCEPT ![e].accepted = TRUE]
  /\ tasks' = [tasks EXCEPT !["SH-03"] = @ - 1, !["SH-04"] = @ + 1]
  /\ UNCHANGED <<reviews, originals, past>>

\* seal_and_transfer_to_customs: whatever became of the review.
Seal(e) ==
  /\ envelopes[e].complete /\ ~envelopes[e].accepted
  /\ envelopes' = [envelopes EXCEPT ![e].accepted = TRUE]
  /\ tasks' = [tasks EXCEPT !["SH-03"] = 0, !["SH-04"] = @ + 1]
  /\ UNCHANGED <<reviews, originals, past>>

-----------------------------------------------------------------------------
(* original_documents_collection                                           *)

\* Every save closes the task, however little was received; the first CS-01
\* of a file is the only one.
Collect(status) ==
  /\ originals' = status
  /\ tasks' = [tasks EXCEPT
                 !["SH-04"] = 0,
                 !["CS-01"] = IF status = "full" /\ ~past["broker"] THEN 1
                              ELSE @]
  /\ past' = [past EXCEPT !["broker"] = @ \/ status = "full"]
  /\ UNCHANGED <<reviews, envelopes>>

\* The client sends the whole list, which may take a receipt back.
SaveCollection(status) == Collect(status)

\* confirm_courier_receipt: documents are added to those received.
ReceiveParcel(status) == /\ originals # "none"
                         /\ originals = "full" => status = "full"
                         /\ Collect(status)

\* customs_clearance appoints the broker.
AppointBroker == /\ tasks' = [tasks EXCEPT !["CS-01"] = 0]
                 /\ UNCHANGED <<reviews, envelopes, originals, past>>

Next ==
  \/ Depart
  \/ \E open, blocking \in BOOLEAN :
       \/ SaveDraft(open, blocking)
       \/ Create(open, blocking)
       \/ \E i \in Ids : NewVersion(i, open, blocking)
  \/ \E i \in Ids :
       \/ \E open \in BOOLEAN : SaveChecklist(i, open)
       \/ \E tier \in {"importer", "customs_broker"}, approved \in BOOLEAN :
            Answer(i, tier, approved)
       \/ ApproveAlone(i)
       \/ Delete(i)
  \/ ReceiveForm4
  \/ \E complete \in BOOLEAN : CreateEnvelope(complete)
  \/ \E e \in EnvelopeIds : Seal(e)
  \/ \E status \in {"partial", "full"} :
       SaveCollection(status) \/ ReceiveParcel(status)
  \/ AppointBroker

Spec == Init /\ [][Next]_vars

-----------------------------------------------------------------------------
(* Properties                                                              *)

(* A review is FINAL only while both parties' approvals stand and nothing  *)
(* is open: not after a rejection, not with a checklist edited since, and  *)
(* not as a new version of a final one.                                    *)
FinalIsEarned ==
  \A i \in Ids : reviews[i].status = "FINAL" =>
    BothApproved(reviews[i]) /\ ~reviews[i].open

Sealed == \E e \in EnvelopeIds : envelopes[e].accepted

(* The file is handed on from one module to the next, in whatever order   *)
(* the four of them work and repeat themselves: the review stays asked for *)
(* until one was certified, the transfer until an envelope was sealed, and *)
(* the originals until a collection was saved.  Only the bank's Form 4     *)
(* takes the transfer's task away.                                         *)
PapersHandedOn ==
  /\ tasks["SH-02"] > 0 \/ past["certified"]
  /\ past["certified"] => tasks["SH-03"] > 0 \/ past["form4"] \/ Sealed
  /\ Sealed => tasks["SH-04"] > 0 \/ originals # "none"
=============================================================================
