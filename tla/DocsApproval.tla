---------------------------- MODULE DocsApproval ----------------------------
(***************************************************************************)
(* The dual sign-off of one pre-clearance document (Docs Customs Approval  *)
(* Hub): the commercial reviewer and the customs broker each set their     *)
(* tier, and the overall status is derived from both. Records carry a      *)
(* version: a client may send the one it was shown, and the service        *)
(* compares it before it writes (modules/common/concurrency.py). The       *)
(* comparison and the write are two database round trips. Other modules    *)
(* certify documents by writing the row themselves, and leave its version. *)
(***************************************************************************)
EXTENDS Integers, FiniteSets

CONSTANTS
  Users,        \* clients with the document on screen (a bound)
  MaxInFlight,  \* how many of their requests run at the same time
  MaxVersion,   \* bound on the number of saves
  StatusEdits   \* whether a client sends status fields to the PUT endpoint

ASSUME BoundsAssumption == MaxInFlight \in Nat \ {0} /\ MaxVersion \in Nat \ {0}
ASSUME EditsAssumption == StatusEdits \in BOOLEAN

CommercialReview == {"Approved", "Rejected", "Under Review"}
CustomsReview == {"Approved", "Rejected", "Conditionally Approved"}
Overall == {"Draft", "Pending Review", "Under Review", "Approved for Clearance",
            "Conditionally Approved", "Rectification Required", "Rejected"}
\* "shipping": the invoice, the bill of lading and the certificate of origin,
\* which other modules certify; "plain": the types no other module writes.
Kind == {"shipping", "packing list", "originals", "plain"}
Document ==
  [kind       : Kind,
   commercial : CommercialReview \cup {"Pending"},
   customs    : CustomsReview \cup {"Pending"},
   overall    : Overall,
   version    : 1 .. MaxVersion,
   active     : BOOLEAN]

VARIABLES
  doc,   \* the row of customs_document_approvals
  form,  \* what each user has on screen
  job    \* requests between their comparison and their commit, by user: the
         \* row as loaded, the row as it will be, its version aside, whether the
         \* request carried the version of the form, and whether it raises it

vars == <<doc, form, job>>

Busy == DOMAIN job
Job == [from : Document, to : Document, carries : BOOLEAN, raises : BOOLEAN]

TypeOK ==
  /\ doc \in Document
  /\ form \in [Users -> Document]
  /\ Busy \subseteq Users /\ job \in [Busy -> Job]

\* A row created by hand is a Draft, one of the generated checklist awaits
\* review; the row of the originals is born when they have been received.
CreatedRow(k, tier, o) ==
  [kind |-> k, commercial |-> tier, customs |-> tier, overall |-> o,
   version |-> 1, active |-> TRUE]

Init ==
  /\ \/ \E k \in Kind \ {"originals"}, o \in {"Draft", "Pending Review"} :
           doc = CreatedRow(k, "Pending", o)
     \/ doc = CreatedRow("originals", "Approved", "Approved for Clearance")
  /\ form = [u \in Users |-> doc]
  /\ job = [u \in {} |-> doc]

-----------------------------------------------------------------------------
(* The overall status, derived by each review from its own tier.           *)

AfterCommercial(d) ==
  CASE d.commercial = "Approved" /\ d.customs = "Approved" -> "Approved for Clearance"
    [] d.commercial = "Rejected" -> "Rectification Required"
    [] OTHER -> "Under Review"

\* Slip: takes the broker's verdict as the overall status.
AfterCustomsVerbatim(d) == d.customs

AfterCustoms(d) ==
  CASE d.commercial = "Approved" /\ d.customs = "Approved" -> "Approved for Clearance"
    [] d.customs = "Rejected" -> "Rectification Required"
    [] d.customs = "Conditionally Approved" -> "Conditionally Approved"
    [] OTHER -> "Under Review"

\* Slip: stores the reviewer's verdict and leaves the overall status alone.
CustomsVerdictOnly(d, s) == [d EXCEPT !.customs = s]

CommercialVerdict(d, s) ==
  LET reviewed == [d EXCEPT !.commercial = s]
  IN  [reviewed EXCEPT !.overall = AfterCommercial(reviewed)]

CustomsVerdict(d, s) ==
  LET reviewed == [d EXCEPT !.customs = s]
  IN  [reviewed EXCEPT !.overall = AfterCustoms(reviewed)]

\* The PUT endpoint stores the fields it is given and derives nothing.
Edited(d) ==
  IF StatusEdits
  THEN {e \in Document : /\ e.kind = d.kind
                         /\ e.version = d.version /\ e.active = d.active}
  ELSE {d}

(* What other modules write when they certify a document.                  *)

\* The draft B/L review, the certificate of origin review and the invoice and
\* B/L match do as a commercial reviewer who approves.
CertifiedReview(d) == CommercialVerdict(d, "Approved")

\* The match approves the packing list's tier and derives nothing.
CertifiedPackingList(d) == [d EXCEPT !.commercial = "Approved"]

\* Received originals count as approved by both.
CertifiedOriginals(d) ==
  [d EXCEPT !.commercial = "Approved", !.customs = "Approved",
            !.overall = "Approved for Clearance"]

Certified(d) ==
  CASE d.kind = "shipping" -> CertifiedReview(d)
    [] d.kind = "packing list" -> CertifiedPackingList(d)
    [] d.kind = "originals" -> CertifiedOriginals(d)
    [] OTHER -> d

-----------------------------------------------------------------------------
\* The client fetches the document.
Show(u) ==
  /\ u \notin Busy /\ doc.active
  /\ form' = [form EXCEPT ![u] = doc]
  /\ UNCHANGED <<doc, job>>

\* A session loads the row and works on it.
Begin(u, row, carries, raises) ==
  /\ u \notin Busy /\ Cardinality(Busy) < MaxInFlight
  /\ job' = [v \in Busy \cup {u} |->
               IF v = u
               THEN [from |-> doc, to |-> row, carries |-> carries, raises |-> raises]
               ELSE job[v]]
  /\ UNCHANGED <<doc, form>>

\* Slip: does not compare the versions.
LoadUnchecked(u, row, carries) == doc.active /\ Begin(u, row, carries, TRUE)

\* The row is loaded and, when the request carries a version, compared: a
\* different one ends the request with a 409 and an entry in the conflict log.
Load(u, row, carries) ==
  /\ doc.active
  /\ carries => form[u].version = doc.version
  /\ Begin(u, row, carries, TRUE)

SubmitCommercialReview(u) ==
  \E s \in CommercialReview, carries \in BOOLEAN :
    Load(u, CommercialVerdict(doc, s), carries)

SubmitCustomsBrokerReview(u) ==
  \E s \in CustomsReview, carries \in BOOLEAN :
    Load(u, CustomsVerdict(doc, s), carries)

Update(u) ==
  \E row \in Edited(doc), carries \in BOOLEAN : Load(u, row, carries)

\* Another module certifies the document, the originals even when deleted.
Certify(u) ==
  /\ doc.kind # "plain"
  /\ doc.active \/ doc.kind = "originals"
  /\ Begin(u, Certified(doc), FALSE, FALSE)

\* The session writes the columns whose value differs from what it loaded.
Written(old, new, stored) == IF new = old THEN stored ELSE new

Merged(from, to) ==
  [doc EXCEPT !.commercial = Written(from.commercial, to.commercial, @),
              !.customs = Written(from.customs, to.customs, @),
              !.overall = Written(from.overall, to.overall, @)]

End(u) == job' = [v \in Busy \ {u} |-> job[v]]

\* update_approval: the version is one more than the one loaded. The answer is
\* the refreshed row.
Save(u) ==
  /\ u \in Busy /\ job[u].raises
  /\ job[u].from.version < MaxVersion
  /\ doc' = [Merged(job[u].from, job[u].to) EXCEPT !.version = job[u].from.version + 1]
  /\ form' = [form EXCEPT ![u] = doc']
  /\ End(u)

\* The commit of a certification.
SaveCertified(u) ==
  /\ u \in Busy /\ ~job[u].raises
  /\ doc' = Merged(job[u].from, job[u].to)
  /\ End(u)
  /\ UNCHANGED form

\* soft_delete_approval
Delete ==
  /\ doc' = [doc EXCEPT !.active = FALSE]
  /\ UNCHANGED <<form, job>>

Next ==
  \/ \E u \in Users :
       Show(u) \/ SubmitCommercialReview(u) \/ SubmitCustomsBrokerReview(u)
       \/ Update(u) \/ Certify(u) \/ Save(u) \/ SaveCertified(u)
  \/ Delete

Spec == Init /\ [][Next]_vars

-----------------------------------------------------------------------------
\* What run_cross_document_matrix_check makes of the row: an overall approval
\* counts before either tier's rejection does.
Cleared(d) ==
  \/ d.overall = "Approved for Clearance"
  \/ d.commercial = "Approved" /\ d.customs = "Approved"
Refused(d) ==
  \/ d.overall \in {"Rectification Required", "Rejected"}
  \/ d.commercial = "Rejected" \/ d.customs = "Rejected"
MatrixStatus(d) ==
  IF Cleared(d) THEN "Match" ELSE IF Refused(d) THEN "Mismatch" ELSE "Warning"

-----------------------------------------------------------------------------
(* Properties.                                                             *)

\* The matrix check clears the document exactly when both tiers approve it, in
\* whatever order, and however often, the two reviewers change their minds
\* (each review derives the overall status with a rule of its own).
ClearedByBoth ==
  ~StatusEdits =>
    (MatrixStatus(doc) = "Match"
       <=> doc.commercial = "Approved" /\ doc.customs = "Approved")

\* A document a reviewer rejects is never reported as compliant or as merely
\* under review.
RejectionShows ==
  ~StatusEdits /\ (doc.commercial = "Rejected" \/ doc.customs = "Rejected") =>
    MatrixStatus(doc) = "Mismatch"

\* Both at once: the verdict of the matrix is that of the two reviewers.
VerdictOfBoth == ClearedByBoth /\ RejectionShows

\* What the version comparison does protect: a request that carries the version
\* of its form replaces what its user was shown and no review or edit saved
\* since, except that another module may have certified the document meanwhile.
NoLostReview ==
  [][\A u \in Users :
       u \in Busy /\ u \notin Busy' /\ job[u].carries =>
         [doc EXCEPT !.active = TRUE] \in {form[u], Certified(form[u])}]_vars

=============================================================================
