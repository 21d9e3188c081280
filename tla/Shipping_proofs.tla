-------------------------- MODULE Shipping_proofs --------------------------
(***************************************************************************)
(* What holds of one shipment's papers for any number of reviews and       *)
(* envelopes, and of the shipping records of several files.  The invariant *)
(* of the papers splits into what the reviews satisfy, each of them by     *)
(* itself, and what tasks, envelopes and originals satisfy together: few   *)
(* actions disturb both.  The second part is about CargoShipping, which    *)
(* shares no state with the papers.                                        *)
(***************************************************************************)
EXTENDS ShippingPapers, CargoShipping, TLAPS

Sound(r) == r.status = "FINAL" => BothApproved(r) /\ ~r.open

ReviewsGood == reviews \in Seq(Review) /\ \A i \in Ids : Sound(reviews[i])

HandOver == /\ envelopes \in Seq(Envelope)
            /\ originals \in Collection
            /\ tasks \in [Titles -> Nat]
            /\ past \in [Events -> BOOLEAN]
            /\ PapersHandedOn

PapersInv == ReviewsGood /\ HandOver

-----------------------------------------------------------------------------
(* The reviews                                                             *)

\* A sound row at the end of the table.
LEMMA InsertGood ==
  ASSUME ReviewsGood, NEW row \in Review, Sound(row), Insert(row)
  PROVE  ReviewsGood'
  <1>1. /\ reviews' = Append(reviews, row)
        /\ reviews \in Seq(Review)
        /\ \A i \in 1..Len(reviews) : Sound(reviews[i])
    BY DEF ReviewsGood, Insert, Ids
  <1>2. /\ reviews' \in Seq(Review)
        /\ Len(reviews') = Len(reviews) + 1
        /\ \A i \in 1..Len(reviews) : reviews'[i] = reviews[i]
        /\ reviews'[Len(reviews) + 1] = row
    BY <1>1
  <1>3. ASSUME NEW i \in 1..Len(reviews')  PROVE  Sound(reviews'[i])
    <2>1. CASE i = Len(reviews) + 1
      BY <1>2, <2>1
    <2>2. CASE i # Len(reviews) + 1
      <3>1. i \in 1..Len(reviews)
        BY <1>1, <1>2, <2>2
      <3> QED BY <1>1, <1>2, <3>1
    <2> QED BY <2>1, <2>2
  <1>4. Ids' = 1..Len(reviews')
    BY <1>2 DEF Ids
  <1> QED BY <1>2, <1>3, <1>4 DEF ReviewsGood

\* A sound row in the place of another.
LEMMA StoreGood ==
  ASSUME ReviewsGood, NEW i \in Ids, NEW row \in Review, Sound(row),
         Store(i, row)
  PROVE  ReviewsGood'
  <1>1. reviews' = [reviews EXCEPT ![i] = row] /\ reviews \in Seq(Review)
    BY DEF ReviewsGood, Store
  <1>2. reviews' \in Seq(Review) /\ Ids' = Ids
    BY <1>1 DEF Ids
  <1>3. ASSUME NEW j \in Ids  PROVE  Sound(reviews'[j])
    BY <1>1 DEF ReviewsGood, Ids
  <1> QED BY <1>2, <1>3 DEF ReviewsGood

LEMMA RowOf ==
  ASSUME ReviewsGood, NEW i \in Ids
  PROVE  reviews[i] \in Review /\ Sound(reviews[i])
  BY DEF ReviewsGood, Ids

LEMMA GeneratedCodeTyped ==
  ASSUME ReviewsGood  PROVE  GeneratedCode \in Seq(Nat)
  <1>1. CASE reviews # <<>> /\ Len(reviews[Len(reviews)].code) = 1
    <2>1. Len(reviews) \in Ids
      BY <1>1 DEF ReviewsGood, Ids
    <2>2. reviews[Len(reviews)].code \in Seq(Nat)
      BY <2>1, RowOf DEF Review
    <2>3. reviews[Len(reviews)].code[1] \in Nat
      BY <1>1, <2>2
    <2>4. reviews[Len(reviews)].code[1] + 1 \in Nat
      BY <2>3
    <2> QED BY <1>1, <2>4 DEF GeneratedCode
  <1>2. CASE ~(reviews # <<>> /\ Len(reviews[Len(reviews)].code) = 1)
    BY <1>2 DEF GeneratedCode
  <1> QED BY <1>1, <1>2

\* New rows are not final.
LEMMA NewRowSound ==
  ASSUME NEW draft \in BOOLEAN, NEW open \in BOOLEAN, NEW blocking \in BOOLEAN,
         NEW status \in {"DRAFT", "REVISION_REQUIRED",
                         "REVIEWED_PENDING_APPROVAL", "APPROVED"},
         NEW code \in Seq(Nat)
  PROVE  LET row == NewRow(draft, open, blocking, status, code)
         IN  row \in Review /\ Sound(row)
  BY DEF NewRow, Review, Sound

LEMMA SaveDraftGood ==
  ASSUME ReviewsGood, NEW open \in BOOLEAN, NEW blocking \in BOOLEAN,
         SaveDraft(open, blocking)
  PROVE  ReviewsGood'
  <1>1. ASSUME NEW i \in ActiveIds,
               Store(i, [reviews[i] EXCEPT !.open = open, !.blocking = blocking,
                                           !.status = "DRAFT"])
        PROVE  ReviewsGood'
    <2> DEFINE row == [reviews[i] EXCEPT !.open = open, !.blocking = blocking,
                                         !.status = "DRAFT"]
    <2>1. i \in Ids
      BY DEF ActiveIds
    <2>2. row \in Review /\ Sound(row)
      BY <2>1, RowOf DEF Review, Sound
    <2> QED BY <1>1, <2>1, <2>2, StoreGood
  <1>2. ASSUME Insert(NewRow(TRUE, open, blocking, "DRAFT", GeneratedCode))
        PROVE  ReviewsGood'
    BY <1>2, NewRowSound, GeneratedCodeTyped, InsertGood
  <1> QED BY <1>1, <1>2 DEF SaveDraft

LEMMA CreateGood ==
  ASSUME ReviewsGood, NEW open \in BOOLEAN, NEW blocking \in BOOLEAN,
         Create(open, blocking)
  PROVE  ReviewsGood'
  <1>1. CASE open \/ blocking
    BY <1>1, NewRowSound, GeneratedCodeTyped, InsertGood DEF Create
  <1>2. CASE ~(open \/ blocking)
    BY <1>2, NewRowSound, GeneratedCodeTyped, InsertGood DEF Create
  <1> QED BY <1>1, <1>2

LEMMA NewVersionGood ==
  ASSUME ReviewsGood, NEW i \in Ids, NEW open \in BOOLEAN,
         NEW blocking \in BOOLEAN, NewVersion(i, open, blocking)
  PROVE  ReviewsGood'
  <1> DEFINE code == reviews[i].code
             status == IF open THEN "REVISION_REQUIRED"
                       ELSE "REVIEWED_PENDING_APPROVAL"
             row == NewRow(FALSE, open, blocking, status,
                           Append(code, Len(code) + 1))
  <1>1. Append(code, Len(code) + 1) \in Seq(Nat)
    BY RowOf DEF Review
  <1>2. row \in Review /\ Sound(row)
    BY <1>1, NewRowSound
  <1>3. Insert(row)
    BY DEF NewVersion
  <1> QED BY <1>2, <1>3, InsertGood

\* An edited checklist ends what was final.
LEMMA SaveChecklistGood ==
  ASSUME ReviewsGood, NEW i \in Ids, NEW open \in BOOLEAN, SaveChecklist(i, open)
  PROVE  ReviewsGood'
  <1> DEFINE row == [reviews[i] EXCEPT
                       !.open = open,
                       !.status = IF open THEN "REVISION_REQUIRED"
                                  ELSE "REVIEWED_PENDING_APPROVAL"]
  <1>1. row \in Review /\ Sound(row)
    BY RowOf DEF Review, Sound
  <1> QED BY <1>1, StoreGood DEF SaveChecklist

\* An approval leaves a final review as it is, a rejection ends it.
LEMMA AnswerGood ==
  ASSUME ReviewsGood, NEW i \in Ids, NEW tier \in {"importer", "customs_broker"},
         NEW approved \in BOOLEAN, Answer(i, tier, approved)
  PROVE  ReviewsGood'
  <1> DEFINE old == reviews[i]
             row == Answered(old, tier, approved)
  <1>1. old \in Review /\ Sound(old) /\ ~old.open
    BY RowOf DEF Answer
  <1>2. row \in Review /\ row.status = old.status /\ ~row.open
    BY <1>1 DEF Answered, Review
  <1>3. approved /\ BothApproved(old) => BothApproved(row)
    BY <1>1 DEF Answered, BothApproved, Review
  <1>4. CASE BothApproved(row)
    <2> DEFINE new == [row EXCEPT !.status = "FINAL"]
    <2>1. new \in Review /\ Sound(new)
      BY <1>2, <1>4 DEF Review, Sound, BothApproved
    <2>2. Store(i, new)
      BY <1>4 DEF Answer
    <2> QED BY <2>1, <2>2, StoreGood
  <1>5. CASE ~BothApproved(row)
    <2> DEFINE new == IF approved THEN row
                      ELSE [row EXCEPT !.status = "REVISION_REQUIRED"]
    <2>1. new \in Review
      BY <1>2 DEF Review
    <2>2. Sound(new)
      <3>1. CASE approved
        BY <1>1, <1>2, <1>3, <1>5, <3>1 DEF Sound
      <3>2. CASE ~approved
        BY <1>2, <3>2 DEF Sound, Review
      <3> QED BY <3>1, <3>2
    <2>3. Store(i, new)
      BY <1>5 DEF Answer
    <2> QED BY <2>1, <2>2, <2>3, StoreGood
  <1> QED BY <1>4, <1>5

LEMMA ApproveAloneGood ==
  ASSUME ReviewsGood, NEW i \in Ids, ApproveAlone(i)
  PROVE  ReviewsGood'
  <1> DEFINE row == [reviews[i] EXCEPT !.status = "FINAL", !.importer = TRUE,
                                       !.broker = TRUE]
  <1>1. row \in Review /\ Sound(row)
    BY RowOf DEF ApproveAlone, Review, Sound, BothApproved
  <1> QED BY <1>1, StoreGood DEF ApproveAlone

LEMMA DeleteGood ==
  ASSUME ReviewsGood, NEW i \in Ids, Delete(i)
  PROVE  ReviewsGood'
  <1> DEFINE row == [reviews[i] EXCEPT !.active = FALSE]
  <1>1. row \in Review /\ Sound(row)
    BY RowOf DEF Review, Sound, BothApproved
  <1> QED BY <1>1, StoreGood DEF Delete

-----------------------------------------------------------------------------
(* Tasks, envelopes and originals                                          *)

\* What leaves them all as they are.
LEMMA QuietHandOver ==
  ASSUME HandOver, UNCHANGED <<envelopes, originals, tasks, past>>
  PROVE  HandOver'
  BY DEF HandOver, PapersHandedOn, Sealed, EnvelopeIds

\* The certification asks for the transfer, unless it has been asked for.
LEMMA CompleteHandsOn ==
  ASSUME HandOver, Complete, UNCHANGED <<envelopes, originals>>
  PROVE  HandOver'
  <1>1. /\ tasks' = [tasks EXCEPT !["SH-02"] = 0,
                       !["SH-03"] = IF tasks["SH-03"] = 0 THEN 1
                                    ELSE tasks["SH-03"]]
        /\ past' = [past EXCEPT !["certified"] = TRUE]
        /\ tasks \in [Titles -> Nat] /\ past \in [Events -> BOOLEAN]
    BY DEF Complete, HandOver
  <1>2. tasks' \in [Titles -> Nat] /\ past' \in [Events -> BOOLEAN]
    BY <1>1 DEF Titles, Events
  <1>3. past'["certified"] /\ tasks'["SH-03"] > 0
    BY <1>1 DEF Titles, Events
  <1>4. tasks'["SH-04"] = tasks["SH-04"] /\ Sealed' = Sealed
    BY <1>1 DEF Titles, Sealed, EnvelopeIds
  <1> QED BY <1>2, <1>3, <1>4 DEF HandOver, PapersHandedOn

LEMMA DepartHandsOn ==
  ASSUME HandOver, Depart
  PROVE  HandOver'
  <1>1. tasks' = [tasks EXCEPT !["SH-02"] = 1] /\ tasks \in [Titles -> Nat]
    BY DEF Depart, Asked, HandOver
  <1>2. /\ tasks' \in [Titles -> Nat] /\ tasks'["SH-02"] > 0
        /\ tasks'["SH-03"] = tasks["SH-03"] /\ tasks'["SH-04"] = tasks["SH-04"]
    BY <1>1 DEF Titles
  <1>3. UNCHANGED <<envelopes, originals, past>> /\ Sealed' = Sealed
    BY DEF Depart, Sealed, EnvelopeIds
  <1> QED BY <1>2, <1>3 DEF HandOver, PapersHandedOn

LEMMA ReceiveForm4HandsOn ==
  ASSUME HandOver, ReceiveForm4
  PROVE  HandOver'
  <1>1. /\ tasks' = [tasks EXCEPT !["SH-03"] = 0, !["CS-01"] = 0]
        /\ past' = [past EXCEPT !["form4"] = TRUE]
        /\ tasks \in [Titles -> Nat] /\ past \in [Events -> BOOLEAN]
    BY DEF ReceiveForm4, HandOver
  <1>2. /\ tasks' \in [Titles -> Nat] /\ tasks'["SH-02"] = tasks["SH-02"]
        /\ tasks'["SH-04"] = tasks["SH-04"]
    BY <1>1 DEF Titles
  <1>3. /\ past' \in [Events -> BOOLEAN] /\ past'["form4"]
        /\ past'["certified"] = past["certified"]
    BY <1>1 DEF Events
  <1>4. UNCHANGED <<envelopes, originals>> /\ Sealed' = Sealed
    BY DEF ReceiveForm4, Sealed, EnvelopeIds
  <1> QED BY <1>2, <1>3, <1>4 DEF HandOver, PapersHandedOn

\* A new envelope is not accepted yet.
LEMMA CreateEnvelopeHandsOn ==
  ASSUME HandOver, NEW complete \in BOOLEAN, CreateEnvelope(complete)
  PROVE  HandOver'
  <1> DEFINE e == [complete |-> complete, accepted |-> FALSE]
  <1>1. envelopes' = Append(envelopes, e) /\ envelopes \in Seq(Envelope)
    BY DEF CreateEnvelope, HandOver
  <1>2. e \in Envelope
    BY DEF Envelope
  <1>3. /\ envelopes' \in Seq(Envelope)
        /\ \A i \in 1..Len(envelopes) : envelopes'[i] = envelopes[i]
        /\ envelopes'[Len(envelopes) + 1] = e
        /\ Len(envelopes') = Len(envelopes) + 1
    BY <1>1, <1>2
  <1>4. Sealed' => Sealed
    <2> SUFFICES ASSUME NEW i \in 1..Len(envelopes'), envelopes'[i].accepted
                 PROVE  Sealed
      BY <1>3 DEF Sealed, EnvelopeIds
    <2>1. i # Len(envelopes) + 1
      BY <1>3
    <2>2. i \in 1..Len(envelopes)
      BY <1>1, <1>3, <2>1
    <2> QED BY <1>1, <1>3, <2>2 DEF Sealed, EnvelopeIds
  <1>5. Sealed => Sealed'
    BY <1>1, <1>3 DEF Sealed, EnvelopeIds
  <1>6. UNCHANGED <<originals, tasks, past>>
    BY DEF CreateEnvelope
  <1> QED BY <1>3, <1>4, <1>5, <1>6 DEF HandOver, PapersHandedOn

\* The transfer asks for the originals.
LEMMA SealHandsOn ==
  ASSUME HandOver, NEW e \in EnvelopeIds, Seal(e)
  PROVE  HandOver'
  <1>1. /\ envelopes' = [envelopes EXCEPT ![e].accepted = TRUE]
        /\ tasks' = [tasks EXCEPT !["SH-03"] = 0,
                                  !["SH-04"] = tasks["SH-04"] + 1]
        /\ envelopes \in Seq(Envelope) /\ tasks \in [Titles -> Nat]
    BY DEF Seal, HandOver
  <1>2. envelopes[e] \in Envelope
    BY <1>1 DEF EnvelopeIds
  <1>3. [envelopes[e] EXCEPT !.accepted = TRUE] \in Envelope
    BY <1>2 DEF Envelope
  <1>4. envelopes' \in Seq(Envelope)
    BY <1>1, <1>3 DEF EnvelopeIds
  <1>5. e \in DOMAIN envelopes' /\ envelopes'[e].accepted
    BY <1>1, <1>2 DEF EnvelopeIds, Envelope
  <1>6. Sealed'
    BY <1>5 DEF Sealed, EnvelopeIds
  <1>7. /\ tasks' \in [Titles -> Nat] /\ tasks'["SH-04"] > 0
        /\ tasks'["SH-02"] = tasks["SH-02"]
    BY <1>1 DEF Titles
  <1>8. UNCHANGED <<originals, past>>
    BY DEF Seal
  <1> QED BY <1>4, <1>6, <1>7, <1>8 DEF HandOver, PapersHandedOn

\* Once a collection is saved there always is one.
LEMMA CollectHandsOn ==
  ASSUME HandOver, NEW status \in {"partial", "full"}, Collect(status)
  PROVE  HandOver'
  <1> DEFINE asks == IF status = "full" /\ ~past["broker"] THEN 1
                     ELSE tasks["CS-01"]
  <1>1. /\ tasks' = [tasks EXCEPT !["SH-04"] = 0, !["CS-01"] = asks]
        /\ past' = [past EXCEPT !["broker"] = past["broker"] \/ status = "full"]
        /\ originals' = status
        /\ tasks \in [Titles -> Nat] /\ past \in [Events -> BOOLEAN]
    BY DEF Collect, HandOver
  <1>2. asks \in Nat
    BY <1>1 DEF Titles
  <1>3. /\ tasks' \in [Titles -> Nat] /\ tasks'["SH-02"] = tasks["SH-02"]
        /\ tasks'["SH-03"] = tasks["SH-03"]
    BY <1>1, <1>2 DEF Titles
  <1>4. /\ past' \in [Events -> BOOLEAN]
        /\ past'["certified"] = past["certified"]
        /\ past'["form4"] = past["form4"]
    BY <1>1 DEF Events
  <1>5. originals' \in Collection /\ originals' # "none"
    BY <1>1 DEF Collection
  <1>6. UNCHANGED envelopes /\ Sealed' = Sealed
    BY DEF Collect, Sealed, EnvelopeIds
  <1> QED BY <1>3, <1>4, <1>5, <1>6 DEF HandOver, PapersHandedOn

LEMMA AppointBrokerHandsOn ==
  ASSUME HandOver, AppointBroker
  PROVE  HandOver'
  <1>1. tasks' = [tasks EXCEPT !["CS-01"] = 0] /\ tasks \in [Titles -> Nat]
    BY DEF AppointBroker, HandOver
  <1>2. /\ tasks' \in [Titles -> Nat] /\ tasks'["SH-02"] = tasks["SH-02"]
        /\ tasks'["SH-03"] = tasks["SH-03"] /\ tasks'["SH-04"] = tasks["SH-04"]
    BY <1>1 DEF Titles
  <1>3. UNCHANGED <<envelopes, originals, past>> /\ Sealed' = Sealed
    BY DEF AppointBroker, Sealed, EnvelopeIds
  <1> QED BY <1>2, <1>3 DEF HandOver, PapersHandedOn

-----------------------------------------------------------------------------
(* The invariant                                                           *)

LEMMA PapersInitially == Init => PapersInv
  <1> SUFFICES ASSUME Init  PROVE  PapersInv
    OBVIOUS
  <1>1. ReviewsGood
    BY DEF Init, ReviewsGood, Ids
  <1>2. /\ envelopes = <<>> /\ envelopes \in Seq(Envelope)
        /\ originals \in Collection
        /\ tasks \in [Titles -> Nat] /\ past \in [Events -> BOOLEAN]
    BY DEF Init, Collection
  <1>3. ~Sealed
    BY <1>2 DEF Sealed, EnvelopeIds
  <1>4. tasks["SH-02"] > 0 /\ ~past["certified"]
    BY DEF Init, Titles, Events
  <1> QED BY <1>1, <1>2, <1>3, <1>4 DEF PapersInv, HandOver, PapersHandedOn

LEMMA PapersStep == PapersInv /\ [Next]_vars => PapersInv'
  <1> SUFFICES ASSUME PapersInv, [Next]_vars  PROVE  PapersInv'
    OBVIOUS
  <1> USE DEF PapersInv
  <1>1. CASE Depart
    <2>1. ReviewsGood'
      BY <1>1 DEF Depart, ReviewsGood, Ids
    <2> QED BY <1>1, <2>1, DepartHandsOn
  <1>2. ASSUME NEW open \in BOOLEAN, NEW blocking \in BOOLEAN,
               SaveDraft(open, blocking)
        PROVE  PapersInv'
    <2>1. HandOver'
      BY <1>2, QuietHandOver DEF SaveDraft, Store, Insert, Quiet
    <2> QED BY <1>2, <2>1, SaveDraftGood
  <1>3. ASSUME NEW open \in BOOLEAN, NEW blocking \in BOOLEAN,
               Create(open, blocking)
        PROVE  PapersInv'
    <2>1. CASE open \/ blocking
      <3>1. HandOver'
        BY <1>3, <2>1, QuietHandOver DEF Create, Insert, Quiet
      <3> QED BY <1>3, <3>1, CreateGood
    <2>2. CASE ~(open \/ blocking)
      <3>1. HandOver'
        BY <1>3, <2>2, CompleteHandsOn DEF Create, Insert
      <3> QED BY <1>3, <3>1, CreateGood
    <2> QED BY <2>1, <2>2
  <1>4. ASSUME NEW open \in BOOLEAN, NEW blocking \in BOOLEAN, NEW i \in Ids,
               NewVersion(i, open, blocking)
        PROVE  PapersInv'
    <2>1. HandOver'
      BY <1>4, QuietHandOver DEF NewVersion, Insert, Quiet
    <2> QED BY <1>4, <2>1, NewVersionGood
  <1>5. ASSUME NEW i \in Ids, NEW open \in BOOLEAN, SaveChecklist(i, open)
        PROVE  PapersInv'
    <2>1. HandOver'
      BY <1>5, QuietHandOver DEF SaveChecklist, Store, Quiet
    <2> QED BY <1>5, <2>1, SaveChecklistGood
  <1>6. ASSUME NEW i \in Ids, NEW tier \in {"importer", "customs_broker"},
               NEW approved \in BOOLEAN, Answer(i, tier, approved)
        PROVE  PapersInv'
    <2>1. UNCHANGED <<envelopes, originals>> /\ (Complete \/ Quiet)
      BY <1>6 DEF Answer, Store
    <2>2. HandOver'
      BY <2>1, QuietHandOver, CompleteHandsOn DEF Quiet
    <2> QED BY <1>6, <2>2, AnswerGood
  <1>7. ASSUME NEW i \in Ids, ApproveAlone(i)  PROVE  PapersInv'
    <2>1. HandOver'
      BY <1>7, CompleteHandsOn DEF ApproveAlone, Store
    <2> QED BY <1>7, <2>1, ApproveAloneGood
  <1>8. ASSUME NEW i \in Ids, Delete(i)  PROVE  PapersInv'
    <2>1. HandOver'
      BY <1>8, QuietHandOver DEF Delete, Store, Quiet
    <2> QED BY <1>8, <2>1, DeleteGood
  <1>9. CASE ReceiveForm4
    <2>1. ReviewsGood'
      BY <1>9 DEF ReceiveForm4, ReviewsGood, Ids
    <2> QED BY <1>9, <2>1, ReceiveForm4HandsOn
  <1>10. ASSUME NEW complete \in BOOLEAN, CreateEnvelope(complete)
         PROVE  PapersInv'
    <2>1. ReviewsGood'
      BY <1>10 DEF CreateEnvelope, ReviewsGood, Ids
    <2> QED BY <1>10, <2>1, CreateEnvelopeHandsOn
  <1>11. ASSUME NEW e \in EnvelopeIds, Seal(e)  PROVE  PapersInv'
    <2>1. ReviewsGood'
      BY <1>11 DEF Seal, ReviewsGood, Ids
    <2> QED BY <1>11, <2>1, SealHandsOn
  <1>12. ASSUME NEW status \in {"partial", "full"},
                SaveCollection(status) \/ ReceiveParcel(status)
         PROVE  PapersInv'
    <2>1. Collect(status)
      BY <1>12 DEF SaveCollection, ReceiveParcel
    <2>2. ReviewsGood'
      BY <2>1 DEF Collect, ReviewsGood, Ids
    <2> QED BY <2>1, <2>2, CollectHandsOn
  <1>13. CASE AppointBroker
    <2>1. ReviewsGood'
      BY <1>13 DEF AppointBroker, ReviewsGood, Ids
    <2> QED BY <1>13, <2>1, AppointBrokerHandsOn
  <1>14. CASE UNCHANGED vars
    <2>1. HandOver'
      BY <1>14, QuietHandOver DEF vars
    <2> QED BY <1>14, <2>1 DEF vars, ReviewsGood, Ids
  <1> QED BY <1>1, <1>2, <1>3, <1>4, <1>5, <1>6, <1>7, <1>8, <1>9, <1>10,
             <1>11, <1>12, <1>13, <1>14 DEF Next

(* The inductive invariant holds in every reachable state.                 *)
THEOREM PapersAlways == Spec => []PapersInv
  BY PapersInitially, PapersStep, PTL DEF Spec

(* The papers' tables, tasks and events have their types.                  *)
THEOREM PapersTyped == Spec => []TypeOK
  <1>1. PapersInv => TypeOK
    BY DEF PapersInv, ReviewsGood, HandOver, TypeOK
  <1> QED BY <1>1, PapersAlways, PTL

(* A FINAL review has both approvals and nothing open.                     *)
THEOREM FinalsEarned == Spec => []FinalIsEarned
  <1>1. PapersInv => FinalIsEarned
    BY DEF PapersInv, ReviewsGood, FinalIsEarned, Sound
  <1> QED BY <1>1, PapersAlways, PTL

(* Each module hands the file on to the next.                              *)
THEOREM FileHandedOn == Spec => []PapersHandedOn
  <1>1. PapersInv => PapersHandedOn
    BY DEF PapersInv, HandOver
  <1> QED BY <1>1, PapersAlways, PTL

-----------------------------------------------------------------------------
(***************************************************************************)
(* The shipping records: what holds for any files, containers, days and    *)
(* window.                                                                 *)
(***************************************************************************)

Underway == {"Checklist Passed", "Ready for Upload", "Uploaded"}

\* Both properties of the approvals, and that a stored checklist that passed
\* was executed on a reviewed record: the levels never return to Pending.
Reviewed(r) ==
  /\ r.dual = "Dual Approved" <=> r.level1 = "Approved" /\ r.level2 = "Approved"
  /\ r.checklist \/ r.envelope \in Underway
       => r.level1 # "Pending" /\ r.level2 # "Pending"

RecordsInv == CargoTypeOK /\ \A f \in Files : Reviewed(records[f])

\* A sound row in the place of one record keeps all records sound.
LEMMA PutSound ==
  ASSUME RecordsInv, NEW f \in Files, NEW r \in Record, Reviewed(r), Put(f, r)
  PROVE  RecordsInv'
  BY DEF RecordsInv, CargoTypeOK, Put

LEMMA AbsentSound == Absent \in Record /\ Reviewed(Absent)
  BY DEF Absent, Record, Decision, Reviewed, Underway

\* Other containers, on a record made active, change neither type nor soundness.
LEMMA ContainersSound ==
  ASSUME NEW r \in Record, Reviewed(r), NEW s \in SUBSET Load, NEW v \in BOOLEAN
  PROVE  LET new == [r EXCEPT !.active = TRUE, !.loads = s, !.revived = v]
         IN  new \in Record /\ Reviewed(new)
  BY DEF Record, Reviewed

\* A decision of the first level, whatever the second has decided.
LEMMA Level1Sound ==
  ASSUME RecordsInv, NEW f \in Files, NEW a \in BOOLEAN, Level1(f, a)
  PROVE  RecordsInv'
  <1>1. records[f] \in Record /\ Reviewed(records[f])
    BY DEF RecordsInv, CargoTypeOK
  <1>2. CASE a
    <2> DEFINE r == [records[f] EXCEPT !.level1 = "Approved",
                       !.dual = IF records[f].level2 = "Approved"
                                THEN "Dual Approved" ELSE "In Progress"]
    <2>1. Put(f, r)
      BY <1>2 DEF Level1
    <2>2. r \in Record
      BY <1>1 DEF Record, Decision
    <2>3. Reviewed(r)
      BY <1>1 DEF Record, Reviewed
    <2> QED BY <2>1, <2>2, <2>3, PutSound
  <1>3. CASE ~a
    <2> DEFINE r == [records[f] EXCEPT !.level1 = "Rejected",
                                       !.dual = "Rejected"]
    <2>1. Put(f, r)
      BY <1>3 DEF Level1
    <2>2. r \in Record
      BY <1>1 DEF Record, Decision
    <2>3. Reviewed(r)
      BY <1>1 DEF Record, Reviewed
    <2> QED BY <2>1, <2>2, <2>3, PutSound
  <1> QED BY <1>2, <1>3

\* A decision of the second level, which approves after the first only.
LEMMA Level2Sound ==
  ASSUME RecordsInv, NEW f \in Files, NEW a \in BOOLEAN, Level2(f, a)
  PROVE  RecordsInv'
  <1>1. records[f] \in Record /\ Reviewed(records[f])
    BY DEF RecordsInv, CargoTypeOK
  <1>2. CASE a
    <2> DEFINE r == [records[f] EXCEPT !.level2 = "Approved",
                                       !.dual = "Dual Approved"]
    <2>1. Put(f, r) /\ records[f].level1 = "Approved"
      BY <1>2 DEF Level2
    <2>2. r \in Record
      BY <1>1 DEF Record, Decision
    <2>3. Reviewed(r)
      BY <1>1, <2>1 DEF Record, Reviewed
    <2> QED BY <2>1, <2>2, <2>3, PutSound
  <1>3. CASE ~a
    <2> DEFINE r == [records[f] EXCEPT !.level2 = "Rejected",
                                       !.dual = "Rejected"]
    <2>1. Put(f, r)
      BY <1>3 DEF Level2
    <2>2. r \in Record
      BY <1>1 DEF Record, Decision
    <2>3. Reviewed(r)
      BY <1>1 DEF Record, Reviewed
    <2> QED BY <2>1, <2>2, <2>3, PutSound
  <1> QED BY <1>2, <1>3

\* The checklist passes on records both levels approve.
LEMMA ChecklistSound ==
  ASSUME RecordsInv, NEW f \in Files, ExecuteChecklist(f)
  PROVE  RecordsInv'
  <1> DEFINE passed == Passed(records[f])
             r == [records[f] EXCEPT
                     !.checklist = passed,
                     !.envelope = IF passed THEN "Checklist Passed"
                                            ELSE "Invited"]
  <1>1. records[f] \in Record /\ Reviewed(records[f])
    BY DEF RecordsInv, CargoTypeOK
  <1>2. passed \in BOOLEAN
    BY DEF Passed
  <1>3. Put(f, r)
    BY DEF ExecuteChecklist
  <1>4. r \in Record
    BY <1>1, <1>2 DEF Record
  <1>5. passed => records[f].level1 = "Approved" /\ records[f].level2 = "Approved"
    BY <1>1 DEF Passed, Reviewed
  <1>6. Reviewed(r)
    BY <1>1, <1>2, <1>5 DEF Record, Reviewed, Underway
  <1> QED BY <1>3, <1>4, <1>6, PutSound

\* The envelope moves on after a checklist that passed, or is completed.
LEMMA StageSound ==
  ASSUME RecordsInv, NEW f \in Files,
         NEW s \in {"Ready for Upload", "Uploaded", "Completed"},
         AdvanceStage(f, s)
  PROVE  RecordsInv'
  <1> DEFINE r == [records[f] EXCEPT !.envelope = s]
  <1>1. records[f] \in Record /\ Reviewed(records[f])
    BY DEF RecordsInv, CargoTypeOK
  <1>2. Put(f, r) /\ (s # "Completed" => records[f].checklist)
    BY DEF AdvanceStage
  <1>3. r \in Record
    BY <1>1 DEF Record
  <1>4. Reviewed(r)
    BY <1>1, <1>2 DEF Record, Reviewed, Underway
  <1> QED BY <1>2, <1>3, <1>4, PutSound

\* The actions on the containers, and deletion and restoration.
LEMMA ContainerActionsSound ==
  ASSUME RecordsInv, NEW f \in Files,
         \/ \E s \in SUBSET Load : CreateRecord(f, s) \/ UpdateContainers(f, s)
         \/ Touch(f) \/ DeleteRecord(f)
         \/ \E l \in Load, n \in Load : Track(f, l, n)
  PROVE  RecordsInv'
  <1>1. records[f] \in Record /\ Reviewed(records[f])
    BY DEF RecordsInv, CargoTypeOK
  <1>2. ASSUME NEW s \in SUBSET Load, CreateRecord(f, s)  PROVE  RecordsInv'
    <2> DEFINE r == [Absent EXCEPT !.exists = TRUE, !.active = TRUE, !.loads = s]
    <2>1. r \in Record /\ Reviewed(r)
      BY AbsentSound DEF Record, Reviewed
    <2> QED BY <1>2, <2>1, PutSound DEF CreateRecord
  <1>3. ASSUME NEW s \in SUBSET Load, UpdateContainers(f, s)  PROVE  RecordsInv'
    BY <1>1, <1>3, ContainersSound, PutSound DEF UpdateContainers
  <1>4. CASE Touch(f)
    <2> DEFINE r == [records[f] EXCEPT !.active = TRUE, !.revived = Revived(f)]
    <2>1. r \in Record /\ Reviewed(r)
      BY <1>1 DEF Record, Reviewed, Revived
    <2> QED BY <1>4, <2>1, PutSound DEF Touch
  <1>5. CASE DeleteRecord(f)
    <2> DEFINE r == [records[f] EXCEPT !.active = FALSE]
    <2>1. r \in Record /\ Reviewed(r)
      BY <1>1 DEF Record, Reviewed
    <2> QED BY <1>5, <2>1, PutSound DEF DeleteRecord
  <1>6. ASSUME NEW l \in Load, NEW n \in Load, Track(f, l, n)  PROVE  RecordsInv'
    <2> DEFINE s == (records[f].loads \ {l}) \cup {n}
    <2>1. s \in SUBSET Load
      BY <1>1 DEF Record
    <2>2. Put(f, [records[f] EXCEPT !.active = TRUE, !.loads = s,
                                    !.revived = Revived(f)])
      BY <1>6 DEF Track
    <2>3. Revived(f) \in BOOLEAN
      BY <1>1 DEF Revived, Record
    <2> HIDE DEF s
    <2> QED BY <1>1, <2>1, <2>2, <2>3, ContainersSound, PutSound
  <1> QED BY <1>2, <1>3, <1>4, <1>5, <1>6

LEMMA RecordsInductive == RecordsInv /\ [CargoNext]_cargoVars => RecordsInv'
  <1> SUFFICES ASSUME RecordsInv, [CargoNext]_cargoVars  PROVE  RecordsInv'
    OBVIOUS
  <1>1. CASE UNCHANGED cargoVars
    BY <1>1 DEF RecordsInv, CargoTypeOK, cargoVars
  <1>2. CASE CargoNext
    <2>1. ASSUME NEW f \in Files, NEW s \in SUBSET Load,
                 CreateRecord(f, s) \/ UpdateContainers(f, s)
          PROVE  RecordsInv'
      BY <2>1, ContainerActionsSound
    <2>2. ASSUME NEW f \in Files, Touch(f) \/ DeleteRecord(f)  PROVE  RecordsInv'
      BY <2>2, ContainerActionsSound
    <2>3. ASSUME NEW f \in Files, ExecuteChecklist(f)  PROVE  RecordsInv'
      BY <2>3, ChecklistSound
    <2>4. ASSUME NEW f \in Files, NEW l \in Load, NEW n \in Load, Track(f, l, n)
          PROVE  RecordsInv'
      BY <2>4, ContainerActionsSound
    <2>5. ASSUME NEW f \in Files, NEW a \in BOOLEAN, Level1(f, a) \/ Level2(f, a)
          PROVE  RecordsInv'
      BY <2>5, Level1Sound, Level2Sound
    <2>6. ASSUME NEW f \in Files,
                 NEW s \in {"Ready for Upload", "Uploaded", "Completed"},
                 AdvanceStage(f, s)
          PROVE  RecordsInv'
      BY <2>6, StageSound
    <2> QED BY <1>2, <2>1, <2>2, <2>3, <2>4, <2>5, <2>6 DEF CargoNext
  <1> QED BY <1>1, <1>2

LEMMA RecordsInitially == CargoInit => RecordsInv
  BY AbsentSound DEF CargoInit, RecordsInv, CargoTypeOK

LEMMA RecordsAlways == CargoSpec => []RecordsInv
  BY RecordsInitially, RecordsInductive, PTL DEF CargoSpec

\* The records keep their types.
THEOREM RecordsTyped == CargoSpec => []CargoTypeOK
  <1>1. RecordsInv => CargoTypeOK
    BY DEF RecordsInv
  <1> QED BY <1>1, RecordsAlways, PTL

\* The record shows a dual approval exactly when both levels approve, in
\* whatever order they decide and however often they change their minds.
THEOREM DualApprovalIsBoth == CargoSpec => []DualApprovedByBoth
  <1>1. RecordsInv => DualApprovedByBoth
    BY DEF RecordsInv, Reviewed, DualApprovedByBoth
  <1> QED BY <1>1, RecordsAlways, PTL

\* No envelope is on its way to the upload before both levels reviewed it.
THEOREM UploadsReviewed == CargoSpec => []UploadWasReviewed
  <1>1. RecordsInv => UploadWasReviewed
    BY DEF RecordsInv, Reviewed, Underway, UploadWasReviewed
  <1> QED BY <1>1, RecordsAlways, PTL

-----------------------------------------------------------------------------
(* Containers.                                                             *)

\* A conflict is one of both containers: the days' distance has no direction.
LEMMA ClashSymmetric ==
  ASSUME NEW l \in Load, NEW m \in Load, Clash(l, m)
  PROVE  Clash(m, l)
  <1>1. l.day \in Nat /\ m.day \in Nat
    <2>1. l.day \in Days \cup {0} /\ m.day \in Days \cup {0}
      BY DEF Load, Unknown
    <2>2. \A d \in Days \cup {0} : d \in Nat
      BY DaysAssumption
    <2> QED BY <2>1, <2>2
  <1>2. Apart(l.day, m.day) = Apart(m.day, l.day)
    BY <1>1 DEF Apart
  <1> QED BY <1>2 DEF Clash

\* An active record whose containers were compared when they last changed.
Compared(r) == r.active /\ ~r.revived

ClashesWithCompared(f, loads) ==
  \E g \in Files \ {f} :
    /\ Compared(records[g])
    /\ \E l \in loads, m \in records[g].loads : Clash(l, m)

\* The check looks at the records that came back as well.
LEMMA CheckCovers ==
  ASSUME NEW f \in Files, NEW loads, ~Reused(f, loads)
  PROVE  ~ClashesWithCompared(f, loads)
  BY DEF Reused, ClashesWithCompared, Compared

\* A row that came back, or whose containers clash with no compared record of
\* another file, may take the place of its file's.
LEMMA PutUsedOnce ==
  ASSUME CargoTypeOK, ContainerUsedOnce, NEW f \in Files, NEW r \in Record, Put(f, r),
         Compared(r) => ~ClashesWithCompared(f, r.loads)
  PROVE  ContainerUsedOnce'
  <1> SUFFICES ASSUME NEW g \in Files, NEW h \in Files, g # h,
                      Compared(records'[g]), Compared(records'[h]),
                      NEW l \in records'[g].loads, NEW m \in records'[h].loads
               PROVE  ~Clash(l, m)
    BY DEF ContainerUsedOnce, Compared
  <1>1. /\ records'[f] = r
        /\ \A k \in Files \ {f} : records'[k] = records[k]
    BY DEF CargoTypeOK, Put
  <1>2. \A k \in Files : records[k].loads \subseteq Load
    BY DEF CargoTypeOK, Record
  <1>3. r.loads \subseteq Load
    BY DEF Record
  <1>4. CASE g = f
    BY <1>1, <1>4 DEF ClashesWithCompared
  <1>5. CASE h = f
    <2>1. ~Clash(m, l)
      BY <1>1, <1>5 DEF ClashesWithCompared
    <2> QED BY <1>1, <1>2, <1>3, <1>5, <2>1, ClashSymmetric
  <1>6. CASE g # f /\ h # f
    BY <1>1, <1>6 DEF ContainerUsedOnce, Compared
  <1> QED BY <1>4, <1>5, <1>6

\* The containers of a compared record do not clash with another one's.
LEMMA KeptContainers ==
  ASSUME ContainerUsedOnce, NEW f \in Files, Compared(records[f])
  PROVE  ~ClashesWithCompared(f, records[f].loads)
  BY DEF ContainerUsedOnce, ClashesWithCompared, Compared

LEMMA UsedOnceInductive ==
  ASSUME RecordsInv, ContainerUsedOnce, [CargoNext]_cargoVars, RecordsInv'
  PROVE  ContainerUsedOnce'
  <1> USE DEF RecordsInv
  <1>1. CASE UNCHANGED cargoVars
    BY <1>1 DEF ContainerUsedOnce, cargoVars
  <1>2. ASSUME NEW f \in Files, NEW r, Put(f, r),
               Compared(r) => ~ClashesWithCompared(f, r.loads)
        PROVE  ContainerUsedOnce'
    <2>1. records'[f] = r /\ r \in Record
      BY <1>2 DEF CargoTypeOK, Put
    <2> QED BY <1>2, <2>1, PutUsedOnce
  <1>3. ASSUME NEW f \in Files, NEW r, Put(f, r),
               Compared(r) => Compared(records[f]),
               r.loads = records[f].loads
        PROVE  ContainerUsedOnce'
    BY <1>2, <1>3, KeptContainers
  <1>4. \A f \in Files : records[f] \in Record
    BY DEF CargoTypeOK
  <1>5. ASSUME NEW f \in Files, NEW s \in SUBSET Load, CreateRecord(f, s)
        PROVE  ContainerUsedOnce'
    BY <1>2, <1>5, AbsentSound, CheckCovers DEF CreateRecord, Record
  <1>6. ASSUME NEW f \in Files, NEW s \in SUBSET Load, UpdateContainers(f, s)
        PROVE  ContainerUsedOnce'
    BY <1>2, <1>4, <1>6, CheckCovers DEF UpdateContainers, Record
  <1>7. ASSUME NEW f \in Files, Touch(f)  PROVE  ContainerUsedOnce'
    BY <1>3, <1>4, <1>7 DEF Touch, Record, Compared, Revived
  <1>8. ASSUME NEW f \in Files, DeleteRecord(f)  PROVE  ContainerUsedOnce'
    BY <1>3, <1>4, <1>8 DEF DeleteRecord, Record, Compared
  <1>9. ASSUME NEW f \in Files, NEW l \in Load, NEW n \in Load, Track(f, l, n)
        PROVE  ContainerUsedOnce'
    <2> DEFINE r == [records[f] EXCEPT !.active = TRUE, !.revived = Revived(f),
                                       !.loads = (@ \ {l}) \cup {n}]
    <2>1. Put(f, r) /\ ~Reused(f, {n})
      BY <1>9 DEF Track
    <2>2. r.loads \subseteq records[f].loads \cup {n} /\ r.revived = Revived(f)
      BY <1>4 DEF Record
    <2>3. ASSUME Compared(r)  PROVE  ~ClashesWithCompared(f, r.loads)
      <3>1. Compared(records[f])
        BY <2>2, <2>3 DEF Compared, Revived
      <3>2. ~ClashesWithCompared(f, records[f].loads)
        BY <3>1, KeptContainers
      <3>3. ~ClashesWithCompared(f, {n})
        BY <2>1, CheckCovers
      <3> QED BY <2>2, <3>2, <3>3 DEF ClashesWithCompared
    <2> QED BY <1>2, <2>1, <2>3
  <1>10. ASSUME NEW f \in Files, NEW a \in BOOLEAN, Level1(f, a) \/ Level2(f, a)
         PROVE  ContainerUsedOnce'
    <2>1. CASE Level1(f, a)
      BY <1>3, <1>4, <2>1 DEF Level1, Record, Compared
    <2>2. CASE Level2(f, a)
      BY <1>3, <1>4, <2>2 DEF Level2, Record, Compared
    <2> QED BY <1>10, <2>1, <2>2
  <1>11. ASSUME NEW f \in Files, ExecuteChecklist(f)  PROVE  ContainerUsedOnce'
    BY <1>3, <1>4, <1>11 DEF ExecuteChecklist, Record, Compared
  <1>12. ASSUME NEW f \in Files,
                NEW s \in {"Ready for Upload", "Uploaded", "Completed"},
                AdvanceStage(f, s)
         PROVE  ContainerUsedOnce'
    BY <1>3, <1>4, <1>12 DEF AdvanceStage, Record, Compared
  <1>13. CASE CargoNext
    BY <1>5, <1>6, <1>7, <1>8, <1>9, <1>10, <1>11, <1>12, <1>13 DEF CargoNext
  <1> QED BY <1>1, <1>13

\* No container is on two active records within the window, whichever way the
\* containers were entered, unless one of the records was deleted and came back.
THEOREM ContainersUsedOnce == CargoSpec => []ContainerUsedOnce
  <1>1. CargoInit => ContainerUsedOnce
    BY DEF CargoInit, Absent, ContainerUsedOnce
  <1>2. RecordsInv /\ RecordsInv' /\ ContainerUsedOnce /\ [CargoNext]_cargoVars
          => ContainerUsedOnce'
    BY UsedOnceInductive
  <1> QED BY <1>1, <1>2, RecordsAlways, PTL DEF CargoSpec

=============================================================================
