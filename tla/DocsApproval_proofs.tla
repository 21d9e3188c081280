------------------------- MODULE DocsApproval_proofs ------------------------
(***************************************************************************)
(* What holds of the dual sign-off for any number of users and any number  *)
(* of saves. Types hold however the requests overlap; the other results    *)
(* are for requests that do not (MaxInFlight = 1): with two in flight TLC  *)
(* refutes the last of them.                                               *)
(***************************************************************************)
EXTENDS DocsApproval, FiniteSetTheorems, TLAPS

-----------------------------------------------------------------------------
(* Types.                                                                  *)

\* The derived statuses are statuses of the overall field.
LEMMA VerdictTypes ==
  ASSUME NEW d \in Document
  PROVE  /\ \A s \in CommercialReview : CommercialVerdict(d, s) \in Document
         /\ \A s \in CustomsReview : CustomsVerdict(d, s) \in Document
  <1>1. ASSUME NEW s \in CommercialReview
        PROVE  CommercialVerdict(d, s) \in Document
    <2> DEFINE e == [d EXCEPT !.commercial = s]
    <2>1. e \in Document
      BY <1>1 DEF Document, CommercialReview
    <2>2. AfterCommercial(e) \in Overall
      BY DEF AfterCommercial, Overall
    <2> QED BY <2>1, <2>2 DEF CommercialVerdict, Document
  <1>2. ASSUME NEW s \in CustomsReview
        PROVE  CustomsVerdict(d, s) \in Document
    <2> DEFINE e == [d EXCEPT !.customs = s]
    <2>1. e \in Document
      BY <1>2 DEF Document, CustomsReview
    <2>2. AfterCustoms(e) \in Overall
      BY DEF AfterCustoms, Overall
    <2> QED BY <2>1, <2>2 DEF CustomsVerdict, Document
  <1> QED BY <1>1, <1>2

\* The PUT endpoint makes a row of the row, whatever statuses it is given.
LEMMA EditedTypes ==
  ASSUME NEW d \in Document, NEW row \in Edited(d)
  PROVE  row \in Document
  BY DEF Edited

\* A certified row is a row.
LEMMA CertifiedTypes ==
  ASSUME NEW d \in Document
  PROVE  Certified(d) \in Document
  <1>1. CertifiedReview(d) \in Document
    BY VerdictTypes DEF CertifiedReview, CommercialReview
  <1>2. CertifiedPackingList(d) \in Document
    BY DEF CertifiedPackingList, Document, CommercialReview
  <1>3. CertifiedOriginals(d) \in Document
    BY DEF CertifiedOriginals, Document, CommercialReview, CustomsReview, Overall
  <1> QED BY <1>1, <1>2, <1>3 DEF Certified

\* Starting to work on a row keeps the types.
LEMMA BeginTypes ==
  ASSUME TypeOK, NEW u \in Users, NEW row \in Document, NEW carries \in BOOLEAN,
         NEW raises \in BOOLEAN, Begin(u, row, carries, raises)
  PROVE  TypeOK'
  <1>1. doc' = doc /\ form' = form
    BY DEF Begin
  <1>2. Busy' = Busy \cup {u}
    BY DEF Begin, Busy
  <1>3. \A v \in Busy' : job'[v] \in Job
    BY <1>2 DEF Begin, TypeOK, Job, Busy
  <1>4. job' \in [Busy' -> Job]
    BY <1>2, <1>3 DEF Begin, Busy
  <1> QED BY <1>1, <1>2, <1>4 DEF TypeOK

\* Loading a row for a request keeps the types.
LEMMA LoadTypes ==
  ASSUME TypeOK, NEW u \in Users, NEW row \in Document, NEW carries \in BOOLEAN,
         Load(u, row, carries)
  PROVE  TypeOK'
  BY BeginTypes DEF Load

\* The row a session writes is a row: the one it computed, where that differs
\* from the one it loaded, and the stored one elsewhere.
LEMMA MergedTypes ==
  ASSUME doc \in Document, NEW from \in Document, NEW to \in Document
  PROVE  /\ Merged(from, to) \in Document
         /\ Merged(from, to).commercial = Written(from.commercial, to.commercial, doc.commercial)
         /\ Merged(from, to).customs = Written(from.customs, to.customs, doc.customs)
         /\ Merged(from, to).overall = Written(from.overall, to.overall, doc.overall)
         /\ Merged(from, to).kind = doc.kind
         /\ Merged(from, to).version = doc.version
         /\ Merged(from, to).active = doc.active
  <1>1. /\ Written(from.commercial, to.commercial, doc.commercial) \in CommercialReview \cup {"Pending"}
        /\ Written(from.customs, to.customs, doc.customs) \in CustomsReview \cup {"Pending"}
        /\ Written(from.overall, to.overall, doc.overall) \in Overall
    BY DEF Document, Written
  <1> QED BY <1>1 DEF Document, Merged

\* Both kinds of commit leave a row.
LEMMA SavedRow ==
  ASSUME TypeOK, NEW u \in Users, Save(u) \/ SaveCertified(u)
  PROVE  /\ u \in Busy /\ job[u] \in Job /\ doc' \in Document
         /\ doc'.commercial = Written(job[u].from.commercial, job[u].to.commercial, doc.commercial)
         /\ doc'.customs = Written(job[u].from.customs, job[u].to.customs, doc.customs)
         /\ doc'.overall = Written(job[u].from.overall, job[u].to.overall, doc.overall)
         /\ doc'.kind = doc.kind /\ doc'.active = doc.active
         /\ Save(u) => doc'.version = job[u].from.version + 1
         /\ SaveCertified(u) => doc'.version = doc.version
  <1>1. u \in Busy /\ job[u] \in Job
    BY DEF Save, SaveCertified, TypeOK
  <1> DEFINE from == job[u].from
             to == job[u].to
             row == Merged(from, to)
  <1>2. from \in Document /\ to \in Document /\ doc \in Document
    BY <1>1 DEF Job, TypeOK
  <1> HIDE DEF from, to
  <1>3. /\ row \in Document
        /\ row.commercial = Written(from.commercial, to.commercial, doc.commercial)
        /\ row.customs = Written(from.customs, to.customs, doc.customs)
        /\ row.overall = Written(from.overall, to.overall, doc.overall)
        /\ row.kind = doc.kind /\ row.version = doc.version /\ row.active = doc.active
    BY <1>2, MergedTypes
  <1> HIDE DEF row
  <1>4. CASE SaveCertified(u)
    <2>1. doc' = row
      BY <1>4 DEF SaveCertified, row, from, to
    <2>2. ~Save(u)
      BY <1>4 DEF Save, SaveCertified
    <2> QED BY <1>1, <1>3, <1>4, <2>1, <2>2 DEF from, to
  <1>5. CASE Save(u)
    <2>1. from.version \in 1 .. MaxVersion /\ from.version < MaxVersion
      BY <1>2, <1>5 DEF Save, Document, from
    <2>2. from.version + 1 \in 1 .. MaxVersion
      BY <2>1, BoundsAssumption
    <2>3. doc' = [row EXCEPT !.version = from.version + 1]
      BY <1>5 DEF Save, row, from, to
    <2>4. doc' \in Document
      BY <1>3, <2>2, <2>3 DEF Document
    <2>5. /\ doc'.commercial = row.commercial /\ doc'.customs = row.customs
          /\ doc'.overall = row.overall /\ doc'.kind = row.kind
          /\ doc'.active = row.active /\ doc'.version = from.version + 1
      BY <1>3, <2>3 DEF Document
    <2>6. ~SaveCertified(u)
      BY <1>5 DEF Save, SaveCertified
    <2> QED BY <1>1, <1>3, <1>5, <2>4, <2>5, <2>6 DEF from, to
  <1> QED BY <1>4, <1>5

\* Every step of the sign-off keeps the types.
LEMMA StepTypes == TypeOK /\ [Next]_vars => TypeOK'
  <1> SUFFICES ASSUME TypeOK, [Next]_vars PROVE TypeOK'
    OBVIOUS
  <1>1. ASSUME NEW u \in Users, Show(u) PROVE TypeOK'
    BY <1>1 DEF Show, TypeOK, Busy
  <1>2. ASSUME NEW u \in Users, SubmitCommercialReview(u) PROVE TypeOK'
    BY <1>2, VerdictTypes, LoadTypes DEF SubmitCommercialReview, TypeOK
  <1>3. ASSUME NEW u \in Users, SubmitCustomsBrokerReview(u) PROVE TypeOK'
    BY <1>3, VerdictTypes, LoadTypes DEF SubmitCustomsBrokerReview, TypeOK
  <1>4. ASSUME NEW u \in Users, Update(u) PROVE TypeOK'
    BY <1>4, EditedTypes, LoadTypes DEF Update, TypeOK
  <1>5. ASSUME NEW u \in Users, Save(u) \/ SaveCertified(u) PROVE TypeOK'
    <2>1. doc' \in Document
      BY <1>5, SavedRow
    <2>2. form' \in [Users -> Document]
      BY <1>5, <2>1 DEF Save, SaveCertified, TypeOK
    <2>3. Busy' \subseteq Users /\ job' \in [Busy' -> Job]
      BY <1>5 DEF Save, SaveCertified, End, TypeOK, Busy
    <2> QED BY <2>1, <2>2, <2>3 DEF TypeOK
  <1>6. ASSUME Delete PROVE TypeOK'
    BY <1>6 DEF Delete, TypeOK, Busy, Document
  <1>7. ASSUME UNCHANGED vars PROVE TypeOK'
    BY <1>7 DEF vars, TypeOK, Busy
  <1>8. ASSUME NEW u \in Users, Certify(u) PROVE TypeOK'
    BY <1>8, CertifiedTypes, BeginTypes DEF Certify, TypeOK
  <1> QED BY <1>1, <1>2, <1>3, <1>4, <1>5, <1>6, <1>7, <1>8 DEF Next

\* There is room for the version a row is born with.
LEMMA FirstVersion == 1 \in 1 .. MaxVersion
  BY BoundsAssumption

\* However it is created, a document is a row and no matrix check clears it
\* before both tiers approve it.
LEMMA NewRow ==
  ASSUME Init
  PROVE  doc \in Document /\ doc.active = TRUE
         /\ (Cleared(doc) <=> doc.commercial = "Approved" /\ doc.customs = "Approved")
  <1>1. ASSUME NEW k \in Kind, NEW o \in {"Draft", "Pending Review"},
               doc = CreatedRow(k, "Pending", o)
        PROVE  doc \in Document /\ doc.active = TRUE
               /\ doc.commercial = "Pending" /\ doc.overall = o
    <2>1. o \in Overall
      BY DEF Overall
    <2> QED BY <1>1, <2>1, FirstVersion DEF CreatedRow, Document
  <1>2. ASSUME doc = CreatedRow("originals", "Approved", "Approved for Clearance")
        PROVE  doc \in Document /\ doc.active = TRUE
               /\ doc.commercial = "Approved" /\ doc.customs = "Approved"
    BY <1>2, FirstVersion DEF CreatedRow, Document, Kind, Overall, CommercialReview, CustomsReview
  <1> QED BY <1>1, <1>2 DEF Init, Cleared

\* Nobody is working on a new document.
LEMMA InitTypes == Init => TypeOK
  <1> SUFFICES ASSUME Init PROVE TypeOK
    OBVIOUS
  <1>1. Busy = {}
    BY DEF Init, Busy
  <1> QED BY <1>1, NewRow DEF Init, TypeOK

\* The row, the forms and the requests in flight keep their types, however
\* many requests run at the same time.
THEOREM DocumentTyped == Spec => []TypeOK
  <1>1. Init => TypeOK
    BY InitTypes
  <1>2. TypeOK /\ [Next]_vars => TypeOK'
    BY StepTypes
  <1> QED BY <1>1, <1>2, PTL DEF Spec

-----------------------------------------------------------------------------
(* Requests that do not overlap. The verdicts keep the overall status in    *)
(* step with the two tiers only when they start from the row they replace,  *)
(* so the invariant also says what a request in flight knows.               *)

\* The matrix check clears the row exactly when both tiers approve it.
SignedOff(d) ==
  Cleared(d) <=> d.commercial = "Approved" /\ d.customs = "Approved"

\* The two rows differ in the soft-delete flag at most.
SameRow(d, e) ==
  /\ d.kind = e.kind /\ d.version = e.version
  /\ d.commercial = e.commercial /\ d.customs = e.customs
  /\ d.overall = e.overall

\* The second row is the first, which another module may have certified.
Known(d, e) == SameRow(d, e) \/ SameRow(Certified(d), e)

Alone == IsFiniteSet(Busy) /\ \A u, v \in Busy : u = v

\* What a request in flight loaded is still what is stored, and is what its
\* user was shown when it carries a version.
InFlight ==
  \A u \in Busy :
    /\ SameRow(job[u].from, doc)
    /\ ~StatusEdits => SignedOff(job[u].to)
    /\ ~job[u].raises => job[u].to = Certified(job[u].from)
    /\ job[u].carries => [doc EXCEPT !.active = TRUE] \in {form[u], Certified(form[u])}

\* A version names one content of the row and that content certified, so a
\* form of the current version shows one of the two.
Forms ==
  \A u \in Users :
    /\ form[u].version <= doc.version
    /\ form[u].version = doc.version => Known(form[u], doc)
    /\ ~form[u].active => ~doc.active

SerialInv ==
  /\ TypeOK
  /\ ~StatusEdits => SignedOff(doc)
  /\ Alone
  /\ InFlight
  /\ Forms

\* Each tier's rule derives an overall status that agrees with both tiers,
\* from a row of any overall status whatever.
LEMMA VerdictsSignOff ==
  ASSUME NEW d \in Document
  PROVE  /\ \A s \in CommercialReview : SignedOff(CommercialVerdict(d, s))
         /\ \A s \in CustomsReview : SignedOff(CustomsVerdict(d, s))
  <1>1. ASSUME NEW s \in CommercialReview
        PROVE  SignedOff(CommercialVerdict(d, s))
    <2> DEFINE e == [d EXCEPT !.commercial = s]
               f == [e EXCEPT !.overall = AfterCommercial(e)]
    <2>1. f.commercial = s /\ f.customs = d.customs /\ f.overall = AfterCommercial(e)
      BY DEF Document
    <2>2. e.commercial = s /\ e.customs = d.customs
      BY DEF Document
    <2>3. AfterCommercial(e) = "Approved for Clearance"
            <=> s = "Approved" /\ d.customs = "Approved"
      BY <2>2 DEF AfterCommercial
    <2> HIDE DEF f
    <2>4. SignedOff(f)
      BY <2>1, <2>3 DEF SignedOff, Cleared
    <2> QED BY <2>4 DEF f, CommercialVerdict
  <1>2. ASSUME NEW s \in CustomsReview
        PROVE  SignedOff(CustomsVerdict(d, s))
    <2> DEFINE e == [d EXCEPT !.customs = s]
               f == [e EXCEPT !.overall = AfterCustoms(e)]
    <2>1. f.commercial = d.commercial /\ f.customs = s /\ f.overall = AfterCustoms(e)
      BY DEF Document
    <2>2. e.commercial = d.commercial /\ e.customs = s
      BY DEF Document
    <2>3. AfterCustoms(e) = "Approved for Clearance"
            <=> d.commercial = "Approved" /\ s = "Approved"
      BY <2>2 DEF AfterCustoms
    <2> HIDE DEF f
    <2>4. SignedOff(f)
      BY <2>1, <2>3 DEF SignedOff, Cleared
    <2> QED BY <2>4 DEF f, CustomsVerdict
  <1> QED BY <1>1, <1>2

\* What a certification makes of the two tiers and the overall status.
CommercialOf(d) == IF d.kind = "plain" THEN d.commercial ELSE "Approved"
CustomsOf(d) == IF d.kind = "originals" THEN "Approved" ELSE d.customs
OverallOf(d) ==
  IF d.kind = "shipping"
  THEN IF d.customs = "Approved" THEN "Approved for Clearance" ELSE "Under Review"
  ELSE IF d.kind = "originals" THEN "Approved for Clearance" ELSE d.overall

\* A certification writes these and nothing else.
LEMMA CertifiedFields ==
  ASSUME NEW d \in Document
  PROVE  /\ Certified(d) \in Document
         /\ Certified(d).kind = d.kind /\ Certified(d).version = d.version
         /\ Certified(d).active = d.active
         /\ Certified(d).commercial = CommercialOf(d)
         /\ Certified(d).customs = CustomsOf(d)
         /\ Certified(d).overall = OverallOf(d)
  <1> USE DEF CommercialOf, CustomsOf, OverallOf
  <1>1. Certified(d) \in Document
    BY CertifiedTypes
  <1>2. CASE d.kind = "shipping"
    <2> DEFINE e == [d EXCEPT !.commercial = "Approved"]
    <2>1. /\ e.commercial = "Approved" /\ e.customs = d.customs
          /\ e.kind = d.kind /\ e.version = d.version /\ e.active = d.active
      BY DEF Document
    <2>2. AfterCommercial(e) =
            IF d.customs = "Approved" THEN "Approved for Clearance" ELSE "Under Review"
      BY <2>1 DEF AfterCommercial
    <2>3. Certified(d) = [e EXCEPT !.overall = AfterCommercial(e)]
      BY <1>2 DEF Certified, CertifiedReview, CommercialVerdict
    <2>4. Certified(d).overall = AfterCommercial(e)
          /\ Certified(d).commercial = e.commercial /\ Certified(d).customs = e.customs
          /\ Certified(d).kind = e.kind /\ Certified(d).version = e.version
          /\ Certified(d).active = e.active
      BY <2>3 DEF Document
    <2> HIDE DEF e
    <2> QED BY <1>1, <1>2, <2>1, <2>2, <2>4
  <1>3. CASE d.kind = "packing list"
    BY <1>1, <1>3 DEF Certified, CertifiedPackingList, Document
  <1>4. CASE d.kind = "originals"
    BY <1>1, <1>4 DEF Certified, CertifiedOriginals, Document
  <1>5. CASE d.kind = "plain"
    BY <1>1, <1>5 DEF Certified
  <1> QED BY <1>2, <1>3, <1>4, <1>5 DEF Document, Kind

\* Rows that are the same are certified alike.
LEMMA CertifiedSame ==
  ASSUME NEW d \in Document, NEW e \in Document, SameRow(d, e)
  PROVE  SameRow(Certified(d), Certified(e))
  <1>1. /\ CommercialOf(d) = CommercialOf(e) /\ CustomsOf(d) = CustomsOf(e)
        /\ OverallOf(d) = OverallOf(e)
    BY DEF SameRow, CommercialOf, CustomsOf, OverallOf
  <1> QED BY <1>1, CertifiedFields DEF SameRow

\* A second certification changes nothing.
LEMMA CertifiedTwice ==
  ASSUME NEW d \in Document
  PROVE  SameRow(Certified(Certified(d)), Certified(d))
  <1>1. PICK e \in Document : e = Certified(d)
    BY CertifiedTypes
  <1>2. /\ e.kind = d.kind /\ e.commercial = CommercialOf(d)
        /\ e.customs = CustomsOf(d) /\ e.overall = OverallOf(d)
    BY <1>1, CertifiedFields
  <1>3. CommercialOf(e) = e.commercial
    BY <1>2 DEF CommercialOf
  <1>4. CustomsOf(e) = e.customs
    BY <1>2 DEF CustomsOf
  <1>5. OverallOf(e) = e.overall
    BY <1>2 DEF OverallOf, CustomsOf
  <1>6. SameRow(Certified(e), e)
    BY <1>3, <1>4, <1>5, CertifiedFields DEF SameRow
  <1> QED BY <1>1, <1>6

\* Certifying what is known leaves it known.
LEMMA CertifiedStaysKnown ==
  ASSUME NEW d \in Document, NEW e \in Document, NEW f \in Document,
         Known(d, e), SameRow(f, Certified(e))
  PROVE  Known(d, f)
  <1>1. Certified(d) \in Document /\ Certified(e) \in Document
    BY CertifiedTypes
  <1>2. CASE SameRow(d, e)
    BY <1>2, CertifiedSame DEF Known, SameRow
  <1>3. CASE SameRow(Certified(d), e)
    BY <1>1, <1>3, CertifiedSame, CertifiedTwice DEF Known, SameRow
  <1> QED BY <1>2, <1>3 DEF Known

\* A certification leaves the matrix check in step with the two tiers, the one
\* that derives no overall status included: it only adds approvals.
LEMMA CertificationsSignOff ==
  ASSUME NEW d \in Document, SignedOff(d)
  PROVE  SignedOff(Certified(d))
  <1>1. CASE d.kind = "shipping"
    BY <1>1, CertifiedFields DEF SignedOff, Cleared, CommercialOf, CustomsOf, OverallOf
  <1>2. CASE d.kind = "packing list"
    BY <1>2, CertifiedFields DEF SignedOff, Cleared, CommercialOf, CustomsOf, OverallOf
  <1>3. CASE d.kind = "originals"
    BY <1>3, CertifiedFields DEF SignedOff, Cleared, CommercialOf, CustomsOf, OverallOf
  <1>4. CASE d.kind = "plain"
    BY <1>4 DEF Certified
  <1> QED BY <1>1, <1>2, <1>3, <1>4 DEF Document, Kind

\* A session that starts alone works on the row that is stored.
LEMMA BeginSerial ==
  ASSUME MaxInFlight = 1, SerialInv, NEW u \in Users, NEW row \in Document,
         NEW carries \in BOOLEAN, NEW raises \in BOOLEAN,
         Begin(u, row, carries, raises),
         carries => doc.active /\ form[u].version = doc.version,
         ~raises => row = Certified(doc),
         ~StatusEdits => SignedOff(row)
  PROVE  SerialInv'
  <1>1. TypeOK'
    BY BeginTypes DEF SerialInv
  <1>2. doc' = doc /\ form' = form
    BY DEF Begin
  <1>3. Busy = {}
    <2>1. IsFiniteSet(Busy) /\ Cardinality(Busy) < 1
      BY DEF SerialInv, Alone, Begin
    <2>2. Cardinality(Busy) = 0
      BY <2>1, FS_CardinalityType
    <2> QED BY <2>1, <2>2, FS_EmptySet
  <1>4. /\ Busy' = {u}
        /\ job'[u] = [from |-> doc, to |-> row, carries |-> carries, raises |-> raises]
    BY <1>3 DEF Begin, Busy
  <1>5. Alone'
    BY <1>4, FS_Singleton DEF Alone
  <1>6. InFlight'
    <2> DEFINE shown == [doc EXCEPT !.active = TRUE]
    <2>1. ASSUME carries PROVE shown \in {form[u], Certified(form[u])}
      <3>1. form[u] \in Document /\ doc \in Document
        BY DEF SerialInv, TypeOK
      <3>2. Known(form[u], doc) /\ form[u].active = TRUE
        BY <2>1, <3>1 DEF SerialInv, Forms, Document
      <3>3. CASE SameRow(form[u], doc)
        BY <3>1, <3>2, <3>3 DEF SameRow, Document
      <3>4. CASE SameRow(Certified(form[u]), doc)
        <4>1. Certified(form[u]) \in Document /\ Certified(form[u]).active = TRUE
          BY <3>1, <3>2, CertifiedFields
        <4> QED BY <3>1, <3>4, <4>1 DEF SameRow, Document
      <3> QED BY <3>2, <3>3, <3>4 DEF Known
    <2>2. SameRow(doc, doc)
      BY DEF SameRow
    <2> QED BY <1>2, <1>4, <2>1, <2>2 DEF InFlight
  <1>7. Forms'
    BY <1>2 DEF SerialInv, Forms
  <1>8. ~StatusEdits => SignedOff(doc')
    BY <1>2 DEF SerialInv
  <1> QED BY <1>1, <1>5, <1>6, <1>7, <1>8 DEF SerialInv

\* So does a request that starts alone.
LEMMA LoadSerial ==
  ASSUME MaxInFlight = 1, SerialInv, NEW u \in Users, NEW row \in Document,
         NEW carries \in BOOLEAN, Load(u, row, carries),
         ~StatusEdits => SignedOff(row)
  PROVE  SerialInv'
  BY BeginSerial DEF Load

\* A commit alone leaves the row its session computed.
LEMMA CommitAlone ==
  ASSUME SerialInv, NEW u \in Users, Save(u) \/ SaveCertified(u)
  PROVE  /\ u \in Busy /\ job[u] \in Job /\ doc' \in Document
         /\ doc'.commercial = job[u].to.commercial
         /\ doc'.customs = job[u].to.customs
         /\ doc'.overall = job[u].to.overall
         /\ doc'.kind = doc.kind /\ doc'.active = doc.active
         /\ Save(u) => doc'.version = doc.version + 1
         /\ SaveCertified(u) => doc'.version = doc.version
         /\ Alone' /\ InFlight'
         /\ ~StatusEdits => SignedOff(doc')
  <1>1. u \in Busy /\ job[u] \in Job
    BY SavedRow DEF SerialInv
  <1>2. SameRow(job[u].from, doc)
    BY <1>1 DEF SerialInv, InFlight
  <1>3. /\ doc'.commercial = job[u].to.commercial
        /\ doc'.customs = job[u].to.customs
        /\ doc'.overall = job[u].to.overall
    BY <1>2, SavedRow DEF SerialInv, SameRow, Written
  <1>4. Save(u) => doc'.version = doc.version + 1
    BY <1>2, SavedRow DEF SerialInv, SameRow
  <1>5. Busy' = {}
    BY <1>1 DEF SerialInv, Alone, Save, SaveCertified, End, Busy
  <1>6. Alone' /\ InFlight'
    BY <1>5, FS_EmptySet DEF Alone, InFlight
  <1>7. ~StatusEdits => SignedOff(doc')
    BY <1>1, <1>3 DEF SerialInv, InFlight, SignedOff, Cleared
  <1> QED BY <1>1, <1>3, <1>4, <1>6, <1>7, SavedRow DEF SerialInv

\* A request that ends alone saves under a version that no form has yet.
LEMMA SaveSerial ==
  ASSUME SerialInv, NEW u \in Users, Save(u)
  PROVE  SerialInv'
  <1>1. TypeOK'
    BY StepTypes DEF SerialInv, Next
  <1>2. /\ doc' \in Document /\ doc'.active = doc.active
        /\ doc'.version = doc.version + 1
    BY CommitAlone
  <1>3. Forms'
    <2>1. form' = [form EXCEPT ![u] = doc'] /\ form \in [Users -> Document]
      BY DEF Save, SerialInv, TypeOK
    <2>2. doc.version \in Int /\ \A v \in Users : form[v].version \in Int
      BY <2>1 DEF SerialInv, TypeOK, Document
    <2>3. ASSUME NEW v \in Users, v # u
          PROVE  /\ form'[v].version < doc'.version
                 /\ ~form'[v].active => ~doc'.active
      BY <1>2, <2>1, <2>2, <2>3 DEF SerialInv, Forms
    <2>4. form'[u] = doc' /\ Known(doc', doc')
      BY <2>1 DEF Known, SameRow
    <2>5. doc'.version \in Int /\ \A v \in Users : form'[v].version \in Int
      BY <1>2, <1>1 DEF TypeOK, Document
    <2> QED BY <2>3, <2>4, <2>5 DEF Forms
  <1> QED BY <1>1, <1>3, CommitAlone DEF SerialInv

\* A certification that ends alone leaves every form of the current version
\* showing the row as it was before or as it is.
LEMMA CertifySerial ==
  ASSUME SerialInv, NEW u \in Users, SaveCertified(u)
  PROVE  SerialInv'
  <1>1. TypeOK'
    BY StepTypes DEF SerialInv, Next
  <1>2. /\ u \in Busy /\ job[u] \in Job /\ doc' \in Document
        /\ doc'.kind = doc.kind /\ doc'.version = doc.version
        /\ doc'.active = doc.active
    BY CommitAlone
  <1>3. doc \in Document /\ job[u].from \in Document
    BY <1>2 DEF SerialInv, TypeOK, Job
  <1>4. job[u].to = Certified(job[u].from) /\ SameRow(job[u].from, doc)
    BY <1>2 DEF SaveCertified, SerialInv, InFlight
  <1>5. SameRow(doc', Certified(doc))
    <2>1. /\ job[u].to.commercial = Certified(doc).commercial
          /\ job[u].to.customs = Certified(doc).customs
          /\ job[u].to.overall = Certified(doc).overall
      BY <1>3, <1>4, CertifiedSame DEF SameRow
    <2>2. Certified(doc).kind = doc.kind /\ Certified(doc).version = doc.version
      BY <1>3, CertifiedFields
    <2> QED BY <1>2, <2>1, <2>2, CommitAlone DEF SameRow
  <1>6. Forms'
    <2>1. form' = form /\ form \in [Users -> Document]
      BY DEF SaveCertified, SerialInv, TypeOK
    <2>2. ASSUME NEW v \in Users, form[v].version = doc.version
          PROVE  Known(form[v], doc')
      BY <1>2, <1>3, <1>5, <2>1, <2>2, CertifiedStaysKnown DEF SerialInv, Forms
    <2> QED BY <1>2, <2>1, <2>2 DEF SerialInv, Forms
  <1> QED BY <1>1, <1>6, CommitAlone DEF SerialInv

\* Nothing but the flag changes when the row is deleted.
LEMMA DeleteSerial == SerialInv /\ Delete => SerialInv'
  <1> SUFFICES ASSUME SerialInv, Delete PROVE SerialInv'
    OBVIOUS
  <1>1. TypeOK'
    BY StepTypes DEF SerialInv, Next
  <1>2. doc \in Document
    BY DEF SerialInv, TypeOK
  <1>3. /\ SameRow(doc', doc) /\ ~doc'.active
        /\ [doc' EXCEPT !.active = TRUE] = [doc EXCEPT !.active = TRUE]
    BY <1>2 DEF Delete, SameRow, Document
  <1>4. form' = form /\ job' = job /\ Busy' = Busy
    BY DEF Delete, Busy
  <1>5. Alone' /\ InFlight' /\ Forms'
    BY <1>3, <1>4 DEF SerialInv, Alone, InFlight, Forms, Known, SameRow
  <1>6. ~StatusEdits => SignedOff(doc')
    BY <1>3 DEF SerialInv, SignedOff, Cleared, SameRow
  <1> QED BY <1>1, <1>5, <1>6 DEF SerialInv

\* The row a client fetches is the row there is.
LEMMA ShowSerial ==
  ASSUME SerialInv, NEW u \in Users, Show(u)
  PROVE  SerialInv'
  <1>1. TypeOK'
    BY StepTypes DEF SerialInv, Next
  <1>2. doc' = doc /\ job' = job /\ Busy' = Busy /\ u \notin Busy /\ doc.active
    BY DEF Show, Busy
  <1>3. form' = [form EXCEPT ![u] = doc] /\ form \in [Users -> Document]
    BY DEF Show, SerialInv, TypeOK
  <1>4. InFlight'
    BY <1>2, <1>3 DEF SerialInv, InFlight, TypeOK
  <1>5. Forms'
    <2>1. form'[u] = doc /\ Known(doc, doc) /\ doc.version <= doc.version
      BY <1>3 DEF Known, SameRow, SerialInv, TypeOK, Document
    <2> QED BY <1>2, <1>3, <2>1 DEF SerialInv, Forms
  <1>6. Alone' /\ (~StatusEdits => SignedOff(doc'))
    BY <1>2 DEF SerialInv, Alone
  <1> QED BY <1>1, <1>4, <1>5, <1>6 DEF SerialInv

\* Every step of requests that do not overlap keeps the invariant.
LEMMA StepSerial ==
  ASSUME MaxInFlight = 1
  PROVE  SerialInv /\ [Next]_vars => SerialInv'
  <1> SUFFICES ASSUME SerialInv, [Next]_vars PROVE SerialInv'
    OBVIOUS
  <1> USE DEF SerialInv
  <1>0. doc \in Document
    BY DEF TypeOK
  <1>1. ASSUME NEW u \in Users, SubmitCommercialReview(u) PROVE SerialInv'
    BY <1>0, <1>1, VerdictTypes, VerdictsSignOff, LoadSerial DEF SubmitCommercialReview
  <1>2. ASSUME NEW u \in Users, SubmitCustomsBrokerReview(u) PROVE SerialInv'
    BY <1>0, <1>2, VerdictTypes, VerdictsSignOff, LoadSerial DEF SubmitCustomsBrokerReview
  <1>3. ASSUME NEW u \in Users, Update(u) PROVE SerialInv'
    <2>1. PICK row \in Edited(doc), carries \in BOOLEAN : Load(u, row, carries)
      BY <1>3 DEF Update
    <2>2. row \in Document
      BY <1>0, EditedTypes
    <2>3. ~StatusEdits => row = doc
      BY DEF Edited
    <2> QED BY <2>1, <2>2, <2>3, LoadSerial
  <1>4. ASSUME UNCHANGED vars PROVE SerialInv'
    <2>1. TypeOK' /\ doc' = doc /\ form' = form /\ job' = job /\ Busy' = Busy
      BY <1>4, StepTypes DEF vars, Busy
    <2> QED BY <2>1 DEF Alone, InFlight, Forms
  <1>5. ASSUME NEW u \in Users, Certify(u) PROVE SerialInv'
    <2>1. Begin(u, Certified(doc), FALSE, FALSE)
      BY <1>5 DEF Certify
    <2>2. Certified(doc) \in Document /\ (~StatusEdits => SignedOff(Certified(doc)))
      BY <1>0, CertifiedTypes, CertificationsSignOff
    <2> QED BY <2>1, <2>2, BeginSerial
  <1> QED BY <1>1, <1>2, <1>3, <1>4, <1>5, ShowSerial, SaveSerial, CertifySerial,
             DeleteSerial DEF Next

\* A new document is in step with its tiers, and every form shows it.
LEMMA InitSerial == Init => SerialInv
  <1> SUFFICES ASSUME Init PROVE SerialInv
    OBVIOUS
  <1>1. TypeOK
    BY InitTypes
  <1>2. doc.version <= doc.version
    BY <1>1 DEF TypeOK, Document
  <1>3. SignedOff(doc)
    BY NewRow DEF SignedOff
  <1>4. Busy = {}
    BY DEF Init, Busy
  <1>5. Alone /\ InFlight
    BY <1>4, FS_EmptySet DEF Alone, InFlight
  <1>6. Forms
    <2>1. \A u \in Users : form[u] = doc
      BY DEF Init
    <2>2. doc.active = TRUE
      BY NewRow
    <2>3. doc.active
      BY <2>2, Zenon
    <2> QED BY <1>2, <2>1, <2>3, Zenon DEF Forms, Known, SameRow
  <1> QED BY <1>1, <1>3, <1>5, <1>6 DEF SerialInv

\* With one request at a time, whatever the reviewers decide in whatever order,
\* the matrix check clears exactly the documents both tiers approve.
THEOREM ClearedOnlyByBoth ==
  ASSUME MaxInFlight = 1
  PROVE  Spec => []ClearedByBoth
  <1>1. Init => SerialInv
    BY InitSerial
  <1>2. SerialInv /\ [Next]_vars => SerialInv'
    BY StepSerial
  <1>3. SerialInv => ClearedByBoth
    <2>1. Cleared(doc) <=> MatrixStatus(doc) = "Match"
      BY DEF MatrixStatus
    <2> QED BY <2>1, Zenon DEF SerialInv, ClearedByBoth, SignedOff
  <1> QED BY <1>1, <1>2, <1>3, PTL DEF Spec

\* With one request at a time, a rejection of either tier shows in the matrix
\* check as a mismatch until its own reviewer changes it.
THEOREM RejectionsShow ==
  ASSUME MaxInFlight = 1
  PROVE  Spec => []RejectionShows
  <1>1. Init => SerialInv
    BY InitSerial
  <1>2. SerialInv /\ [Next]_vars => SerialInv'
    BY StepSerial
  <1>3. SerialInv => RejectionShows
    BY DEF SerialInv, RejectionShows, SignedOff, MatrixStatus, Refused
  <1> QED BY <1>1, <1>2, <1>3, PTL DEF Spec

\* With one request at a time the matrix gives the verdict of both reviewers.
THEOREM VerdictIsOfBoth ==
  ASSUME MaxInFlight = 1
  PROVE  Spec => []VerdictOfBoth
  <1>1. Spec => []ClearedByBoth /\ []RejectionShows
    BY ClearedOnlyByBoth, RejectionsShow
  <1>2. ClearedByBoth /\ RejectionShows => VerdictOfBoth
    BY DEF VerdictOfBoth
  <1> QED BY <1>1, <1>2, PTL

\* With one request at a time the version comparison does what it is for,
\* whatever status fields the PUT endpoint stores: a request that carries a
\* version replaces what its user was shown, or that row as certified since by
\* another module.
THEOREM SerialSavesSeeing ==
  ASSUME MaxInFlight = 1
  PROVE  Spec => NoLostReview
  <1>1. Init => SerialInv
    BY InitSerial
  <1>2. SerialInv /\ [Next]_vars => SerialInv'
    BY StepSerial
  <1> DEFINE Seeing ==
        \A u \in Users : u \in Busy /\ u \notin Busy' /\ job[u].carries =>
          [doc EXCEPT !.active = TRUE] \in {form[u], Certified(form[u])}
  <1>3. SerialInv => Seeing
    BY DEF SerialInv, InFlight
  <1> QED BY <1>1, <1>2, <1>3, PTL DEF Spec, NoLostReview

=============================================================================
