----------------------- MODULE LifecycleRequests_proofs -----------------------
(***************************************************************************)
(* What holds of overlapping, cut off and repeated requests, for any       *)
(* number of requests, steps, rows and tasks. The invariants build on each *)
(* other: where each request stands (PlaceInv), who has still to open the  *)
(* frontier (Frontier), what a request that nothing overlaps has done so   *)
(* far (LoneInv), and what follows where requests take turns (Serial). The *)
(* last part shows that such turns implement LifecycleBoard.               *)
(***************************************************************************)
EXTENDS LifecycleRequests, FiniteSetTheorems, TLAPS

Row == {"In-Progress", "Completed"}
Reading == {"None"} \cup Row

Seen == [progress : 0 .. 100, open : SUBSET Nat, exists : BOOLEAN, count : Nat]

Typed == /\ TypeOK
         /\ seen \in [Requests -> Seen]
         /\ snapshot \in [0 .. LastStep -> Reading] /\ snapshot[0] = "None"

\* Where a request stands. A row it has loaded cannot have gone, and one that
\* was cut off begins again at the first step.
Place(r) ==
  /\ pc[r] \in {"prior", "mark"} => cursor[r] < ended[r]
  /\ pc[r] \in {"read", "write"} => cursor[r] <= ended[r] + 1
  /\ pc[r] = "target" => cursor[r] = ended[r] + 1
  /\ pc[r] \in {"file", "count", "commit"} => cursor[r] >= ended[r]
  /\ pc[r] = "crashed" => cursor[r] = 1
  /\ pc[r] \in {"idle", "crashed"} => auto[r] = {}
  /\ pc[r] = "mark" => table[cursor[r]] # <<>>
  /\ pc[r] = "write" /\ found[r] # "None" => table[cursor[r]] # <<>>

PlaceInv == Typed /\ \A r \in Requests : Place(r)

Furthest(s) == table[s] # <<>> /\ \A t \in Steps : t > s => table[t] = <<>>

\* Request r has still to record something beyond step s.
Owes(r, s) ==
  ended[r] >= s /\ pc[r] \in {"crashed", "prior", "mark", "read", "write", "target"}

Frontier ==
  \A s \in Steps : Furthest(s) /\ s # LastStep /\ First(s) # "In-Progress" =>
    \E r \in Requests : Owes(r, s)

\* Rows of a request that nothing overlaps.
LoneRows(r) ==
  /\ \A s \in Steps : s > ended[r] + 1 => First(s) = snapshot[s]
  /\ \A s \in Steps : s <= ended[r] => First(s) \in {snapshot[s], "Completed"}
  /\ ended[r] # LastStep =>
       \/ First(ended[r] + 1) = snapshot[ended[r] + 1]
       \/ /\ First(ended[r] + 1) = "In-Progress"
          /\ snapshot[ended[r] + 1] # "Completed"

Settled(r, n) == \A s \in Steps : s < n /\ s <= ended[r] => First(s) = "Completed"

LoneStage(r) ==
  /\ pc[r] \in {"prior", "mark", "read", "write"} => Settled(r, cursor[r])
  /\ pc[r] \in {"target", "file", "count", "commit"} => Settled(r, ended[r] + 1)
  /\ pc[r] = "crashed" => r \in crashed
  /\ pc[r] = "mark" => First(cursor[r]) = "In-Progress"
  /\ pc[r] \in {"read", "write"} /\ cursor[r] < ended[r] => First(cursor[r]) = "None"
  /\ pc[r] \in {"read", "write"} /\ cursor[r] > ended[r]
       => First(cursor[r]) # "Completed"
  /\ pc[r] = "write" => found[r] = First(cursor[r])
  /\ pc[r] \in {"file", "count", "commit"} /\ HasTarget(r) =>
       First(ended[r] + 1) =
         IF snapshot[ended[r] + 1] = "Completed" THEN "Completed" ELSE "In-Progress"

LoneSeen(r) ==
  /\ pc[r] \in {"count", "commit"} =>
       /\ seen[r].progress = progress
       /\ seen[r].open = {i \in DOMAIN tasks :
                            tasks[i].open /\ tasks[i].step \in {ended[r]} \cup auto[r]}
       /\ seen[r].exists = \E i \in DOMAIN tasks : tasks[i].step = Target(r)
  /\ pc[r] = "count" => HasTarget(r) /\ ~seen[r].exists
  /\ pc[r] = "commit" /\ HasTarget(r) /\ ~seen[r].exists =>
       seen[r].count = Len(tasks)

\* and that was not cut off
LoneAuto(r) ==
  /\ auto[r] = {s \in Steps : /\ s < cursor[r] /\ s < ended[r]
                              /\ snapshot[s] # "Completed"}
  /\ pc[r] \in {"prior", "mark", "read", "write"} =>
       \A s \in Steps : cursor[r] <= s /\ s <= ended[r] => First(s) = snapshot[s]

\* All of it, for the only request that is active.
Sole(r) == /\ LoneRows(r) /\ LoneStage(r) /\ LoneSeen(r)
           /\ r \notin crashed => LoneAuto(r)

LoneInv == alone => \A r \in Active : Sole(r) /\ \A q \in Active : q = r

Ordered(f) ==
  \A s, t \in Steps : s < t /\ f[t] # "None" => f[s] = "Completed"

Serial ==
  /\ alone
  /\ \A s \in Steps : Len(table[s]) <= 1
  /\ Ordered(snapshot) 
  /\ Quiet => Ordered(FirstRows)

-----------------------------------------------------------------------------
(* Lemmas about the operators and the actions.                             *)

\* No step is worth more than the whole.
LEMMA StepWorth ==
  ASSUME NEW c \in Steps
  PROVE  c * StepPercent \in 0 .. 100
<1>1. c \in Nat /\ LastStep - c \in Nat /\ StepPercent \in Nat
  BY RequestsAssumption DEF Steps
<1>2. c * StepPercent \in Nat /\ (LastStep - c) * StepPercent \in Nat
  BY <1>1
<1>3. LastStep * StepPercent = c * StepPercent + (LastStep - c) * StepPercent
  BY <1>1, RequestsAssumption
<1>4. LastStep * StepPercent <= 100
  BY RequestsAssumption
<1> QED
  BY <1>2, <1>3, <1>4

\* What .first() returns is the status of a row, or "None".
LEMMA FirstTyped ==
  ASSUME Typed, NEW s \in Steps
  PROVE  /\ First(s) \in Reading
         /\ First(s) = "None" <=> table[s] = <<>>
<1>1. table[s] \in Seq(Row)
  BY DEF Typed, TypeOK, Row
<1>2. table[s] # <<>> => table[s][1] \in Row
  BY <1>1
<1> QED
  BY <1>2 DEF First, Reading, Row

\* Updating the oldest row of a step that has one.
LEMMA UpdateRow ==
  ASSUME Typed, NEW c \in Steps, table[c] # <<>>, NEW v \in Row,
         table' = [table EXCEPT ![c][1] = v]
  PROVE  /\ table' \in [Steps -> Seq(Row)]
         /\ \A s \in Steps : s # c => table'[s] = table[s]
         /\ Len(table'[c]) = Len(table[c]) /\ table'[c] # <<>>
         /\ First(c)' = v
<1>1. table \in [Steps -> Seq(Row)]
  BY DEF Typed, TypeOK, Row
<1>2. table' = [table EXCEPT ![c] = [table[c] EXCEPT ![1] = v]]
  OBVIOUS
<1>3. /\ [table[c] EXCEPT ![1] = v] \in Seq(Row)
      /\ Len([table[c] EXCEPT ![1] = v]) = Len(table[c])
      /\ [table[c] EXCEPT ![1] = v][1] = v
      /\ [table[c] EXCEPT ![1] = v] # <<>>
  BY <1>1
<1>4. table'[c] = [table[c] EXCEPT ![1] = v]
  BY <1>1, <1>2
<1> QED
  BY <1>1, <1>2, <1>3, <1>4 DEF First

\* Inserting a row.
LEMMA InsertRow ==
  ASSUME Typed, NEW c \in Steps, NEW v \in Row,
         table' = [table EXCEPT ![c] = Append(@, v)]
  PROVE  /\ table' \in [Steps -> Seq(Row)]
         /\ \A s \in Steps : s # c => table'[s] = table[s]
         /\ Len(table'[c]) = Len(table[c]) + 1 /\ table'[c] # <<>>
         /\ First(c)' = IF table[c] = <<>> THEN v ELSE First(c)
<1>1. table \in [Steps -> Seq(Row)]
  BY DEF Typed, TypeOK, Row
<1>2. table'[c] = Append(table[c], v)
  BY <1>1
<1>3. /\ Append(table[c], v) \in Seq(Row)
      /\ Len(Append(table[c], v)) = Len(table[c]) + 1
      /\ Append(table[c], v) # <<>>
      /\ Append(table[c], v)[1] = IF table[c] = <<>> THEN v ELSE table[c][1]
  BY <1>1
<1> QED
  BY <1>1, <1>2, <1>3 DEF First

\* What marking a step does to the rows.
LEMMA MarkRow ==
  ASSUME PlaceInv, NEW r \in Requests, NEW c \in Steps, c = cursor[r],
         MarkPrior(r)
  PROVE  /\ table' \in [Steps -> Seq(Row)]
         /\ \A s \in Steps : s # c => table'[s] = table[s]
         /\ Len(table'[c]) = Len(table[c]) /\ table'[c] # <<>>
         /\ First(c)' = "Completed"
<1>1. "Completed" \in Row
  BY DEF Row
<1>2. table[c] # <<>>
  BY DEF PlaceInv, Place, MarkPrior
<1>3. table' = [table EXCEPT ![c][1] = "Completed"]
  BY DEF MarkPrior
<1> QED
  BY <1>1, <1>2, <1>3, UpdateRow DEF PlaceInv

\* What saving a step does. The first row keeps its status when another
\* request has inserted one since, or when the new status is the one loaded.
LEMMA SaveRow ==
  ASSUME PlaceInv, NEW r \in Requests, NEW c \in Steps, c = cursor[r],
         SaveWrite(r)
  PROVE  /\ table' \in [Steps -> Seq(Row)]
         /\ \A s \in Steps : s # c => table'[s] = table[s]
         /\ table'[c] # <<>>
         /\ Len(table'[c]) = IF found[r] = "None" THEN Len(table[c]) + 1
                                                 ELSE Len(table[c])
         /\ First(c)' = IF table[c] = <<>> THEN Saved(r)
                        ELSE IF found[r] \in {"None", Saved(r)} THEN First(c)
                        ELSE Saved(r)
<1>1. Saved(r) \in Row
  BY DEF Saved, Row
<1>2. CASE found[r] = "None"
  <2>1. table' = [table EXCEPT ![c] = Append(@, Saved(r))]
    BY <1>2 DEF SaveWrite
  <2> QED
    BY <1>1, <1>2, <2>1, InsertRow DEF PlaceInv
<1>3. CASE found[r] # "None"
  <2> DEFINE v == Written(found[r], Saved(r), table[c][1])
  <2>1. table[c] # <<>>
    BY <1>3 DEF PlaceInv, Place, SaveWrite
  <2>2. table[c] \in Seq(Row)
    BY DEF PlaceInv, Typed, TypeOK, Row
  <2>3. v \in Row
    BY <1>1, <2>1, <2>2 DEF Written
  <2>4. table' = [table EXCEPT ![c][1] = v]
    BY <1>3 DEF SaveWrite
  <2>5. v = IF found[r] = Saved(r) THEN First(c) ELSE Saved(r)
    BY <2>1 DEF Written, First
  <2> HIDE DEF v
  <2> QED
    BY <1>3, <2>1, <2>3, <2>4, <2>5, UpdateRow DEF PlaceInv
<1> QED
  BY <1>2, <1>3
-----------------------------------------------------------------------------
(* Types, and where each request stands.                                   *)

\* Sequences are functions on an initial segment.
LEMMA SeqIsFunction ==
  ASSUME NEW S, NEW q \in Seq(S)
  PROVE  /\ Len(q) \in Nat /\ DOMAIN q = 1 .. Len(q)
         /\ \A i \in DOMAIN q : q[i] \in S
OBVIOUS

\* and the other way round.
LEMMA FunctionIsSeq ==
  ASSUME NEW S, NEW n \in Nat, NEW q \in [1 .. n -> S]
  PROVE  q \in Seq(S) /\ Len(q) = n
OBVIOUS

\* Appending keeps the elements there are.
LEMMA AppendIsSeq ==
  ASSUME NEW S, NEW q \in Seq(S), NEW e \in S
  PROVE  /\ Append(q, e) \in Seq(S)
         /\ DOMAIN Append(q, e) = DOMAIN q \cup {Len(q) + 1}
         /\ \A i \in DOMAIN q : i # Len(q) + 1 /\ Append(q, e)[i] = q[i]
         /\ Append(q, e)[Len(q) + 1] = e
OBVIOUS

\* A step of request r leaves the others' session alone.
OthersWait(r) ==
  \A q \in Requests \ {r} :
    /\ pc'[q] = pc[q] /\ ended'[q] = ended[q] /\ cursor'[q] = cursor[q]
    /\ auto'[q] = auto[q] /\ found'[q] = found[q] /\ seen'[q] = seen[q]

\* It is enough to look at the request that made the step.
LEMMA OwnPlace ==
  ASSUME PlaceInv, NEW r \in Requests, OthersWait(r), Typed', Place(r)',
         \A s \in Steps : table[s] # <<>> => table'[s] # <<>>
  PROVE  PlaceInv'
<1> SUFFICES ASSUME NEW q \in Requests, q # r PROVE Place(q)'
  BY DEF PlaceInv
<1>1. cursor[q] \in Steps
  BY DEF PlaceInv, Typed, TypeOK
<1> QED
  BY <1>1 DEF PlaceInv, Place, OthersWait

\* The first rows of all steps, as the history variable stores them.
LEMMA FirstRowsTyped ==
  ASSUME Typed
  PROVE  /\ FirstRows \in [0 .. LastStep -> Reading]
         /\ FirstRows[0] = "None"
         /\ \A s \in Steps : FirstRows[s] = First(s)
<1>1. \A s \in 0 .. LastStep : s # 0 => s \in Steps
  BY DEF Steps
<1>2. \A s \in Steps : s \in 0 .. LastStep /\ s # 0
  BY DEF Steps
<1>3. 0 \in 0 .. LastStep
  BY RequestsAssumption
<1> QED
  BY <1>1, <1>2, <1>3, FirstTyped DEF FirstRows, Reading

\* A file that was just created has no request.
LEMMA InitPlaced == Init => PlaceInv
<1> SUFFICES ASSUME Init PROVE PlaceInv
  OBVIOUS
<1>1. PICK k \in Steps :
        table = [s \in Steps |-> IF s < k THEN <<"Completed">>
                                 ELSE IF s = k THEN <<"In-Progress">> ELSE <<>>]
  BY DEF Init
<1>2. table \in [Steps -> Seq(Row)]
  <2>1. <<>> \in Seq(Row) /\ <<"Completed">> \in Seq(Row)
        /\ <<"In-Progress">> \in Seq(Row)
    BY DEF Row
  <2> QED
    BY <1>1, <2>1
<1>3. progress \in 0 .. 100
  BY RequestsAssumption DEF Init
<1>4. \A s \in Steps : First(s) \in Reading
  BY <1>1 DEF First, Reading, Row
<1>5. snapshot \in [0 .. LastStep -> Reading] /\ snapshot[0] = "None"
  <2>1. (\A s \in 0 .. LastStep : s # 0 => s \in Steps) /\ 0 \in 0 .. LastStep
    BY RequestsAssumption DEF Steps
  <2> QED
    BY <1>4, <2>1 DEF Init, FirstRows, Reading
<1>6. 1 \in Steps
  BY RequestsAssumption DEF Steps
<1>7. tasks \in Seq([step : Steps, open : BOOLEAN])
  BY DEF Init
<1>8. seen \in [Requests -> Seen] /\ \A r \in Requests : seen[r].open = {}
  BY DEF Init, NothingSeen, Seen
<1>9. TypeOK
  BY <1>2, <1>3, <1>6, <1>7, <1>8 DEF Init, TypeOK, Row, PC
<1> QED
  BY <1>5, <1>8, <1>9 DEF PlaceInv, Typed, Place, Init

\* A request arrives at the first step.
LEMMA StartPlaced ==
  ASSUME PlaceInv, NEW r \in Requests, NEW c \in Steps, Start(r, c)
  PROVE  PlaceInv' /\ OthersWait(r)
<1> USE DEF PlaceInv
<1>1. OthersWait(r)
  BY DEF Typed, TypeOK, OthersWait, Start, Goto
<1>2. Typed'
  <2>1. snapshot' \in [0 .. LastStep -> Reading] /\ snapshot'[0] = "None"
        /\ alone' \in BOOLEAN
    BY FirstRowsTyped DEF Start, Typed, TypeOK, Quiet
  <2>2. 1 \in Steps
    BY RequestsAssumption DEF Steps
  <2> QED
    BY <2>1, <2>2 DEF Typed, TypeOK, PC, Working, Start, Goto, dbVars
<1>3. Place(r)'
  BY DEF Place, Typed, TypeOK, Steps, Start, Goto
<1>4. \A s \in Steps : table[s] # <<>> => table'[s] # <<>>
  BY DEF Start, dbVars
<1> QED
  BY <1>1, <1>2, <1>3, <1>4, OwnPlace

\* Cut off, it begins again there.
LEMMA CrashPlaced ==
  ASSUME PlaceInv, NEW r \in Requests, Crash(r)
  PROVE  PlaceInv' /\ OthersWait(r)
<1> USE DEF PlaceInv
<1>1. OthersWait(r)
  BY DEF Typed, TypeOK, OthersWait, Crash, Goto
<1>2. Typed'
  <2>1. NothingSeen \in Seen /\ NothingSeen.open = {} /\ 1 \in Steps
    BY RequestsAssumption DEF NothingSeen, Seen, Steps
  <2>2. /\ seen' \in [Requests -> Seen]
        /\ \A q \in Requests : seen'[q].open \subseteq DOMAIN tasks
    BY <2>1 DEF Crash, Typed, TypeOK
  <2> QED
    BY <2>1, <2>2
    DEF Typed, TypeOK, PC, Crash, Goto, dbVars
<1>3. Place(r)'
  BY DEF Place, Typed, TypeOK, Crash, Goto
<1>4. \A s \in Steps : table[s] # <<>> => table'[s] # <<>>
  BY DEF Crash, dbVars
<1> QED
  BY <1>1, <1>2, <1>3, <1>4, OwnPlace

\* Sent again.
LEMMA RetryPlaced ==
  ASSUME PlaceInv, NEW r \in Requests, Retry(r)
  PROVE  PlaceInv' /\ OthersWait(r)
<1> USE DEF PlaceInv
<1>1. OthersWait(r)
  BY DEF Typed, TypeOK, OthersWait, Retry, Goto, localVars
<1>2. Typed'
  BY DEF Typed, TypeOK, PC, Working, Retry, Goto, dbVars, localVars, historyVars
<1>3. Place(r)'
  BY DEF Place, Typed, TypeOK, Steps, Retry, Goto, localVars
<1>4. \A s \in Steps : table[s] # <<>> => table'[s] # <<>>
  BY DEF Retry, dbVars
<1> QED
  BY <1>1, <1>2, <1>3, <1>4, OwnPlace

\* An earlier step is looked up.
LEMMA CheckPriorPlaced ==
  ASSUME PlaceInv, NEW r \in Requests, CheckPrior(r)
  PROVE  PlaceInv' /\ OthersWait(r)
<1> USE DEF PlaceInv
<1>1. OthersWait(r)
  BY DEF Typed, TypeOK, OthersWait, CheckPrior, Visit, Goto
<1>2. Typed'
  <2>1. cursor' \in [Requests -> Steps] /\ pc' \in [Requests -> PC]
    <3>1. cursor[r] < ended[r] /\ ended[r] \in Steps /\ cursor[r] \in Steps
      BY DEF Place, CheckPrior, Typed, TypeOK
    <3>2. cursor[r] + 1 \in Steps
      BY <3>1, RequestsAssumption DEF Steps
    <3>3. CASE First(cursor[r]) \in {"None", "In-Progress"}
      BY <3>3 DEF CheckPrior, Goto, Typed, TypeOK, PC, Working
    <3>4. CASE First(cursor[r]) \notin {"None", "In-Progress"}
      <4>1. Visit(r, cursor[r] + 1)
        BY <3>4 DEF CheckPrior
      <4> QED
        BY <3>2, <4>1 DEF Visit, Goto, Typed, TypeOK, PC, Working
    <3> QED
      BY <3>3, <3>4
  <2> QED
    BY <2>1 DEF Typed, TypeOK, CheckPrior, dbVars, historyVars
<1>3. Place(r)'
  <2>1. cursor[r] < ended[r] /\ ended[r] \in Nat /\ cursor[r] \in Steps
        /\ cursor[r] \in Nat
    BY DEF Place, CheckPrior, Typed, TypeOK, Steps
  <2>2. CASE First(cursor[r]) = "None"
    <3>1. Goto(r, "read") /\ cursor' = cursor
      BY <2>2 DEF CheckPrior
    <3> QED
      BY <2>1, <3>1 DEF Goto, Place, CheckPrior, Typed, TypeOK
  <2>3. CASE First(cursor[r]) = "In-Progress"
    <3>1. Goto(r, "mark") /\ cursor' = cursor
      BY <2>3 DEF CheckPrior
    <3>2. table[cursor[r]] # <<>>
      BY <2>1, <2>3, FirstTyped
    <3> QED
      BY <2>1, <3>1, <3>2 DEF Goto, Place, CheckPrior, Typed, TypeOK, dbVars
  <2>4. CASE First(cursor[r]) \notin {"None", "In-Progress"}
    <3>1. Visit(r, cursor[r] + 1)
      BY <2>4 DEF CheckPrior
    <3> QED
      BY <2>1, <3>1 DEF Visit, Goto, Place, CheckPrior, Typed, TypeOK
  <2> QED
    BY <2>2, <2>3, <2>4
<1>4. \A s \in Steps : table[s] # <<>> => table'[s] # <<>>
  BY DEF CheckPrior, dbVars
<1> QED
  BY <1>1, <1>2, <1>3, <1>4, OwnPlace

\* A row is loaded.
LEMMA SaveReadPlaced ==
  ASSUME PlaceInv, NEW r \in Requests, SaveRead(r)
  PROVE  PlaceInv' /\ OthersWait(r)
<1> USE DEF PlaceInv
<1>1. OthersWait(r)
  BY DEF Typed, TypeOK, OthersWait, SaveRead, Goto
<1>2. Typed'
  <2>1. First(cursor[r]) \in Reading
    BY FirstTyped DEF Typed, TypeOK
  <2> QED
    BY <2>1
    DEF Typed, TypeOK, Reading, Row, PC, Working, SaveRead, Goto, dbVars, historyVars
<1>3. Place(r)'
  <2>1. First(cursor[r]) = "None" <=> table[cursor[r]] = <<>>
    BY FirstTyped DEF Typed, TypeOK
  <2> QED
    BY <2>1 DEF Place, Typed, TypeOK, SaveRead, Goto, dbVars
<1>4. \A s \in Steps : table[s] # <<>> => table'[s] # <<>>
  BY DEF SaveRead, dbVars
<1> QED
  BY <1>1, <1>2, <1>3, <1>4, OwnPlace

\* The next step is looked up.
LEMMA CheckTargetPlaced ==
  ASSUME PlaceInv, NEW r \in Requests, CheckTarget(r)
  PROVE  PlaceInv' /\ OthersWait(r)
<1> USE DEF PlaceInv
<1>1. OthersWait(r)
  BY DEF Typed, TypeOK, OthersWait, CheckTarget, Goto
<1>2. Typed'
  <2>1. First(cursor[r]) \in Reading
    BY FirstTyped DEF Typed, TypeOK
  <2>2. pc' \in [Requests -> PC]
    BY DEF Typed, TypeOK, PC, Working, CheckTarget, Goto
  <2> QED
    BY <2>1, <2>2
    DEF Typed, TypeOK, Reading, Row, CheckTarget, dbVars, historyVars
<1>3. Place(r)'
  <2>0. PICK c \in Steps : c = cursor[r]
    BY DEF Typed, TypeOK
  <2>1. /\ cursor' = cursor /\ ended' = ended /\ table' = table /\ auto' = auto
        /\ found'[r] = First(c) /\ c = ended[r] + 1 /\ ended[r] \in Nat
        /\ First(c) \in Reading /\ (First(c) = "None" <=> table[c] = <<>>)
    BY <2>0, FirstTyped
    DEF CheckTarget, Place, Typed, TypeOK, dbVars, Steps
  <2>2. /\ First(c) = "None" => pc'[r] = "read"
        /\ First(c) = "In-Progress" => pc'[r] = "write"
        /\ First(c) = "Completed" => pc'[r] = "file"
    BY <2>0, <2>1 DEF CheckTarget, Goto, Typed, TypeOK
  <2> QED
    BY <2>0, <2>1, <2>2 DEF Place, Reading, Row
<1>4. \A s \in Steps : table[s] # <<>> => table'[s] # <<>>
  BY DEF CheckTarget, dbVars
<1> QED
  BY <1>1, <1>2, <1>3, <1>4, OwnPlace

\* What it reads of the file and of the tasks has the right types.
LEMMA ReadFilePlaced ==
  ASSUME PlaceInv, NEW r \in Requests, ReadFile(r)
  PROVE  PlaceInv' /\ OthersWait(r)
<1> USE DEF PlaceInv
<1>1. OthersWait(r)
  BY DEF Typed, TypeOK, OthersWait, ReadFile, Goto
<1>2. Typed'
  <2>1. /\ seen' \in [Requests -> Seen]
        /\ \A q \in Requests : seen'[q].open \subseteq DOMAIN tasks
    <3> DEFINE open == {i \in DOMAIN tasks :
                 tasks[i].open /\ tasks[i].step \in {ended[r]} \cup auto[r]}
               exists == \E i \in DOMAIN tasks : tasks[i].step = Target(r)
               read == [progress |-> progress, count |-> 0, open |-> open,
                        exists |-> exists]
    <3>1. seen' = [seen EXCEPT ![r] = read]
      BY DEF ReadFile
    <3>2. DOMAIN tasks \subseteq Nat /\ progress \in 0 .. 100
      BY SeqIsFunction DEF Typed, TypeOK
    <3>3. open \subseteq DOMAIN tasks /\ exists \in BOOLEAN
      OBVIOUS
    <3> HIDE DEF open, exists
    <3>4. read \in Seen /\ read.open \subseteq DOMAIN tasks
      BY <3>2, <3>3 DEF Seen
    <3> HIDE DEF read
    <3> QED
      BY <3>1, <3>4 DEF Typed, TypeOK
  <2>2. pc' \in [Requests -> PC]
    BY DEF ReadFile, Goto, Typed, TypeOK, PC, Working
  <2> QED
    BY <2>1, <2>2 DEF Typed, TypeOK, ReadFile, dbVars, historyVars
<1>3. Place(r)'
  BY DEF Place, Typed, TypeOK, ReadFile, Goto
<1>4. \A s \in Steps : table[s] # <<>> => table'[s] # <<>>
  BY DEF ReadFile, dbVars
<1> QED
  BY <1>1, <1>2, <1>3, <1>4, OwnPlace

\* The tasks are counted.
LEMMA CountTasksPlaced ==
  ASSUME PlaceInv, NEW r \in Requests, CountTasks(r)
  PROVE  PlaceInv' /\ OthersWait(r)
<1> USE DEF PlaceInv
<1>1. OthersWait(r)
  BY DEF Typed, TypeOK, OthersWait, CountTasks, Goto
<1>2. Typed'
  <2>1. Len(tasks) \in Nat
    BY DEF Typed, TypeOK
  <2>2. /\ seen' \in [Requests -> Seen]
        /\ \A q \in Requests : seen'[q].open = seen[q].open
    <3> DEFINE read == [seen[r] EXCEPT !.count = Len(tasks)]
    <3>1. seen' = [seen EXCEPT ![r] = read]
      BY DEF CountTasks
    <3>2. read \in Seen /\ read.open = seen[r].open
      BY <2>1 DEF Typed, Seen
    <3> HIDE DEF read
    <3> QED
      BY <3>1, <3>2 DEF Typed
  <2> QED
    BY <2>2 DEF Typed, TypeOK, PC, Working, CountTasks, Goto, dbVars, historyVars
<1>3. Place(r)'
  BY DEF Place, Typed, TypeOK, CountTasks, Goto
<1>4. \A s \in Steps : table[s] # <<>> => table'[s] # <<>>
  BY DEF CountTasks, dbVars
<1> QED
  BY <1>1, <1>2, <1>3, <1>4, OwnPlace

\* An earlier step is marked, and the next one visited.
LEMMA MarkPriorPlaced ==
  ASSUME PlaceInv, NEW r \in Requests, MarkPrior(r)
  PROVE  PlaceInv' /\ OthersWait(r)
<1> USE DEF PlaceInv
<1> DEFINE c == cursor[r]
<1>1. c < ended[r] /\ c \in Steps /\ ended[r] \in Steps
  BY DEF Place, MarkPrior, Typed, TypeOK
<1>2. c + 1 \in Steps /\ c + 1 <= ended[r] /\ c \in Nat /\ ended[r] \in Nat
  BY <1>1, RequestsAssumption DEF Steps
<1>3. OthersWait(r)
  BY DEF Typed, TypeOK, OthersWait, MarkPrior, Visit, Goto
<1>4. /\ table' \in [Steps -> Seq(Row)]
      /\ \A s \in Steps : s # c => table'[s] = table[s]
      /\ table'[c] # <<>>
  BY <1>1, MarkRow
<1>5. Typed'
  BY <1>1, <1>2, <1>4
  DEF Typed, TypeOK, PC, Working, MarkPrior, Visit, Goto, historyVars, Row
<1>6. Place(r)'
  BY <1>2 DEF Place, MarkPrior, Visit, Goto, Typed, TypeOK
<1> QED
  BY <1>3, <1>4, <1>5, <1>6, OwnPlace

\* A row is written, and the request goes on to the next step or to the file.
LEMMA SaveWritePlaced ==
  ASSUME PlaceInv, NEW r \in Requests, SaveWrite(r)
  PROVE  PlaceInv' /\ OthersWait(r)
<1> USE DEF PlaceInv
<1> DEFINE c == cursor[r]
<1>1. c \in Steps /\ ended[r] \in Steps /\ c <= ended[r] + 1
  BY DEF Place, SaveWrite, Typed, TypeOK
<1>2. /\ c \in Nat /\ ended[r] \in Nat
      /\ c # LastStep => c + 1 \in Steps
      /\ ended[r] <= LastStep /\ LastStep \in Nat
  BY <1>1, RequestsAssumption DEF Steps
<1>3. OthersWait(r)
  BY DEF Typed, TypeOK, OthersWait, SaveWrite, Visit, Goto
<1>4. /\ table' \in [Steps -> Seq(Row)]
      /\ \A s \in Steps : s # c => table'[s] = table[s]
      /\ table'[c] # <<>>
  BY <1>1, SaveRow
<1>5. /\ cursor' \in [Requests -> Steps] /\ pc' \in [Requests -> PC]
      /\ auto' \in [Requests -> SUBSET Steps] /\ Place(r)'
  <2>1. CASE c < ended[r]
    <3>1. Visit(r, c + 1) /\ auto' = [auto EXCEPT ![r] = @ \cup {c}]
          /\ ended' = ended
      BY <1>2, <2>1 DEF SaveWrite
    <3> QED
      BY <1>1, <1>2, <2>1, <3>1
      DEF Visit, Goto, Place, Typed, TypeOK, PC, Working
  <2>2. CASE c = ended[r]
    <3>1. /\ cursor' = [cursor EXCEPT ![r] = IF @ = LastStep THEN @ ELSE @ + 1]
          /\ Goto(r, IF c = LastStep THEN "file" ELSE "target")
          /\ auto' = auto /\ ended' = ended
      BY <1>2, <2>2 DEF SaveWrite
    <3> QED
      BY <1>1, <1>2, <2>2, <3>1 DEF Goto, Place, Typed, TypeOK, PC, Working
  <2>3. CASE c > ended[r]
    <3>1. Goto(r, "file") /\ auto' = auto /\ cursor' = cursor /\ ended' = ended
      BY <1>2, <2>3 DEF SaveWrite
    <3> QED
      BY <1>1, <1>2, <2>3, <3>1 DEF Goto, Place, Typed, TypeOK, PC, Working
  <2> QED
    BY <1>2, <2>1, <2>2, <2>3
<1>6. Typed'
  BY <1>4, <1>5 DEF Typed, TypeOK, Row, SaveWrite, historyVars
<1> QED
  BY <1>3, <1>4, <1>5, <1>6, OwnPlace

\* The tasks the session closes, and the one it adds when the commit succeeds.
Closed(r) ==
  [i \in DOMAIN tasks |-> [tasks[i] EXCEPT !.open = @ /\ i \notin seen[r].open]]

Creates(r) == HasTarget(r) /\ ~seen[r].exists

\* Closing tasks changes nothing but whether they are open.
LEMMA ClosedTasks ==
  ASSUME Typed, NEW r \in Requests
  PROVE  /\ Closed(r) \in Seq([step : Steps, open : BOOLEAN])
         /\ DOMAIN Closed(r) = DOMAIN tasks
         /\ \A i \in DOMAIN tasks :
              /\ Closed(r)[i].step = tasks[i].step
              /\ Closed(r)[i].open = (tasks[i].open /\ i \notin seen[r].open)
<1>1. tasks \in Seq([step : Steps, open : BOOLEAN])
  BY DEF Typed, TypeOK
<1>2. Len(tasks) \in Nat /\ DOMAIN tasks = 1 .. Len(tasks)
  BY <1>1
<1>3. \A i \in DOMAIN tasks : tasks[i] \in [step : Steps, open : BOOLEAN]
  BY <1>1, SeqIsFunction
<1>4. \A i \in DOMAIN tasks :
        /\ Closed(r)[i] \in [step : Steps, open : BOOLEAN]
        /\ Closed(r)[i].step = tasks[i].step
        /\ Closed(r)[i].open = (tasks[i].open /\ i \notin seen[r].open)
  BY <1>3 DEF Closed
<1>5. DOMAIN Closed(r) = DOMAIN tasks
  BY DEF Closed
<1>6. Closed(r) \in [1 .. Len(tasks) -> [step : Steps, open : BOOLEAN]]
  BY <1>2, <1>4 DEF Closed
<1>7. Closed(r) \in Seq([step : Steps, open : BOOLEAN])
  BY <1>2, <1>6, FunctionIsSeq
<1> QED
  BY <1>4, <1>5, <1>7

\* The step the file is moved to.
LEMMA TargetTyped ==
  ASSUME Typed, NEW r \in Requests
  PROVE  Target(r) \in Steps /\ (HasTarget(r) => Target(r) = ended[r] + 1)
BY RequestsAssumption DEF Typed, TypeOK, Target, HasTarget, Steps

\* The last commit, with what is in the database after it.
LEMMA Committed ==
  ASSUME PlaceInv, NEW r \in Requests, CommitFile(r), pc'[r] = "done"
  PROVE  /\ tasks' = IF Creates(r)
                     THEN Append(Closed(r), [step |-> Target(r), open |-> TRUE])
                     ELSE Closed(r)
         /\ pointer' = Target(r)
         /\ progress' =
              IF HasTarget(r)
              THEN Written(seen[r].progress,
                           IF Target(r) * StepPercent > seen[r].progress
                           THEN Target(r) * StepPercent ELSE seen[r].progress,
                           progress)
              ELSE 100
         /\ table' = table
         /\ Creates(r) => ~(Len(tasks) > seen[r].count)
<1>1. ~(Creates(r) /\ Len(tasks) > seen[r].count)
  BY DEF CommitFile, Creates, Goto, PlaceInv, Typed, TypeOK
<1> QED
  BY <1>1 DEF CommitFile, Creates, Closed

\* The last commit changes the file and its tasks, and ends the request.
LEMMA CommitFilePlaced ==
  ASSUME PlaceInv, NEW r \in Requests, CommitFile(r)
  PROVE  PlaceInv' /\ OthersWait(r)
<1> USE DEF PlaceInv
<1>1. OthersWait(r)
  BY DEF Typed, TypeOK, OthersWait, CommitFile, Goto, Forget
<1>2. pc' \in [Requests -> PC] /\ pc'[r] \in {"done", "failed"}
  <2>1. Goto(r, "done") \/ Goto(r, "failed")
    BY DEF CommitFile
  <2> QED
    BY <2>1 DEF Goto, Typed, TypeOK, PC
<1>3. 1 \in Steps
  BY RequestsAssumption DEF Steps
<1>4. /\ ended' \in [Requests -> Steps] /\ cursor' \in [Requests -> Steps]
      /\ auto' \in [Requests -> SUBSET Steps]
      /\ found' \in [Requests -> {"None", "In-Progress", "Completed"}]
      /\ seen' \in [Requests -> Seen] /\ seen'[r].open = {}
      /\ \A q \in Requests : q # r => seen'[q] = seen[q]
  BY <1>3 DEF CommitFile, Forget, Typed, TypeOK, NothingSeen, Seen
<1>5. table' = table /\ crashed' = crashed /\ alone' = alone /\ snapshot' = snapshot
  BY DEF CommitFile, dbVars, historyVars
<1>6. /\ tasks' \in Seq([step : Steps, open : BOOLEAN])
      /\ DOMAIN tasks \subseteq DOMAIN tasks'
      /\ progress' \in 0 .. 100 /\ pointer' \in Steps \cup {-1}
  <2>1. CASE pc'[r] = "done"
    <3> DEFINE new == [step |-> Target(r), open |-> TRUE]
    <3>1. Target(r) \in Steps /\ new \in [step : Steps, open : BOOLEAN]
      BY TargetTyped
    <3>2. /\ Append(Closed(r), new) \in Seq([step : Steps, open : BOOLEAN])
          /\ DOMAIN Closed(r) \subseteq DOMAIN Append(Closed(r), new)
      <4> DEFINE S == [step : Steps, open : BOOLEAN]
                 q == Closed(r)
      <4>1. q \in Seq(S) /\ new \in S
        BY <3>1, ClosedTasks
      <4> HIDE DEF S, q, new
      <4>2. Append(q, new) \in Seq(S) /\ DOMAIN q \subseteq DOMAIN Append(q, new)
        BY <4>1, AppendIsSeq
      <4> QED
        BY <4>2 DEF S, q
    <3>3. Target(r) * StepPercent \in 0 .. 100
      BY <3>1, StepWorth
    <3>4. seen[r].progress \in 0 .. 100 /\ progress \in 0 .. 100
      BY DEF Typed, TypeOK, Seen
    <3>5. progress' \in 0 .. 100
      <4>1. CASE HasTarget(r)
        <5> DEFINE calc == Target(r) * StepPercent
                   n == IF calc > seen[r].progress THEN calc ELSE seen[r].progress
        <5>1. n \in 0 .. 100
          BY <3>3, <3>4
        <5>2. progress' = Written(seen[r].progress, n, progress)
          BY <2>1, <4>1, Committed
        <5> HIDE DEF n
        <5> QED
          BY <3>4, <5>1, <5>2 DEF Written
      <4>2. CASE ~HasTarget(r)
        <5>1. progress' = 100
          BY <2>1, <4>2, Committed
        <5> QED
          BY <5>1
      <4> QED
        BY <4>1, <4>2
    <3>6. pointer' = Target(r)
          /\ (tasks' = Append(Closed(r), new) \/ tasks' = Closed(r))
      BY <2>1, Committed
    <3> HIDE DEF new
    <3> QED
      BY <3>1, <3>2, <3>5, <3>6, ClosedTasks
  <2>2. CASE pc'[r] = "failed"
    <3>1. UNCHANGED dbVars
      BY <2>2 DEF CommitFile, Goto, Typed, TypeOK
    <3> QED
      BY <3>1 DEF dbVars, Typed, TypeOK
  <2> QED
    BY <1>2, <2>1, <2>2
<1>7. Typed'
  BY <1>2, <1>4, <1>5, <1>6 DEF Typed, TypeOK
<1>8. Place(r)'
  BY <1>2 DEF Place
<1> QED
  BY <1>1, <1>5, <1>7, <1>8, OwnPlace

\* Whichever step is made, by whichever request.
LEMMA PlaceStep == PlaceInv /\ [Next]_vars => PlaceInv'
<1> SUFFICES ASSUME PlaceInv, [Next]_vars PROVE PlaceInv'
  OBVIOUS
<1>1. CASE UNCHANGED vars
  BY <1>1 DEF PlaceInv, Typed, TypeOK, Place, vars, dbVars, localVars, historyVars
<1>2. ASSUME NEW r \in Requests, Work(r) PROVE PlaceInv'
  BY <1>2, CheckPriorPlaced, MarkPriorPlaced, SaveReadPlaced, SaveWritePlaced,
     CheckTargetPlaced, ReadFilePlaced, CountTasksPlaced, CommitFilePlaced
  DEF Work
<1> QED
  BY <1>1, <1>2, StartPlaced, CrashPlaced, RetryPlaced DEF Next

\* Requests, rows and tasks keep their types however requests overlap, are
\* cut off and are sent again.
THEOREM RequestsTyped == Spec => []TypeOK
<1>1. PlaceInv => TypeOK
  BY DEF PlaceInv, Typed
<1> QED
  BY <1>1, InitPlaced, PlaceStep, PTL DEF Spec

-----------------------------------------------------------------------------
(* The frontier.                                                           *)

\* A step that leaves the rows alone keeps the frontier in hand, if whoever
\* owed something beyond the furthest step still does.
LEMMA RowsKept ==
  ASSUME Frontier, table' = table,
         \A r \in Requests, s \in Steps :
           Furthest(s) /\ Owes(r, s) => ended'[r] >= s
             /\ pc'[r] \in {"crashed", "prior", "mark", "read", "write", "target"}
  PROVE  Frontier'
<1> SUFFICES ASSUME NEW s \in Steps, Furthest(s)', s # LastStep,
                    First(s)' # "In-Progress"
             PROVE  \E r \in Requests : Owes(r, s)'
  BY DEF Frontier
<1>1. Furthest(s) /\ First(s) # "In-Progress"
  BY DEF Furthest, First
<1>2. PICK r \in Requests : Owes(r, s)
  BY <1>1 DEF Frontier
<1> QED
  BY <1>1, <1>2 DEF Owes

\* The steps of a request between its start and the file keep what it owes.
LEMMA LookingKeepsFrontier ==
  ASSUME PlaceInv, Frontier, NEW r \in Requests, OthersWait(r),
         ended'[r] = ended[r] \/ pc[r] = "idle", table' = table,
         \/ pc'[r] \in {"crashed", "prior", "mark", "read", "write", "target"}
         \/ pc[r] \in {"idle", "file", "count", "commit"}
  PROVE  Frontier'
<1>1. ASSUME NEW q \in Requests, NEW s \in Steps, Furthest(s), Owes(q, s)
      PROVE  /\ ended'[q] >= s
             /\ pc'[q] \in {"crashed", "prior", "mark", "read", "write", "target"}
  <2>1. CASE q = r
    BY <1>1, <2>1 DEF Owes
  <2>2. CASE q # r
    BY <1>1, <2>2 DEF Owes, OthersWait
  <2> QED
    BY <2>1, <2>2
<1> QED
  BY <1>1, RowsKept

\* The request that finds the next step completed has nothing to open: the
\* furthest step lies beyond.
LEMMA TargetKeepsFrontier ==
  ASSUME PlaceInv, Frontier, NEW r \in Requests, CheckTarget(r)
  PROVE  Frontier'
<1>0. OthersWait(r)
  BY CheckTargetPlaced
<1>1. /\ cursor[r] = ended[r] + 1 /\ cursor[r] \in Steps /\ ended[r] \in Steps
      /\ table' = table /\ ended' = ended /\ pc[r] = "target"
  BY DEF CheckTarget, PlaceInv, Place, Typed, TypeOK, dbVars
<1>2. CASE First(cursor[r]) \in {"None", "In-Progress"}
  <2>1. pc'[r] \in {"read", "write"}
    BY <1>2 DEF CheckTarget, Goto, PlaceInv, Typed, TypeOK
  <2> QED
    BY <1>0, <1>1, <2>1, LookingKeepsFrontier
<1>3. CASE First(cursor[r]) \notin {"None", "In-Progress"}
  <2>1. table[cursor[r]] # <<>>
    BY <1>1, <1>3, FirstTyped DEF PlaceInv
  <2>2. ASSUME NEW q \in Requests, NEW s \in Steps, Furthest(s), Owes(q, s)
        PROVE  /\ ended'[q] >= s /\ q # r
               /\ pc'[q] \in {"crashed", "prior", "mark", "read", "write", "target"}
    <3>1. ~(ended[r] >= s)
      BY <1>1, <2>1, <2>2 DEF Furthest, Steps
    <3> QED
      BY <1>0, <2>2, <3>1 DEF Owes, OthersWait
  <2> QED
    BY <1>1, <2>2, RowsKept
<1> QED
  BY <1>2, <1>3

\* A row is written: if it is the furthest, or before it, then either it is
\* open, or the request still owes the next one, or another did before.
LEMMA WritingKeepsFrontier ==
  ASSUME PlaceInv, Frontier, NEW r \in Requests, NEW c \in Steps, OthersWait(r),
         c <= ended[r] + 1, ended' = ended,
         \A s \in Steps : s # c => table'[s] = table[s],
         table'[c] # <<>>,
         \/ /\ pc'[r] \in {"crashed", "prior", "mark", "read", "write", "target"}
            /\ c <= ended[r]
         \/ /\ c = ended[r] + 1
            /\ First(c)' # "In-Progress" => table[c] # <<>> /\ First(c)' = First(c)
         \/ c = LastStep
  PROVE  Frontier'
<1> SUFFICES ASSUME NEW s \in Steps, Furthest(s)', s # LastStep,
                    First(s)' # "In-Progress"
             PROVE  \E q \in Requests : Owes(q, s)'
  BY DEF Frontier
<1>1. ended[r] \in Steps /\ s \in Nat /\ c \in Nat /\ ended[r] \in Nat
      /\ LastStep \in Nat /\ s <= LastStep
  BY RequestsAssumption DEF PlaceInv, Typed, TypeOK, Steps
<1>2. s >= c
  BY <1>1 DEF Furthest
<1>3. CASE /\ pc'[r] \in {"crashed", "prior", "mark", "read", "write", "target"}
           /\ s <= ended[r]
  BY <1>1, <1>3 DEF Owes
<1>4. CASE s > ended[r] /\ table[s] # <<>> /\ First(s) # "In-Progress"
  <2>1. Furthest(s)
    <3>1. \A t \in Steps : t > s => t # c
      BY <1>1, <1>2 DEF Steps
    <3> QED
      BY <1>4, <3>1 DEF Furthest
  <2>2. PICK q \in Requests : Owes(q, s)
    BY <1>4, <2>1 DEF Frontier
  <2>3. q # r
    BY <1>1, <1>4, <2>2 DEF Owes
  <2> QED
    BY <2>2, <2>3 DEF Owes, OthersWait
<1>5. s # c => table[s] # <<>> /\ First(s) # "In-Progress"
  BY DEF Furthest, First
<1>6. CASE c = ended[r] + 1 /\ s = c
           /\ (First(c)' # "In-Progress" => table[c] # <<>> /\ First(c)' = First(c))
  <2>1. table[s] # <<>> /\ First(s) # "In-Progress" /\ s > ended[r]
    BY <1>1, <1>6
  <2> QED
    BY <1>4, <2>1
<1>7. CASE c = LastStep
  BY <1>1, <1>2, <1>7
<1> QED
  BY <1>1, <1>2, <1>3, <1>4, <1>5, <1>6, <1>7

\* Marking an earlier step: the request still has the ended one to save.
LEMMA MarkKeepsFrontier ==
  ASSUME PlaceInv, Frontier, NEW r \in Requests, MarkPrior(r)
  PROVE  Frontier'
<1> DEFINE c == cursor[r]
<1>1. c \in Steps /\ c <= ended[r] /\ ended[r] \in Nat /\ c \in Nat
  BY DEF PlaceInv, Place, Typed, TypeOK, MarkPrior, Steps
<1>2. OthersWait(r)
  BY MarkPriorPlaced
<1>3. /\ \A s \in Steps : s # c => table'[s] = table[s]
      /\ table'[c] # <<>>
  BY <1>1, MarkRow
<1>4. pc'[r] \in {"prior", "read"} /\ ended' = ended
  BY DEF MarkPrior, Visit, Goto, PlaceInv, Typed, TypeOK
<1> HIDE DEF c
<1> QED
  BY <1>1, <1>2, <1>3, <1>4, WritingKeepsFrontier

\* Saving a step: an earlier one, the ended one, or the next, which is the
\* one that was owed.
LEMMA SaveKeepsFrontier ==
  ASSUME PlaceInv, Frontier, NEW r \in Requests, SaveWrite(r)
  PROVE  Frontier'
<1>1. PICK c \in Steps : c = cursor[r]
  BY DEF PlaceInv, Typed, TypeOK
<1>2. c <= ended[r] + 1 /\ ended[r] \in Nat /\ c \in Nat /\ ended' = ended
  BY <1>1 DEF PlaceInv, Place, Typed, TypeOK, SaveWrite, Steps
<1>3. OthersWait(r)
  BY SaveWritePlaced
<1>4. /\ \A s \in Steps : s # c => table'[s] = table[s]
      /\ table'[c] # <<>>
      /\ First(c)' = IF table[c] = <<>> THEN Saved(r)
                     ELSE IF found[r] \in {"None", Saved(r)} THEN First(c)
                     ELSE Saved(r)
  BY <1>1, SaveRow
<1>5. CASE c < ended[r] \/ (c = ended[r] /\ c # LastStep)
  <2>1. pc'[r] \in {"prior", "read", "target"}
    BY <1>1, <1>2, <1>5 DEF SaveWrite, Visit, Goto, PlaceInv, Typed, TypeOK
  <2> QED
    BY <1>2, <1>3, <1>4, <1>5, <2>1, WritingKeepsFrontier
<1>6. CASE c = LastStep
  BY <1>2, <1>3, <1>4, <1>6, WritingKeepsFrontier
<1>7. CASE c > ended[r]
  <2>1. Saved(r) = "In-Progress" /\ c = ended[r] + 1
    BY <1>1, <1>2, <1>7 DEF Saved
  <2>2. First(c)' # "In-Progress" => table[c] # <<>> /\ First(c)' = First(c)
    BY <1>4, <2>1
  <2> QED
    BY <1>2, <1>3, <1>4, <2>1, <2>2, WritingKeepsFrontier
<1> QED
  BY <1>2, <1>5, <1>6, <1>7

\* No step of any request leaves the frontier to nobody.
LEMMA FrontierStep ==
  PlaceInv /\ Frontier /\ [Next]_vars => Frontier'
<1> SUFFICES ASSUME PlaceInv, Frontier, [Next]_vars PROVE Frontier'
  OBVIOUS
<1> USE DEF PlaceInv, Typed, TypeOK
<1>1. CASE UNCHANGED vars
  BY <1>1, RowsKept DEF Owes, vars, dbVars, localVars
<1>2. ASSUME NEW r \in Requests, NEW c \in Steps, Start(r, c) PROVE Frontier'
  <2>1. table' = table /\ pc[r] = "idle"
    BY <1>2 DEF Start, dbVars
  <2> QED
    BY <1>2, <2>1, StartPlaced, LookingKeepsFrontier
<1>3. ASSUME NEW r \in Requests, Crash(r) PROVE Frontier'
  <2>1. table' = table /\ pc'[r] = "crashed" /\ ended' = ended
    BY <1>3 DEF Crash, Goto, dbVars
  <2> QED
    BY <1>3, <2>1, CrashPlaced, LookingKeepsFrontier
<1>4. ASSUME NEW r \in Requests, Retry(r) PROVE Frontier'
  <2>1. table' = table /\ pc'[r] \in {"read", "prior"} /\ ended' = ended
    BY <1>4 DEF Retry, Goto, dbVars, localVars
  <2> QED
    BY <1>4, <2>1, RetryPlaced, LookingKeepsFrontier
<1>5. ASSUME NEW r \in Requests, CheckPrior(r) PROVE Frontier'
  <2>1. table' = table /\ ended' = ended
    BY <1>5 DEF CheckPrior, dbVars
  <2>2. Goto(r, "read") \/ Goto(r, "mark") \/ Visit(r, cursor[r] + 1)
    BY <1>5 DEF CheckPrior
  <2>3. pc'[r] \in {"read", "mark", "prior"}
    BY <2>2 DEF Visit, Goto
  <2> QED
    BY <1>5, <2>1, <2>3, CheckPriorPlaced, LookingKeepsFrontier
<1>6. ASSUME NEW r \in Requests, SaveRead(r) PROVE Frontier'
  <2>1. table' = table /\ pc'[r] = "write" /\ ended' = ended
    BY <1>6 DEF SaveRead, Goto, dbVars
  <2> QED
    BY <1>6, <2>1, SaveReadPlaced, LookingKeepsFrontier
<1>7. ASSUME NEW r \in Requests, ReadFile(r) PROVE Frontier'
  <2>1. table' = table /\ pc[r] = "file" /\ ended' = ended
    BY <1>7 DEF ReadFile, dbVars
  <2> QED
    BY <1>7, <2>1, ReadFilePlaced, LookingKeepsFrontier
<1>8. ASSUME NEW r \in Requests, CountTasks(r) PROVE Frontier'
  <2>1. table' = table /\ pc[r] = "count" /\ ended' = ended
    BY <1>8 DEF CountTasks, dbVars
  <2> QED
    BY <1>8, <2>1, CountTasksPlaced, LookingKeepsFrontier
<1>9. ASSUME NEW r \in Requests, CommitFile(r) PROVE Frontier'
  <2>1. table' = table /\ pc[r] = "commit"
    BY <1>9 DEF CommitFile, dbVars
  <2>2. OthersWait(r)
    BY <1>9, CommitFilePlaced
  <2>3. \A q \in Requests, s \in Steps : Owes(q, s) => q # r
    BY <2>1 DEF Owes
  <2> QED
    BY <2>1, <2>2, <2>3, RowsKept DEF Owes, OthersWait
<1>10. ASSUME NEW r \in Requests, Work(r) PROVE Frontier'
  BY <1>5, <1>6, <1>7, <1>8, <1>9, <1>10, MarkKeepsFrontier, SaveKeepsFrontier,
     TargetKeepsFrontier
  DEF Work
<1> QED
  BY <1>1, <1>2, <1>3, <1>4, <1>10 DEF Next

\* When no request is running the furthest step is open, or is the last one,
\* however many requests overlapped, were cut off and were sent again.
THEOREM FrontierSurvives == Spec => []QuiescentFrontier
<1>1. Init => Frontier
  <2> SUFFICES ASSUME Init, NEW s \in Steps, Furthest(s),
                      First(s) # "In-Progress"
               PROVE  FALSE
    BY DEF Frontier
  <2>1. PICK k \in Steps :
          table = [t \in Steps |-> IF t < k THEN <<"Completed">>
                                   ELSE IF t = k THEN <<"In-Progress">> ELSE <<>>]
    BY DEF Init
  <2>2. table[k] = <<"In-Progress">> /\ <<"In-Progress">> # <<>>
        /\ <<"In-Progress">>[1] = "In-Progress" /\ First(k) = "In-Progress"
    BY <2>1 DEF First, Steps
  <2>3. ~(k > s)
    BY <2>2 DEF Furthest
  <2>4. s # k
    BY <2>2
  <2>5. table[s] = <<>>
    BY <2>1, <2>3, <2>4 DEF Steps
  <2> QED
    BY <2>5 DEF Furthest
<1>2. Frontier => QuiescentFrontier
  <2> SUFFICES ASSUME Frontier, Quiet, NEW s \in Steps, Furthest(s),
                      s # LastStep, First(s) # "In-Progress"
               PROVE  FALSE
    BY DEF QuiescentFrontier, Furthest
  <2>1. PICK r \in Requests : Owes(r, s)
    BY DEF Frontier
  <2>2. r \in Active
    BY <2>1 DEF Owes, Active, Working
  <2> QED
    BY <2>2 DEF Quiet
<1> QED
  BY <1>1, <1>2, InitPlaced, PlaceStep, FrontierStep, PTL DEF Spec

-----------------------------------------------------------------------------
(* A request that nothing overlaps.                                        *)

\* Its own part of the invariant is all there is to show.
LEMMA OwnLone ==
  ASSUME PlaceInv, LoneInv, NEW r \in Active, OthersWait(r), alone' = alone,
         alone /\ Sole(r) /\ r \in Active' => Sole(r)'
  PROVE  LoneInv'
<1> SUFFICES ASSUME alone', NEW p \in Active'
             PROVE  Sole(p)' /\ \A q \in Active' : q = p
  BY DEF LoneInv
<1>1. Sole(r) /\ \A q \in Active : q = r
  BY DEF LoneInv
<1>2. \A q \in Active' : q = r
  BY <1>1 DEF Active, OthersWait
<1> QED
  BY <1>1, <1>2

\* A step that writes no row changes nothing of what the rows show.
LEMMA SoleRowsKept ==
  ASSUME NEW r \in Requests, LoneRows(r), table' = table, snapshot' = snapshot,
         ended' = ended
  PROVE  LoneRows(r)' /\ (\A s \in Steps : First(s)' = First(s))
         /\ \A n : Settled(r, n) => Settled(r, n)'
BY DEF LoneRows, First, Settled

\* The types of what a request works with.
LEMMA SoleTypes ==
  ASSUME PlaceInv, NEW r \in Requests
  PROVE  /\ ended[r] \in Steps /\ ended[r] \in Nat /\ cursor[r] \in Steps
         /\ cursor[r] \in Nat /\ LastStep \in Nat /\ 1 \in Steps
         /\ ended[r] # LastStep => ended[r] + 1 \in Steps
         /\ \A s \in Steps : s \in Nat /\ s >= 1 /\ s <= LastStep
         /\ \A s \in Steps : First(s) \in {"None", "In-Progress", "Completed"}
         /\ \A s \in Steps : snapshot[s] \in {"None", "In-Progress", "Completed"}
         /\ \A s \in Steps : First(s) = "None" <=> table[s] = <<>>
<1>1. \A s \in Steps : First(s) \in Reading /\ (First(s) = "None" <=> table[s] = <<>>)
  BY FirstTyped DEF PlaceInv
<1>2. \A s \in Steps : snapshot[s] \in Reading
  BY DEF PlaceInv, Typed, Steps
<1>3. /\ ended[r] \in Steps /\ cursor[r] \in Steps
      /\ LastStep \in Nat /\ LastStep >= 1
  BY RequestsAssumption DEF PlaceInv, Typed, TypeOK
<1> QED
  BY <1>1, <1>2, <1>3 DEF Reading, Row, Steps

\* An earlier step is as the snapshot shows it, and if it is completed already
\* the request has no task of it to close.
LEMMA CheckPriorSole ==
  ASSUME PlaceInv, NEW r \in Requests, Sole(r), CheckPrior(r)
  PROVE  Sole(r)'
<1>0. PICK c \in Steps : c = cursor[r]
  BY SoleTypes
<1> USE SoleTypes
<1>1. /\ table' = table /\ snapshot' = snapshot /\ ended' = ended /\ auto' = auto
      /\ crashed' = crashed /\ pc[r] = "prior" /\ c < ended[r]
  BY <1>0 DEF CheckPrior, dbVars, historyVars, PlaceInv, Place
<1>2. LoneRows(r)' /\ (\A s \in Steps : First(s)' = First(s))
      /\ \A n : Settled(r, n) => Settled(r, n)'
  BY <1>1, SoleRowsKept DEF Sole
<1>3. Settled(r, c)
  BY <1>0, <1>1 DEF Sole, LoneStage
<1>4. CASE First(c) = "None"
  <2>1. Goto(r, "read") /\ cursor' = cursor
    BY <1>0, <1>4 DEF CheckPrior
  <2>2. pc'[r] = "read" /\ cursor'[r] = c
    BY <1>0, <2>1 DEF Goto, PlaceInv, Typed, TypeOK
  <2>3. First(cursor[r])' = "None"
    BY <1>0, <1>2, <1>4, <2>1
  <2>4. LoneStage(r)'
    BY <1>1, <1>2, <1>3, <2>2, <2>3 DEF LoneStage
  <2>5. r \notin crashed => LoneAuto(r)'
    BY <1>0, <1>1, <1>2, <2>2 DEF Sole, LoneAuto
  <2> QED
    BY <1>1, <1>2, <2>2, <2>4, <2>5 DEF Sole, LoneSeen
<1>5. CASE First(c) = "In-Progress"
  <2>1. Goto(r, "mark") /\ cursor' = cursor
    BY <1>0, <1>5 DEF CheckPrior
  <2>2. pc'[r] = "mark" /\ cursor'[r] = c
    BY <1>0, <2>1 DEF Goto, PlaceInv, Typed, TypeOK
  <2>3. First(cursor[r])' = "In-Progress"
    BY <1>0, <1>2, <1>5, <2>1
  <2>4. LoneStage(r)'
    BY <1>1, <1>2, <1>3, <2>2, <2>3 DEF LoneStage
  <2>5. r \notin crashed => LoneAuto(r)'
    BY <1>0, <1>1, <1>2, <2>2 DEF Sole, LoneAuto
  <2> QED
    BY <1>1, <1>2, <2>2, <2>4, <2>5 DEF Sole, LoneSeen
<1>6. CASE First(c) = "Completed"
  <2>1. Visit(r, c + 1)
    BY <1>0, <1>6 DEF CheckPrior
  <2>2. /\ pc'[r] \in {"prior", "read"} /\ cursor'[r] = c + 1
        /\ pc'[r] = "read" => c + 1 = ended[r]
    BY <1>1, <2>1 DEF Visit, Goto, PlaceInv, Typed, TypeOK
  <2>3. Settled(r, c + 1)'
    BY <1>1, <1>2, <1>3, <1>6 DEF Settled
  <2>4. LoneStage(r)'
    BY <1>1, <2>2, <2>3 DEF LoneStage
  <2>5. ASSUME r \notin crashed PROVE LoneAuto(r)'
    <3>1. snapshot[c] = "Completed"
      BY <1>0, <1>1, <1>6, <2>5 DEF Sole, LoneAuto
    <3>2. auto[r] = {s \in Steps : /\ s < c + 1 /\ s < ended[r]
                                   /\ snapshot[s] # "Completed"}
      BY <1>0, <2>5, <3>1 DEF Sole, LoneAuto
    <3>3. \A s \in Steps : c + 1 <= s /\ s <= ended[r] => First(s)' = snapshot[s]
      BY <1>0, <1>1, <1>2, <2>5 DEF Sole, LoneAuto
    <3> QED
      BY <1>1, <2>2, <3>2, <3>3 DEF LoneAuto
  <2> QED
    BY <1>1, <1>2, <2>2, <2>4, <2>5 DEF Sole, LoneSeen
<1> QED
  BY <1>4, <1>5, <1>6

\* An earlier step that was open is completed, and its task is to be closed.
LEMMA MarkPriorSole ==
  ASSUME PlaceInv, NEW r \in Requests, Sole(r), MarkPrior(r)
  PROVE  Sole(r)'
<1>0. PICK c \in Steps : c = cursor[r]
  BY SoleTypes
<1> USE SoleTypes
<1>1. /\ snapshot' = snapshot /\ ended' = ended /\ auto'[r] = auto[r] \cup {c}
      /\ crashed' = crashed /\ pc[r] = "mark" /\ c < ended[r]
      /\ First(c) = "In-Progress" /\ Settled(r, c)
  BY <1>0 DEF MarkPrior, historyVars, PlaceInv, Place, Typed, TypeOK, Sole, LoneStage
<1>2. /\ \A s \in Steps : s # c => table'[s] = table[s]
      /\ First(c)' = "Completed"
  BY <1>0, MarkRow
<1>3. \A s \in Steps : First(s)' = IF s = c THEN "Completed" ELSE First(s)
  BY <1>2 DEF First
<1>4. LoneRows(r)'
  BY <1>1, <1>3 DEF Sole, LoneRows
<1>5. /\ pc'[r] \in {"prior", "read"} /\ cursor'[r] = c + 1
      /\ pc'[r] = "read" => c + 1 = ended[r]
  <2>1. Visit(r, c + 1)
    BY <1>0 DEF MarkPrior
  <2> QED
    BY <1>1, <2>1 DEF Visit, Goto, PlaceInv, Typed, TypeOK
<1>6. Settled(r, c + 1)'
  BY <1>1, <1>3 DEF Settled
<1>7. LoneStage(r)'
  BY <1>1, <1>5, <1>6 DEF LoneStage
<1>8. ASSUME r \notin crashed PROVE LoneAuto(r)'
  <2>1. snapshot[c] = "In-Progress"
    BY <1>0, <1>1, <1>8 DEF Sole, LoneAuto
  <2>2. auto'[r] = {s \in Steps : /\ s < c + 1 /\ s < ended[r]
                                  /\ snapshot[s] # "Completed"}
    BY <1>0, <1>1, <1>8, <2>1 DEF Sole, LoneAuto
  <2>3. \A s \in Steps : c + 1 <= s /\ s <= ended[r] => First(s)' = snapshot[s]
    BY <1>0, <1>1, <1>3, <1>8 DEF Sole, LoneAuto
  <2> QED
    BY <1>1, <1>5, <2>2, <2>3 DEF LoneAuto
<1> QED
  BY <1>1, <1>4, <1>5, <1>7, <1>8 DEF Sole, LoneSeen

\* The row loaded is the first row, since nobody else inserts one.
LEMMA SaveReadSole ==
  ASSUME PlaceInv, NEW r \in Requests, Sole(r), SaveRead(r)
  PROVE  Sole(r)'
<1> DEFINE c == cursor[r]
<1> USE SoleTypes
<1>1. /\ table' = table /\ snapshot' = snapshot /\ ended' = ended /\ auto' = auto
      /\ crashed' = crashed /\ cursor' = cursor /\ pc[r] = "read"
      /\ pc'[r] = "write" /\ found'[r] = First(c)
  BY DEF SaveRead, Goto, dbVars, historyVars, PlaceInv, Typed, TypeOK
<1>2. LoneRows(r)' /\ (\A s \in Steps : First(s)' = First(s))
      /\ \A n : Settled(r, n) => Settled(r, n)'
  BY <1>1, SoleRowsKept DEF Sole
<1>3. First(cursor[r])' = First(c)
  BY <1>1, <1>2
<1>4. LoneStage(r)'
  BY <1>1, <1>2, <1>3 DEF Sole, LoneStage
<1>5. r \notin crashed => LoneAuto(r)'
  BY <1>1, <1>2 DEF Sole, LoneAuto
<1> QED
  BY <1>1, <1>2, <1>4, <1>5 DEF Sole, LoneSeen

\* What is written is what the status read asks for: a missing earlier step
\* is inserted completed, the ended one completed, the next one opened.
LEMMA SaveWriteSole ==
  ASSUME PlaceInv, NEW r \in Requests, Sole(r), SaveWrite(r)
  PROVE  Sole(r)'
<1>0. PICK c \in Steps : c = cursor[r]
  BY SoleTypes
<1> USE SoleTypes
<1>1. /\ snapshot' = snapshot /\ ended' = ended
      /\ crashed' = crashed /\ pc[r] = "write" /\ c <= ended[r] + 1
      /\ found[r] = First(c) /\ Settled(r, c)
      /\ c < ended[r] => First(c) = "None"
      /\ c > ended[r] => First(c) # "Completed"
  BY <1>0 DEF SaveWrite, historyVars, PlaceInv, Place, Sole, LoneStage
<1>2. /\ \A s \in Steps : s # c => table'[s] = table[s]
      /\ First(c)' = Saved(r)
  <2>1. First(c)' = IF table[c] = <<>> THEN Saved(r)
                    ELSE IF found[r] \in {"None", Saved(r)} THEN First(c)
                    ELSE Saved(r)
    BY <1>0, SaveRow
  <2> QED
    BY <1>0, <1>1, <2>1, SaveRow
<1>3. \A s \in Steps : First(s)' = IF s = c THEN Saved(r) ELSE First(s)
  BY <1>2 DEF First
<1>4. Saved(r) = IF c <= ended[r] THEN "Completed" ELSE "In-Progress"
  BY <1>0 DEF Saved
<1>5. LoneRows(r)'
  BY <1>1, <1>3, <1>4 DEF Sole, LoneRows
<1>6. CASE c < ended[r]
  <2>1. Visit(r, c + 1) /\ auto' = [auto EXCEPT ![r] = @ \cup {c}]
    BY <1>0, <1>6 DEF SaveWrite
  <2>2. /\ pc'[r] \in {"prior", "read"} /\ cursor'[r] = c + 1
        /\ pc'[r] = "read" => c + 1 = ended[r]
        /\ auto'[r] = auto[r] \cup {c}
    BY <1>6, <2>1 DEF Visit, Goto, PlaceInv, Typed, TypeOK
  <2>3. Settled(r, c + 1)'
    BY <1>1, <1>3, <1>4 DEF Settled
  <2>4. LoneStage(r)'
    BY <1>1, <2>2, <2>3 DEF LoneStage
  <2>5. ASSUME r \notin crashed PROVE LoneAuto(r)'
    <3>1. snapshot[c] = "None"
      BY <1>0, <1>1, <1>6, <2>5 DEF Sole, LoneAuto
    <3>2. auto'[r] = {s \in Steps : /\ s < c + 1 /\ s < ended[r]
                                    /\ snapshot[s] # "Completed"}
      BY <1>0, <1>6, <2>2, <2>5, <3>1 DEF Sole, LoneAuto
    <3>3. \A s \in Steps : c + 1 <= s /\ s <= ended[r] => First(s)' = snapshot[s]
      BY <1>0, <1>1, <1>3, <2>5 DEF Sole, LoneAuto
    <3> QED
      BY <1>1, <2>2, <3>2, <3>3 DEF LoneAuto
  <2> QED
    BY <1>1, <1>5, <2>2, <2>4, <2>5 DEF Sole, LoneSeen
<1>7. CASE c = ended[r]
  <2>1. /\ cursor' = [cursor EXCEPT ![r] = IF @ = LastStep THEN @ ELSE @ + 1]
        /\ Goto(r, IF c = LastStep THEN "file" ELSE "target")
        /\ auto' = auto
    BY <1>0, <1>7 DEF SaveWrite
  <2>2. /\ pc'[r] = (IF c = LastStep THEN "file" ELSE "target")
        /\ cursor'[r] = (IF c = LastStep THEN c ELSE c + 1) /\ auto'[r] = auto[r]
    BY <1>0, <2>1 DEF Goto, PlaceInv, Typed, TypeOK
  <2>3. Settled(r, ended[r] + 1)'
    BY <1>1, <1>3, <1>4, <1>7 DEF Settled
  <2>4. LoneStage(r)'
    BY <1>1, <1>7, <2>2, <2>3 DEF LoneStage, HasTarget
  <2>5. r \notin crashed => LoneAuto(r)'
    BY <1>0, <1>1, <1>7, <2>2 DEF Sole, LoneAuto
  <2> QED
    BY <1>1, <1>5, <2>2, <2>4, <2>5 DEF Sole, LoneSeen
<1>8. CASE c > ended[r]
  <2>1. Goto(r, "file") /\ auto' = auto /\ cursor' = cursor
    BY <1>0, <1>8 DEF SaveWrite
  <2>2. pc'[r] = "file" /\ c = ended[r] + 1
    BY <1>1, <1>8, <2>1 DEF Goto, PlaceInv, Typed, TypeOK
  <2>3. Settled(r, ended[r] + 1)'
    BY <1>1, <1>3, <2>2 DEF Settled
  <2>4. First(c)' = "In-Progress" /\ snapshot[c] # "Completed"
    BY <1>1, <1>2, <1>4, <1>8, <2>2 DEF Sole, LoneRows
  <2>5. LoneStage(r)'
    BY <1>1, <2>2, <2>3, <2>4 DEF LoneStage
  <2>6. r \notin crashed => LoneAuto(r)'
    BY <1>1, <2>1, <2>2 DEF Sole, LoneAuto
  <2> QED
    BY <1>1, <1>5, <2>2, <2>5, <2>6 DEF Sole, LoneSeen
<1> QED
  BY <1>6, <1>7, <1>8

\* The next step is left alone only if it was completed before the request.
LEMMA CheckTargetSole ==
  ASSUME PlaceInv, NEW r \in Requests, Sole(r), CheckTarget(r)
  PROVE  Sole(r)'
<1>0. PICK c \in Steps : c = cursor[r]
  BY SoleTypes
<1> USE SoleTypes
<1>1. /\ table' = table /\ snapshot' = snapshot /\ ended' = ended /\ auto' = auto
      /\ crashed' = crashed /\ cursor' = cursor /\ pc[r] = "target"
      /\ c = ended[r] + 1 /\ Settled(r, c) /\ found'[r] = First(c)
  BY <1>0 DEF CheckTarget, dbVars, historyVars, PlaceInv, Place, Sole, LoneStage,
              Typed, TypeOK
<1>2. LoneRows(r)' /\ (\A s \in Steps : First(s)' = First(s))
      /\ \A n : Settled(r, n) => Settled(r, n)'
  BY <1>1, SoleRowsKept DEF Sole
<1>3. /\ First(c) = "None" => pc'[r] = "read"
      /\ First(c) = "In-Progress" => pc'[r] = "write"
      /\ First(c) = "Completed" => pc'[r] = "file"
  BY <1>0, <1>1 DEF CheckTarget, Goto, PlaceInv, Typed, TypeOK
<1>4. First(cursor[r])' = First(c)
  BY <1>0, <1>1, <1>2
<1>5. First(c) = "Completed" => snapshot[c] = "Completed"
  BY <1>1 DEF Sole, LoneRows
<1>6. LoneStage(r)'
  BY <1>0, <1>1, <1>2, <1>3, <1>4, <1>5 DEF LoneStage
<1>7. r \notin crashed => LoneAuto(r)'
  BY <1>0, <1>1, <1>2 DEF Sole, LoneAuto
<1>8. LoneSeen(r)'
  BY <1>3 DEF LoneSeen
<1> QED
  BY <1>1, <1>2, <1>6, <1>7, <1>8 DEF Sole

\* The file and the tasks are read as they will be at the commit,
LEMMA ReadFileSole ==
  ASSUME PlaceInv, NEW r \in Requests, Sole(r), ReadFile(r)
  PROVE  Sole(r)'
<1> DEFINE read == [progress |-> progress, count |-> 0,
                    open |-> {i \in DOMAIN tasks :
                       tasks[i].open /\ tasks[i].step \in {ended[r]} \cup auto[r]},
                    exists |-> \E i \in DOMAIN tasks : tasks[i].step = Target(r)]
<1>1. /\ table' = table /\ tasks' = tasks /\ progress' = progress
      /\ snapshot' = snapshot /\ ended' = ended /\ auto' = auto
      /\ crashed' = crashed /\ cursor' = cursor /\ pc[r] = "file"
      /\ seen'[r] = read
  BY DEF ReadFile, dbVars, historyVars, PlaceInv, Typed
<1>2. /\ pc'[r] \in {"count", "commit"}
      /\ pc'[r] = "count" <=> HasTarget(r) /\ ~read.exists
  BY <1>1 DEF ReadFile, Goto, PlaceInv, Typed, TypeOK
<1>3. LoneRows(r)' /\ (\A s \in Steps : First(s)' = First(s))
      /\ \A n : Settled(r, n) => Settled(r, n)'
  BY <1>1, SoleRowsKept DEF Sole
<1>4. LoneStage(r)'
  <2>1. Settled(r, ended[r] + 1)'
    BY <1>1, <1>3 DEF Sole, LoneStage
  <2>2. HasTarget(r) => First(ended[r] + 1)' = First(ended[r] + 1)
    BY <1>1, <1>3, SoleTypes DEF HasTarget
  <2> QED
    BY <1>1, <1>2, <2>1, <2>2 DEF Sole, LoneStage, HasTarget
<1>5. LoneSeen(r)'
  <2>1. (HasTarget(r) <=> HasTarget(r)') /\ Target(r)' = Target(r)
    BY <1>1 DEF HasTarget, Target
  <2>2. /\ seen'[r].progress = progress
        /\ seen'[r].open = read.open /\ seen'[r].exists = read.exists
    BY <1>1
  <2> QED
    BY <1>1, <1>2, <2>1, <2>2 DEF LoneSeen
<1>6. r \notin crashed => LoneAuto(r)'
  BY <1>1, <1>2 DEF Sole, LoneAuto
<1> QED
  BY <1>1, <1>3, <1>4, <1>5, <1>6 DEF Sole

\* and so is the number of tasks.
LEMMA CountTasksSole ==
  ASSUME PlaceInv, NEW r \in Requests, Sole(r), CountTasks(r)
  PROVE  Sole(r)'
<1>1. /\ table' = table /\ tasks' = tasks /\ progress' = progress
      /\ snapshot' = snapshot /\ ended' = ended /\ auto' = auto
      /\ crashed' = crashed /\ cursor' = cursor /\ pc[r] = "count"
      /\ pc'[r] = "commit" /\ seen'[r] = [seen[r] EXCEPT !.count = Len(tasks)]
  BY DEF CountTasks, Goto, dbVars, historyVars, PlaceInv, Typed, TypeOK
<1>2. LoneRows(r)' /\ (\A s \in Steps : First(s)' = First(s))
      /\ \A n : Settled(r, n) => Settled(r, n)'
  BY <1>1, SoleRowsKept DEF Sole
<1>3. LoneStage(r)'
  <2>1. Settled(r, ended[r] + 1)'
    BY <1>1, <1>2 DEF Sole, LoneStage
  <2>2. HasTarget(r) => First(ended[r] + 1)' = First(ended[r] + 1)
    BY <1>1, <1>2, SoleTypes DEF HasTarget
  <2> QED
    BY <1>1, <2>1, <2>2 DEF Sole, LoneStage, HasTarget
<1>4. LoneSeen(r)'
  <2>1. (HasTarget(r) <=> HasTarget(r)') /\ Target(r)' = Target(r)
    BY <1>1 DEF HasTarget, Target
  <2>2. /\ seen'[r].progress = seen[r].progress /\ seen'[r].open = seen[r].open
        /\ seen'[r].exists = seen[r].exists /\ seen'[r].count = Len(tasks)
    BY <1>1 DEF PlaceInv, Typed, Seen
  <2> QED
    BY <1>1, <2>1, <2>2 DEF Sole, LoneSeen
<1>5. r \notin crashed => LoneAuto(r)'
  BY <1>1 DEF Sole, LoneAuto
<1> QED
  BY <1>1, <1>2, <1>3, <1>4, <1>5 DEF Sole

\* A request that is cut off keeps what it committed; one that is sent again
\* starts over from there.
LEMMA CutSole ==
  ASSUME PlaceInv, NEW r \in Requests, Sole(r), Crash(r) \/ Retry(r)
  PROVE  Sole(r)'
<1>1. table' = table /\ snapshot' = snapshot /\ ended' = ended
  BY DEF Crash, Retry, dbVars, localVars, historyVars
<1>2. LoneRows(r)'
  BY <1>1, SoleRowsKept DEF Sole
<1>3. CASE Crash(r)
  <2>1. pc'[r] = "crashed" /\ r \in crashed'
    BY <1>3 DEF Crash, Goto, PlaceInv, Typed, TypeOK
  <2> QED
    BY <1>2, <2>1 DEF Sole, LoneStage, LoneSeen
<1>4. CASE Retry(r)
  <2>1. /\ pc'[r] = (IF ended[r] = 1 THEN "read" ELSE "prior")
        /\ cursor'[r] = 1 /\ crashed' = crashed /\ r \in crashed
    BY <1>4
    DEF Retry, Goto, localVars, historyVars, PlaceInv, Place, Typed, TypeOK,
        Sole, LoneStage
  <2>2. Settled(r, 1)'
    BY SoleTypes DEF Settled
  <2>3. LoneStage(r)'
    BY <1>1, <2>1, <2>2, SoleTypes DEF LoneStage
  <2> QED
    BY <1>2, <2>1, <2>3 DEF Sole, LoneSeen
<1> QED
  BY <1>3, <1>4

\* The first request after a quiet period finds the rows as they are noted.
LEMMA StartLone ==
  ASSUME PlaceInv, NEW r \in Requests, NEW c \in Steps, Start(r, c)
  PROVE  LoneInv'
<1> SUFFICES ASSUME alone', NEW p \in Active'
             PROVE  Sole(p)' /\ \A q \in Active' : q = p
  BY DEF LoneInv
<1>1. Quiet
  BY DEF Start
<1>2. \A q \in Active' : q = r
  BY <1>1, StartPlaced DEF Quiet, Active, OthersWait
<1>3. /\ table' = table /\ snapshot' = FirstRows /\ ended'[r] = c /\ cursor'[r] = 1
      /\ pc'[r] = (IF c = 1 THEN "read" ELSE "prior") /\ auto'[r] = {}
  BY <1>1 DEF Start, Goto, dbVars, PlaceInv, Place, Typed, TypeOK
<1>4. \A s \in Steps : First(s)' = snapshot'[s]
  BY <1>3, FirstRowsTyped DEF First, PlaceInv
<1>5. LoneRows(r)'
  BY <1>3, <1>4, RequestsAssumption DEF LoneRows, Steps
<1>6. Settled(r, 1)'
  BY SoleTypes DEF Settled
<1>7. LoneStage(r)'
  BY <1>3, <1>6, SoleTypes DEF LoneStage
<1>8. LoneAuto(r)'
  BY <1>3, <1>4, SoleTypes DEF LoneAuto
<1>9. LoneSeen(r)'
  BY <1>3 DEF LoneSeen
<1> QED
  BY <1>2, <1>5, <1>7, <1>8, <1>9 DEF Sole

\* Every step keeps what is known of a request that nothing overlaps.
LEMMA LoneStep == PlaceInv /\ LoneInv /\ [Next]_vars => LoneInv'
<1> SUFFICES ASSUME PlaceInv, LoneInv, [Next]_vars PROVE LoneInv'
  OBVIOUS
<1>1. CASE UNCHANGED vars
  <2>1. /\ table' = table /\ tasks' = tasks /\ progress' = progress /\ pc' = pc
        /\ ended' = ended /\ cursor' = cursor /\ auto' = auto /\ found' = found
        /\ seen' = seen /\ crashed' = crashed /\ snapshot' = snapshot
        /\ alone' = alone
    BY <1>1 DEF vars, dbVars, localVars, historyVars
  <2>2. Active' = Active
    BY <2>1 DEF Active
  <2>3. ASSUME NEW r \in Active, Sole(r) PROVE Sole(r)'
    <3>1. LoneRows(r)'
      BY <2>1, <2>3, SoleRowsKept DEF Sole, Active
    <3>2. LoneStage(r)'
      BY <2>1, <2>3 DEF Sole, LoneStage, Settled, First, HasTarget
    <3>3. LoneSeen(r)'
      BY <2>1, <2>3 DEF Sole, LoneSeen, HasTarget, Target
    <3>4. r \notin crashed => LoneAuto(r)'
      BY <2>1, <2>3 DEF Sole, LoneAuto, First
    <3> QED
      BY <2>1, <3>1, <3>2, <3>3, <3>4 DEF Sole
  <2> QED
    BY <2>1, <2>2, <2>3 DEF LoneInv
<1>2. ASSUME NEW r \in Requests, Crash(r) \/ Retry(r) PROVE LoneInv'
  <2>1. r \in Active /\ alone' = alone
    BY <1>2 DEF Active, Crash, Retry, historyVars
  <2>2. OthersWait(r)
    BY <1>2, CrashPlaced, RetryPlaced
  <2> QED
    BY <1>2, <2>1, <2>2, CutSole, OwnLone
<1>3. ASSUME NEW r \in Requests, Work(r) PROVE LoneInv'
  <2>1. r \in Active /\ alone' = alone
    BY <1>3
    DEF Active, Working, Work, CheckPrior, MarkPrior, SaveRead, SaveWrite,
        CheckTarget, ReadFile, CountTasks, CommitFile, historyVars
  <2>2. OthersWait(r)
    BY <1>3, CheckPriorPlaced, MarkPriorPlaced, SaveReadPlaced, SaveWritePlaced,
       CheckTargetPlaced, ReadFilePlaced, CountTasksPlaced, CommitFilePlaced
    DEF Work
  <2>3. ASSUME CommitFile(r) PROVE r \notin Active'
    <3>1. Goto(r, "done") \/ Goto(r, "failed")
      BY <2>3 DEF CommitFile
    <3> QED
      BY <3>1 DEF Goto, Active, Working, PlaceInv, Typed, TypeOK
  <2> QED
    BY <1>3, <2>1, <2>2, <2>3, OwnLone, CheckPriorSole, MarkPriorSole, SaveReadSole,
       SaveWriteSole, CheckTargetSole, ReadFileSole, CountTasksSole
    DEF Work, Active
<1> QED
  BY <1>1, <1>2, <1>3, StartLone DEF Next

\* A new file has no request.
LEMMA InitLone == Init => LoneInv
BY DEF Init, LoneInv, Active, Working

\* Where each request stands, and what one that nothing overlaps has done, in
\* every reachable state.
THEOREM LoneAlways == Spec => [](PlaceInv /\ LoneInv)
BY InitPlaced, PlaceStep, InitLone, LoneStep, PTL DEF Spec

\* Only its last commit takes a request from there to its end.
LEMMA CommitStep ==
  ASSUME PlaceInv, [Next]_vars, NEW r \in Requests,
         pc[r] = "commit", pc'[r] \in {"done", "failed"}
  PROVE  CommitFile(r)
<1>1. ~UNCHANGED vars
  BY DEF vars
<1>2. PICK q \in Requests :
        (\E c \in Steps : Start(q, c)) \/ Crash(q) \/ Retry(q) \/ Work(q)
  BY <1>1 DEF Next
<1>3. OthersWait(q)
  BY <1>2, StartPlaced, CrashPlaced, RetryPlaced, CheckPriorPlaced, MarkPriorPlaced,
     SaveReadPlaced, SaveWritePlaced, CheckTargetPlaced, ReadFilePlaced,
     CountTasksPlaced, CommitFilePlaced
  DEF Work
<1>4. q = r
  BY <1>3 DEF OthersWait
<1>5. ~Crash(r)
  BY DEF Crash, Goto, PlaceInv, Typed, TypeOK
<1> QED
  BY <1>2, <1>4, <1>5
  DEF Start, Retry, Work, CheckPrior, MarkPrior, SaveRead, SaveWrite, CheckTarget,
      ReadFile, CountTasks

\* The rows when a request that nothing overlapped makes its last commit.
LEMMA RowsAtCommit ==
  ASSUME PlaceInv, NEW r \in Requests, Sole(r), pc[r] = "commit"
  PROVE  \A s \in Steps : First(s) =
           IF s <= ended[r] THEN "Completed"
           ELSE IF s = ended[r] + 1 /\ snapshot[s] # "Completed" THEN "In-Progress"
           ELSE snapshot[s]
<1> SUFFICES ASSUME NEW s \in Steps
             PROVE  First(s) =
               IF s <= ended[r] THEN "Completed"
               ELSE IF s = ended[r] + 1 /\ snapshot[s] # "Completed" THEN "In-Progress"
               ELSE snapshot[s]
  OBVIOUS
<1> USE SoleTypes
<1>1. CASE s <= ended[r]
  BY <1>1 DEF Sole, LoneStage, Settled
<1>2. CASE s = ended[r] + 1
  BY <1>2 DEF Sole, LoneStage, HasTarget
<1>3. CASE s > ended[r] + 1
  BY <1>3 DEF Sole, LoneRows
<1> QED
  BY <1>1, <1>2, <1>3

\* The atomic board's advance, on a board without skipped or held steps.
LEMMA BoardAdvance ==
  ASSUME PlaceInv, NEW r \in Requests
  PROVE  Board!RowsAfterAdvance(snapshot, ended[r], Board!NaturalNext(ended[r]), TRUE)
         = [s \in 0 .. LastStep |->
              IF s = 0 THEN "None"
              ELSE IF s <= ended[r] THEN "Completed"
              ELSE IF s = ended[r] + 1 /\ snapshot[s] # "Completed" THEN "In-Progress"
              ELSE snapshot[s]]
<1> DEFINE e == ended[r]
           done == Board!Ended(snapshot, e, TRUE)
           next == Board!NaturalNext(e)
<1>1. e \in Steps /\ e \in Nat /\ e # 0 /\ e >= 1 /\ e <= LastStep /\ LastStep \in Nat
  BY SoleTypes DEF Steps
<1>2. Board!Codes = 0 .. LastStep /\ Board!Steps = Steps
  BY <1>1 DEF Board!Codes, Board!Steps, Board!Legacy, Steps
<1>3. next = IF e = LastStep THEN {} ELSE {e + 1}
  BY <1>1 DEF Board!NaturalNext, Board!Legacy
<1>4. \A s \in Steps : snapshot[s] \in {"None", "In-Progress", "Completed"}
  BY SoleTypes
<1>5. done = {e} \cup {p \in Steps : p < e /\ snapshot[p] \in {"None", "In-Progress"}}
  BY <1>1, <1>2 DEF Board!Ended, Board!AutoCompleted
<1>6. snapshot[0] = "None"
  BY DEF PlaceInv, Typed
<1>7. Board!RowsAfterAdvance(snapshot, e, next, TRUE) =
        [s \in 0 .. LastStep |->
           IF s \in done THEN "Completed"
           ELSE IF s \in next /\ snapshot[s] # "Completed" THEN "In-Progress"
           ELSE snapshot[s]]
  BY <1>2 DEF Board!RowsAfterAdvance
<1> HIDE DEF e, done, next
<1>8. ASSUME NEW s \in 0 .. LastStep
      PROVE  (IF s \in done THEN "Completed"
              ELSE IF s \in next /\ snapshot[s] # "Completed" THEN "In-Progress"
              ELSE snapshot[s])
             = IF s = 0 THEN "None"
               ELSE IF s <= e THEN "Completed"
               ELSE IF s = e + 1 /\ snapshot[s] # "Completed" THEN "In-Progress"
               ELSE snapshot[s]
  <2>1. CASE s = 0
    BY <1>1, <1>3, <1>5, <1>6, <2>1 DEF Steps
  <2>2. CASE s \in Steps /\ s <= e
    <3>1. s \in done \/ (s \notin next /\ snapshot[s] = "Completed")
      BY <1>1, <1>3, <1>4, <1>5, <2>2 DEF Steps
    <3> QED
      BY <1>1, <2>2, <3>1 DEF Steps
  <2>3. CASE s \in Steps /\ s > e
    <3>1. s \notin done /\ (s \in next <=> s = e + 1)
      BY <1>1, <1>3, <1>5, <2>3 DEF Steps
    <3> QED
      BY <1>1, <2>3, <3>1 DEF Steps
  <2> QED
    BY <1>1, <2>1, <2>2, <2>3 DEF Steps
<1>9. Board!RowsAfterAdvance(snapshot, e, next, TRUE) =
        [s \in 0 .. LastStep |->
           IF s = 0 THEN "None"
           ELSE IF s <= e THEN "Completed"
           ELSE IF s = e + 1 /\ snapshot[s] # "Completed" THEN "In-Progress"
           ELSE snapshot[s]]
  BY <1>7, <1>8
<1> QED
  BY <1>9 DEF e, next

\* A request that nothing overlapped leaves the rows the atomic board
\* prescribes, even when it was cut off and run again.
THEOREM LoneMatchesBoard == Spec => LoneRequestMatchesBoard
<1>1. PlaceInv /\ LoneInv /\ [Next]_vars =>
        \A r \in Requests :
          pc[r] = "commit" /\ pc'[r] \in {"done", "failed"} /\ alone =>
            FirstRows' = Board!RowsAfterAdvance(snapshot, ended[r],
                           Board!NaturalNext(ended[r]), TRUE)
  <2> SUFFICES ASSUME PlaceInv, LoneInv, [Next]_vars, NEW r \in Requests,
                      pc[r] = "commit", pc'[r] \in {"done", "failed"}, alone
               PROVE  FirstRows' = Board!RowsAfterAdvance(snapshot, ended[r],
                                     Board!NaturalNext(ended[r]), TRUE)
    OBVIOUS
  <2>1. Sole(r)
    BY DEF LoneInv, Active, Working
  <2>2. CommitFile(r)
    BY CommitStep
  <2>3. \A s \in Steps : First(s)' = First(s)
    BY <2>2 DEF CommitFile, First, dbVars
  <2>4. FirstRows' = [s \in 0 .. LastStep |-> IF s = 0 THEN "None" ELSE First(s)']
    BY DEF FirstRows
  <2>5. \A s \in 0 .. LastStep : s # 0 => s \in Steps
    BY DEF Steps
  <2>6. ASSUME NEW s \in 0 .. LastStep
        PROVE  (IF s = 0 THEN "None" ELSE First(s)') =
               (IF s = 0 THEN "None"
                ELSE IF s <= ended[r] THEN "Completed"
                ELSE IF s = ended[r] + 1 /\ snapshot[s] # "Completed"
                THEN "In-Progress" ELSE snapshot[s])
    BY <2>1, <2>3, <2>5, RowsAtCommit
  <2> QED
    BY <2>4, <2>6, BoardAdvance
<1> QED
  BY <1>1, LoneAlways, PTL DEF LoneRequestMatchesBoard, Spec

-----------------------------------------------------------------------------
(* The tasks of a request that nothing overlaps and that is not cut off.    *)

\* The earlier steps whose tasks it closes are those the atomic board
\* reconciles.
LEMMA AutoAtCommit ==
  ASSUME PlaceInv, NEW r \in Requests, Sole(r), r \notin crashed, pc[r] = "commit"
  PROVE  auto[r] = {s \in Steps : s < ended[r] /\ snapshot[s] # "Completed"}
<1>1. cursor[r] >= ended[r]
  BY DEF PlaceInv, Place
<1>2. \A s \in Steps : s < ended[r] => s < cursor[r]
  BY <1>1, SoleTypes
<1> QED
  BY <1>2 DEF Sole, LoneAuto

\* A task after the last commit is one from before, closed if its step was
\* completed, or the new one of the next step.
LEMMA TasksAtCommit ==
  ASSUME PlaceInv, NEW r \in Requests, Sole(r), CommitFile(r), pc'[r] = "done"
  PROVE  /\ DOMAIN tasks' = DOMAIN tasks \cup (IF Creates(r) THEN {Len(tasks) + 1}
                                                            ELSE {})
         /\ Len(tasks) + 1 \notin DOMAIN tasks
         /\ \A i \in DOMAIN tasks :
              /\ tasks'[i].step = tasks[i].step
              /\ tasks'[i].open =
                   (tasks[i].open /\ tasks[i].step \notin {ended[r]} \cup auto[r])
         /\ Creates(r) => /\ tasks'[Len(tasks) + 1].step = Target(r)
                          /\ tasks'[Len(tasks) + 1].open = TRUE
<1> DEFINE S == [step : Steps, open : BOOLEAN]
           q == Closed(r)
           new == [step |-> Target(r), open |-> TRUE]
<1>1. /\ q \in Seq(S) /\ DOMAIN q = DOMAIN tasks
      /\ \A i \in DOMAIN tasks :
           /\ q[i].step = tasks[i].step
           /\ q[i].open = (tasks[i].open /\ i \notin seen[r].open)
  BY ClosedTasks DEF PlaceInv
<1>2. seen[r].open = {i \in DOMAIN tasks :
                        tasks[i].open /\ tasks[i].step \in {ended[r]} \cup auto[r]}
  BY DEF Sole, LoneSeen, CommitFile
<1>3. \A i \in DOMAIN tasks : tasks[i] \in S
  BY SeqIsFunction DEF PlaceInv, Typed, TypeOK
<1>4. \A i \in DOMAIN tasks :
        q[i].open = (tasks[i].open /\ tasks[i].step \notin {ended[r]} \cup auto[r])
  BY <1>1, <1>2, <1>3
<1>5. new \in S /\ new.step = Target(r) /\ new.open = TRUE
  BY TargetTyped DEF PlaceInv
<1>6. tasks' = IF Creates(r) THEN Append(q, new) ELSE q
  BY Committed
<1>7. /\ Len(tasks) \in Nat /\ DOMAIN tasks = 1 .. Len(tasks)
      /\ Len(q) \in Nat /\ DOMAIN q = 1 .. Len(q)
  <2>1. tasks \in Seq(S)
    BY DEF PlaceInv, Typed, TypeOK
  <2> HIDE DEF q, S
  <2> QED
    BY <1>1, <2>1, SeqIsFunction
<1>8. Len(q) = Len(tasks)
  BY <1>1, <1>7
<1> HIDE DEF S, q, new
<1>9. /\ DOMAIN Append(q, new) = DOMAIN q \cup {Len(q) + 1}
      /\ \A i \in DOMAIN q : i # Len(q) + 1 /\ Append(q, new)[i] = q[i]
      /\ Append(q, new)[Len(q) + 1] = new
  BY <1>1, <1>5, AppendIsSeq
<1>10. CASE Creates(r)
  BY <1>1, <1>4, <1>5, <1>6, <1>8, <1>9, <1>10
<1>11. CASE ~Creates(r)
  BY <1>1, <1>4, <1>6, <1>7, <1>11
<1> QED
  BY <1>10, <1>11

\* A request that nothing overlapped and that was not cut off leaves no open
\* task of a step it completed.
THEOREM LoneClosesTasks == Spec => EndedTasksClosed
<1>1. PlaceInv /\ LoneInv /\ [Next]_vars =>
        \A r \in Requests \ crashed :
          pc[r] = "commit" /\ pc'[r] = "done" /\ alone =>
            \A i \in DOMAIN tasks' :
              /\ tasks'[i].step <= ended[r]
              /\ snapshot[tasks'[i].step] # "Completed"
              => ~tasks'[i].open
  <2> SUFFICES ASSUME PlaceInv, LoneInv, [Next]_vars,
                      NEW r \in Requests \ crashed, pc[r] = "commit", pc'[r] = "done", alone,
                      NEW i \in DOMAIN tasks', tasks'[i].step <= ended[r],
                      snapshot[tasks'[i].step] # "Completed"
               PROVE  ~tasks'[i].open
    OBVIOUS
  <2>1. Sole(r) /\ CommitFile(r)
    BY CommitStep DEF LoneInv, Active, Working
  <2>2. auto[r] = {s \in Steps : s < ended[r] /\ snapshot[s] # "Completed"}
    BY <2>1, AutoAtCommit
  <2>3. ASSUME i = Len(tasks) + 1, Creates(r) PROVE FALSE
    <3>1. tasks'[i].step = ended[r] + 1
      BY <2>1, <2>3, TasksAtCommit, TargetTyped DEF PlaceInv, Creates
    <3> QED
      BY <3>1, SoleTypes
  <2>4. i \in DOMAIN tasks
    BY <2>1, <2>3, TasksAtCommit
  <2>5. tasks[i].step \in Steps
    <3>1. tasks[i] \in [step : Steps, open : BOOLEAN]
      BY <2>4, SeqIsFunction DEF PlaceInv, Typed, TypeOK
    <3> QED
      BY <3>1
  <2>6. tasks'[i].step = tasks[i].step
    BY <2>1, <2>4, TasksAtCommit
  <2>7. tasks[i].step \in {ended[r]} \cup auto[r]
    BY <2>2, <2>5, <2>6, SoleTypes
  <2> QED
    BY <2>1, <2>4, <2>7, TasksAtCommit
<1> QED
  BY <1>1, LoneAlways, PTL DEF EndedTasksClosed, Spec

-----------------------------------------------------------------------------
(* Requests that take turns.                                               *)

\* A request that works is still under way after any step but its last commit.
LEMMA StaysActive ==
  ASSUME PlaceInv, NEW r \in Requests, Crash(r) \/ Retry(r) \/ Work(r), ~CommitFile(r)
  PROVE  r \in Active /\ r \in Active'
<1>1. r \in Active
  BY DEF Active, Working, Crash, Retry, Work, CheckPrior, MarkPrior, SaveRead,
         SaveWrite, CheckTarget, ReadFile, CountTasks
<1>2. PICK label \in {"crashed", "read", "prior", "mark", "write", "target", "file",
                      "count", "commit"} : Goto(r, label)
  BY DEF Crash, Retry, Work, CheckPrior, MarkPrior, SaveRead, SaveWrite, CheckTarget,
         ReadFile, CountTasks, Visit
<1> QED
  BY <1>1, <1>2 DEF Goto, Active, Working, PlaceInv, Typed, TypeOK

\* Where one request may run at a time, none starts beside another.
LEMMA StartsQuiet ==
  ASSUME MaxInFlight = 1, PlaceInv, LoneInv, alone,
         NEW r \in Requests, NEW c \in Steps, Start(r, c)
  PROVE  Quiet
<1> SUFFICES ASSUME NEW q \in Active PROVE FALSE
  BY DEF Quiet
<1>1. Active = {q}
  BY DEF LoneInv
<1>2. Cardinality(Active) = 1
  BY <1>1, FS_Singleton
<1> QED
  BY <1>2 DEF Start

\* An ordered board stays ordered through the whole of a request.
LEMMA OrderedAtCommit ==
  ASSUME PlaceInv, NEW r \in Requests, Sole(r), pc[r] = "commit", Ordered(snapshot)
  PROVE  Ordered(FirstRows)
<1> USE SoleTypes
<1> DEFINE e == ended[r]
<1>1. \A s \in Steps : FirstRows[s] =
        IF s <= e THEN "Completed"
        ELSE IF s = e + 1 /\ snapshot[s] # "Completed" THEN "In-Progress"
        ELSE snapshot[s]
  BY RowsAtCommit, FirstRowsTyped DEF PlaceInv
<1> SUFFICES ASSUME NEW s \in Steps, NEW t \in Steps, s < t, FirstRows[t] # "None"
             PROVE  FirstRows[s] = "Completed"
  BY DEF Ordered
<1>2. CASE s <= e
  BY <1>1, <1>2
<1>3. CASE s > e
  <2>1. t > e + 1 /\ snapshot[t] # "None"
    BY <1>1, <1>3
  <2>2. snapshot[s] = "Completed"
    BY <2>1 DEF Ordered
  <2> QED
    BY <1>1, <1>3, <2>2
<1> QED
  BY <1>2, <1>3

\* No step has two rows.
OneRow == \A s \in Steps : Len(table[s]) <= 1

\* A row is inserted only for a step that has none.
LEMMA OneRowKept ==
  ASSUME PlaceInv, LoneInv, alone, OneRow, NEW r \in Requests, Work(r)
  PROVE  OneRow'
<1>0. PICK c \in Steps : c = cursor[r]
  BY SoleTypes
<1>1. \A s \in Steps : Len(table[s]) \in Nat
  BY SeqIsFunction DEF PlaceInv, Typed, TypeOK
<1>2. CASE table' = table
  BY <1>2 DEF OneRow
<1>3. CASE MarkPrior(r)
  BY <1>0, <1>1, <1>3, MarkRow DEF OneRow
<1>4. CASE SaveWrite(r)
  <2>1. Sole(r) /\ pc[r] = "write"
    BY <1>4 DEF LoneInv, Active, Working, SaveWrite
  <2>2. found[r] = "None" => table[c] = <<>>
    BY <1>0, <2>1, SoleTypes DEF Sole, LoneStage
  <2>3. Len(table'[c]) <= 1 /\ \A s \in Steps : s # c => table'[s] = table[s]
    BY <1>0, <1>1, <1>4, <2>2, SaveRow DEF OneRow
  <2> QED
    BY <2>3 DEF OneRow
<1> QED
  BY <1>2, <1>3, <1>4
  DEF Work, CheckPrior, SaveRead, CheckTarget, ReadFile, CountTasks, CommitFile, dbVars

\* Turns keep the board ordered, from one quiet period to the next.
LEMMA SerialStep ==
  ASSUME MaxInFlight = 1
  PROVE  PlaceInv /\ LoneInv /\ Serial /\ [Next]_vars => Serial'
<1> SUFFICES ASSUME PlaceInv, LoneInv, Serial, [Next]_vars PROVE Serial'
  OBVIOUS
<1>0. alone /\ OneRow
  BY DEF Serial, OneRow
<1>1. CASE UNCHANGED vars
  BY <1>1
  DEF Serial, Ordered, FirstRows, First, Quiet, Active, vars, dbVars, historyVars
<1>2. ASSUME NEW r \in Requests, NEW c \in Steps, Start(r, c) PROVE Serial'
  <2>1. Quiet
    BY <1>0, <1>2, StartsQuiet
  <2>2. alone' = TRUE /\ snapshot' = FirstRows /\ table' = table
    BY <1>2, <2>1 DEF Start, dbVars
  <2>3. FirstRows' = FirstRows
    BY <2>2 DEF FirstRows, First
  <2> QED
    BY <2>1, <2>2, <2>3 DEF Serial, Ordered
<1>3. ASSUME NEW r \in Requests, Crash(r) \/ Retry(r) \/ Work(r) PROVE Serial'
  <2>1. alone' = alone /\ snapshot' = snapshot
    BY <1>3
    DEF Crash, Retry, Work, CheckPrior, MarkPrior, SaveRead, SaveWrite, CheckTarget,
        ReadFile, CountTasks, CommitFile, historyVars
  <2>2. OneRow'
    <3>1. CASE Work(r)
      BY <1>0, <3>1, OneRowKept
    <3>2. CASE Crash(r) \/ Retry(r)
      <4>1. table' = table
        BY <3>2 DEF Crash, Retry, dbVars
      <4> QED
        BY <1>0, <4>1 DEF OneRow
    <3> QED
      BY <1>3, <3>1, <3>2
  <2>3. ASSUME Quiet' PROVE Ordered(FirstRows)'
    <3>1. CommitFile(r)
      BY <1>3, <2>3, StaysActive DEF Quiet
    <3>2. Sole(r) /\ pc[r] = "commit"
      BY <1>0, <3>1 DEF LoneInv, Active, Working, CommitFile
    <3>3. Ordered(FirstRows)
      BY <3>2, OrderedAtCommit DEF Serial
    <3>4. table' = table
      BY <3>1 DEF CommitFile, dbVars
    <3> QED
      BY <3>3, <3>4 DEF Ordered, FirstRows, First
  <2>4. Ordered(snapshot)'
    BY <2>1 DEF Serial, Ordered
  <2> QED
    BY <1>0, <2>1, <2>2, <2>3, <2>4 DEF Serial, OneRow
<1> QED
  BY <1>1, <1>2, <1>3 DEF Next

\* The rows a file is created with.
LEMMA InitSerial == Init => Serial
<1> SUFFICES ASSUME Init PROVE Serial
  OBVIOUS
<1>1. PICK k \in Steps :
        table = [s \in Steps |-> IF s < k THEN <<"Completed">>
                                 ELSE IF s = k THEN <<"In-Progress">> ELSE <<>>]
  BY DEF Init
<1>2. \A s \in Steps : Len(table[s]) <= 1
  BY <1>1
<1>3. \A s \in Steps : First(s) =
        IF s < k THEN "Completed" ELSE IF s = k THEN "In-Progress" ELSE "None"
  BY <1>1 DEF First
<1>4. Ordered(FirstRows)
  <2>1. \A s \in Steps : FirstRows[s] = First(s)
    BY InitPlaced, FirstRowsTyped DEF PlaceInv
  <2> QED
    BY <1>3, <2>1 DEF Ordered, Steps
<1> QED
  BY <1>2, <1>4 DEF Init, Serial

\* All that is known of requests that take turns: one runs, no step has two
\* rows, and the board is ordered whenever it is quiet.
THEOREM SerialAlways ==
  ASSUME MaxInFlight = 1
  PROVE  Spec => [](PlaceInv /\ LoneInv /\ Serial)
BY InitSerial, SerialStep, InitPlaced, PlaceStep, InitLone, LoneStep, PTL DEF Spec

\* Where requests take turns, whether or not they are cut off and sent again,
\* no step stays active once a later one was recorded.
THEOREM TurnsTrapNoStep ==
  ASSUME MaxInFlight = 1
  PROVE  Spec => []NoTrappedStep
<1>1. PlaceInv /\ Serial => NoTrappedStep
  <2> SUFFICES ASSUME PlaceInv, Serial, Quiet, NEW s \in Steps,
                      NEW i \in DOMAIN table[s], table[s][i] = "In-Progress",
                      NEW t \in Steps, t > s, table[t] # <<>>
               PROVE  FALSE
    BY DEF NoTrappedStep
  <2>1. Len(table[s]) \in Nat /\ DOMAIN table[s] = 1 .. Len(table[s])
    BY SeqIsFunction DEF PlaceInv, Typed, TypeOK
  <2>2. i = 1 /\ table[s] # <<>>
    BY <2>1 DEF Serial
  <2>3. FirstRows[s] = "In-Progress"
    BY <2>2, FirstRowsTyped DEF First, PlaceInv
  <2>4. FirstRows[t] # "None"
    BY FirstTyped, FirstRowsTyped DEF PlaceInv
  <2> QED
    BY <2>3, <2>4 DEF Serial, Ordered, Steps
<1> QED
  BY <1>1, SerialAlways, PTL

-----------------------------------------------------------------------------
(* The requests implement the atomic board.                                *)

\* The task of each code, as the atomic board keeps it.
BoardTasks == [s \in 0 .. LastStep |-> IF s = 0 THEN "none" ELSE TaskOf(s)]

BoardRows == IF Quiet THEN FirstRows ELSE snapshot

\* A file is created as on the atomic board.
LEMMA InitOnBoard == Init => Board!Init
<1> SUFFICES ASSUME Init PROVE Board!Init
  OBVIOUS
<1>1. PICK k \in Steps :
        table = [s \in Steps |-> IF s < k THEN <<"Completed">>
                                 ELSE IF s = k THEN <<"In-Progress">> ELSE <<>>]
  BY DEF Init
<1>2. Board!Codes = 0 .. LastStep /\ Board!Steps = Steps
  BY RequestsAssumption DEF Board!Codes, Board!Steps, Board!Legacy, Steps
<1>3. Quiet
  BY DEF Init, Quiet, Active, Working
<1>4. FirstRows = Board!InitialRows(k)
  <2>1. ASSUME NEW s \in 0 .. LastStep
        PROVE  (IF s = 0 THEN "None" ELSE First(s)) =
               (CASE s = k -> "In-Progress"
                  [] s \in Steps /\ s < k -> "Completed"
                  [] s = 0 /\ (\E d \in {} : d < k) -> "Completed"
                  [] OTHER -> "None")
    <3>1. CASE s = 0
      BY <3>1 DEF Steps
    <3>2. CASE s \in Steps /\ s < k
      BY <1>1, <3>2 DEF First, Steps
    <3>3. CASE s \in Steps /\ s = k
      BY <1>1, <3>3 DEF First, Steps
    <3>4. CASE s \in Steps /\ s > k
      BY <1>1, <3>4 DEF First, Steps
    <3> QED
      BY <3>1, <3>2, <3>3, <3>4 DEF Steps
  <2> QED
    BY <1>2, <2>1 DEF FirstRows, Board!InitialRows, Board!Legacy
<1>5. Board!CreatedFile
  BY <1>2, <1>3, <1>4 DEF Board!CreatedFile, Init
<1>6. BoardTasks = [c \in 0 .. LastStep |-> "none"]
  <2>1. \A s \in Steps : TaskOf(s) = "none"
    BY DEF Init, TaskOf
  <2> QED
    BY <2>1 DEF BoardTasks, Steps
<1> QED
  BY <1>2, <1>5, <1>6 DEF Board!Init, Board!NoStep, BoardTasks, Init

\* Every step of a request but its last commit leaves the atomic board alone.
LEMMA BeforeCommit ==
  ASSUME PlaceInv, LoneInv, Serial, MaxInFlight = 1, [Next]_vars,
         \A r \in Requests : ~CommitFile(r)
  PROVE  /\ BoardRows' = BoardRows /\ tasks' = tasks
         /\ progress' = progress /\ pointer' = pointer
<1>1. CASE UNCHANGED vars
  BY <1>1
  DEF BoardRows, FirstRows, First, Quiet, Active, vars, dbVars, historyVars
<1>2. ASSUME NEW r \in Requests, NEW c \in Steps, Start(r, c)
      PROVE  /\ BoardRows' = BoardRows /\ tasks' = tasks
             /\ progress' = progress /\ pointer' = pointer
  <2>1. Quiet
    BY <1>2, StartsQuiet DEF Serial
  <2>2. snapshot' = FirstRows /\ tasks' = tasks /\ progress' = progress
        /\ pointer' = pointer /\ table' = table
    BY <1>2, <2>1 DEF Start, dbVars
  <2>3. FirstRows' = FirstRows
    BY <2>2 DEF FirstRows, First
  <2> QED
    BY <2>1, <2>2, <2>3 DEF BoardRows
<1>3. ASSUME NEW r \in Requests, Crash(r) \/ Retry(r) \/ Work(r)
      PROVE  /\ BoardRows' = BoardRows /\ tasks' = tasks
             /\ progress' = progress /\ pointer' = pointer
  <2>1. ~Quiet /\ ~Quiet'
    BY <1>3, StaysActive DEF Quiet
  <2>2. snapshot' = snapshot /\ tasks' = tasks /\ progress' = progress
        /\ pointer' = pointer
    BY <1>3
    DEF Crash, Retry, Work, CheckPrior, MarkPrior, SaveRead, SaveWrite, CheckTarget,
        ReadFile, CountTasks, historyVars, dbVars
  <2> QED
    BY <2>1, <2>2 DEF BoardRows
<1> QED
  BY <1>1, <1>2, <1>3 DEF Next

\* A request that nothing overlaps is never refused by the unique task_code.
LEMMA NeverRefused ==
  ASSUME PlaceInv, NEW r \in Requests, Sole(r), CommitFile(r)
  PROVE  pc'[r] = "done"
<1>1. ~(Creates(r) /\ Len(tasks) > seen[r].count)
  <2>1. Len(tasks) \in Nat
    BY SeqIsFunction DEF PlaceInv, Typed, TypeOK
  <2>2. Creates(r) => seen[r].count = Len(tasks)
    BY DEF Sole, LoneSeen, Creates, CommitFile
  <2> QED
    BY <2>1, <2>2
<1>2. Goto(r, "done")
  BY <1>1 DEF CommitFile, Creates
<1> QED
  BY <1>2 DEF Goto, PlaceInv, Typed, TypeOK

\* What the last commit does to the task of a step.
LEMMA TaskAtCommit ==
  ASSUME PlaceInv, NEW r \in Requests, Sole(r), r \notin crashed, CommitFile(r),
         NEW s \in Steps
  PROVE  TaskOf(s)' =
           IF s \in {ended[r]} \cup auto[r]
           THEN IF TaskOf(s) = "none" THEN "none" ELSE "done"
           ELSE IF HasTarget(r) /\ s = ended[r] + 1 /\ TaskOf(s) = "none" THEN "open"
           ELSE TaskOf(s)
<1> DEFINE own == {i \in DOMAIN tasks : tasks[i].step = s}
           own2 == {i \in DOMAIN tasks' : tasks'[i].step = s}
           n == Len(tasks) + 1
           E == {ended[r]} \cup auto[r]
<1>1. /\ DOMAIN tasks' = DOMAIN tasks \cup (IF Creates(r) THEN {n} ELSE {})
      /\ n \notin DOMAIN tasks
      /\ \A i \in DOMAIN tasks :
           /\ tasks'[i].step = tasks[i].step
           /\ tasks'[i].open = (tasks[i].open /\ tasks[i].step \notin E)
      /\ Creates(r) => tasks'[n].step = Target(r) /\ tasks'[n].open = TRUE
  BY NeverRefused, TasksAtCommit
<1>2. Creates(r) <=> HasTarget(r) /\ ~\E i \in DOMAIN tasks : tasks[i].step = Target(r)
  BY DEF Creates, Sole, LoneSeen, CommitFile
<1>3. HasTarget(r) => Target(r) = ended[r] + 1
  BY TargetTyped DEF PlaceInv
<1>4. own2 = own \cup (IF Creates(r) /\ s = Target(r) THEN {n} ELSE {})
  BY <1>1
<1>5. Creates(r) /\ s = Target(r) <=> HasTarget(r) /\ s = ended[r] + 1 /\ own = {}
  BY <1>2, <1>3
<1>6. s \in E => s # ended[r] + 1
  <2>1. auto[r] = {p \in Steps : p < ended[r] /\ snapshot[p] # "Completed"}
    BY AutoAtCommit DEF CommitFile
  <2> QED
    BY <2>1, SoleTypes
<1>7. /\ \A i \in own : i \in DOMAIN tasks /\ tasks[i].step = s
      /\ \A i \in own : tasks'[i].open = (tasks[i].open /\ s \notin E)
      /\ Creates(r) => tasks'[n].open
  BY <1>1
<1>8. /\ TaskOf(s) = IF own = {} THEN "none"
                     ELSE IF \E i \in own : tasks[i].open THEN "open" ELSE "done"
      /\ TaskOf(s)' = IF own2 = {} THEN "none"
                      ELSE IF \E i \in own2 : tasks'[i].open THEN "open" ELSE "done"
  BY DEF TaskOf
<1> HIDE DEF own, own2, n, E
<1>9. CASE s \in E
  <2>1. own2 = own /\ \A i \in own : ~tasks'[i].open
    BY <1>4, <1>5, <1>6, <1>7, <1>9
  <2>2. TaskOf(s)' = IF TaskOf(s) = "none" THEN "none" ELSE "done"
    BY <1>8, <2>1
  <2> QED
    BY <1>9, <2>2 DEF E
<1>10. CASE s \notin E /\ HasTarget(r) /\ s = ended[r] + 1 /\ own = {}
  <2>1. own2 = {n} /\ tasks'[n].open
    BY <1>4, <1>5, <1>7, <1>10
  <2>2. TaskOf(s)' = "open" /\ TaskOf(s) = "none"
    BY <1>8, <1>10, <2>1
  <2> QED
    BY <1>10, <2>2 DEF E
<1>11. CASE s \notin E /\ ~(HasTarget(r) /\ s = ended[r] + 1 /\ own = {})
  <2>1. own2 = own
    BY <1>4, <1>5, <1>11
  <2>2. \A i \in own : tasks[i].open \in BOOLEAN
    <3>1. \A i \in own : tasks[i] \in [step : Steps, open : BOOLEAN]
      BY <1>7, SeqIsFunction DEF PlaceInv, Typed, TypeOK
    <3> QED
      BY <3>1
  <2>3. \A i \in own : tasks'[i].open = tasks[i].open
    BY <1>7, <1>11, <2>2
  <2>4. TaskOf(s)' = TaskOf(s) /\ (TaskOf(s) = "none" <=> own = {})
    BY <1>8, <2>1, <2>3
  <2> QED
    BY <1>11, <2>4 DEF E
<1> QED
  BY <1>9, <1>10, <1>11

\* and to the tasks of all steps together.
LEMMA TasksAdvance ==
  ASSUME PlaceInv, NEW r \in Requests, Sole(r), r \notin crashed, CommitFile(r)
  PROVE  BoardTasks' =
           Board!TasksAfter(BoardTasks, Board!Ended(snapshot, ended[r], TRUE),
                            IF ended[r] = LastStep THEN {} ELSE {ended[r] + 1})
<1> DEFINE e == ended[r]
           E == Board!Ended(snapshot, e, TRUE)
           new == IF e = LastStep THEN {} ELSE {e + 1}
           closed == [c \in 0 .. LastStep |->
                        IF c \in E /\ BoardTasks[c] = "open" THEN "done"
                        ELSE BoardTasks[c]]
<1>1. e \in Steps /\ e \in Nat /\ e # 0 /\ e >= 1 /\ e <= LastStep /\ LastStep \in Nat
  BY SoleTypes DEF Steps
<1>2. Board!Codes = 0 .. LastStep /\ Board!Steps = Steps
  BY <1>1 DEF Board!Codes, Board!Steps, Board!Legacy, Steps
<1>3. E = {e} \cup {p \in Steps : p < e /\ snapshot[p] \in {"None", "In-Progress"}}
  BY <1>1, <1>2 DEF Board!Ended, Board!AutoCompleted
<1>4. E = {e} \cup auto[r]
  <2>1. auto[r] = {p \in Steps : p < e /\ snapshot[p] # "Completed"}
    BY AutoAtCommit DEF CommitFile
  <2> QED
    BY <1>3, <2>1, SoleTypes
<1> HIDE DEF E, e
<1>5. E \subseteq Steps /\ 0 \notin E
  BY <1>1, <1>3 DEF Steps
<1>6. UNION {Board!TitleMatches(c) : c \in E} = E
  BY <1>5 DEF Board!TitleMatches, Board!Legacy
<1>7. Board!TasksAfter(BoardTasks, E, new) =
        [c \in 0 .. LastStep |->
           IF c \in new /\ closed[c] = "none" THEN "open" ELSE closed[c]]
  BY <1>2, <1>6 DEF Board!TasksAfter
<1>8. BoardTasks' = [c \in 0 .. LastStep |-> IF c = 0 THEN "none" ELSE TaskOf(c)']
  BY DEF BoardTasks
<1>9. \A c \in 0 .. LastStep : BoardTasks[c] = IF c = 0 THEN "none" ELSE TaskOf(c)
  BY DEF BoardTasks
<1>10. \A c \in Steps : TaskOf(c) \in {"none", "open", "done"}
  BY DEF TaskOf
<1>11. \A c \in Steps : TaskOf(c)' =
         IF c \in E THEN IF TaskOf(c) = "none" THEN "none" ELSE "done"
         ELSE IF c \in new /\ TaskOf(c) = "none" THEN "open" ELSE TaskOf(c)
  BY <1>4, TaskAtCommit DEF HasTarget, e
<1>12. \A c \in E : c \notin new
  BY <1>1, <1>3
<1> HIDE DEF new
<1>13. ASSUME NEW c \in 0 .. LastStep
       PROVE  (IF c = 0 THEN "none" ELSE TaskOf(c)') =
              IF c \in new /\ closed[c] = "none" THEN "open" ELSE closed[c]
  <2>1. closed[c] = IF c \in E /\ BoardTasks[c] = "open" THEN "done"
                    ELSE BoardTasks[c]
    OBVIOUS
  <2> HIDE DEF closed
  <2>2. CASE c = 0
    <3>1. c \notin new
      BY <1>1, <2>2 DEF new
    <3> QED
      BY <1>5, <1>9, <2>1, <2>2, <3>1
  <2>3. CASE c \in Steps
    <3>1. c # 0
      BY <2>3 DEF Steps
    <3>2. BoardTasks[c] = TaskOf(c)
      BY <1>9, <3>1
    <3> QED
      BY <1>10, <1>11, <1>12, <2>1, <2>3, <3>1, <3>2
  <2> QED
    BY <2>2, <2>3 DEF Steps
<1> HIDE DEF closed
<1>14. BoardTasks' = Board!TasksAfter(BoardTasks, E, new)
  BY <1>7, <1>8, <1>13
<1> QED
  BY <1>14 DEF E, new, e

\* The progress and the pointer it leaves.
LEMMA FileAdvance ==
  ASSUME PlaceInv, NEW r \in Requests, Sole(r), CommitFile(r)
  PROVE  /\ pointer' = Target(r)
         /\ progress' = IF ended[r] = LastStep THEN 100
                        ELSE IF progress >= Target(r) * StepPercent THEN progress
                        ELSE Target(r) * StepPercent
<1>1. seen[r].progress = progress /\ progress \in 0 .. 100
  BY DEF Sole, LoneSeen, CommitFile, PlaceInv, Typed, TypeOK
<1> DEFINE calc == Target(r) * StepPercent
<1>2. calc \in 0 .. 100
  BY TargetTyped, StepWorth DEF PlaceInv
<1>3. /\ pointer' = Target(r)
      /\ progress' = IF HasTarget(r)
                     THEN Written(progress, IF calc > progress THEN calc
                                            ELSE progress, progress)
                     ELSE 100
  BY <1>1, NeverRefused, Committed
<1> HIDE DEF calc
<1>4. progress' = IF ended[r] = LastStep THEN 100
                  ELSE IF progress >= calc THEN progress ELSE calc
  BY <1>1, <1>2, <1>3 DEF Written, HasTarget
<1> QED
  BY <1>3, <1>4 DEF calc

\* The last commit of a request is one advance of the atomic board.
LEMMA CommitAdvances ==
  ASSUME PlaceInv, NEW r \in Requests, Sole(r), r \notin crashed, CommitFile(r),
         \A q \in Active : q = r, snapshot[0] = "None"
  PROVE  Board!Next
<1> DEFINE e == ended[r]
           T == IF e = LastStep THEN {} ELSE {e + 1}
           f == IF e = LastStep THEN -1 ELSE e + 1
<1>1. /\ e \in Steps /\ e \in Nat /\ e # 0 /\ e >= 1 /\ e <= LastStep
      /\ LastStep \in Nat /\ StepPercent \in Nat
  BY SoleTypes, RequestsAssumption DEF Steps
<1>2. Board!Codes = 0 .. LastStep /\ Board!Steps = Steps
  BY <1>1 DEF Board!Codes, Board!Steps, Board!Legacy, Steps
<1>3. T = Board!NaturalNext(e)
  BY <1>1 DEF Board!NaturalNext, Board!Legacy
<1>4. BoardRows' = Board!RowsAfterAdvance(BoardRows, e, T, TRUE)
  <2>1. r \in Active /\ ~Quiet
    BY DEF Active, Quiet, Working, CommitFile
  <2>2. Quiet'
    <3>1. OthersWait(r)
      BY CommitFilePlaced
    <3>2. pc'[r] = "done"
      BY NeverRefused
    <3> QED
      BY <3>1, <3>2 DEF Quiet, Active, Working, OthersWait
  <2>3. \A s \in Steps : First(s)' = First(s)
    BY DEF CommitFile, First, dbVars
  <2>4. FirstRows' = [s \in 0 .. LastStep |-> IF s = 0 THEN "None" ELSE First(s)']
    BY DEF FirstRows
  <2>5. ASSUME NEW s \in 0 .. LastStep
        PROVE  (IF s = 0 THEN "None" ELSE First(s)') =
               (IF s = 0 THEN "None"
                ELSE IF s <= ended[r] THEN "Completed"
                ELSE IF s = ended[r] + 1 /\ snapshot[s] # "Completed"
                THEN "In-Progress" ELSE snapshot[s])
    <3>1. s # 0 => s \in Steps
      BY DEF Steps
    <3> QED
      BY <2>3, <3>1, RowsAtCommit DEF CommitFile
  <2>6. FirstRows' = Board!RowsAfterAdvance(snapshot, e, Board!NaturalNext(e), TRUE)
    BY <2>4, <2>5, BoardAdvance
  <2> QED
    BY <1>3, <2>1, <2>2, <2>6 DEF BoardRows
<1>5. BoardTasks' = Board!TasksAfter(BoardTasks, Board!Ended(BoardRows, e, TRUE), T)
  <2>1. BoardRows = snapshot
    BY DEF BoardRows, Active, Quiet, Working, CommitFile
  <2> QED
    BY <2>1, TasksAdvance
<1>6. /\ pointer' = IF e = LastStep THEN e ELSE f
      /\ progress' = IF e = LastStep THEN 100
                     ELSE IF progress >= f * StepPercent THEN progress
                     ELSE f * StepPercent
  BY FileAdvance DEF Target, HasTarget
<1>7. T \in Board!Targets[e] /\ f \in Board!FirstOf(T) /\ e \in Board!Codes
  <2>1. T \subseteq 0 .. LastStep
    BY <1>1
  <2>2. Cardinality(T) <= 1
    <3>1. CASE e = LastStep
      <4>1. Cardinality(T) = 0
        BY <3>1, FS_EmptySet
      <4> QED
        BY <4>1
    <3>2. CASE e # LastStep
      <4>1. Cardinality(T) = 1
        BY <3>2, FS_Singleton
      <4> QED
        BY <4>1
    <3> QED
      BY <3>1, <3>2
  <2>3. IF e = LastStep THEN T = {} ELSE \E t \in T : t > e
    BY <1>1
  <2>4. e \in Board!Codes
    BY <1>1, <1>2
  <2> HIDE DEF T, e
  <2>5. T \in Board!Targets[e]
    <3>1. Board!Cardinality(T) = Cardinality(T)
      BY DEF Board!Cardinality, Cardinality
    <3>2. Board!MovesForward(e, T)
      BY <2>3 DEF Board!MovesForward
    <3>3. T \in SUBSET Board!Codes /\ Board!Cardinality(T) <= 1
      BY <1>2, <2>1, <2>2, <3>1
    <3> QED
      BY <2>4, <3>2, <3>3 DEF Board!Targets
  <2>6. f \in Board!FirstOf(T)
    BY DEF Board!FirstOf, Board!NoStep, T
  <2> QED
    BY <2>4, <2>5, <2>6
<1>8. progress \in 0 .. 100
  BY DEF PlaceInv, Typed, TypeOK
<1>9. Board!Advance(e, T, f, TRUE, 0)
  <2>1. T = {} <=> e = LastStep
    OBVIOUS
  <2>2. e # LastStep => f \in Steps /\ f * StepPercent \in 0 .. 100
    BY <1>1, StepWorth DEF Steps
  <2> DEFINE named == IF e = LastStep \/ T = {} THEN e ELSE f
             calc == Board!Max2(Board!PercentOf(named, progress), 0)
             new == IF e = LastStep \/ T = {} THEN {} ELSE {f}
  <2>3. named = (IF e = LastStep THEN e ELSE f) /\ new = T
    BY <2>1
  <2>4. e # LastStep => Board!Max2(progress, calc)
          = IF progress >= f * StepPercent THEN progress ELSE f * StepPercent
    <3> DEFINE worth == f * StepPercent
    <3>1. e # LastStep => Board!PercentOf(named, progress) = worth
      BY <1>2, <2>2, <2>3 DEF Board!PercentOf
    <3>2. e # LastStep => worth \in 0 .. 100
      BY <2>2
    <3> HIDE DEF worth, named
    <3>3. e # LastStep =>
            Board!Max2(progress, calc) = IF progress >= worth THEN progress ELSE worth
      BY <1>8, <3>1, <3>2 DEF Board!Max2
    <3> QED
      BY <3>3 DEF worth
  <2>5. progress' = IF e = LastStep THEN 100 ELSE Board!Max2(progress, calc)
    BY <1>6, <2>4
  <2>6. BoardTasks' = Board!TasksAfter(BoardTasks, Board!Ended(BoardRows, e, TRUE), new)
    BY <1>5, <2>3
  <2>7. pointer' = named
    BY <1>6, <2>3
  <2> HIDE DEF e, T, f
  <2> QED
    BY <1>4, <2>5, <2>6, <2>7
    DEF Board!Advance, Board!AdvanceFrom, Board!configVars, BoardTasks, BoardRows
<1> HIDE DEF e, T, f
<1> QED
  BY <1>7, <1>9 DEF Board!Next

\* With no crash allowed nothing is ever cut off.
LEMMA NeverCutOff ==
  ASSUME MaxCrashes = 0
  PROVE  Spec => [](crashed = {})
<1>1. Init => crashed = {}
  BY DEF Init
<1>2. crashed = {} /\ [Next]_vars => (crashed = {})'
  <2> SUFFICES ASSUME crashed = {}, [Next]_vars PROVE crashed' = {}
    OBVIOUS
  <2>1. ASSUME NEW r \in Requests, Crash(r) PROVE FALSE
    BY <2>1, FS_EmptySet DEF Crash
  <2>2. CASE UNCHANGED vars
    BY <2>2 DEF vars, historyVars
  <2>3. ASSUME NEW r \in Requests, (\E c \in Steps : Start(r, c)) \/ Retry(r) \/ Work(r)
        PROVE  crashed' = crashed
    BY <2>3
    DEF Start, Retry, Work, CheckPrior, MarkPrior, SaveRead, SaveWrite, CheckTarget,
        ReadFile, CountTasks, CommitFile, historyVars
  <2> QED
    BY <2>1, <2>2, <2>3 DEF Next
<1> QED
  BY <1>1, <1>2, PTL DEF Spec

\* Requests that take turns and are not cut off implement the atomic board:
\* the commits of each one together are one Advance.
THEOREM TurnsImplementBoard ==
  ASSUME MaxInFlight = 1, MaxCrashes = 0
  PROVE  Spec => BoardAtomic
<1>1. PlaceInv /\ LoneInv /\ Serial /\ crashed = {} /\ [Next]_vars
        => [Board!Next]_(Board!vars)
  <2> SUFFICES ASSUME PlaceInv, LoneInv, Serial, crashed = {}, [Next]_vars
               PROVE  [Board!Next]_(Board!vars)
    OBVIOUS
  <2>1. CASE \A r \in Requests : ~CommitFile(r)
    <3>1. /\ BoardRows' = BoardRows /\ tasks' = tasks
          /\ progress' = progress /\ pointer' = pointer
      BY <2>1, BeforeCommit
    <3> QED
      BY <3>1 DEF Board!vars, BoardRows, TaskOf
  <2>2. ASSUME NEW r \in Requests, CommitFile(r) PROVE Board!Next
    <3>1. Sole(r) /\ \A q \in Active : q = r
      BY <2>2 DEF Serial, LoneInv, Active, Working, CommitFile
    <3> QED
      BY <2>2, <3>1, CommitAdvances DEF PlaceInv, Typed
  <2> QED
    BY <2>1, <2>2
<1> QED
  BY <1>1, InitOnBoard, SerialAlways, NeverCutOff, PTL
  DEF Spec, BoardAtomic, Board!Spec
=============================================================================
