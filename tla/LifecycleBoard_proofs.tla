----------------------- MODULE LifecycleBoard_proofs ------------------------
(***************************************************************************)
(* Proofs about LifecycleBoard, for any number of steps, any step          *)
(* configuration and any lists of steps a caller may hand over.            *)
(***************************************************************************)
EXTENDS LifecycleBoard, TLAPS

-----------------------------------------------------------------------------
(* Lemmas about the operators.                                             *)

\* No step is worth more than the whole.
LEMMA StepWorth ==
  ASSUME NEW c \in Steps
  PROVE  c * StepPercent \in 0 .. 100
<1>1. c \in Nat /\ LastStep - c \in Nat /\ StepPercent \in Nat
  BY StepsAssumption DEF Steps
<1>2. c * StepPercent \in Nat /\ (LastStep - c) * StepPercent \in Nat
  BY <1>1
<1>3. LastStep * StepPercent = c * StepPercent + (LastStep - c) * StepPercent
  BY <1>1, StepsAssumption
<1>4. LastStep * StepPercent <= 100
  BY StepsAssumption
<1> QED
  BY <1>2, <1>3, <1>4

\* The rows of the ended steps and of the targets are all an advance writes.
LEMMA AdvanceRows ==
  ASSUME NEW r \in [Codes -> RowStatus], NEW c \in Codes,
         NEW T \in SUBSET Codes, NEW auto \in BOOLEAN
  PROVE  /\ RowsAfterAdvance(r, c, T, auto) \in [Codes -> RowStatus]
         /\ \A s \in Codes : s > c =>
              RowsAfterAdvance(r, c, T, auto)[s] =
                IF s \in T /\ r[s] # "Completed" THEN "In-Progress" ELSE r[s]
         /\ \A s \in Codes : RowsAfterAdvance(r, c, T, auto)[s] = "Skipped"
              => r[s] = "Skipped"
         /\ RowsAfterAdvance(r, c, T, auto)[c] = "Completed"
<1>1. \A s \in Ended(r, c, auto) : s <= c
  <2>1. \A p \in AutoCompleted(r, c) : p <= c
    BY DEF AutoCompleted, Steps
  <2>2. c <= c
    BY StepsAssumption DEF Codes, Steps, Legacy
  <2> QED
    BY <2>1, <2>2 DEF Ended
<1>2. \A s \in Codes : s > c => s \notin Ended(r, c, auto)
  BY <1>1, StepsAssumption DEF Codes, Steps, Legacy
<1>3. c \in Ended(r, c, auto)
  BY DEF Ended
<1> QED
  BY <1>2, <1>3 DEF RowsAfterAdvance, RowStatus

\* Closing and creating tasks leaves every code one of the three task states.
LEMMA TasksTyped ==
  ASSUME NEW ts \in [Codes -> TaskStatus], NEW ended, NEW created
  PROVE  TasksAfter(ts, ended, created) \in [Codes -> TaskStatus]
BY DEF TasksAfter, TaskStatus

\* What the caller hands over: a set of codes, and one of them.
LEMMA HandedOver ==
  ASSUME NEW c \in Codes, NEW T \in Targets[c], NEW f \in FirstOf(T)
  PROVE  /\ T \in SUBSET Codes
         /\ T # {} => f \in T /\ f \in Codes
         /\ T = {} => f = NoStep
         /\ ForwardOnly => MovesForward(c, T)
<1>1. T \in SUBSET Codes /\ (ForwardOnly => MovesForward(c, T))
  BY DEF Targets
<1> QED
  BY <1>1 DEF FirstOf

\* The requirements module, too, ends a step towards the one after it.
LEMMA RequirementsSteps ==
  /\ RequirementsStep \in Steps /\ RequirementsStep \in Codes
  /\ RequirementsStep - 1 \in Codes /\ RequirementsStep - 1 # LastStep
  /\ RequirementsStep - 1 < RequirementsStep
  /\ RequirementsStep + 1 \in Steps /\ RequirementsStep + 1 \in Codes
BY StepsAssumption, RequirementsAssumption DEF Codes, Steps, Legacy

-----------------------------------------------------------------------------
(* Type correctness.                                                       *)

\* A created or cloned file has rows, tasks and figures of the right types.
LEMMA InitTyped == Init => TypeOK
<1> SUFFICES ASSUME Init PROVE TypeOK
  OBVIOUS
<1>1. rows \in [Codes -> RowStatus]
  BY DEF Init, CreatedFile, ClonedFile, InitialRows, RowStatus
<1>2. progress \in 0 .. 100
  <2>1. progress \in FormulaPercents \/ progress = 0
    BY DEF Init, CreatedFile, ClonedFile
  <2>2. progress \in FormulaPercents => progress \in 0 .. 100
    BY InputsAssumption
  <2>3. progress = 0 => progress \in 0 .. 100
    OBVIOUS
  <2> QED
    BY <2>1, <2>2, <2>3
<1>3. /\ tasks \in [Codes -> TaskStatus] /\ skipped \subseteq Codes
      /\ pointer \in Codes \cup {NoStep} /\ status \in FileStatus
  BY DEF Init, TaskStatus, FileStatus
<1>4. skippable \subseteq Codes /\ referable \subseteq Codes
  BY InputsAssumption DEF Init
<1> QED
  BY <1>1, <1>2, <1>3, <1>4 DEF TypeOK

\* An advance keeps the types; progress stays a percentage.
LEMMA AdvanceTyped ==
  ASSUME TypeOK, status' \in FileStatus, NEW p \in 0 .. 100,
         NEW c \in Codes, NEW T \in SUBSET Codes, NEW f, T # {} => f \in T,
         NEW auto \in BOOLEAN, NEW min \in 0 .. 100,
         AdvanceFrom(p, c, T, f, auto, min)
  PROVE  TypeOK'
<1> DEFINE named == IF c = LastStep \/ T = {} THEN c ELSE f
<1>1. named \in Codes
  OBVIOUS
<1>2. rows' \in [Codes -> RowStatus]
  BY AdvanceRows DEF AdvanceFrom, TypeOK
<1>3. tasks' \in [Codes -> TaskStatus]
  BY TasksTyped DEF AdvanceFrom, TypeOK
<1>4. PercentOf(named, p) \in 0 .. 100
  BY <1>1, StepWorth DEF PercentOf
<1>5. progress' \in 0 .. 100
  BY <1>4 DEF AdvanceFrom, Max2
<1>6. pointer' \in Codes \cup {NoStep}
  BY <1>1 DEF AdvanceFrom
<1> QED
  BY <1>2, <1>3, <1>5, <1>6 DEF TypeOK, AdvanceFrom, configVars

\* So does the requirements module, whether it calls the engine or not.
LEMMA RequirementsTyped ==
  ASSUME TypeOK, status' \in FileStatus, NEW p \in 0 .. 100,
         SettleFrom(p) \/ PendingFrom(p)
  PROVE  TypeOK'
<1>1. CASE SettleFrom(p)
  <2>1. rows' \in [Codes -> RowStatus]
    BY <1>1, RequirementsSteps DEF SettleFrom, TypeOK, RowStatus
  <2>2. progress' \in 0 .. 100
    BY <1>1, RequirementsAssumption DEF SettleFrom, Max2
  <2> QED
    BY <1>1, <2>1, <2>2, RequirementsSteps DEF SettleFrom, TypeOK, configVars
<1>2. CASE PendingFrom(p)
  BY <1>2, AdvanceTyped, RequirementsSteps, RequirementsAssumption DEF PendingFrom
<1> QED
  BY <1>1, <1>2

\* A skip keeps the types.
LEMMA SkipTyped ==
  ASSUME TypeOK, NEW c \in Codes, NEW T \in Targets[c], NEW f \in FirstOf(T),
         Skip(c, T, f)
  PROVE  TypeOK'
<1>1. T \in SUBSET Codes /\ (T # {} => f \in Codes)
  BY HandedOver
<1>2. rows' \in [Codes -> RowStatus]
  BY DEF Skip, TypeOK, RowStatus
<1>3. tasks' \in [Codes -> TaskStatus]
  BY TasksTyped DEF Skip, TypeOK
<1>4. T # {} => PercentOf(f, progress) \in 0 .. 100
  BY <1>1, StepWorth DEF PercentOf, TypeOK
<1>5. progress' \in 0 .. 100
  BY <1>4 DEF Skip, Max2, TypeOK
<1>6. pointer' \in Codes \cup {NoStep}
  BY <1>1, StepsAssumption DEF Skip, Codes, Steps
<1>7. skipped' \subseteq Codes
  BY DEF Skip, TypeOK
<1> QED
  BY <1>2, <1>3, <1>5, <1>6, <1>7 DEF TypeOK, Skip, configVars

\* Every operation on the file, its board or the configuration keeps the types.
LEMMA StepTyped == TypeOK /\ [Next]_vars => TypeOK'
<1> SUFFICES ASSUME TypeOK, [Next]_vars PROVE TypeOK'
  OBVIOUS
<1>1. ASSUME NEW c \in Codes, NEW T \in Targets[c], NEW f \in FirstOf(T),
             NEW auto \in BOOLEAN, NEW min \in MinPercents,
             Advance(c, T, f, auto, min)
      PROVE  TypeOK'
  <2>1. min \in 0 .. 100 /\ progress \in 0 .. 100 /\ status' \in FileStatus
    BY <1>1, InputsAssumption DEF Advance, TypeOK
  <2> QED
    BY <1>1, <2>1, AdvanceTyped, HandedOver DEF Advance
<1>2. ASSUME NEW c \in Codes, NEW T \in Targets[c], NEW f \in FirstOf(T),
             Skip(c, T, f)
      PROVE  TypeOK'
  BY <1>2, SkipTyped
<1>3. ASSUME NEW S \in SUBSET Codes, SetActive(S) PROVE TypeOK'
  BY <1>3 DEF SetActive, TypeOK, RowStatus, fileVars, configVars
<1>4. ASSUME NEW c \in Codes, RegisterPending(c) PROVE TypeOK'
  BY <1>4 DEF RegisterPending, TypeOK, RowStatus, fileVars, configVars
<1>5. ASSUME NEW c \in Codes, NEW skip \in BOOLEAN, NEW ref \in BOOLEAN,
             UpdateConfig(c, skip, ref)
      PROVE  TypeOK'
  BY <1>5 DEF UpdateConfig, TypeOK, fileVars, boardVars
<1>6. ASSUME NEW c \in Codes, Seed(c) PROVE TypeOK'
  BY <1>6 DEF Seed, TypeOK, RowStatus, fileVars, configVars
<1>7. CASE Hold
  BY <1>7 DEF Hold, TypeOK, RowStatus, FileStatus, configVars
<1>8. CASE Resume
  BY <1>8 DEF Resume, TypeOK, RowStatus, FileStatus, configVars
<1>9. CASE Close
  <2>1. progress' \in 0 .. 100
    BY <1>9 DEF Close
  <2> QED
    BY <1>9, <2>1 DEF Close, TypeOK, FileStatus, boardVars, configVars
<1>10. CASE Reopen
  BY <1>10 DEF Reopen, TypeOK, FileStatus, boardVars, configVars
<1>11. ASSUME NEW st \in EditStatuses \cup {status}, NEW p \in FormulaPercents \cup {100},
              Update(st, p)
       PROVE  TypeOK'
  <2>1. p \in 0 .. 100 /\ st \in FileStatus
    BY InputsAssumption, <1>11 DEF TypeOK
  <2>2. CASE SettleFrom(p) \/ PendingFrom(p)
    BY <1>11, <2>1, <2>2, RequirementsTyped DEF Update
  <2>3. CASE ~(SettleFrom(p) \/ PendingFrom(p))
    BY <1>11, <2>1, <2>3 DEF Update, TypeOK, boardVars, configVars
  <2> QED
    BY <2>2, <2>3
<1>12. CASE SyncRequirements
  BY <1>12, RequirementsTyped DEF SyncRequirements, TypeOK
<1>13. CASE UNCHANGED vars
  BY <1>13 DEF vars, TypeOK
<1> QED
  BY <1>1, <1>2, <1>3, <1>4, <1>5, <1>6, <1>7, <1>8, <1>9, <1>10, <1>11, <1>12,
     <1>13 DEF Next

\* The fields of the file and of its board stay within the values the code
\* can store: above all the progress, computed by four formulas, is a
\* percentage.
THEOREM TypeCorrect == Spec => []TypeOK
BY InitTyped, StepTyped, PTL DEF Spec

-----------------------------------------------------------------------------
(* No shipment drops off the board. An operation that activates a later    *)
(* step moves the frontier to an open step; one that does not leaves the   *)
(* frontier where it was, and open.                                        *)

\* The use made of FrontierOpen: a step that is the frontier after a change
\* which took no row away, and kept its own, is open as it was before.
LEMMA FrontierOfStep ==
  ASSUME FrontierOpen,
         NEW s \in Steps,
         rows'[s] = rows[s], rows'[s] # "None",
         \A t \in Steps : rows'[t] = "None" => rows[t] = "None",
         \A t \in Steps : t > s => rows'[t] = "None",
         ForwardOnly
  PROVE  s = LastStep \/ rows'[s] \in OpenStatus
BY DEF FrontierOpen

\* A created file is open at its starting step; a cloned one has no step yet.
LEMMA FrontierInit == Init => FrontierOpen
<1> SUFFICES ASSUME Init, NEW s \in Steps, rows[s] # "None",
                    \A t \in Steps : t > s => rows[t] = "None"
             PROVE  rows[s] \in OpenStatus
  BY DEF FrontierOpen
<1>1. PICK k \in Steps : rows = InitialRows(k)
  BY DEF Init, ClonedFile, CreatedFile, Codes
<1>2. \A t \in Steps : t \in Codes /\ (t < k \/ t = k \/ t > k)
  BY DEF Steps, Codes
<1>3. k \in Codes /\ rows[k] = "In-Progress"
  <2>1. k \in Codes /\ ~(k < k) /\ k # Legacy
    BY DEF Steps, Codes, Legacy
  <2> QED
    BY <1>1, <2>1 DEF InitialRows
<1>4. s = k
  <2>1. s \in Codes /\ k # 0 /\ s # 0
    BY <1>2 DEF Steps
  <2>2. CASE s > k
    BY <1>1, <2>1, <2>2 DEF InitialRows, Legacy, Steps
  <2>3. CASE s < k
    BY <1>3, <2>3 DEF Steps
  <2> QED
    BY <1>2, <2>2, <2>3
<1> QED
  BY <1>3, <1>4 DEF OpenStatus

\* Ending a step towards a later one.
LEMMA FrontierAdvance ==
  ASSUME TypeOK, FrontierOpen, NEW p, NEW c \in Codes, NEW T \in SUBSET Codes,
         NEW f, NEW auto \in BOOLEAN, NEW min,
         ForwardOnly => MovesForward(c, T),
         AdvanceFrom(p, c, T, f, auto, min)
  PROVE  FrontierOpen'
<1> SUFFICES ASSUME ForwardOnly, NEW s \in Steps, rows'[s] # "None",
                    \A t \in Steps : t > s => rows'[t] = "None"
             PROVE  s = LastStep \/ rows'[s] \in OpenStatus
  BY DEF FrontierOpen
<1>1. MovesForward(c, T)
  OBVIOUS
<1>2. rows' = RowsAfterAdvance(rows, c, T, auto) /\ rows \in [Codes -> RowStatus]
  BY DEF AdvanceFrom, TypeOK
<1>3. /\ rows' \in [Codes -> RowStatus]
      /\ \A t \in Codes : t > c =>
           rows'[t] = IF t \in T /\ rows[t] # "Completed" THEN "In-Progress" ELSE rows[t]
      /\ rows'[c] = "Completed"
  BY <1>2, AdvanceRows
<1>4. \A t \in Codes : rows'[t] = "None" => rows[t] = "None"
  BY <1>2 DEF RowsAfterAdvance
<1>5. s \in Codes /\ \A t \in Steps : t \in Codes
  BY DEF Codes
<1>6. CASE c = LastStep
  <2>1. LastStep \in Steps /\ s <= LastStep
    BY StepsAssumption DEF Steps
  <2>2. ~(LastStep > s)
    BY <1>3, <1>6, <2>1
  <2> QED
    BY <2>1, <2>2 DEF Steps
<1>7. CASE c # LastStep
  <2>1. PICK t \in T : t > c
    BY <1>1, <1>7 DEF MovesForward
  <2>2. t \in Steps /\ t \in Codes /\ c \in Int /\ s \in Int /\ t \in Int
    BY <1>1, <2>1, StepsAssumption DEF Codes, Steps, Legacy
  <2>3. rows'[t] # "None"
    BY <1>3, <2>1, <2>2
  <2>4. s >= t
    BY <2>2, <2>3
  <2>5. s > c
    BY <2>1, <2>2, <2>4
  <2>6. CASE rows'[s] = "In-Progress"
    BY <2>6 DEF OpenStatus
  <2>7. CASE rows'[s] = rows[s]
    BY <1>4, <1>5, <2>7, FrontierOfStep
  <2> QED
    BY <1>3, <1>5, <2>5, <2>6, <2>7
<1> QED
  BY <1>6, <1>7

\* Skipping a step towards a later one.
LEMMA FrontierSkip ==
  ASSUME TypeOK, FrontierOpen, NEW c \in Codes, NEW T \in Targets[c],
         NEW f \in FirstOf(T), Skip(c, T, f)
  PROVE  FrontierOpen'
<1> SUFFICES ASSUME ForwardOnly, NEW s \in Steps, rows'[s] # "None",
                    \A t \in Steps : t > s => rows'[t] = "None"
             PROVE  s = LastStep \/ rows'[s] \in OpenStatus
  BY DEF FrontierOpen
<1>1. T \in SUBSET Codes /\ MovesForward(c, T)
  BY HandedOver
<1>2. rows' = [t \in Codes |-> IF t \in T THEN "In-Progress"
                               ELSE IF t = c THEN "Skipped" ELSE rows[t]]
  BY DEF Skip
<1>3. s \in Codes /\ \A t \in Steps : t \in Codes
  BY DEF Codes
<1>4. \A t \in Steps : rows'[t] = "None" => rows[t] = "None"
  BY <1>2, <1>3
<1>5. CASE c = LastStep
  <2>1. LastStep \in Steps /\ s <= LastStep
    BY StepsAssumption DEF Steps
  <2>2. rows'[LastStep] # "None"
    BY <1>2, <1>3, <1>5, <2>1
  <2> QED
    BY <2>1, <2>2 DEF Steps
<1>6. CASE c # LastStep
  <2>1. PICK t \in T : t > c
    BY <1>1, <1>6 DEF MovesForward
  <2>2. t \in Steps /\ t \in Codes /\ c \in Int /\ s \in Int /\ t \in Int
    BY <1>1, <2>1, StepsAssumption DEF Codes, Steps, Legacy
  <2>3. rows'[t] # "None"
    BY <1>2, <2>2
  <2>4. s >= t
    BY <2>2, <2>3
  <2>5. s # c
    BY <2>1, <2>2, <2>4
  <2>6. CASE s \in T
    BY <1>2, <1>3, <2>6 DEF OpenStatus
  <2>7. CASE s \notin T
    <3>1. rows'[s] = rows[s]
      BY <1>2, <1>3, <2>5, <2>7
    <3> QED
      BY <1>4, <3>1, FrontierOfStep
  <2> QED
    BY <2>6, <2>7
<1> QED
  BY <1>5, <1>6

\* The requirements module leaves the step after its own in progress, or has
\* the engine end the one before.
LEMMA FrontierRequirements ==
  ASSUME TypeOK, FrontierOpen, NEW p, SettleFrom(p) \/ PendingFrom(p)
  PROVE  FrontierOpen'
<1>1. CASE SettleFrom(p)
  <2> SUFFICES ASSUME ForwardOnly, NEW s \in Steps, rows'[s] # "None",
                      \A t \in Steps : t > s => rows'[t] = "None"
               PROVE  s = LastStep \/ rows'[s] \in OpenStatus
    BY DEF FrontierOpen
  <2>1. /\ rows \in [Codes -> RowStatus]
        /\ rows' = [rows EXCEPT ![RequirementsStep] = "Completed",
                                ![RequirementsStep + 1] = "In-Progress"]
    BY <1>1 DEF SettleFrom, TypeOK
  <2>2. \A t \in Steps : t \in Codes /\ t \in Int
    BY DEF Codes, Steps
  <2>3. rows'[RequirementsStep + 1] = "In-Progress"
    BY <2>1, RequirementsSteps
  <2>4. s >= RequirementsStep + 1
    BY <2>2, <2>3, RequirementsSteps
  <2>5. CASE s = RequirementsStep + 1
    BY <2>3, <2>5 DEF OpenStatus
  <2>6. CASE s # RequirementsStep + 1
    <3>1. rows'[s] = rows[s]
      BY <2>1, <2>2, <2>4, <2>6, RequirementsSteps
    <3>2. \A t \in Steps : rows'[t] = "None" => rows[t] = "None"
      BY <2>1, <2>2, RequirementsSteps
    <3> QED
      BY <3>1, <3>2, FrontierOfStep
  <2> QED
    BY <2>5, <2>6
<1>2. CASE PendingFrom(p)
  <2>1. MovesForward(RequirementsStep - 1, {RequirementsStep})
    BY RequirementsSteps DEF MovesForward
  <2> QED
    BY <1>2, <2>1, FrontierAdvance, RequirementsSteps DEF PendingFrom
<1> QED
  BY <1>1, <1>2

\* Every operation leaves the furthest step of the file open, or is at the last.
LEMMA FrontierStep == TypeOK /\ FrontierOpen /\ [Next]_vars => FrontierOpen'
<1> SUFFICES ASSUME TypeOK, FrontierOpen, [Next]_vars PROVE FrontierOpen'
  OBVIOUS
<1>0. /\ rows \in [Codes -> RowStatus]
      /\ \A s \in Steps : s \in Codes
  BY DEF TypeOK, Codes
\* Every other operation opens rows, or leaves their being open as it was.
<1> DEFINE Keeps ==
      \A s \in Steps : /\ rows'[s] = "None" => rows[s] = "None"
                       /\ rows'[s] \in OpenStatus \/ rows'[s] = rows[s]
<1>1. ASSUME Keeps PROVE FrontierOpen'
  <2> SUFFICES ASSUME ForwardOnly, NEW s \in Steps, rows'[s] # "None",
                      \A t \in Steps : t > s => rows'[t] = "None"
               PROVE  s = LastStep \/ rows'[s] \in OpenStatus
    BY DEF FrontierOpen
  <2>1. CASE rows'[s] = rows[s]
    BY <1>1, <2>1, FrontierOfStep
  <2> QED
    BY <1>1, <2>1
<1>2. ASSUME NEW c \in Codes, NEW T \in Targets[c], NEW f \in FirstOf(T),
             NEW auto \in BOOLEAN, NEW min \in MinPercents,
             Advance(c, T, f, auto, min)
      PROVE  FrontierOpen'
  BY <1>2, FrontierAdvance, HandedOver DEF Advance
<1>3. ASSUME NEW c \in Codes, NEW T \in Targets[c], NEW f \in FirstOf(T),
             Skip(c, T, f)
      PROVE  FrontierOpen'
  BY <1>3, FrontierSkip
<1>4. ASSUME NEW S \in SUBSET Codes, SetActive(S) PROVE FrontierOpen'
  <2>1. Keeps
    BY <1>0, <1>4 DEF SetActive, OpenStatus
  <2> QED
    BY <1>1, <2>1
<1>5. ASSUME NEW c \in Codes, RegisterPending(c) PROVE FrontierOpen'
  <2>1. Keeps
    BY <1>0, <1>5 DEF RegisterPending, OpenStatus
  <2> QED
    BY <1>1, <2>1
<1>6. ASSUME NEW c \in Codes, Seed(c) PROVE FrontierOpen'
  <2>1. Keeps
    BY <1>0, <1>6 DEF Seed, OpenStatus
  <2> QED
    BY <1>1, <2>1
<1>7. CASE Hold
  <2>1. Keeps
    BY <1>0, <1>7 DEF Hold, OpenStatus
  <2> QED
    BY <1>1, <2>1
<1>8. CASE Resume
  <2>1. Keeps
    BY <1>0, <1>8 DEF Resume, OpenStatus
  <2> QED
    BY <1>1, <2>1
<1>9. ASSUME UNCHANGED rows PROVE FrontierOpen'
  BY <1>1, <1>9
<1>10. ASSUME NEW c \in Codes, NEW skip \in BOOLEAN, NEW ref \in BOOLEAN,
              UpdateConfig(c, skip, ref)
       PROVE  FrontierOpen'
  BY <1>9, <1>10 DEF UpdateConfig, boardVars
<1>11. CASE Close
  BY <1>9, <1>11 DEF Close, boardVars
<1>12. CASE Reopen
  BY <1>9, <1>12 DEF Reopen, boardVars
<1>13. ASSUME NEW st \in EditStatuses \cup {status}, NEW p \in FormulaPercents \cup {100},
              Update(st, p)
       PROVE  FrontierOpen'
  BY <1>9, <1>13, FrontierRequirements DEF Update, boardVars
<1>14. CASE SyncRequirements
  BY <1>14, FrontierRequirements DEF SyncRequirements
<1>15. CASE UNCHANGED vars
  BY <1>9, <1>15 DEF vars
<1> QED
  BY <1>2, <1>3, <1>4, <1>5, <1>6, <1>7, <1>8, <1>10, <1>11, <1>12, <1>13, <1>14,
     <1>15 DEF Next

\* Whatever operations come in whatever order, the furthest step of a file
\* stays open until the last one is reached: the file is always found on the
\* board.
THEOREM FileStaysOnBoard == Spec => []FrontierOpen
BY FrontierInit, FrontierStep, TypeCorrect, PTL DEF Spec

-----------------------------------------------------------------------------
(* The list of skipped stages, and the progress against the pointer.       *)

\* Only a skip marks a row, and it records it; nothing shortens the list.
LEMMA SkippedStep ==
  TypeOK /\ SkippedRecorded /\ [Next]_vars => SkippedRecorded'
<1> SUFFICES ASSUME TypeOK, SkippedRecorded, [Next]_vars,
                    NEW s \in Codes, rows'[s] = "Skipped"
             PROVE  s \in skipped'
  BY DEF SkippedRecorded
<1>0. rows \in [Codes -> RowStatus] /\ (rows[s] = "Skipped" => s \in skipped)
  BY DEF TypeOK, SkippedRecorded
<1>1. ASSUME NEW p, NEW c \in Codes, NEW T \in SUBSET Codes, NEW f,
             NEW auto \in BOOLEAN, NEW min, AdvanceFrom(p, c, T, f, auto, min)
      PROVE  s \in skipped'
  <2>1. rows' = RowsAfterAdvance(rows, c, T, auto) /\ skipped' = skipped
    BY <1>1 DEF AdvanceFrom
  <2> QED
    BY <1>0, <2>1, AdvanceRows
<1>2. ASSUME NEW p, SettleFrom(p) \/ PendingFrom(p) PROVE s \in skipped'
  <2>1. CASE SettleFrom(p)
    BY <1>0, <2>1, RequirementsSteps DEF SettleFrom
  <2>2. CASE PendingFrom(p)
    BY <1>1, <2>2, RequirementsSteps DEF PendingFrom
  <2> QED
    BY <1>2, <2>1, <2>2
<1>3. ASSUME NEW c \in Codes, NEW T \in Targets[c], NEW f \in FirstOf(T),
             NEW auto \in BOOLEAN, NEW min \in MinPercents,
             Advance(c, T, f, auto, min)
      PROVE  s \in skipped'
  BY <1>1, <1>3, HandedOver DEF Advance
<1>4. ASSUME NEW c \in Codes, NEW T \in Targets[c], NEW f \in FirstOf(T),
             Skip(c, T, f)
      PROVE  s \in skipped'
  BY <1>0, <1>4 DEF Skip
<1>5. ASSUME NEW S \in SUBSET Codes, SetActive(S) PROVE s \in skipped'
  BY <1>0, <1>5 DEF SetActive, fileVars
<1>6. ASSUME NEW c \in Codes, RegisterPending(c) PROVE s \in skipped'
  BY <1>0, <1>6 DEF RegisterPending, fileVars
<1>7. ASSUME NEW c \in Codes, NEW skip \in BOOLEAN, NEW ref \in BOOLEAN,
             UpdateConfig(c, skip, ref)
      PROVE  s \in skipped'
  BY <1>0, <1>7 DEF UpdateConfig, fileVars, boardVars
<1>8. ASSUME NEW c \in Codes, Seed(c) PROVE s \in skipped'
  BY <1>0, <1>8 DEF Seed, fileVars
<1>9. CASE Hold
  BY <1>0, <1>9 DEF Hold
<1>10. CASE Resume
  BY <1>0, <1>10 DEF Resume
<1>11. CASE Close
  BY <1>0, <1>11 DEF Close, boardVars
<1>12. CASE Reopen
  BY <1>0, <1>12 DEF Reopen, boardVars
<1>13. ASSUME NEW st \in EditStatuses \cup {status}, NEW p \in FormulaPercents \cup {100},
              Update(st, p)
       PROVE  s \in skipped'
  BY <1>0, <1>13, <1>2 DEF Update, boardVars
<1>14. CASE SyncRequirements
  BY <1>2, <1>14 DEF SyncRequirements
<1>15. CASE UNCHANGED vars
  BY <1>0, <1>15 DEF vars
<1> QED
  BY <1>3, <1>4, <1>5, <1>6, <1>7, <1>8, <1>9, <1>10, <1>11, <1>12, <1>13,
     <1>14, <1>15 DEF Next

\* A new file has no skipped row.
LEMMA SkippedInit == Init => SkippedRecorded
<1> SUFFICES ASSUME Init, NEW s \in Codes PROVE rows[s] # "Skipped"
  BY DEF SkippedRecorded
<1> QED
  BY DEF Init, CreatedFile, ClonedFile, InitialRows

\* The skipped_stages list of the file misses no step the board shows as
\* skipped, although every other operation may rewrite the row.
THEOREM SkipsAreRecorded == Spec => []SkippedRecorded
BY SkippedInit, SkippedStep, TypeCorrect, PTL DEF Spec

\* Whatever moves the pointer to a step raises the progress to its worth, and
\* what lowers the progress (the edit form) takes the pointer off the steps.
LEMMA CoversStep ==
  TypeOK /\ ProgressCoversPointer /\ [Next]_vars => ProgressCoversPointer'
<1> SUFFICES ASSUME TypeOK, ProgressCoversPointer, [Next]_vars,
                    pointer' \in Steps
             PROVE  progress' >= pointer' * StepPercent
  BY DEF ProgressCoversPointer
<1>0. /\ progress \in 0 .. 100
      /\ pointer \in Steps => progress >= pointer * StepPercent
      /\ NoStep \notin Steps
  BY DEF TypeOK, ProgressCoversPointer, Steps, NoStep
<1>1. pointer' * StepPercent \in 0 .. 100
  BY StepWorth
<1>2. ASSUME NEW p \in 0 .. 100, NEW c, NEW T, NEW f, NEW auto,
             NEW min \in 0 .. 100, AdvanceFrom(p, c, T, f, auto, min)
      PROVE  progress' >= pointer' * StepPercent
  <2>1. CASE c = LastStep
    BY <1>1, <1>2, <2>1 DEF AdvanceFrom
  <2>2. CASE c # LastStep
    <3>1. progress' = Max2(p, Max2(PercentOf(pointer', p), min))
      BY <1>2, <2>2 DEF AdvanceFrom
    <3>2. PercentOf(pointer', p) = pointer' * StepPercent
      BY DEF PercentOf
    <3> QED
      BY <1>1, <3>1, <3>2 DEF Max2
  <2> QED
    BY <2>1, <2>2
<1>3. ASSUME NEW p \in 0 .. 100, SettleFrom(p) \/ PendingFrom(p)
      PROVE  progress' >= pointer' * StepPercent
  <2>1. CASE SettleFrom(p)
    BY <1>1, <2>1, RequirementsAssumption DEF SettleFrom, Max2
  <2>2. CASE PendingFrom(p)
    BY <1>2, <2>2, RequirementsAssumption DEF PendingFrom
  <2> QED
    BY <1>3, <2>1, <2>2
<1>4. ASSUME NEW c \in Codes, NEW T \in Targets[c], NEW f \in FirstOf(T),
             NEW auto \in BOOLEAN, NEW min \in MinPercents,
             Advance(c, T, f, auto, min)
      PROVE  progress' >= pointer' * StepPercent
  <2>1. min \in 0 .. 100
    BY InputsAssumption
  <2> QED
    BY <1>0, <1>2, <1>4, <2>1 DEF Advance
<1>5. ASSUME NEW c \in Codes, NEW T \in Targets[c], NEW f \in FirstOf(T),
             Skip(c, T, f)
      PROVE  progress' >= pointer' * StepPercent
  <2>1. CASE T = {}
    BY <1>1, <1>5, <2>1 DEF Skip
  <2>2. CASE T # {}
    <3>1. progress' = Max2(progress, PercentOf(pointer', progress))
      BY <1>5, <2>2 DEF Skip
    <3>2. PercentOf(pointer', progress) = pointer' * StepPercent
      BY DEF PercentOf
    <3> QED
      BY <1>0, <1>1, <3>1, <3>2 DEF Max2
  <2> QED
    BY <2>1, <2>2
<1>6. ASSUME UNCHANGED <<progress, pointer>>
      PROVE  progress' >= pointer' * StepPercent
  BY <1>0, <1>6
<1>7. ASSUME NEW S \in SUBSET Codes, SetActive(S)
      PROVE  progress' >= pointer' * StepPercent
  BY <1>6, <1>7 DEF SetActive, fileVars
<1>8. ASSUME NEW c \in Codes, RegisterPending(c)
      PROVE  progress' >= pointer' * StepPercent
  BY <1>6, <1>8 DEF RegisterPending, fileVars
<1>9. ASSUME NEW c \in Codes, NEW skip \in BOOLEAN, NEW ref \in BOOLEAN,
             UpdateConfig(c, skip, ref)
      PROVE  progress' >= pointer' * StepPercent
  BY <1>6, <1>9 DEF UpdateConfig, fileVars
<1>10. ASSUME NEW c \in Codes, Seed(c)
      PROVE  progress' >= pointer' * StepPercent
  BY <1>6, <1>10 DEF Seed, fileVars
<1>11. ASSUME Hold \/ Resume PROVE progress' >= pointer' * StepPercent
  BY <1>6, <1>11 DEF Hold, Resume
<1>12. ~Close /\ ~Reopen
  BY <1>0 DEF Close, Reopen
<1>13. ASSUME NEW st \in EditStatuses \cup {status}, NEW p \in FormulaPercents \cup {100},
              Update(st, p)
       PROVE  progress' >= pointer' * StepPercent
  <2>1. p \in 0 .. 100
    BY InputsAssumption
  <2> QED
    BY <1>0, <1>3, <1>13, <2>1 DEF Update
<1>14. CASE SyncRequirements
  BY <1>0, <1>3, <1>14 DEF SyncRequirements
<1>15. CASE UNCHANGED vars
  BY <1>6, <1>15 DEF vars
<1> QED
  BY <1>4, <1>5, <1>7, <1>8, <1>9, <1>10, <1>11, <1>12, <1>13, <1>14, <1>15 DEF Next

\* The file never shows less progress than the step its current_module names
\* is worth, whichever of the formulas wrote it last.
THEOREM ProgressCovers == Spec => []ProgressCoversPointer
<1>1. Init => ProgressCoversPointer
  BY DEF Init, ProgressCoversPointer, NoStep, Steps
<1> QED
  BY <1>1, CoversStep, TypeCorrect, PTL DEF Spec

-----------------------------------------------------------------------------
(* Finished work.                                                          *)

\* The step that takes a completed row back is a person's, or writes the step
\* after the requirements. The engine's rows keep it: they turn into
\* Completed or were not Completed before.
LEMMA CompletedStep ==
  TypeOK /\ [Next]_vars =>
    [\A c \in Codes :
       rows[c] = "Completed" /\ rows'[c] # "Completed" =>
         \/ Reactivated
         \/ /\ c = RequirementsStep + 1
            /\ \E p \in {progress, 100} \cup FormulaPercents : SettleFrom(p)]_vars
<1> SUFFICES ASSUME TypeOK, Next, NEW s \in Codes,
                    rows[s] = "Completed", rows'[s] # "Completed", ~Reactivated
             PROVE  /\ s = RequirementsStep + 1
                    /\ \E p \in {progress, 100} \cup FormulaPercents : SettleFrom(p)
  OBVIOUS
<1>0. rows \in [Codes -> RowStatus]
  BY DEF TypeOK
<1>1. ASSUME NEW p, NEW c, NEW T, NEW f, NEW auto, NEW min,
             AdvanceFrom(p, c, T, f, auto, min)
      PROVE  FALSE
  BY <1>1 DEF AdvanceFrom, RowsAfterAdvance
<1>2. ASSUME NEW p \in {progress, 100} \cup FormulaPercents,
             SettleFrom(p) \/ PendingFrom(p)
      PROVE  /\ s = RequirementsStep + 1
             /\ \E q \in {progress, 100} \cup FormulaPercents : SettleFrom(q)
  <2>1. SettleFrom(p)
    BY <1>1, <1>2 DEF PendingFrom
  <2>2. s = RequirementsStep + 1
    BY <1>0, <2>1 DEF SettleFrom
  <2> QED
    BY <2>1, <2>2
<1>3. ASSUME NEW c \in Codes, NEW T \in Targets[c], NEW f \in FirstOf(T),
             NEW auto \in BOOLEAN, NEW min \in MinPercents,
             Advance(c, T, f, auto, min)
      PROVE  FALSE
  BY <1>1, <1>3 DEF Advance
<1>4. ASSUME NEW c \in Codes, NEW T \in Targets[c], NEW f \in FirstOf(T),
             Skip(c, T, f)
      PROVE  FALSE
  BY <1>4 DEF Reactivated
<1>5. ASSUME NEW S \in SUBSET Codes, SetActive(S) PROVE FALSE
  BY <1>5 DEF Reactivated
<1>6. ASSUME NEW c \in Codes, RegisterPending(c) PROVE FALSE
  BY <1>6 DEF Reactivated
<1>7. ASSUME UNCHANGED rows PROVE FALSE
  BY <1>7
<1>8. ASSUME NEW c \in Codes, NEW skip \in BOOLEAN, NEW ref \in BOOLEAN,
             UpdateConfig(c, skip, ref)
      PROVE  FALSE
  BY <1>7, <1>8 DEF UpdateConfig, boardVars
<1>9. ASSUME NEW c \in Codes, Seed(c) PROVE FALSE
  BY <1>9 DEF Seed
<1>10. ~Hold /\ ~Resume
  BY DEF Hold, Resume
<1>11. ~Close /\ ~Reopen
  BY <1>7 DEF Close, Reopen, boardVars
<1>12. ASSUME NEW st \in EditStatuses \cup {status},
              NEW p \in FormulaPercents \cup {100}, Update(st, p)
       PROVE  SettleFrom(p) \/ PendingFrom(p)
  BY <1>7, <1>12 DEF Update, boardVars
<1>13. CASE SyncRequirements
  BY <1>2, <1>13 DEF SyncRequirements
<1> QED
  BY <1>2, <1>3, <1>4, <1>5, <1>6, <1>8, <1>9, <1>10, <1>11, <1>12, <1>13 DEF Next

\* For any board and any callers: no module's event reopens a completed step
\* through the engine; what reopens one is a person's decision or the
\* requirements module writing the step after its own.
THEOREM FinishedWorkStays == Spec => CompletedStays
BY CompletedStep, TypeCorrect, PTL DEF Spec, CompletedStays

-----------------------------------------------------------------------------
(* Ending a step twice.                                                    *)

\* After an advance nothing before the ended step is left to reconcile, and
\* the rows it prescribes are the rows there are.
LEMMA AdvanceTwice ==
  ASSUME NEW r \in [Codes -> RowStatus], NEW c \in Steps, NEW T \in SUBSET Codes,
         \A t \in T : t > c, NEW auto \in BOOLEAN
  PROVE  LET r1 == RowsAfterAdvance(r, c, T, auto)
         IN  Ended(r1, c, auto) = {c} /\ RowsAfterAdvance(r1, c, T, auto) = r1
<1> DEFINE r1 == RowsAfterAdvance(r, c, T, auto)
<1>1. r1 \in [Codes -> RowStatus]
  BY AdvanceRows DEF Codes
<1>2. c \in Codes /\ \A p \in Steps : p \in Codes
  BY DEF Codes
<1>3. auto => AutoCompleted(r1, c) = {}
  <2> SUFFICES ASSUME auto, NEW p \in Steps, p < c
               PROVE  r1[p] \notin {"None", "In-Progress"}
    BY DEF AutoCompleted
  <2>1. p \in Codes /\ p \notin T /\ p # c
    BY <1>2 DEF Steps
  <2>2. CASE r[p] \in {"None", "In-Progress"}
    <3>1. p \in Ended(r, c, auto)
      BY <2>2 DEF Ended, AutoCompleted
    <3> QED
      BY <2>1, <3>1 DEF RowsAfterAdvance
  <2>3. CASE r[p] \notin {"None", "In-Progress"}
    BY <2>1, <2>3 DEF RowsAfterAdvance
  <2> QED
    BY <2>2, <2>3
<1>4. Ended(r1, c, auto) = {c}
  BY <1>3 DEF Ended
<1>5. \A s \in Codes : RowsAfterAdvance(r1, c, T, auto)[s] = r1[s]
  <2> SUFFICES ASSUME NEW s \in Codes
               PROVE  RowsAfterAdvance(r1, c, T, auto)[s] = r1[s]
    OBVIOUS
  <2>1. RowsAfterAdvance(r1, c, T, auto)[s] =
          IF s = c THEN "Completed"
          ELSE IF s \in T /\ r1[s] # "Completed" THEN "In-Progress" ELSE r1[s]
    BY <1>4 DEF RowsAfterAdvance
  <2>2. r1[s] = IF s \in Ended(r, c, auto) THEN "Completed"
                ELSE IF s \in T /\ r[s] # "Completed" THEN "In-Progress" ELSE r[s]
    BY DEF RowsAfterAdvance
  <2>3. c \in Ended(r, c, auto)
    BY DEF Ended
  <2> QED
    BY <2>1, <2>2, <2>3
<1>6. RowsAfterAdvance(r1, c, T, auto) \in [Codes -> RowStatus]
  BY <1>1, <1>2, AdvanceRows
<1> QED
  BY <1>1, <1>4, <1>5, <1>6

\* Closing the tasks of c again, and creating the same one again, does
\* nothing: c has none open and the created one is there.
LEMMA TasksTwice ==
  ASSUME NEW ts \in [Codes -> TaskStatus], NEW c \in Steps, NEW ended,
         c \in ended, NEW created, c \notin created
  PROVE  LET t1 == TasksAfter(ts, ended, created)
         IN  TasksAfter(t1, {c}, created) = t1
<1> DEFINE t1 == TasksAfter(ts, ended, created)
<1>1. TitleMatches(c) = {c} /\ c \in Codes
  BY DEF TitleMatches, Steps, Legacy, Codes
<1>2. t1 \in [Codes -> TaskStatus] /\ TasksAfter(t1, {c}, created) \in [Codes -> TaskStatus]
  BY TasksTyped
<1>3. t1[c] # "open"
  <2>1. c \in UNION {TitleMatches(e) : e \in ended}
    BY <1>1
  <2> QED
    BY <1>1, <2>1 DEF TasksAfter
<1>4. \A s \in created : s \in Codes => t1[s] # "none"
  BY DEF TasksAfter
<1>5. UNION {TitleMatches(e) : e \in {c}} = {c}
  BY <1>1
<1>6. \A s \in Codes : TasksAfter(t1, {c}, created)[s] = t1[s]
  BY <1>2, <1>3, <1>4, <1>5 DEF TasksAfter
<1> QED
  BY <1>2, <1>6

\* "Idempotent" (service.py:286), for any order of steps, any row and any task:
\* the same event delivered twice moves nothing the second time.
THEOREM AdvanceTwiceIsOnce == Spec => []AdvanceIdempotent
<1>1. TypeOK => AdvanceIdempotent
  <2> SUFFICES ASSUME TypeOK, NEW c \in Steps, NEW auto \in BOOLEAN,
                      NEW T \in Targets[c], NEW f \in FirstOf(T), \A t \in T : t > c
               PROVE  LET r1 == RowsAfterAdvance(rows, c, T, auto)
                          created == IF c = LastStep \/ T = {} THEN {} ELSE {f}
                          t1 == TasksAfter(tasks, Ended(rows, c, auto), created)
                      IN  /\ RowsAfterAdvance(r1, c, T, auto) = r1
                          /\ TasksAfter(t1, Ended(r1, c, auto), created) = t1
    BY DEF AdvanceIdempotent
  <2> DEFINE created == IF c = LastStep \/ T = {} THEN {} ELSE {f}
  <2>1. /\ rows \in [Codes -> RowStatus] /\ tasks \in [Codes -> TaskStatus]
        /\ T \in SUBSET Codes /\ c \in Codes /\ c \in Int
    BY HandedOver DEF TypeOK, Codes, Steps
  <2>2. c \notin created
    <3>1. ~(c > c)
      BY <2>1
    <3> QED
      BY <2>1, <3>1, HandedOver
  <2>3. c \in Ended(rows, c, auto)
    BY DEF Ended
  <2>4. /\ Ended(RowsAfterAdvance(rows, c, T, auto), c, auto) = {c}
        /\ RowsAfterAdvance(RowsAfterAdvance(rows, c, T, auto), c, T, auto)
             = RowsAfterAdvance(rows, c, T, auto)
    BY <2>1, AdvanceTwice
  <2>5. TasksAfter(TasksAfter(tasks, Ended(rows, c, auto), created), {c}, created)
          = TasksAfter(tasks, Ended(rows, c, auto), created)
    BY <2>1, <2>2, <2>3, TasksTwice
  <2> QED
    BY <2>4, <2>5
<1> QED
  BY <1>1, TypeCorrect, PTL

-----------------------------------------------------------------------------
(* Reconciliation.                                                         *)

\* ADR-001 for any order of steps and from any state of the board, not only
\* the ones TLC visits: what precedes the ended step is settled in the rows,
\* and the engine leaves no open task behind a step it closed itself.
THEOREM AdvanceReconciles == Spec => []AdvanceSettlesPrior
<1>1. TypeOK => AdvanceSettlesPrior
  <2> SUFFICES ASSUME TypeOK, NEW c \in Steps, NEW T \in Targets[c],
                      NEW f \in FirstOf(T), NEW p \in Steps, p <= c, p \notin T
               PROVE  LET r1 == RowsAfterAdvance(rows, c, T, TRUE)
                          created == IF c = LastStep \/ T = {} THEN {} ELSE {f}
                          t1 == TasksAfter(tasks, Ended(rows, c, TRUE), created)
                      IN  /\ r1[p] \notin {"None", "In-Progress"}
                          /\ r1[p] # rows[p] => t1[p] # "open"
    BY DEF AdvanceSettlesPrior
  <2> DEFINE r1 == RowsAfterAdvance(rows, c, T, TRUE)
             created == IF c = LastStep \/ T = {} THEN {} ELSE {f}
             t1 == TasksAfter(tasks, Ended(rows, c, TRUE), created)
  <2>1. p \in Codes /\ p \in Int /\ c \in Codes /\ c \in Int
    BY DEF Codes, Steps
  <2>2. p \notin created
    BY <2>1, HandedOver
  <2>3. p = c \/ rows[p] \in {"None", "In-Progress"}
          => p \in Ended(rows, c, TRUE)
    BY <2>1 DEF Ended, AutoCompleted
  <2>4. r1[p] = IF p \in Ended(rows, c, TRUE) THEN "Completed" ELSE rows[p]
    BY <2>1 DEF RowsAfterAdvance
  <2>5. ASSUME p \in Ended(rows, c, TRUE) PROVE t1[p] # "open"
    <3>1. TitleMatches(p) = {p}
      BY DEF TitleMatches, Steps, Legacy
    <3>2. p \in UNION {TitleMatches(e) : e \in Ended(rows, c, TRUE)}
      BY <2>5, <3>1
    <3> QED
      BY <2>1, <2>2, <3>2 DEF TasksAfter
  <2> QED
    BY <2>3, <2>4, <2>5
<1> QED
  BY <1>1, TypeCorrect, PTL

=============================================================================
