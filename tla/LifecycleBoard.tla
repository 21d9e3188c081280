--------------------------- MODULE LifecycleBoard ---------------------------
(***************************************************************************)
(* The Shipment Lifecycle Operations Board of one import file, one request *)
(* at a time: the rows of shipment_stage_activity, the tracking fields of  *)
(* the import_files record, the System Generated smart task of each step   *)
(* and the step configuration, as modules/lifecycle_board/service.py,      *)
(* modules/import_files/service.py and modules/import_requirements         *)
(* /service.py change them.                                                *)
(*                                                                         *)
(* Steps are numbered by their place in ORDERED_STEP_CODES; code 0 is the  *)
(* legacy STEP_08, a valid code outside that order. LifecycleRequests      *)
(* takes the same operations apart into their database commits.            *)
(***************************************************************************)
EXTENDS Integers, FiniteSets

CONSTANTS
  LastStep,        \* length of ORDERED_STEP_CODES (25 in the code)
  StepPercent,     \* progress one step is worth: 100 \div LastStep
  LegacyNext,      \* place of STEP_08_PO, the natural successor of STEP_08
  RequirementsStep, \* place of STEP_03, the import requirements
  PendingPercent,  \* progress their module asks for while one is pending (25)
  DonePercent,     \* progress it writes when all are met (30)
  DraftSteps,      \* places of the STEP_08_* codes, whose titles hold "STEP_08"
  MinPercents,     \* min_progress_percent values callers pass (0: none)
  FormulaPercents, \* progress values compute_file_formulas gives an open file
  EditStatuses,    \* statuses the file's edit form sets, when it sets one
  Configurable,    \* codes whose configuration the manager edits (a bound)
  MaxTargets,      \* bound on the steps one request activates
  ForwardOnly      \* TRUE: every request names a step after the one it ends,
                   \* as every caller in the repository does

Steps == 1 .. LastStep
Legacy == 0
Codes == {Legacy} \cup Steps
NoStep == -1                 \* current_module holds a text that names no step

\* "Open" stands for Draft, Open, In Progress and Active, which no guard
\* tells apart.
FileStatus == {"Open", "On Hold", "Closed", "Archived"}

ASSUME StepsAssumption ==
  /\ LastStep \in Nat \ {0}
  /\ StepPercent \in Nat
  /\ StepPercent * LastStep <= 100
  /\ LegacyNext \in Steps
  /\ DraftSteps \subseteq Steps
ASSUME RequirementsAssumption ==
  /\ RequirementsStep \in Nat
  /\ 1 < RequirementsStep /\ RequirementsStep < LastStep
  /\ PendingPercent \in 0 .. 100
  /\ DonePercent \in 0 .. 100
  /\ (RequirementsStep + 1) * StepPercent <= DonePercent
ASSUME InputsAssumption ==
  /\ MinPercents \subseteq 0 .. 100
  /\ FormulaPercents \subseteq 0 .. 100
  /\ EditStatuses \subseteq FileStatus
  /\ Configurable \subseteq Codes
  /\ MaxTargets \in Nat
  /\ ForwardOnly \in BOOLEAN

RowStatus ==
  {"None", "In-Progress", "Completed", "Skipped", "On-Hold", "Reference"}
OpenStatus == {"In-Progress", "On-Hold", "Reference"}
TaskStatus == {"none", "open", "done"}

VARIABLES
  rows,       \* status of the activity row of each code; "None": no row
  tasks,      \* the smart task titled after each code
  skipped,    \* import_files.skipped_stages
  progress,   \* import_files.progress_percent
  pointer,    \* the step current_module names
  status,     \* import_files.status
  skippable,  \* codes whose skip_policy is not "blocked"
  referable   \* codes whose configuration supports a pending reference

boardVars == <<rows, tasks>>
fileVars == <<skipped, progress, pointer, status>>
configVars == <<skippable, referable>>
vars == <<rows, tasks, skipped, progress, pointer, status, skippable, referable>>

TypeOK ==
  /\ rows \in [Codes -> RowStatus]
  /\ tasks \in [Codes -> TaskStatus]
  /\ skipped \subseteq Codes
  /\ progress \in 0 .. 100
  /\ pointer \in Codes \cup {NoStep}
  /\ status \in FileStatus
  /\ skippable \subseteq Codes
  /\ referable \subseteq Codes

Max2(a, b) == IF a >= b THEN a ELSE b

-----------------------------------------------------------------------------
(* Requests and what they write.                                           *)

\* get_step_neighbors: the natural next step, as the set of steps to activate.
NaturalNext(c) ==
  IF c = Legacy THEN {LegacyNext}
  ELSE IF c = LastStep THEN {} ELSE {c + 1}

MovesForward(c, T) == IF c = LastStep THEN T = {} ELSE \E t \in T : t > c

\* The step lists a caller may hand over when it ends code c.
Targets ==
  [c \in Codes |->
     {T \in SUBSET Codes : /\ Cardinality(T) <= MaxTargets
                           /\ ForwardOnly => MovesForward(c, T)}]

\* Slip: reconciles only steps that are open, and leaves unrecorded ones out.
AutoCompletedOpenOnly(r, c) ==
  IF c \in Steps THEN {p \in Steps : p < c /\ r[p] = "In-Progress"} ELSE {}

\* Auto-reconciliation: earlier steps that are open or were never recorded.
\* The legacy code has no place in the order, so nothing comes before it.
AutoCompleted(r, c) ==
  IF c \in Steps
  THEN {p \in Steps : p < c /\ r[p] \in {"None", "In-Progress"}}
  ELSE {}

Ended(r, c, auto) == {c} \cup (IF auto THEN AutoCompleted(r, c) ELSE {})

\* Slip: activates a target even when it is already completed.
RowsReopeningTargets(r, c, T, auto) ==
  [s \in Codes |->
     IF s \in T THEN "In-Progress"
     ELSE IF s \in Ended(r, c, auto) THEN "Completed" ELSE r[s]]

\* Slip: updates the rows of the targets that exist, and inserts none.
RowsUpdatingTargets(r, c, T, auto) ==
  [s \in Codes |->
     IF s \in Ended(r, c, auto) THEN "Completed"
     ELSE IF s \in T /\ r[s] \notin {"None", "Completed"} THEN "In-Progress"
     ELSE r[s]]

RowsAfterAdvance(r, c, T, auto) ==
  [s \in Codes |->
     IF s \in Ended(r, c, auto) THEN "Completed"
     ELSE IF s \in T /\ r[s] # "Completed" THEN "In-Progress" ELSE r[s]]

\* Slip: a search pattern so short that it finds the next step's title too.
TitleMatchesShort(c) == {c} \cup ({c + 1} \cap Codes)

\* Codes whose task titles match ILIKE '%code%': STEP_08 is a prefix of the
\* STEP_08_* codes.
TitleMatches(c) == IF c = Legacy THEN {Legacy} \cup DraftSteps ELSE {c}

\* Close the open tasks of the ended codes, then make sure the first activated
\* step has a task, in whatever status it may be.
TasksAfter(ts, ended, created) ==
  LET matched == UNION {TitleMatches(c) : c \in ended}
      closed  == [c \in Codes |->
                    IF c \in matched /\ ts[c] = "open" THEN "done" ELSE ts[c]]
  IN  [c \in Codes |->
         IF c \in created /\ closed[c] = "none" THEN "open" ELSE closed[c]]

\* Slip: counts the step after the one it is given.
PercentOfFollowing(c, old) == IF c \in Steps THEN (c + 1) * StepPercent ELSE old

PercentOf(c, old) == IF c \in Steps THEN c * StepPercent ELSE old

-----------------------------------------------------------------------------
(* initialize_file_lifecycle_service: earlier steps are pre-completed, the  *)
(* legacy row with them when they include a STEP_08_* code.                *)
InitialRows(k) ==
  [s \in Codes |->
     CASE s = k -> "In-Progress"
       [] s \in Steps /\ s < k -> "Completed"
       [] s = Legacy /\ \E d \in DraftSteps : d < k -> "Completed"
       [] OTHER -> "None"]

CreatedFile ==
  \E k \in Steps : rows = InitialRows(k) /\ progress \in FormulaPercents

\* A clone is inserted with progress 0 and no activity row at all.
ClonedFile == rows = [c \in Codes |-> "None"] /\ progress = 0

Init ==
  /\ CreatedFile \/ ClonedFile
  /\ tasks = [c \in Codes |-> "none"]
  /\ skipped = {}
  /\ pointer = NoStep
  /\ status = "Open"
  /\ skippable \in SUBSET Configurable  \* the step configuration outlives files
  /\ referable \in SUBSET Configurable

\* A request hands over a list of steps: the set T, and which of them is first.
FirstOf(T) == IF T = {} THEN {NoStep} ELSE T

(* advance_lifecycle_step_service: complete c, reconcile what precedes it,  *)
(* activate the targets, then move the file's pointer, progress and tasks. *)
(* p is the progress the engine finds in the file.                         *)
AdvanceFrom(p, c, T, f, auto, min) ==
  LET named == IF c = LastStep \/ T = {} THEN c ELSE f
      calc  == Max2(PercentOf(named, p), min)
      new   == IF c = LastStep \/ T = {} THEN {} ELSE {f}
  IN  /\ rows' = RowsAfterAdvance(rows, c, T, auto)
      /\ tasks' = TasksAfter(tasks, Ended(rows, c, auto), new)
      /\ pointer' = named
      /\ progress' = IF c = LastStep THEN 100 ELSE Max2(p, calc)
      /\ UNCHANGED <<skipped, configVars>>

Advance(c, T, f, auto, min) ==
  /\ AdvanceFrom(progress, c, T, f, auto, min)
  /\ UNCHANGED status

(* skip_step_service: allowed where the live policy is not "blocked"; the   *)
(* next steps become In-Progress whatever they were.                       *)
Skip(c, T, f) ==
  /\ c \in skippable
  /\ T = {} => NaturalNext(c) = {}
  /\ rows' = [s \in Codes |-> IF s \in T THEN "In-Progress"
                              ELSE IF s = c THEN "Skipped" ELSE rows[s]]
  /\ skipped' = skipped \cup {c}
  /\ IF T = {}
     THEN pointer' = LastStep /\ progress' = 100 /\ tasks' = tasks
     ELSE /\ pointer' = f
          /\ progress' = Max2(progress, PercentOf(f, progress))
          /\ tasks' = TasksAfter(tasks, {c}, {f})
  /\ UNCHANGED <<status, configVars>>

\* set_multi_active_stages_service
SetActive(S) ==
  /\ S # {} /\ Cardinality(S) <= MaxTargets
  /\ rows' = [s \in Codes |-> IF s \in S THEN "In-Progress" ELSE rows[s]]
  /\ UNCHANGED <<tasks, fileVars, configVars>>

\* register_pending_reference_service
RegisterPending(c) ==
  /\ c \in referable
  /\ rows' = [rows EXCEPT ![c] = "Reference"]
  /\ UNCHANGED <<tasks, fileVars, configVars>>

\* update_step_config_service: the policy and the pending-reference flag.
UpdateConfig(c, skip, ref) ==
  /\ c \in Configurable
  /\ skippable' = IF skip THEN skippable \cup {c} ELSE skippable \ {c}
  /\ referable' = IF ref THEN referable \cup {c} ELSE referable \ {c}
  /\ UNCHANGED <<boardVars, fileVars>>

\* _ensure_initial_stages gives a file its starting step, only while no file
\* has a row.
Seed(c) ==
  /\ \A s \in Codes : rows[s] = "None"
  /\ rows' = [rows EXCEPT ![c] = "In-Progress"]
  /\ UNCHANGED <<tasks, fileVars, configVars>>

-----------------------------------------------------------------------------
(* The file's own operations (modules/import_files/service.py).            *)

\* hold_import_file_service, from any status.
Hold ==
  /\ status' = "On Hold"
  /\ rows' = [s \in Codes |->
                IF rows[s] = "In-Progress" THEN "On-Hold" ELSE rows[s]]
  /\ UNCHANGED <<tasks, skipped, progress, pointer, configVars>>

\* resume_import_file_service
Resume ==
  /\ status = "On Hold"
  /\ status' = "Open"
  /\ rows' = [s \in Codes |->
                IF rows[s] = "On-Hold" THEN "In-Progress" ELSE rows[s]]
  /\ UNCHANGED <<tasks, skipped, progress, pointer, configVars>>

\* close_shipment_service, from any status; the board's rows stay as they are.
Close ==
  /\ status' = "Closed"
  /\ progress' = 100
  /\ pointer' = NoStep
  /\ UNCHANGED <<boardVars, skipped, configVars>>

\* reopen_shipment_service: progress is not restored.
Reopen ==
  /\ status = "Closed"
  /\ status' = "Open"
  /\ pointer' = NoStep
  /\ UNCHANGED <<boardVars, skipped, progress, configVars>>

\* Slip: recomputes the progress and forgets the stage fields.
UpdateKeepingStage(st, p) ==
  /\ status' = st
  /\ progress' = p
  /\ UNCHANGED <<boardVars, skipped, pointer, configVars>>

(* sync_regulatory_tasks_and_alerts, from a file whose progress is p. When  *)
(* every requirement is met and the assessment closed it writes the rows    *)
(* of its step and of the next one itself, whatever they were.              *)
SettleFrom(p) ==
  /\ rows' = [rows EXCEPT ![RequirementsStep] = "Completed",
                           ![RequirementsStep + 1] = "In-Progress"]
  /\ pointer' = RequirementsStep + 1
  /\ progress' = Max2(p, DonePercent)
  /\ UNCHANGED <<tasks, skipped, configVars>>

\* Otherwise it calls the engine to end the customs studies.
PendingFrom(p) ==
  AdvanceFrom(p, RequirementsStep - 1, {RequirementsStep}, RequirementsStep,
              TRUE, PendingPercent)

\* create_, update_ and restore_assessment_service
SyncRequirements ==
  /\ SettleFrom(progress) \/ PendingFrom(progress)
  /\ UNCHANGED status

\* update_import_file_service recomputes progress and stage from the form
\* numbers, without looking at the board, and then, when the file has an ACID
\* number and an assessment, has the requirements module write it again.
Update(st, p) ==
  /\ p \in IF st \in {"Closed", "Archived"} THEN {100} ELSE FormulaPercents
  /\ status' = st
  /\ \/ /\ progress' = p
        /\ pointer' = NoStep
        /\ UNCHANGED <<boardVars, skipped, configVars>>
     \/ SettleFrom(p)
     \/ PendingFrom(p)

-----------------------------------------------------------------------------
Next ==
  \/ \E c \in Codes : \E T \in Targets[c] : \E f \in FirstOf(T),
        auto \in BOOLEAN, min \in MinPercents : Advance(c, T, f, auto, min)
  \/ \E c \in Codes : \E T \in Targets[c] : \E f \in FirstOf(T) :
        Skip(c, T, f)
  \/ \E S \in SUBSET Codes : SetActive(S)
  \/ \E c \in Codes : RegisterPending(c)
  \/ \E c \in Codes, skip \in BOOLEAN, ref \in BOOLEAN :
        UpdateConfig(c, skip, ref)
  \/ \E c \in Codes : Seed(c)
  \/ Hold
  \/ Resume
  \/ Close
  \/ Reopen
  \/ \E st \in EditStatuses \cup {status}, p \in FormulaPercents \cup {100} :
        Update(st, p)
  \/ SyncRequirements

Spec == Init /\ [][Next]_vars

-----------------------------------------------------------------------------
(* Properties.                                                             *)

\* No shipment drops off the board: the furthest step that was ever recorded
\* is still open, unless it is the last one. Every operation may disturb it:
\* an advance or a skip that activates nothing, a late event for an earlier
\* step, a hold, a reference recorded far ahead.
FrontierOpen ==
  ForwardOnly =>
    \A s \in Steps :
      /\ rows[s] # "None"
      /\ \A t \in Steps : t > s => rows[t] = "None"
      => s = LastStep \/ rows[s] \in OpenStatus

\* Every row marked Skipped is in the file's permanent skipped_stages list,
\* the list reports and audits read instead of the board.
SkippedRecorded == \A c \in Codes : rows[c] = "Skipped" => c \in skipped

\* While current_module names a step, progress_percent is at least what that
\* step is worth, although progress and pointer are written by the advance,
\* the skip, the early closure and the file's edit form, each with its own
\* formula.
ProgressCoversPointer ==
  pointer \in Steps => progress >= pointer * StepPercent

\* The engine is called again for work it has already recorded (a double
\* click, a module saved twice): ending step c towards later steps a second
\* time changes neither a row nor a task ("Idempotent", service.py:286).
AdvanceIdempotent ==
  \A c \in Steps, auto \in BOOLEAN : \A T \in Targets[c] : \A f \in FirstOf(T) :
    (\A t \in T : t > c) =>
      LET r1 == RowsAfterAdvance(rows, c, T, auto)
          created == IF c = LastStep \/ T = {} THEN {} ELSE {f}
          t1 == TasksAfter(tasks, Ended(rows, c, auto), created)
      IN  /\ RowsAfterAdvance(r1, c, T, auto) = r1
          /\ TasksAfter(t1, Ended(r1, c, auto), created) = t1

\* ADR-001, the part that holds: ending a step with reconciliation, from
\* whatever state the board is in, leaves no earlier step of the order active
\* or unrecorded, and no open task of a step the engine ended.
AdvanceSettlesPrior ==
  \A c \in Steps : \A T \in Targets[c] : \A f \in FirstOf(T) :
    LET r1 == RowsAfterAdvance(rows, c, T, TRUE)
        created == IF c = LastStep \/ T = {} THEN {} ELSE {f}
        t1 == TasksAfter(tasks, Ended(rows, c, TRUE), created)
    IN  \A p \in Steps : p <= c /\ p \notin T =>
          /\ r1[p] \notin {"None", "In-Progress"}
          /\ r1[p] # rows[p] => t1[p] # "open"

\* A person takes step c back: activates it, or records a reference for it.
Reactivated ==
  \/ \E S \in SUBSET Codes : SetActive(S)
  \/ \E c \in Codes : RegisterPending(c)
  \/ \E d \in Codes : \E T \in Targets[d] : \E f \in FirstOf(T) : Skip(d, T, f)

\* The automatic engine never takes a completed step back: only a person's
\* skip, manual activation or pending reference does (a late event of another
\* module must not reopen finished work), and the requirements module, which
\* reopens the step after its own without the engine.
CompletedStays ==
  [][\A c \in Codes :
       rows[c] = "Completed" /\ rows'[c] # "Completed" =>
         \/ Reactivated
         \/ /\ c = RequirementsStep + 1
            /\ \E p \in {progress, 100} \cup FormulaPercents : SettleFrom(p)]_vars

=============================================================================
