-------------------------- MODULE LifecycleRequests -------------------------
(***************************************************************************)
(* advance_lifecycle_step_service at the grain of its database round       *)
(* trips. A request runs in a server thread with a session of its own      *)
(* (autoflush off, objects expire on commit) and commits after every row   *)
(* it writes, so other requests run between any two of its steps, and a    *)
(* failure leaves what was committed. shipment_stage_activity has no       *)
(* unique constraint on (file, step): two requests that both find no row   *)
(* both insert one, and from then on .first() returns the older.           *)
(*                                                                         *)
(* The requests here end an ordered step towards its natural successor     *)
(* with auto_complete_prior, as every module does. LifecycleBoard is the   *)
(* same operation as one atomic step.                                      *)
(***************************************************************************)
EXTENDS Integers, Sequences, FiniteSets

CONSTANTS
  Requests,     \* the requests of a run (a bound)
  MaxInFlight,  \* how many may run at the same time
  MaxCrashes,   \* how many are cut off between two commits (a bound)
  LastStep, StepPercent, FormulaPercents   \* as in LifecycleBoard

Steps == 1 .. LastStep

ASSUME RequestsAssumption ==
  /\ LastStep \in Nat \ {0} /\ StepPercent \in Nat /\ StepPercent * LastStep <= 100
  /\ FormulaPercents \subseteq 0 .. 100
  /\ MaxInFlight \in Nat /\ MaxCrashes \in Nat

VARIABLES
  table,     \* table[s]: statuses of the rows of step s, oldest first
  tasks,     \* the tasks inserted, in the order of their task_code
  progress, pointer,   \* the file's progress_percent and current_module
  pc,        \* where each request is
  ended,     \* completed_step_code of each request
  cursor,    \* the step the request is working on
  auto,      \* auto_completed_steps so far
  found,     \* status of the row the request loaded last, "None" without one
  seen,      \* what the request read before its last commit
  crashed,   \* requests that were cut off once
  snapshot,  \* history: first rows when the last quiet period ended
  alone      \* history: one request only has run since then

dbVars == <<table, tasks, progress, pointer>>
localVars == <<ended, cursor, auto, found, seen>>
historyVars == <<crashed, snapshot, alone>>
vars == <<dbVars, pc, localVars, historyVars>>

Working == {"prior", "mark", "read", "write", "target", "file", "count", "commit"}
PC == {"idle", "crashed", "done", "failed"} \cup Working
NothingSeen ==
  [progress |-> 0, open |-> {}, exists |-> FALSE, count |-> 0]

\* The status .first() returns, "None" where there is no row.
First(s) == IF table[s] = <<>> THEN "None" ELSE table[s][1]
FirstRows == [s \in 0 .. LastStep |-> IF s = 0 THEN "None" ELSE First(s)]

Active == {r \in Requests : pc[r] \in Working \cup {"crashed"}}
Quiet == Active = {}

TypeOK ==
  /\ table \in [Steps -> Seq({"In-Progress", "Completed"})]
  /\ tasks \in Seq([step : Steps, open : BOOLEAN])
  /\ progress \in 0 .. 100 /\ pointer \in Steps \cup {-1}
  /\ pc \in [Requests -> PC]
  /\ ended \in [Requests -> Steps] /\ cursor \in [Requests -> Steps]
  /\ auto \in [Requests -> SUBSET Steps]
  /\ found \in [Requests -> {"None", "In-Progress", "Completed"}]
  /\ \A r \in Requests : seen[r].open \subseteq DOMAIN tasks
  /\ crashed \subseteq Requests /\ alone \in BOOLEAN

\* A file created at step k; earlier steps are pre-completed.
Init ==
  /\ \E k \in Steps :
       table = [s \in Steps |-> IF s < k THEN <<"Completed">>
                                ELSE IF s = k THEN <<"In-Progress">> ELSE <<>>]
  /\ tasks = <<>>
  /\ progress \in FormulaPercents
  /\ pointer = -1
  /\ pc = [r \in Requests |-> "idle"]
  /\ ended = [r \in Requests |-> 1]
  /\ cursor = [r \in Requests |-> 1]
  /\ auto = [r \in Requests |-> {}]
  /\ found = [r \in Requests |-> "None"]
  /\ seen = [r \in Requests |-> NothingSeen]
  /\ crashed = {}
  /\ snapshot = FirstRows
  /\ alone = TRUE

\* The session and its locals are gone.
Forget(r) ==
  /\ ended' = [ended EXCEPT ![r] = 1]
  /\ cursor' = [cursor EXCEPT ![r] = 1]
  /\ auto' = [auto EXCEPT ![r] = {}]
  /\ found' = [found EXCEPT ![r] = "None"]
  /\ seen' = [seen EXCEPT ![r] = NothingSeen]

Goto(r, label) == pc' = [pc EXCEPT ![r] = label]

\* The earlier steps are visited in order, then the ended step is saved.
Visit(r, s) ==
  /\ cursor' = [cursor EXCEPT ![r] = s]
  /\ Goto(r, IF s < ended[r] THEN "prior" ELSE "read")

-----------------------------------------------------------------------------
(* A request arrives, or a client sends again one that was cut off.        *)

Start(r, c) ==
  /\ pc[r] = "idle" /\ Cardinality(Active) < MaxInFlight
  /\ ended' = [ended EXCEPT ![r] = c]
  /\ cursor' = [cursor EXCEPT ![r] = 1]
  /\ Goto(r, IF c = 1 THEN "read" ELSE "prior")
  /\ snapshot' = IF Quiet THEN FirstRows ELSE snapshot
  /\ alone' = Quiet
  /\ UNCHANGED <<dbVars, auto, found, seen, crashed>>

\* Nothing but the database survives the cut.
Crash(r) ==
  /\ pc[r] \in Working /\ r \notin crashed
  /\ Cardinality(crashed) < MaxCrashes
  /\ Goto(r, "crashed")
  /\ crashed' = crashed \cup {r}
  /\ cursor' = [cursor EXCEPT ![r] = 1]
  /\ auto' = [auto EXCEPT ![r] = {}]
  /\ found' = [found EXCEPT ![r] = "None"]
  /\ seen' = [seen EXCEPT ![r] = NothingSeen]
  /\ UNCHANGED <<dbVars, ended, snapshot, alone>>

Retry(r) ==
  /\ pc[r] = "crashed"
  /\ Goto(r, IF ended[r] = 1 THEN "read" ELSE "prior")
  /\ UNCHANGED <<dbVars, localVars, historyVars>>

-----------------------------------------------------------------------------
(* Step 4 of the service: each earlier step is read, then completed if it  *)
(* is open, inserted if it is missing.                                     *)

\* Slip: takes an earlier step that has no row for one already dealt with.
CheckPriorIgnoringMissing(r) ==
  /\ pc[r] = "prior"
  /\ IF First(cursor[r]) = "In-Progress"
     THEN Goto(r, "mark") /\ UNCHANGED cursor
     ELSE Visit(r, cursor[r] + 1)
  /\ UNCHANGED <<dbVars, ended, auto, found, seen, historyVars>>

\* Slip: does not go on to the next step when one is already completed.
CheckPriorStalling(r) ==
  /\ pc[r] = "prior"
  /\ CASE First(cursor[r]) = "None" -> Goto(r, "read")
       [] First(cursor[r]) = "In-Progress" -> Goto(r, "mark")
       [] OTHER -> Goto(r, "prior")
  /\ UNCHANGED <<dbVars, localVars, historyVars>>

CheckPrior(r) ==
  /\ pc[r] = "prior"
  /\ CASE First(cursor[r]) = "None" -> Goto(r, "read") /\ UNCHANGED cursor
       [] First(cursor[r]) = "In-Progress" -> Goto(r, "mark") /\ UNCHANGED cursor
       [] OTHER -> Visit(r, cursor[r] + 1)
  /\ UNCHANGED <<dbVars, ended, auto, found, seen, historyVars>>

\* Slip: does not note the step in auto_completed_steps.
MarkPriorForgetting(r) ==
  /\ pc[r] = "mark"
  /\ table' = [table EXCEPT ![cursor[r]][1] = "Completed"]
  /\ Visit(r, cursor[r] + 1)
  /\ UNCHANGED <<tasks, progress, pointer, ended, auto, found, seen, historyVars>>

MarkPrior(r) ==
  /\ pc[r] = "mark"
  /\ table' = [table EXCEPT ![cursor[r]][1] = "Completed"]
  /\ auto' = [auto EXCEPT ![r] = @ \cup {cursor[r]}]
  /\ Visit(r, cursor[r] + 1)
  /\ UNCHANGED <<tasks, progress, pointer, ended, found, seen, historyVars>>

(* save_or_update_activity: read the row, then update it or insert one.    *)

SaveRead(r) ==
  /\ pc[r] = "read"
  /\ found' = [found EXCEPT ![r] = First(cursor[r])]
  /\ Goto(r, "write")
  /\ UNCHANGED <<dbVars, ended, cursor, auto, seen, historyVars>>

\* The session writes the columns whose value differs from what it loaded.
Written(old, new, stored) == IF new = old THEN stored ELSE new

Saved(r) == IF cursor[r] <= ended[r] THEN "Completed" ELSE "In-Progress"

SaveWrite(r) ==
  /\ pc[r] = "write"
  /\ table' = IF found[r] = "None"
              THEN [table EXCEPT ![cursor[r]] = Append(@, Saved(r))]
              ELSE [table EXCEPT ![cursor[r]][1] = Written(found[r], Saved(r), @)]
  /\ \/ /\ cursor[r] < ended[r]
        /\ auto' = [auto EXCEPT ![r] = @ \cup {cursor[r]}]
        /\ Visit(r, cursor[r] + 1)
     \/ /\ cursor[r] = ended[r]
        /\ cursor' = [cursor EXCEPT ![r] = IF @ = LastStep THEN @ ELSE @ + 1]
        /\ Goto(r, IF cursor[r] = LastStep THEN "file" ELSE "target")
        /\ UNCHANGED auto
     \/ /\ cursor[r] > ended[r]
        /\ Goto(r, "file")
        /\ UNCHANGED <<auto, cursor>>
  /\ UNCHANGED <<tasks, progress, pointer, ended, found, seen, historyVars>>

\* Slip: activates the next step only where a row of it exists.
CheckTargetExisting(r) ==
  /\ pc[r] = "target"
  /\ found' = [found EXCEPT ![r] = First(cursor[r])]
  /\ Goto(r, IF First(cursor[r]) = "In-Progress" THEN "write" ELSE "file")
  /\ UNCHANGED <<dbVars, ended, cursor, auto, seen, historyVars>>

\* Slip: activates the next step without looking at its row.
CheckTargetBlindly(r) ==
  /\ pc[r] = "target"
  /\ Goto(r, "read")
  /\ UNCHANGED <<dbVars, localVars, historyVars>>

\* Step 6: the next step is activated unless its row is already completed. A
\* row found here stays in the session, so save_or_update_activity works on
\* the status loaded now; a missing row is looked for once more.
CheckTarget(r) ==
  /\ pc[r] = "target"
  /\ found' = [found EXCEPT ![r] = First(cursor[r])]
  /\ Goto(r, CASE found'[r] = "None" -> "read"
               [] found'[r] = "In-Progress" -> "write"
               [] OTHER -> "file")
  /\ UNCHANGED <<dbVars, ended, cursor, auto, seen, historyVars>>

-----------------------------------------------------------------------------
(* Steps 7 to 9: the file and its tasks, in one commit.                    *)

\* Slip: names a step after the last one.
TargetPastEnd(r) == ended[r] + 1

HasTarget(r) == ended[r] # LastStep
Target(r) == IF HasTarget(r) THEN ended[r] + 1 ELSE LastStep

ReadFile(r) ==
  /\ pc[r] = "file"
  /\ seen' = [seen EXCEPT ![r] =
       [progress |-> progress, count |-> 0,
        open |-> {i \in DOMAIN tasks :
                    tasks[i].open /\ tasks[i].step \in {ended[r]} \cup auto[r]},
        exists |-> \E i \in DOMAIN tasks : tasks[i].step = Target(r)]]
  /\ Goto(r, IF HasTarget(r) /\ ~seen'[r].exists THEN "count" ELSE "commit")
  /\ UNCHANGED <<dbVars, ended, cursor, auto, found, historyVars>>

\* generate_task_code counts the tasks there are.
CountTasks(r) ==
  /\ pc[r] = "count"
  /\ seen' = [seen EXCEPT ![r].count = Len(tasks)]
  /\ Goto(r, "commit")
  /\ UNCHANGED <<dbVars, ended, cursor, auto, found, historyVars>>

\* The unique task_code rejects the commit when another task took the number.
\* The file's columns are written without having been read, except for the
\* progress, which is raised from the value read.
CommitFile(r) ==
  LET creates == HasTarget(r) /\ ~seen[r].exists
      calc    == Target(r) * StepPercent
      new     == IF calc > seen[r].progress THEN calc ELSE seen[r].progress
      closed  == [i \in DOMAIN tasks |->
                    [tasks[i] EXCEPT !.open = @ /\ i \notin seen[r].open]]
  IN  /\ pc[r] = "commit"
      /\ IF creates /\ Len(tasks) > seen[r].count
         THEN Goto(r, "failed") /\ UNCHANGED dbVars
         ELSE /\ Goto(r, "done")
              /\ progress' = IF HasTarget(r)
                              THEN Written(seen[r].progress, new, progress)
                              ELSE 100
              /\ pointer' = Target(r)
              /\ tasks' = IF creates
                          THEN Append(closed, [step |-> Target(r), open |-> TRUE])
                          ELSE closed
              /\ UNCHANGED table
      /\ Forget(r)
      /\ UNCHANGED historyVars

-----------------------------------------------------------------------------
Work(r) ==
  \/ CheckPrior(r) \/ MarkPrior(r)
  \/ SaveRead(r) \/ SaveWrite(r) \/ CheckTarget(r)
  \/ ReadFile(r) \/ CountTasks(r) \/ CommitFile(r)

Next ==
  \E r \in Requests :
    (\E c \in Steps : Start(r, c)) \/ Crash(r) \/ Retry(r) \/ Work(r)

Spec == Init /\ [][Next]_vars

\* A server thread runs its request to the end; nobody has to send one, and a
\* client need not repeat one that was cut off.
FairSpec == Spec /\ \A r \in Requests : WF_vars(Work(r))

-----------------------------------------------------------------------------
(* Properties.                                                             *)

TaskOf(s) ==
  LET own == {i \in DOMAIN tasks : tasks[i].step = s}
  IN  IF own = {} THEN "none"
      ELSE IF \E i \in own : tasks[i].open THEN "open" ELSE "done"

\* The board as it was before the running request, until its last commit.
Board == INSTANCE LifecycleBoard WITH
  rows        <- IF Quiet THEN FirstRows ELSE snapshot,
  tasks       <- [s \in 0 .. LastStep |-> IF s = 0 THEN "none" ELSE TaskOf(s)],
  skipped     <- {},
  status      <- "Open",
  skippable   <- {},
  referable   <- {},
  LegacyNext  <- 1,
  RequirementsStep <- 2,
  PendingPercent <- 0,
  DonePercent <- 100,
  DraftSteps  <- {},
  MinPercents <- {0},
  EditStatuses <- {},
  Configurable <- {},
  MaxTargets  <- 1,
  ForwardOnly <- TRUE

\* Requests that do not overlap and are not cut off: the commits of each one
\* together are one Advance of the board.
BoardAtomic == Board!Spec

\* ADR-001 of lifecycle-sync-review-log.md: no row of a step stays active once
\* a later step was recorded, so that active-board queries return the current
\* stage only. It counts every row, as get_active_steps does.
NoTrappedStep ==
  Quiet => \A s \in Steps : \A i \in DOMAIN table[s] :
             table[s][i] = "In-Progress" => \A t \in Steps : t > s => table[t] = <<>>

\* When no request is running the furthest recorded step is open to its reader
\* or is the last one, however the requests overlapped, were cut off and were
\* sent again.
QuiescentFrontier ==
  Quiet => \A s \in Steps :
             /\ table[s] # <<>>
             /\ \A t \in Steps : t > s => table[t] = <<>>
             => s = LastStep \/ First(s) = "In-Progress"

\* A request that nothing overlapped leaves the rows the atomic board
\* prescribes, even when it was cut off between two of its commits and run
\* again ("Idempotent", service.py:286), whatever duplicates it met.
LoneRequestMatchesBoard ==
  [][\A r \in Requests :
       pc[r] = "commit" /\ pc'[r] \in {"done", "failed"} /\ alone =>
         FirstRows' = Board!RowsAfterAdvance(snapshot, ended[r],
                        Board!NaturalNext(ended[r]), TRUE)]_vars

\* service.py:286 and :294, "transaction-safe" and "Auto-closes prior
\* SmartTasks": a request that nothing overlapped and that was not cut off
\* leaves no open task of a step it completed, which the board shows as
\* finished, whatever requests before it left. One cut off between two commits
\* and sent again has lost its auto_completed_steps.
EndedTasksClosed ==
  [][\A r \in Requests \ crashed :
       pc[r] = "commit" /\ pc'[r] = "done" /\ alone =>
         \A i \in DOMAIN tasks' :
           /\ tasks'[i].step <= ended[r]
           /\ snapshot[tasks'[i].step] # "Completed"
           => ~tasks'[i].open]_vars

\* Every request a server thread works on comes to its end, or is cut off.
RequestsEnd == \A r \in Requests : pc[r] \in Working ~> pc[r] \notin Working

=============================================================================
