---------------------------- MODULE CargoShipping ----------------------------
(***************************************************************************)
(* The loading and shipping records of several import files                *)
(* (modules/cargo_shipping): the containers with their seals, the approval *)
(* at two levels, and the stages of the CargoX envelope.                   *)
(*                                                                         *)
(* A file has at most one record.  A container and its seal are one box; a *)
(* load is a box and the day it was assigned, if that is known.  The       *)
(* milestones after the assignment, the readiness date, the status text    *)
(* and the courier's data are left out; so is a POST or PUT that carries   *)
(* the envelope's stage and its checklist, which no client sends.  Each    *)
(* request is one step.                                                    *)
(***************************************************************************)
EXTENDS Integers, FiniteSets

CONSTANTS
  Files,    \* import files
  Boxes,    \* containers, each with the seal it carries
  Days,     \* days of assignment
  Window,   \* days within which a box must not be used again
  MaxLoads  \* bound: containers of one record

ASSUME DaysAssumption == Days \subseteq Nat \ {0} /\ Window \in Nat
ASSUME LoadsAssumption == MaxLoads \in Nat

Unknown == 0

VARIABLE records  \* cargo_shipping_records, by file

cargoVars == <<records>>

Load == [box : Boxes, day : Days \cup {Unknown}]

Decision == {"Pending", "Approved", "Rejected"}

\* checklist: the stored rules of the last execution all passed; revived
\* (history): the record has come back from its deletion with containers
\* nobody compared again.
Record == [exists : BOOLEAN, active : BOOLEAN, loads : SUBSET Load,
           level1 : Decision, level2 : Decision,
           dual : {"Pending", "In Progress", "Dual Approved", "Rejected"},
           checklist : BOOLEAN, revived : BOOLEAN,
           envelope : {"Created", "Invited", "Checklist Passed",
                       "Ready for Upload", "Uploaded", "Completed"}]

CargoTypeOK == records \in [Files -> Record]

Absent == [exists |-> FALSE, active |-> FALSE, loads |-> {},
           level1 |-> "Pending", level2 |-> "Pending", dual |-> "Pending",
           checklist |-> FALSE, revived |-> FALSE, envelope |-> "Created"]

CargoInit == records = [f \in Files |-> Absent]

-----------------------------------------------------------------------------
(* Containers                                                              *)

Apart(a, b) == IF a > b THEN a - b ELSE b - a

\* The same box twice within the window; without a day there is no conflict.
Clash(l, m) == /\ l.box = m.box
               /\ l.day # Unknown /\ m.day # Unknown
               /\ Apart(l.day, m.day) <= Window

\* validate_container_reuse_conflict: active records of other files.
Reused(f, loads) ==
  \E g \in Files \ {f} :
    /\ records[g].active
    /\ \E l \in loads, m \in records[g].loads : Clash(l, m)

Put(f, r) == records' = [records EXCEPT ![f] = r]

CreateRecord(f, loads) ==
  /\ ~records[f].exists
  /\ Cardinality(loads) <= MaxLoads
  /\ ~Reused(f, loads)
  /\ Put(f, [Absent EXCEPT !.exists = TRUE, !.active = TRUE, !.loads = loads])

\* PUT, and a POST with auto_upsert for a file that has a record: the
\* containers are replaced, the approvals stay, a deleted record returns.
UpdateContainers(f, loads) ==
  /\ records[f].exists
  /\ Cardinality(loads) <= MaxLoads
  /\ ~Reused(f, loads)
  /\ Put(f, [records[f] EXCEPT !.active = TRUE, !.loads = loads,
                               !.revived = FALSE])

\* A change that does not mention the containers, and the restoration, make
\* a deleted record active as it is.
Revived(f) == records[f].revived \/ ~records[f].active

Touch(f) ==
  /\ records[f].exists
  /\ Put(f, [records[f] EXCEPT !.active = TRUE, !.revived = Revived(f)])

\* Slip: the new seal is not compared.
TrackUnchecked(f, load, new) ==
  /\ records[f].exists
  /\ load \in records[f].loads
  /\ Put(f, [records[f] EXCEPT !.active = TRUE, !.revived = Revived(f),
                               !.loads = (@ \ {load}) \cup {new}])

\* Tracking of one container: its seal or its day may change, and it alone
\* is compared with the other records.
Track(f, load, new) ==
  /\ records[f].exists
  /\ load \in records[f].loads
  /\ ~Reused(f, {new})
  /\ Put(f, [records[f] EXCEPT !.active = TRUE, !.revived = Revived(f),
                               !.loads = (@ \ {load}) \cup {new}])

DeleteRecord(f) ==
  /\ records[f].active
  /\ Put(f, [records[f] EXCEPT !.active = FALSE])

-----------------------------------------------------------------------------
(* Approvals                                                               *)

Level1InProgress(f, approved) ==  \* Slip: the other level is not read.
  /\ records[f].active
  /\ Put(f, [records[f] EXCEPT
               !.level1 = IF approved THEN "Approved" ELSE "Rejected",
               !.dual = IF approved THEN "In Progress" ELSE "Rejected"])

Level1Alone(f, approved) ==  \* Slip: a status of the level, not of both.
  /\ records[f].active
  /\ Put(f, [records[f] EXCEPT !.level1 = "Approved", !.dual = "Approved"])

Level1(f, approved) ==
  /\ records[f].active
  /\ IF approved
     THEN Put(f, [records[f] EXCEPT !.level1 = "Approved",
                    !.dual = IF records[f].level2 = "Approved"
                             THEN "Dual Approved" ELSE "In Progress"])
     ELSE Put(f, [records[f] EXCEPT !.level1 = "Rejected",
                                    !.dual = "Rejected"])

Level2(f, approved) ==
  /\ records[f].active
  /\ approved => records[f].level1 = "Approved"
  /\ IF approved
     THEN Put(f, [records[f] EXCEPT !.level2 = "Approved",
                                    !.dual = "Dual Approved"])
     ELSE Put(f, [records[f] EXCEPT !.level2 = "Rejected",
                                    !.dual = "Rejected"])

-----------------------------------------------------------------------------
(* The CargoX envelope                                                     *)

\* Slip: the rule on the approvals always passes as well.
PassedUnreviewed(r) == r.loads # {}

\* The two rules that look at something; the others always pass.
Passed(r) == r.loads # {} /\ r.dual = "Dual Approved"

ExecuteChecklist(f) ==
  /\ records[f].active
  /\ Put(f, [records[f] EXCEPT
               !.checklist = Passed(records[f]),
               !.envelope = IF Passed(records[f])
                            THEN "Checklist Passed" ELSE "Invited"])

\* The checklist as it was stored decides; completion asks for nothing.
AdvanceStage(f, stage) ==
  /\ records[f].active
  /\ stage \in {"Ready for Upload", "Uploaded"} => records[f].checklist
  /\ Put(f, [records[f] EXCEPT !.envelope = stage])

CargoNext ==
  \/ \E f \in Files, s \in SUBSET Load :
       CreateRecord(f, s) \/ UpdateContainers(f, s)
  \/ \E f \in Files : Touch(f) \/ DeleteRecord(f) \/ ExecuteChecklist(f)
  \/ \E f \in Files, l \in Load, n \in Load : Track(f, l, n)
  \/ \E f \in Files, a \in BOOLEAN : Level1(f, a) \/ Level2(f, a)
  \/ \E f \in Files, s \in {"Ready for Upload", "Uploaded", "Completed"} :
       AdvanceStage(f, s)

CargoSpec == CargoInit /\ [][CargoNext]_cargoVars

-----------------------------------------------------------------------------
(* Properties                                                              *)

(* No container travels with the same seal on two active records within    *)
(* the window, whichever way the containers got there, unless one of the   *)
(* records has come back from its deletion.                                *)
ContainerUsedOnce ==
  \A f, g \in Files :
    /\ f # g /\ records[f].active /\ records[g].active
    /\ ~records[f].revived /\ ~records[g].revived
    => \A l \in records[f].loads, m \in records[g].loads : ~Clash(l, m)

(* The record shows a dual approval exactly when both levels approve,      *)
(* whatever order they decide in and however often they change their minds.*)
DualApprovedByBoth ==
  \A f \in Files : records[f].dual = "Dual Approved" <=>
    records[f].level1 = "Approved" /\ records[f].level2 = "Approved"

(* An envelope on its way to the upload was reviewed at both levels, also  *)
(* when an approval has been withdrawn or the containers changed since.    *)
UploadWasReviewed ==
  \A f \in Files :
    records[f].envelope \in {"Checklist Passed", "Ready for Upload", "Uploaded"}
      => records[f].level1 # "Pending" /\ records[f].level2 # "Pending"
=============================================================================
