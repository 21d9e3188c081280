# ImportFlow: a verification development

TLA+ models of ImportFlow, an ERP for import shipments (FastAPI and SQLAlchemy
services under `modules/`, a Flutter client under `frontend/`), the TLC runs
that check them, and theorems about them checked by TLAPS. File names below are
relative to the source tree.

## 1. The system

One *import file* is one shipment. About forty modules each keep records of it
(`model.py`), change them in services (`service.py`, `repository.py`), and
report finished work to a central engine, the *Lifecycle Operations Board*. A
request runs in a server thread with a database session of its own
(`database/database.py:73-77`: autoflush off, objects expire on commit). A
service commits as often as it likes, so one request is several transactions.
There is no lock, no queue and no background worker in the parts modelled here:
all concurrency is between requests at their commits, and all failure handling
is that callers catch an exception and carry on.

| Component | State | Operations | Hard behaviour | What makes it correct | Module |
|---|---|---|---|---|---|
| `lifecycle_board` | one row per file and step (25 ordered steps and the legacy STEP_08), the step configuration | advance, skip, activate several, pending reference, configure, initialise, seed, hold, resume | called by some twenty modules in any order, repeated, commit by commit, no unique constraint | a shipment never drops off the board; an advance settles what precedes it, is idempotent and does not undo finished work | `LifecycleBoard`, `LifecycleRequests` |
| `import_files` | status, current stage and module, progress, skipped stages | create, clone, update, close early, reopen, hold, resume | writes the same columns as the board with formulas of its own; two commits with a swallowed failure between | progress and pointer agree; skips stay on record | `LifecycleBoard` |
| `smart_tasks` | tasks | created and closed by every module, by words in their titles | one module's word matches another's task; codes counted, not drawn from a sequence | no open task of a finished step; no task closed whose work was not done | in every module that has tasks |
| `import_requirements` | one assessment of regulatory requirements per file | create, update, restore, each of which synchronises the board | writes board rows itself, also when the file is edited; swallowed failures | does not undo what the board recorded | `LifecycleBoard` |
| `docs_customs_approval`, `common/concurrency` | approvals with two tiers, overall status, version | two reviews, edit, delete, matrix check | two reviewers in any order, stale forms, compare and write in two round trips, rows written by other modules | cleared exactly when both approve; no review lost | `DocsApproval` |
| `financial_approval` (budgets), `recalculation` | budgets, revisions, variance log | create, clone, approve, edit, evaluate variance, sync, override, apply | two engines revise the same rows, codes by parsing, missing status guards | no second budget in force unnoticed, a superseded one frozen, no unresolved variance up for approval | `BudgetApproval` |
| `financial_approval` (payments) | payment requests, SWIFT batches | approve, execute, reconcile in three ways, clone, edit | four ways to pay, some from any status, repeated settlements | a payment names its transfer, closes its task, shows on the file, and is undone by nothing unnoticed | `PaymentRequests` |
| `freight_booking` (departure), `import_documentation` (draft B/L), `cargox` (envelopes), `original_documents_collection` | review sessions with versions and two approvals, envelopes, a collection | depart, review, approve, new version, seal, collect | four modules close each other's tasks; approvals outlive what they approved | a final review has both approvals; each module leaves a task for the next | `ShippingPapers` |
| `cargo_shipping` | one record per file: containers, two approvals, checklist, envelope stages | create, track, approve at two levels, checklist, advance | containers enter by four ways past one check; approvals withdrawn after use | no container used twice; dual approval is that of both | `CargoShipping` |
| `customs_clearance`, `warehouse_receiving` | clearance records, receipts, quarantine flags | nine stages, payment, release in two ways, laboratory, receipt, inspection | stages repeated, restored, out of order; flags copied between modules | a release is earned; quarantined goods are not accepted | `CustomsRelease` |
| `financial_settlement`, `demurrage_detention`, `file_closure` | settlements with expense lines, clearance invoices, the last tasks | calculate, charge from three modules, confirm, approve, export, close | three formulas for one total, repeated pushes, live costs written over the first line with a word | one line for each expense; work handed on | `Settlement` |
| `purchase_orders` | orders, shipped quantities | update with version, partial shipments | version comparison, balances | never ships more than ordered | - |
| `freight_*`, `inland_transport`, `shipment_updates`, `cargo_insurance`, `customs_*` look-ups | one record per stage | record, approve, advance the board | call the engine, and some write the file's stage fields too | order of stages | - |
| `notifications`, `system_observability`, `smart_email_listener` | notifications, cool-downs, mailbox cursor | scan, send | de-duplication | one alert per event | - |
| `container_loader`, `cbm_calculator`, `simulation`, quotations | results | geometry, scoring and cost arithmetic over floats | rounding | - | - |
| `auth`, `users`, `audit_logs`, master data, migrations, scripts | records, caches | CRUD | permission cache | - | - |

`PROJECT.json` lists every component with its status, and the hazards of the
code at the line where each bites.

## 2. The modules

### LifecycleBoard: one request at a time

`LifecycleBoard.tla` is the abstract specification of the board: each service
call is one step. Steps are numbered by their place in `ORDERED_STEP_CODES`;
code 0 is STEP_08, which validates but has no place in the order.

| Variable | Code |
|---|---|
| `rows` | `shipment_stage_activity.status` by step, "None" without a row; "Pending" is written by nothing and left out |
| `tasks` | the System Generated `smart_tasks` row titled after the step |
| `skipped`, `progress`, `pointer`, `status` | `import_files.skipped_stages`, `progress_percent`, the step named by `current_module`, `status` (the open ones as one) |
| `skippable`, `referable` | `step_configs`: a skip policy that is not "blocked", and `supports_pending_reference` |

`Advance` is the whole of `advance_lifecycle_step_service`: complete the step,
reconcile what precedes it, activate the targets unless completed, move the
pointer, raise the progress, close and create tasks. `Skip`, `SetActive`,
`RegisterPending`, `UpdateConfig` and `Seed` are the other board services;
`Hold`, `Resume`, `Close`, `Reopen` and `Update` are those of `import_files`.
`SyncRequirements` is what saving an import requirements assessment does:
`PendingFrom` calls the engine while a requirement is open, and `SettleFrom`
writes the rows of STEP_03 and STEP_04 without the engine when all are met.
`Update` does the same after its own writes, when the file has an ACID number
and an assessment; the model allows one assessment per file, as creation does. A
file starts as created (earlier steps pre-completed) or as cloned (no row, zero
progress). Roles, texts and dates are left out, and so are refusals, which
change nothing. `Skip` allows every caller, because the code checks the role
only when the request names one.

`ForwardOnly` says that who ends a step names at least one later step. It is
true of every call in the repository and of the client; with it FALSE the
endpoint's full input is allowed, and `FrontierOpen` claims nothing.

Progress is an integer here and a float rounded to one decimal in the code. No
other module writes board rows directly, but some (customs clearance,
documentation, warehouse, closure) write
`current_stage`, `current_module` and `progress_percent` after
their advance; those writes are not in the model, so `ProgressCoversPointer`
speaks of the services of the board, the file and the requirements only.

### LifecycleRequests: the advance, commit by commit

`LifecycleRequests.tla` takes the advance apart at its database round trips:
read an earlier step, complete or insert it and commit, and so on for each, then
the ended step, the target, and one last commit of file and tasks. A step's rows
are a *sequence*, oldest first, because nothing in the schema forbids a second
one; `.first()` returns the oldest, the query of active steps sees them all.
Up to `MaxInFlight` requests run at a time; up to `MaxCrashes` are cut off
between two commits, keep what they committed, lose their session and may be
sent again. Requests end an ordered step towards its natural successor with
reconciliation, the call every module makes.

The connection to the abstract board is checked: `BoardAtomic` is
`LifecycleBoard!Spec` under a mapping that shows the board as it was before the
running request until its last commit. It holds without overlap and cuts, and
`LifecycleRequests_proofs.tla` proves it for any size. The history variables
`snapshot` and `alone` serve that mapping.

### DocsApproval: the dual sign-off

`DocsApproval.tla` is one row of `customs_document_approvals`: the two tiers,
the overall status each review derives with its own rule, the version, and the
soft-delete flag. `form` is what each user has on screen. A request is two
steps, because the code is two round trips: `Load` reads the row, compares the
version when the request carries one and computes the new row; `Save` writes
the columns that changed and raises the version it had read. `Certify` and
`SaveCertified` are the same for the modules that certify a document by writing
the row themselves: the draft B/L and certificate of origin reviews, the
invoice and B/L match (whose packing list part derives no overall status), and
the receipt of the originals (which also finds deleted rows); these leave the
version alone. `MatrixStatus` is the verdict of the cross-document matrix on
the row. `StatusEdits` says whether a client sends statuses to the PUT
endpoint; the Flutter provider never does (it posts reviews), so the runs set
it FALSE, and the theorems that do not need it hold for both.

### BudgetApproval: two engines on one chain of budgets

`BudgetApproval.tla` is the table `import_budget_approvals` of one file under
the variance engine of `financial_approval` (`Evaluate`, `Sync`, `Override`) and
the engine of `recalculation` (`Apply`).

| Variable | Code |
|---|---|
| `budgets` | the rows, a budget's id being its place: status, active, linked to the file, code, revision and the budget it revises, one cost figure for four, the two variance flags, who modified it last |
| `prefill`, `fetched` | what each engine finds upstream: they convert and choose offers differently, so they change independently (`Upstream`) |
| `screens` | whether every client is the Flutter application, which sends some requests and values only; chosen at the start and constant |

`unresolved` stands for what approval asks of the variance log: is a line of
the hard-block kind still pending. `screens` bounds only which requests there
are and what they carry (no synchronisation, no restoration, no status in a
PUT). What the screens check before they send a request is no guard of the
model: they check the data they have loaded, and a list or a dialog stays open
while others change the rows. So `Approve` takes a budget of any status, and
`Update` links one to a file that has another. The properties that need the
client's choice of requests say `screens =>`; the others hold for every caller. `EditStatuses` are the
statuses another client than the screens may set by PUT.

### PaymentRequests: four ways to pay

`PaymentRequests.tla` has the requests of one file (`requests`), the SWIFT
batches read from bank messages (`batches`), the SWIFT number on the file
(`swiftNo`), and the tasks that ask for the ACID number (`acidTasks`).
`Execute`, `Settle`, `Reconcile` and `ReconcileBatch` pay, through the whole of
`_handle_swift_payment_completion_workflow` (`Complete`), whose advance of the
board may fail. A transfer is the batch it came from, or `Typed`. The details
dialog offers its buttons for the status the request had when it was opened, so
`Approve` has no guard on the status, as the service has none, and the screens'
`Execute` asks only that the request was approved at some time (`approved`).
`Moves` says
whether an edit may move a request to another file; with it TRUE the properties
about the file claim nothing.

### ShippingPapers: from the departure to the broker

`ShippingPapers.tla` composes four modules through the tasks they leave each
other: SH-02 (review the draft bill of lading), SH-03 (transfer by CargoX),
SH-04 (receive the originals), CS-01 (appoint a broker).

| Variable | Code |
|---|---|
| `reviews` | `draft_bl_review_sessions`: active, draft, discrepancies open, blocking mismatch, both approvals, status, code with its version suffixes |
| `envelopes` | `cargox_envelopes`: are the mandatory documents attached, has customs accepted it |
| `originals` | the status of the collection |
| `tasks` | how many open tasks of each title (the transfer adds one each time) |
| `past` | a review was completed, Form 4 was received, a CS-01 was ever created |

`Complete` is the workflow that three ways of certification share. The words by
which Form 4's receipt finds tasks are in SH-03 and CS-01 as well, and the model
closes what the words match. The application sends the role `broker`
(`draft_bl_review_tab.dart:2325`), which the service refuses: the broker's
answers in the model are those of other clients, and the screens approve with
`ApproveAlone`. A new version ends its code in a suffix, after which the code
generator starts again at one; the model keeps the resulting refusals.

### CargoShipping: containers and a dual approval

`CargoShipping.tla` has one variable, the shipping record of each file: its
containers with the day they were assigned, the decision of each level, the
dual status, the stored checklist and the envelope's stage. `Clash` is the rule
of `validate_container_reuse_conflict` for one pair. Containers come with a new
record, an update, the tracking of one container, or a deleted record that is
touched or restored; only the last is unchecked. The history field `revived`
marks a record that came back so, until its containers are compared again. A
POST or PUT may carry the envelope's stage and checklist; no client sends them,
and the model leaves that out.

### CustomsRelease: payment or laboratory

`CustomsRelease.tla` has the clearance records of one file, the receipts in the
warehouse, what the file says of the customs (`released`, `paid`, `expired`) and
the tasks of the stages in `Followed`. Each stage is one action on the first
active record, or on a new one. `Closes` is the effect of the keywords by which
a stage finds the tasks it closes; the duty payment's keyword is the word for
payment, which the task of the delivery order (CS-02) has in its title too.
`IssueRelease` takes the record the request names, while it is active
(`BaseOf`, `PutAs`). `WriteVerdict` is the PUT of a receipt, which writes the
verdict as it is sent, on locked goods as well; `byHand` (history) says that no
inspection has been made since.

### Settlement: the landed cost and the last tasks

`Settlement.tla` has the settlements of one file with their lines and totals as
*bags of charges* (`lines`, `total`), the clearance invoices, and TSK-0901 to
TSK-0904. A charge says what its line was made for and whose amount it bears. Sums of floats are abstracted to which charges were added, and how
often; that is what tells a charge lost, doubled or left out of the total.
`Create`, `Recalculate`, `Update`, `ApproveActual` are those of
`financial_settlement`; `RecordInvoice`, `DeleteInvoice` and their `Sync` those
of `customs_clearance`; `PushDemurrage` and `ReturnContainers` those of
`demurrage_detention`; `ExportDossier` and `Close` those of `file_closure`.
`ApplyUpstream` is the one of `recalculation`: it fetches the duty and the
broker's fees (`Fields`) and writes each into the first line whose category has
a word of the field in it (`Matches`), so that the line of a clearance invoice
or of the customs services may come to bear another amount (`Bearing`). An
entered duty and a live one may then both be charged, as in the code. Since a
PUT sends the lines in any order, the first that matches is any that matches.
Lines of freight, transport and storage are left out.

In all these modules each request is one step: what overlapping requests do to
each other is studied where the code has an answer to it (`LifecycleRequests`,
`DocsApproval`). What each leaves out is in its header.

## 3. The runs

| Run | Instance | Distinct states | Shows |
|---|---|---|---|
| `LifecycleBoard` | 3 steps and STEP_08, one target, the middle step configurable, two minimum percentages | 357 904 | `FrontierOpen`, `ProgressCoversPointer`, `AdvanceIdempotent`, `AdvanceSettlesPrior`, `CompletedStays` |
| `LifecycleRequests_serial` | 3 requests, one at a time | 1 388 | `BoardAtomic` (refinement), `NoTrappedStep` |
| `LifecycleRequests_overlap` | 3 requests, two at a time, one cut off | 781 345 | `QuiescentFrontier`, `LoneRequestMatchesBoard`, `EndedTasksClosed`, and under fairness `RequestsEnd` |
| `DocsApproval` | 2 users, one request at a time, 4 saves | 772 474 | `VerdictOfBoth`, `NoLostReview` |
| `BudgetApproval` | 2 users, one an administrator, 2 budgets, 2 figures whose difference exceeds the threshold | 3.0 million | `SecondByEditOnly`, `RevisionChain`, `PendingIsClean`, `FreshCodeOnScreens`, `SupersededFrozen` |
| `PaymentRequests` | 2 types, 2 requests, 1 batch | 1.4 million | `PaidIsSettled`, `PaymentsShown`, `UndoneByApprovalOnly` |
| `ShippingPapers` | 2 reviews, 1 envelope | 4.5 million | `FinalIsEarned`, `PapersHandedOn` |
| `CustomsRelease` | 2 records, 1 receipt, the duty's task followed | 3.6 million | `ReleaseIsEarned`, `BlockedGoodsNotAccepted`, `DutyTaskWaits` |
| `CargoShipping` | 2 files, 2 containers, 2 days further apart than the window | 1.7 million | `ContainerUsedOnce`, `DualApprovedByBoth`, `UploadWasReviewed` |
| `Settlement` | 1 settlement, 2 invoices | 753 920 | `OneLineEach`, `TasksHandedOn` |

Each also checks its module's `TypeOK` (`CargoTypeOK` in `CargoShipping`), but
for `LifecycleRequests_serial`, whose types the other run of that module checks.

Two runs are expected to find a violation; each refutes a sentence of the
repository's own documentation, quoted in `PROJECT.json`:

- `CustomsRelease_quarantine`: the release under bond is said to lock the goods
  strictly. After the duties were paid the goods can be withdrawn under bond and
  then released, which authorises their dispatch with the lock still set.
- `Settlement_total`: recording a clearance invoice is said to update the total
  of the settlement. It sets it to the sum over a field only clearance lines
  have, so that every other expense drops out until somebody recalculates.

**What the code does not keep.** Four sentences TLC refutes as well; they are
not runs of their own. The properties of the passing runs say what holds
beside each, naming the one step that is excepted:

- *A file has one budget in force.* `history/2026-08-15.md:954` says a second is
  refused when created or saved. A budget created for no file is linked by a PUT
  to a file that has one: the service looks at nothing
  (`financial_approval/repository.py:289`), the screen at the list it loaded when
  the file is picked (`financial_approval_screen.dart:357`). `SecondByEditOnly`:
  create, clone and revision put no second budget in force.
- *Paid is a terminal state* (`financial_approval/validators.py:72`). An approval
  from a dialog that was opened before the payment takes it back
  (`service.py:324`). `UndoneByApprovalOnly`: nothing else does, and the transfer
  stays on the request, so that file and batch still name it (`PaymentsShown`).
- *No container is reused within the window* (`cargo_shipping/validators.py:196`).
  A record is deleted, its container given to another file, and the record
  restored (`cargo_shipping_screen.dart:3832`), which compares nothing.
  `ContainerUsedOnce`: no two records whose containers were compared clash.
- *Recalculation bases the landed cost on the live costs*
  (`recalculation/service.py:720`). A clearance invoice's line has the words of the
  duty and of the fees: the duty is written over the invoice, the fees over the
  duty (`service.py:245`), and the duty is charged nowhere. `OneLineEach`:
  overwritten or not, no expense gets a second line.

**What TLC shows when a constant is changed.** These are not runs of their own,
but the assumptions of the properties are needed:

- `MaxInFlight = 2` in `LifecycleRequests_serial`: two advances insert two rows
  of the next step, the older is completed, the other stays In-Progress for ever
  (`NoTrappedStep`). `MaxCrashes = 1`: a retry finds the rows completed and
  leaves their tasks open, which no advance of the board does (`BoardAtomic`,
  and `EndedTasksClosed` if it did not except that request); `NoTrappedStep`
  still holds.
- `MaxInFlight = 2` in `DocsApproval`: two reviews compare the same version and
  both write. Certifications by other modules leave the version alone and are
  overwritten unseen even without overlap; `NoLostReview` excepts them by name.
- `"Pending Review" \in EditStatuses` in `BudgetApproval`: a PUT puts a budget
  with an unresolved variance up for approval (`PendingIsClean`).

**Observed while modelling**, with no sentence of the documentation against it:
an advance activates a skipped step it targets and completes one it ends; saving
a completed requirements assessment reopens STEP_04; synchronising a superseded
budget rewrites it in place (other clients than the screens only), and approving
has no guard on the status; separation of duties looks at the last modifier
only; the laboratory's way to the release looks neither at the ACID's expiry nor
at the duties, and the client posts the laboratory's result to an address the
service does not have (`under_bond_release_dialog.dart:142`); the tasks of the
clearance invoices are looked up by a column `smart_tasks` lacks, so the swallowed error
leaves them open; an approved settlement recalculates to zero; a review without
discrepancies becomes APPROVED with nobody's approval; a departure confirmed
again after the certification leaves an SH-02 open, and an envelope sealed
before it leaves an SH-03 open; every save of a collection closes SH-04 even if
nothing was received; a draft envelope without documents can never be sealed.

**Bounds.** The bounds are the smallest that let every action fire and every
case of a property happen.

- *Board*: three ordered steps give a first, a middle and a last one, each with
  its own rule; the middle one doubles as a STEP_08_* code, so that the legacy
  prefix matters, and is the step of the import requirements, so that they
  reopen the last. The theorems are for any length and any number of targets.
  `CallerMinimums` has no minimum and one between two steps' worth.
- *Requests*: three, two at a time, give a duplicate row and a later request
  that meets it. Two users and four saves let each reviewer answer twice.
- *Budgets*: two rows are a budget and its revision, clone or rival; the theorems
  are for any number. *Payments*: two requests are the duplicate check, the
  second settlement and the choice a batch has. *Papers*: two reviews are a
  review and its version, or a draft and a certified one; one envelope is sealed
  before or after; the theorems are for any number of both.
- *Clearance*: two records are one deleted and its successor, or one restored
  beside it; one receipt copies the lock. *Shipping*: two files compete for a
  container on two days inside and outside the window. *Settlement*: two
  invoices make a second synchronisation replace the first one's lines.

`MaxVersion`, `Requests`, `MaxCrashes` and the `Max...` of rows are the only
bounds that stop behaviours. `CustomsRelease`, `CargoShipping`, `Settlement` and
the board check deadlock; the other runs say `CHECK_DEADLOCK FALSE`, because
once the rows of the bound are used up and deleted, or all requests are made,
the model may stop.

**Fairness.** `FairSpec` of `LifecycleRequests` asks weak fairness of the steps
of each running request only: a server thread runs its request until it ends. No
fairness on new requests, cuts or retries: nobody is obliged to send a request
again. The other modules are driven by people, who owe the system nothing, and
state no liveness.

**Mutants.** Each property of a passing run has a mutant in `PROJECT.json`: a
variant of one definition, marked "Slip" in the module, that makes a plausible
mistake (a dropped guard, a swapped order, one tier's verdict taken for both)
and that TLC refutes with that property.

## 4. What is proved

`LifecycleBoard_proofs.tla`, for every length of the board, any number of
targets and any caller inputs that meet the module's assumptions:

- `TypeCorrect`: `Spec => []TypeOK`.
- `FileStaysOnBoard`: `[]FrontierOpen`. It is not inductive alone: a hold turns
  In-Progress into On-Hold and a resume turns it back, and the frontier moves.
  The argument follows the furthest recorded step: an advance or a skip ends a
  step but opens a later one, unless it is the last.
- `SkipsAreRecorded`, `ProgressCovers`: inductive together with the types.
- `FinishedWorkStays`: the action property `CompletedStays`. An advance turns
  rows into Completed or opens those that were not; what remains are a person's
  actions and `SettleFrom`, which the property names.
- `AdvanceTwiceIsOnce`: `[]AdvanceIdempotent`; the second advance finds every
  row it would complete completed and every task it would close closed.
- `AdvanceReconciles`: `[]AdvanceSettlesPrior`.

`LifecycleRequests_proofs.tla`, for any number of requests in any order, any
number of steps, and as many duplicate rows and tasks as come about. Four
invariants build on each other:

- `PlaceInv` says where a request stands: how its label, its cursor and the step
  it ends go together, and that a row it has loaded cannot have gone. With the
  types it is inductive under any overlap, cuts and retries. `RequestsTyped`:
  `[]TypeOK`.
- `Frontier`: while the furthest recorded step is not open, some request *owes*
  a later one (`Owes`): it ends that step or a later one and has not reached the
  file yet, or was cut off before. `FrontierSurvives`: `[]QuiescentFrontier`,
  with no assumption on overlap or cuts. The step to argue is a request that
  finds its next step completed and leaves: then the furthest step lies beyond,
  and is somebody else's. Another is a save whose status equals the one loaded,
  which leaves the row as another request has written it since.
- `LoneInv`: of a request that nothing overlaps, which first rows are settled
  (`Settled`), how those beyond relate to the snapshot (`LoneRows`), what it
  read that is still so (`LoneSeen`), and, unless it was cut off, that its
  `auto_completed_steps` are those the snapshot had open or missing
  (`LoneAuto`). `LoneMatchesBoard`: `LoneRequestMatchesBoard`, cut off or not.
  `LoneClosesTasks`: `EndedTasksClosed`, whatever the requests before left.
- `Serial`, where requests take turns: every start finds the board quiet, no step
  gets a second row, and the first rows are ordered (all before a recorded step
  are completed) whenever the board is quiet. `TurnsTrapNoStep`:
  `[]NoTrappedStep`, assuming `MaxInFlight = 1` but not that nothing is cut off.
- `TurnsImplementBoard`: `Spec => BoardAtomic`, assuming `MaxInFlight = 1` and
  `MaxCrashes = 0`. A new file maps to a created file of the board
  (`InitOnBoard`), every step but a last commit to a stutter (`BeforeCommit`),
  a last commit to `Advance` towards the natural successor with reconciliation
  and no minimum (`CommitAdvances`: rows by `BoardAdvance`, tasks by
  `TasksAdvance`, progress and pointer by `FileAdvance`); it is never refused for
  its task code (`NeverRefused`).

That the assumptions are needed TLC shows (section 3); each invariant was
checked by TLC on the runs' instances before it was proved.

`DocsApproval_proofs.tla`, for any number of users and saves:

- `DocumentTyped`: `[]TypeOK`, however many requests overlap.
- `ClearedOnlyByBoth`, `RejectionsShow`, both as `VerdictIsOfBoth`, and
  `SerialSavesSeeing`: the parts of `[]VerdictOfBoth`, and `NoLostReview`,
  assuming `MaxInFlight = 1`. The
  inductive invariant `SerialInv` adds what a request in flight knows (`InFlight`:
  it loaded what is stored, what it will write is in step with both tiers, and
  it carries a version only of what its user was shown) and what versions mean
  (`Forms`: a form of the current version shows the current row, or the row
  before another module certified it). That the assumption is needed TLC
  shows with `MaxInFlight = 2`.

The other proof modules have one shape: an inductive invariant over the rows,
lemmas that say once what appending a row and rewriting a row preserve, a lemma
for each action, and the theorems as consequences. All are for any number of
rows, and for callers other than the screens as far as the property speaks of
them.

- `BudgetApproval_proofs`: `BudgetInv` (types, the chain with its superseded
  parents, codes of each series rising) gives `BudgetTyped`, `RevisionsChain`,
  `CodesFresh`, `SupersededStays`, and `PendingClean` on the assumption that no
  PUT sets Pending Review. `RewriteTable` and `AppendTable` carry it through each
  action. `SecondBudgetByEdit` needs, besides, that a revision retires the budget
  it replaces, so that the number in force does not grow (`NoSecond`).
- `PaymentRequests_proofs`: `PaymentInv` relates requests, SWIFT number and
  batches; each step also keeps what was paid but for its status after a late
  approval (`PaidKept`, `TracesKept`), so that numbers and matches that point at
  a payment stay true. `PaymentsSettled`, `FileShowsPayment` and
  `BatchesMatchPayments` (together `PaymentsAreShown`),
  `PaymentsUndoneByApproval`.
- `CustomsRelease_proofs`: `ClearanceInv` in four parts (records, receipts, file,
  tasks). `ReleasesEarned`, `QuarantinedNotAccepted`, `DutyTaskClosedByPayment`.
- `Shipping_proofs`, about two modules. Of `ShippingPapers`: `PapersInv` splits
  into what each review satisfies (`ReviewsGood`) and what tasks, envelopes and
  originals satisfy together (`HandOver`). `FinalsEarned`, `FileHandedOn`. The
  second rests on each module creating the next task in the step that closes its
  own. Of `CargoShipping`: `RecordsInv` adds that a stored checklist that passed
  was executed on a reviewed record, since levels never return to Pending.
  `DualApprovalIsBoth`, `UploadsReviewed`, and `ContainersUsedOnce`; `PutUsedOnce`
  is the argument that a row checked against the others, or one that came back,
  may take its place among them, in both directions of the pair.
- `Settlement_proofs`: `RowsInv`, each bag of lines has one line at most for each
  expense, whether it bears its own amount or another. `NoSecondLine`,
  `WorkHandedOn`.

The assumptions on constants are the named ASSUMEs of the modules; TLC evaluates
them in the runs.

Every safety and action property of a passing run, and the refinement, is a
theorem. Only model-checked: `RequestsEnd`, since liveness under fairness is
beyond the prover, and the two refuted sentences.

## 5. Not modelled

- *Several documents of one file* in `docs_customs_approval`: the generated
  checklist, the choice of row in the matrix, tickets, the certification of a
  session; the two hazards they have are listed without a property.
- *`purchase_orders`*: its comparison of versions is that of `DocsApproval`, and
  the balance is arithmetic over item rows whose ids every update recreates.
- *Arithmetic over floats and dates*: tiered demurrage and free days, shares of
  the landed cost, freight scoring, cost simulation, packing in three
  dimensions. A model over small integers would not be the code's arithmetic.
- *Text*: reading documents, bank messages and e-mail, comparison of draft
  documents with the system, letters, spreadsheets. What they decide is an input
  of the models (are there discrepancies, is the batch complete).
- *Direct writes of the file's stage fields* by clearance, documentation and
  warehouse modules after their advance: they set texts and raise the progress,
  and `ProgressCoversPointer` speaks of the board's services only.
- *Overlapping requests* outside the board and the document approvals: the code
  has no protection there, and every property would be lost in the same way.
- *Records without a protocol of their own* (insurance, inland transport,
  shipment updates, quotations, master data), notifications, database copying,
  migrations, scripts, permissions and the audit log.

The modules above cover about a twelfth of the source lines, because most of the
source is what this list leaves out: screens, parsing, reports and the keeping
of records.
