# TLA+ verification of the receivables audit bot

The program is a Telegram bot. Employees upload Excel reports of overdue
receivables, one per department and report date. When every department has
delivered, the bot compares the week with the previous one, writes an Excel
workbook, sends it to a chat, has an LLM read the comments of the debtors and
sends an enriched workbook. Cycles that stay incomplete are reminded and expire.

Everything runs in one asyncio process on PostgreSQL (READ COMMITTED): Telegram
handlers and two polling schedulers share nothing but the database. Work is
handed over through rows with a status, a claim token and a retry time. The
models describe these rows, the transactions that change them and every point
at which a task awaits something and others may run.

## 1. Inventory

| Component | State | Operations | What is hard | What makes it correct |
|---|---|---|---|---|
| Audit cycles (`audit_service.py`) | `audit_cycles.status`, `source_files` (ACTIVE, SUPERSEDED, REVOKED) | add, replace, withdraw a file; complete; expire | transactions of several users on one cycle and on shared contents; a retry after a unique violation; requests made for a state that has passed | complete exactly when full; contents and departments unique; undo always possible; terminal cycles frozen |
| Report building (`report_service.py`, build half of `report_scheduler.py`) | `audit_reports` (PENDING, BUILDING, READY, FAILED), CORE artifacts, enrichment jobs | freeze previous cycle, recover, list, claim, build, complete, fail, enqueue job | a build without a timeout, expired claims, restarts, a commit whose answer is lost, dates that complete meanwhile | READY iff stored; the frozen previous cycle is used; reports and jobs eventually follow |
| Report delivery (`report_delivery_service.py`, delivery half of `report_scheduler.py`, `handlers/report.py`) | `report_deliveries` with status, claim, attempts and progress; the chat itself | backfill, recover, list, claim, load, send, record, complete, fail; `/report` | Telegram has no idempotency: at-least-once with recorded progress; a scheduler and `/report` handlers on one row | recorded progress is true; parts in order; no resend of what is recorded; every delivery settles |
| Idle reminders (`idle_policy.py`, `idle_reminder_service.py`, `idle_scheduler.py`) | reminder columns of `audit_cycles`, a backoff table in memory | decide, claim, re-check, send, record, release, expire | an upload between any two of these; a send that outlives its lease | reminders counted only when received and at the policy's pace; expiry only after all warnings |
| Comment enrichment (`comment_enrichment_service.py`, third part of `report_scheduler.py`, `openrouter_client.py`) | `comment_enrichment_jobs`, `comment_analyses`, ENRICHED artifacts | enqueue, recover, list, claim, analyse comment by comment, build, complete, fail, reopen | paid LLM calls between claim and completion; answers that differ from call to call; work outside the run timeout; jobs of two versions | recorded analyses are final and never contradicted; a workbook is complete and one per job; revisions in order |
| Upload dialogue (`handlers/upload.py`, keyboards, `create_dispatcher`) | FSM state and data per user, keyboards in the chat | send a document, choose and confirm a department, a new cycle, a replacement; undo, keep, cancel | old keyboards, messages and presses of one user at once, other users between any two queries | what is saved is what was chosen last; a pending upload is not overwritten; an undo restores |
| Identity upsert (`infrastructure/excel/persistence.py`) | `manager_groups`, `counterparties`, `debt_positions` | get-or-create within an upload | `ON CONFLICT DO NOTHING` waits for other transactions in the order of the file | one identity per name; a rolled-back one leaves nothing behind |
| Row classification, validation, reconciliation, match keys, comparison | none (pure) | | missing values, tolerances, ambiguous keys, separators in names | agree with what the sheets say |
| Comment and value parsing | none (pure) | | years of dates | not modelled (section 7) |
| Workbooks, settings, middlewares, `/start`, `/status`, migrations | none or static | | layout, I/O | mostly not modelled (section 7) |

How they interact: an upload (handler) opens a transaction of *audit cycles*,
which resets the *reminder* series of the cycle and, when it brings the last
department, completes the cycle and inserts the report of *report building*. A
tick of the report scheduler builds reports, then delivers CORE artifacts,
enriches, and delivers ENRICHED artifacts. *Building* and *enrichment* insert
the automatic *delivery* row in the transaction that stores the artifact.
`/report` inserts a manual row and delivers it itself, competing with the
scheduler for it. The idle scheduler only touches cycles that still collect.

The hazards are listed line by line in `PROJECT.json`, each with the properties
that would catch it.

## 2. Modules

| Module | Models |
|---|---|
| `AuditCycle` | the transactions of add, replace and withdraw, statement by statement |
| `CycleBook` | abstract: a file changes at once, a cycle closes as soon as it is full |
| `ReportBuild` | CORE reports from the completing upload to the stored artifact and its enrichment job |
| `ReportDelivery` | delivery rows, the scheduler's delivery tick and `/report` |
| `DeliveryPromise` | abstract: parts arrive in order, delivered means everything has arrived |
| `IdleReminders` | reminders and expiry of cycles that nobody touches |
| `CommentEnrichment` | enrichment jobs, analyses and ENRICHED artifacts of schedulers of two deployments |
| `UploadDialogue` | the dialogue of a user over the tables of `AuditCycle` (INSTANCE) |
| `SourceFile` | from a sheet to saved positions: hierarchy, reconciliation, identities under concurrent inserts, match keys |
| `CycleComparison` | the comparison of two cycles and the controls, over the files of `SourceFile` |
| `MC...` | instances for TLC |
| `..._proofs` | theorems about `ReportDelivery`, `AuditCycle`, `ReportBuild`, `IdleReminders`, `CommentEnrichment`, `UploadDialogue` and `CycleComparison` (with `SourceFile`) |
| `SetFacts` | least and greatest numbers, smallest sets, and sums over finite sets |

Conventions shared by the state machines. One action is one database
transaction, one answer of Telegram, one in-memory decision between two awaits,
or one failure. `pc` says what a task does next, `job` is its claim in memory,
`now` the `now_utc` of its tick (taken once per tick, hence often in the past),
`todo` the ids it has listed. A `uuid4` token is a number never used for the row
before; SQL NULL in a time column is `-1`. Operators called `Mutant: ...` in a
comment are plausible wrong versions of the definition below them; they are not
part of the specifications, but show that the properties can fail.

### AuditCycle

`cycle`, `report` and `file` are committed rows. `lock` holds the row lock of a
cycle (or its uncommitted insert); `txn` what a session asked for and has
written but not committed. `LockCycle` is `SELECT ... FOR UPDATE` followed by
`assert_cycle_mutable`, `CreateCycle` the insert of a missing cycle with its
single retry, `Check` the checks of the operation on committed rows, `Write` the
flush with the unique index on contents, `Finalize` `finalize_if_complete`,
`Commit` makes everything visible at once. A content that another session has
written and not committed makes an insert wait (`ShaContended`), as the index
does. `Abort` is a lost connection at any statement. `Expire` is the effect of
the idle scheduler. `base` of a file is the file it replaced, which the undo
button restores.

### ReportBuild

The completing upload is two steps, `Closing` (it reads the previous cycle and
writes the uncommitted report) and `Closed` (commit or rollback), because
cycles of other dates are not locked. A builder's tick is `StartTick`,
`RecoverMissing`, `RecoverStale` (twice, as in the code), `ListDue`, one build
after the other, `RecoverJobs`. A build is `ClaimNext`, `Read`, `Store`,
`Enqueue` or `Fail`. `RecoverJobsFails` is a tick that fails between two jobs. `Store` may commit and lose the answer, which sends the
builder to `Fail` with a READY report. Rows locked by another transaction are
skipped by `RecoverStale` (`MayBeLocked`).

### ReportDelivery

`copies` counts what the chat has received, the only variable no part of the
program can read. A tick has a core and an enriched half; each backfills, fails
expired claims, lists a batch and delivers it. `Load` reads the progress,
`SendOk`/`SendFails` are Telegram's answers (a failed or timed-out send may have
arrived), `RecordSummary` and `RecordDocument` are the fenced transactions after
each message, with an answer that may be lost, `BlockFails` the send timeout or
a database error within the send block, `Complete` and `Fail` its end. The time
from a claim to its first send is bounded only by `MaxLoadDelay`, so claims may
expire under a slow sender. `Restart` and `Fault` are the death of a task and a
database error that leaves the row CLAIMED; a scheduler whose list query fails
gives up its tick, which `Restart` covers. Message texts, the number of messages
beyond `NumParts`, and which artifact `/report` resolves to are abstracted.

### IdleReminders

`Peek` is the unlocked decision, `Claim`, `Recheck`, `Record`, `Release` and
`Expire` are the transactions that decide again. `Activity` is any committed
upload: it resets the series and takes the claim away. `backoff` is the
scheduler's memory and is lost by a restart. `chat` counts reminders received
since the last upload. A `retry_after` of Telegram longer than the configured
backoff is left out; the retry inside the deadline is part of `SendOk`.

### CommentEnrichment

A job is a report and a version, since `enrichment_input_hash` is a function of
the fixed snapshot and of the versions in the settings. `Settings` and
`Supported` give each worker its deployment, and `Keyed` says for which versions,
that is for which models, its settings hold a key. The third part of a tick is
`StartTick`, `Enqueue` (per READY report), `RecoverStale`, `ListDue`, and one
job after the other. A job is `ClaimNext`, `Load` (outside the run timeout),
then per comment `Record`, or `Answered` and `Record`, then `Build`, `Store` and
`Commit` (one transaction in two steps, because it holds locks while another
worker runs), or `Fail`. `Answered` chooses any answer in every call: the LLM is
not deterministic. `Record` that has lost its claim goes on, as the code does.
`RecordFails` and `RunFails` are the run timeout or a database error inside the
run, whose transaction may be committed all the same; `GiveUp` is an exception
that leaves `run_claimed_enrichment` and with it a CLAIMED row. `Stall` holds a
worker up where no timeout can interrupt it: loading, and the synchronous
writing of the workbook. `Reopen` is `retry_terminal_enrichment`. The HTTP
retries of the client are inside one call; `Clear` says which comments the
parser resolves.

### UploadDialogue

`fsm` is the state and data of `MemoryStorage`; `buttons` are the keyboards that
are still in the chat, with what the message above them shows; `task` is a
handler that waits for a query, with its local variables. A handler is a chain
of steps: `Document` and `Offer` (or `Reject`); `ChooseDepartment`; `Confirm`,
`LookUpCycle`, `CountCollecting`, `LookUpSlot`, `Add` or `Replace`; `Undo`,
`ConfirmUndo`, `Withdraw` or `Keep`. `Starts` is the event isolation of
`create_dispatcher`. Tokens are numbered within a dialogue and forgotten at
`Clear`, because no `uuid4` comes again. A token outlives "other department" and
the prompts of new cycle and replacement, so old keyboards of the same dialogue
stay valid where the state allows it. A keyboard shows the department its message
asks about, except the question of a new cycle, which names only dates. The transactions are single steps, which
`BookKept` of `AuditCycle` justifies; what they check and write is read from
`audit_service.py` again. `OthersSave` and `OthersWithdraw` are all other users.
Failing answers of Telegram after a commit clear the dialogue, as `Cancel` does.
The dialogues, too, implement `CycleBook` (`BookKept` of `UploadDialogue`, a
theorem): the single steps are changes that the transactions could have made.

### SourceFile and CycleComparison

`Reading` goes through the rows with `ReadRow` as the loop of `classify_rows`
does, and `Classify` is its end; the lines it collects are a set, since each
carries its row. A file whose `Valid` is false never reaches the database. An
upload is a transaction that goes through its groups, then its counterparties,
in the order of the file (`todo` are the rows that are left, `NextRow` the least):
`Insert` writes a row nobody else sees, `Reuse` takes a committed or own one,
and an upload whose name another transaction has inserted waits; `Deadlock`
aborts one of two that wait for each other. `Keys` is `build_match_key` on
sequences of words, in which the separators may occur as words of a name.
`Compare` loads both cycles and computes entities, controls, and the deltas of
the company and of every group. Blank cells are `Null`; amounts are hundredths,
so that the tolerance of 0.01 is 1. Only additions are uploads here;
replacement and withdrawal of files are the matter of `AuditCycle`.

## 3. Runs

| Run | Question | Instance |
|---|---|---|
| `CycleSafety` | Do interleaved uploads keep cycles, files and reports consistent, without standing still, and look atomic from outside? | 2 dates, 2 departments, 2 sessions, 3 contents, 3 files |
| `BuildSafety` | Do two builders, one of which may have lost its claim, keep reports truthful? | 3 dates with a gap (the first may predate the reports), 2 builders, 1 fault, 2 attempts, a claim and a horizon of one time unit |
| `BuildLiveness` | Is every completed cycle reported and every report given its job? | 2 dates, 1 builder, 2 faults, within 5 time units |
| `BuildFirstReport` | violation, see section 6 | 2 dates, 1 builder, no clock |
| `DeliverySafety` | Do a scheduler and `/report`, also with claims that expire under the sender, keep rows true of the chat? | 1 automatic and 1 manual row of 2 parts, 2 attempts, 1 fault, horizon 3 |
| `DeliveryLiveness` | Does every delivery settle? | 1 damaged automatic and 1 manual row, batch of one, 1 fault, within 7 time units |
| `ReminderSafety` | Are reminders counted, spaced and sent by one scheduler, and is nobody expired unwarned? | 1 cycle, 2 schedulers, 1 fault, horizon 5 |
| `ReminderLiveness` | Is a silent cycle over in time? | 1 cycle, 1 scheduler, 1 fault, within 8 time units |
| `EnrichmentSafety` | Do workers of two deployments keep analyses, workbooks and revisions consistent? | 1 report, 2 comments (one needs the LLM), 2 versions, an old worker without a key and a new one with it, 2 attempts, 1 fault, 1 reopening, horizon 4 |
| `UploadSafety` | Is what is saved the upload of the pressed keyboard under the department chosen last, and does an undo restore? | 1 user and all others, 2 dates, 2 departments, 3 contents, 3 rows |
| `UploadOldKeyboard` | violation, see section 6 | as UploadSafety |
| `ComparisonSafety` | Do keys, identities and sums agree with what the sheets say? | 1 department, 2 dates, 2 sessions, 3 transactions, 15 bodies of sheets with 4 totals each, 3 metrics |

### Why the bounds are enough

* Time is counted in units of the shortest timeout. The values keep the
  relations that the settings validate (`SendTimeout < ClaimTTL`), and horizons
  are long enough for a claim to be made, to expire, to be taken over and to be
  finished by both holders. Behaviour after the horizon is not explored
  (`Horizon` stutters).
* Two attempts are the smallest number with a retry and an exhausted row. Two
  parts are the smallest number with a summary and a document.
* In `DeliverySafety` `MaxLoadDelay = ClaimTTL`, so a claim can be lost before
  the first send and during it. The scheduler can take the handler's row. With
  two schedulers the same fences apply; the theorems cover any number of them.
* Two departments and two sessions give the race for the last department; two
  dates with common contents give the waiting between cycles; three file ids
  give a replaced file and its undo beside a second department's file. Three
  report dates are needed for a previous cycle that a later completion could
  replace.
  `Room` ends the exploration when no id is left.
* Faults are bounded because each may happen at every step; one or two already
  combine with every other interleaving.
* In `EnrichmentSafety` the claim lasts two units and the run timeout one, so a
  claim can expire in `Load`, in `Store`, and not in between; a stall of two
  units is the shortest that outlasts a claim. The batch holds one job of two.
* `UploadSafety` has one user with a dialogue because users share nothing but
  the tables, which `OthersSave`, `OthersWithdraw` and `Expire` change at every
  step. Three rows are a file, its replacement, and one more of either side.
* In `ComparisonSafety` the sheets are chosen, not enumerated: same names in
  another order, names equal only after normalisation, one name on two levels,
  repeated groups, counterparties and contracts, blank and zero cells, a
  separator in a name, totals off by one hundredth and by two, a counterparty that
  changes only in the third metric, which is neither the debt nor an overdue
  bucket and stands for `document_amount`, `advance` and `not_due`. One department
  suffices for the identities, since they are separate by department; a
  comparison of two departments needs four files and did not fit. Two sessions
  can wait for each other and three transactions allow one to be aborted and
  sent again. It may stop (`CHECK_DEADLOCK FALSE`) when the slots are filled and
  the reports are made.
* Symmetry is used for sessions, contents, departments, builders and idle
  schedulers, in safety runs only; workers of enrichment differ and are not
  permuted. Dates and ids are ordered and never permuted.

### Fairness

The liveness runs assume that the event loop runs every task that can go on
(`WF` of each task's next step) and that time passes while all of them sleep or
wait for Telegram (`UrgentTick`: transactions take no time). Users, uploads,
faults and failing sends get no fairness: they may happen at any time or never.
That a send ends is not assumed of Telegram: the send timeout forces it, because
`UrgentTick` cannot pass a deadline. The response times are stated in
the properties (`... within Span`), so that a run cannot satisfy them by running
out of clock.

## 4. Properties

* **AuditCycle.** `CompleteIffFull`: a cycle collects while a department is
  missing and not a moment longer, and its report exists exactly then; two
  sessions that bring the last two departments must not both miss it.
  `FilesUnique`: contents across all cycles, departments within one.
  `ReplacedCanBeRestored`: replaced files form a stack under an active one, so
  none keeps its content taken for ever. `Unblocked`: the row locks and index
  waits never block all open transactions (`NotAllWaiting`, by the guard `CanGo`),
  and `CanGo` is exactly when a transaction has a statement to execute. `TerminalFrozen`: completed and
  expired cycles, their files and reports never change. `BookKept`: refinement
  of `CycleBook`.
* **ReportBuild.** `ReadyIffStored`, `FrozenPreviousUsed`,
  `ReportFrozen`, `ClaimKept` (a claim ends by its builder or after its time to
  live), `ReportsSettle`, `JobsFollow`.
* **ReportDelivery.** `RecordedWasReceived`, `CopiesBoundedByAttempts` (each
  attempt sends a part at most once), `SendsUnderOwnClaim` (a claim is taken
  from a sender only if it began too late), `RecordedSummaryNotResent`,
  `ScheduledDocumentNotResent`, `PromiseKept` (refinement of `DeliveryPromise`),
  `DeliverySettles`.
* **IdleReminders.** `CountedWasReceived`, `SenderKeepsClaim`,
  `RemindersSpaced`, `ExpiredWasWarned`, `SilentCyclesEnd`.
* **CommentEnrichment.** `NoConflict`: `EnrichmentConflictError` is never raised,
  because every attempt looks first for what earlier ones have recorded and a
  holder's claim excludes any other. `WorkbookComplete`: a stored workbook shows
  the recorded analysis of every comment, although a run that has lost its claim
  goes on without recording. `RevisionsInOrder`: READY jobs and workbooks
  correspond one to one, and revisions of jobs of different versions are 1, 2,
  ... with one delivery. `WorkIsKept`: analyses are final, and a claim is taken
  away only after its time to live. `DueIsTried`: a batch is never used up by
  jobs that are not due.
* **UploadDialogue.** `UploadNotOverwritten`, `SavedAsChosen` (the content is
  that of the upload whose keyboard was pressed; the department is the one its
  user chose last, and some question of that upload has named it; what is replaced
  is the file that the pressed prompt named, and nothing is without a prompt; only
  for a replacement must the pressed keyboard name the department, section 6),
  `UndoRestores` (the department has the file it had before, and only
  the uploader can do it).
* **SourceFile, CycleComparison.** `PairedIffSameNames`: two positions are
  compared exactly if the sheets put the same names from the department down
  above them and neither repeats them; it relates the classification, the
  identities that concurrent uploads share, the keys and the comparison.
  `ReportAddsUp`: controls fail only in the one case of blanks below, and the
  changes of all counterparties sum up to the stated ones of their groups and of
  the company in every metric. Those that the sheet of changes lists do so for the
  debt and the overdue buckets (`Overdue`), which decide what it lists, and not
  for the other metrics.

## 5. Proofs

The theorems hold for every value of the constants that satisfies the module's
assumption (`DeliveryAssumption`, `CycleAssumption`, ...). These say no more than
what the settings validate, that sets the database holds are finite where a
count or a maximum is taken of them, that ids of different kinds differ, and
that bounds are numbers. `SourceAssumption` also says that departments are not
numbers: the identities of two tables, owned by a department and by a group's
id, are one set in the model; and that "nothing" is no amount, and a total is read
as cells or not at all.

A safety property here is seldom inductive as it stands. Each component module
ends with the strengthening that is; it was checked on the runs' instances
first, and the proof module shows that it holds initially, that every action
keeps it (one lemma per action or per group of actions that share their
effects), and that it implies the properties. Action properties are proved from
the same invariant, step by step. The last step of every temporal theorem is
temporal logic only.

| Theorem | Property | From |
|---|---|---|
| `TypeCorrect`, `RecordedReceived` | `TypeOK`, `RecordedWasReceived` (delivery) | `DeliveryInv` |
| `CopiesBounded`, `SenderLosesOnlyLateClaims`, `SummaryNotResent`, `DocumentNotResent` | `CopiesBoundedByAttempts`, `SendsUnderOwnClaim`, `RecordedSummaryNotResent`, `ScheduledDocumentNotResent` | `SendInv` |
| `DeliveryKeepsPromise` | `PromiseKept`, refinement of `DeliveryPromise` | `DeliveryInv` |
| `CycleTypeCorrect`, `CompleteExactlyWhenFull` | `TypeOK`, `CompleteIffFull` (cycles) | `CycleInv` |
| `ContentsAreUnique`, `UndoRestores`, `ClosedCyclesStayClosed` | `FilesUnique`, `ReplacedCanBeRestored`, `TerminalFrozen` | `FilesInv` |
| `NeverAllWaiting` | `NotAllWaiting`, the half of `Unblocked` without `ENABLED` | `CycleInv`, `WaitInv` |
| `TransactionsKeepTheBook` | `BookKept`, refinement of `CycleBook` | `FilesInv` |
| `BuildTypeCorrect`, `ReadyExactlyWhenStored`, `FrozenUsed`, `ReportStaysFrozen`, `ClaimIsKept` | `TypeOK`, `ReadyIffStored`, `FrozenPreviousUsed`, `ReportFrozen`, `ClaimKept` | `BuildInv` |
| `ReminderTypeCorrect`, `CountedReachedTheChat`, `ClaimOutlivesSend`, `RemindersKeepTheirDistance`, `ExpiryComesAfterWarnings` | `TypeOK`, `CountedWasReceived`, `SenderKeepsClaim`, `RemindersSpaced`, `ExpiredWasWarned` | `ReminderInv` |
| `EnrichmentTypeCorrect`, `NeverInConflict`, `WorkbooksAreComplete`, `RevisionsStayInOrder`, `WorkStaysKept`, `DueJobIsListed` | `TypeOK`, `NoConflict`, `WorkbookComplete`, `RevisionsInOrder`, `WorkIsKept`, `DueIsTried` | `EnrichmentInv` |
| `DialogueTypeCorrect`, `UploadsAreNotOverwritten`, `SavedAsLastChosen`, `UndoRestoresFile` | `TypeOK`, `UploadNotOverwritten`, `SavedAsChosen`, `UndoRestores` | `DialogueInv` |
| `DialoguesKeepTheBook` | refinement of `CycleBook` by the dialogue | `DialogueInv`, `CollectingInv` |
| `PairedExactlyByNames`, `ReportsAddUp` | `PairedIffSameNames`, `ReportAddsUp` | `ComparisonInv` |

**ReportDelivery_proofs.** `RecordedWasReceived` alone is not inductive: a record
says "received" because of what the *sender* knows. `DeliveryInv` adds
(`ClaimInv`) that no two actors hold the same claim of a row, since tokens are
fresh; (`ProgressInv`) that the holder of the current claim is at the first part
that is not recorded and that a part about to be recorded has been received;
(`ExistsInv`) that claimed rows exist. No assumption about time is needed: the
fence alone makes the progress true, also for senders that have lost their
claim. The refinement maps inserts to opened parcels, sends to arrivals after
all earlier parts (`ProgressInv`), and `Complete` to delivery. `SendInv` counts
the claims of a row that may still send a part (`OpenClaims`): every claim is an
attempt of its own, and the copies in the chat plus the open claims never exceed
the attempts (`CopiesInv`). `TimeInv` says that no send block outlives its
deadline, `DocumentInv` that what `Load` saw of the document stays true under
the claim. The proofs do not use `SendTimeout < ClaimTTL`: it is what makes the
exception of `SendsUnderOwnClaim` rare, not what makes the property true.

**AuditCycle_proofs.** A commit relies on counts made statements earlier.
`SessionInv` says that a session past its lock is the only one on its cycle,
that the cycle still collects, that what the session has checked of its
department still holds, and that at the commit `full` is what the count would be
now; `SlotInv` that a department has at most one active file and that a replaced
file belongs to the department of its successor. `CommitRows` is the heart: what
the slot of the transaction holds after its writes. `FilesInv` adds the contents
of *uncommitted* rows (`ContentInv`): a session that has written holds its
content against every committed file and every other session, which the unique
index ensures across cycles that no common lock protects. For the refinement
only `Commit`, the first insert of a cycle and `Expire` are visible; what was
checked before is still true at the commit because of `SessionInv`. That the
sessions never all wait needs the converse of `SessionInv` (`WaitInv`): a lock
belongs to a transaction that has got past it, and no rollback leaves one
behind. Then whoever has inserted waits for nobody; if nobody has, no content is
contended; and if nobody has a lock, none is taken. `WaitInv` also counts the
uploads against the free ids, which is the bound `Room` of the model, and says
that files have a cycle, so a replacement never looks for a missing one.

**ReportBuild_proofs.** `BuildInv` says that a report exists for completed cycles
only, so that nothing completed later changes what its previous cycle was, and
that a build about to be stored has used the frozen one. `ReadyIffStored` is
then inductive with the fence; a lost answer is harmless because `Fail` is
fenced by a status that `Store` has changed.

**IdleReminders_proofs.** `SeriesInv` bounds the age of a series by its number
of reminders, which gives the grace of `ExpiredWasWarned`; `HolderInv` says that
no two schedulers hold one claim; `OwnerInv` that the holder of the current
claim may still count a reminder, that the pause has passed, and that while it
sends it owns the claim or an upload came after it. Here
`SendTimeout < ClaimTTL` is needed: the deadline counts from the start of the
tick, the lease from the claim.

**CommentEnrichment_proofs.** `RunInv` says that a worker whose claim is current
has done exactly the comments that are recorded, that the workbook it is about
to store shows them, and that a worker inside `complete_enrichment` keeps the
rows it has locked; `ArtifactInv` that the revisions of a report are `1 .. n`.
The frame lemmas (`Undisturbed`, `RunFrame`) say what another worker must leave
alone. `NoConflict` follows because a claim excludes any other and every attempt
looks first for what is recorded. `DueJobIsListed` rests on the least element of
a set of ids.

**UploadDialogue_proofs.** `ButtonInv` says what a keyboard that stays in the
chat still shows when it is pressed: those of a token that is current show the
present content, and those of the later questions are there only while the
question is open. `UserInv` says that some question of its token has named the
department of a dialogue, which is all that `SavedAsChosen` needs of it, and whose file an undo is about; `TaskInv` that what a waiting handler
keeps is still what the FSM says; `AloneInv`, that a user has one handler, is
what `SimpleEventIsolation` ensures and everything else rests on.

**CycleComparison_proofs.** Four parts. The hierarchy: what `Reading` has built
after `i` rows is described by the rows *above* each line (`ReadOK`), from the
first row to the last. A recursive function is reasoned about with a least
counterexample (`SetFacts`), as the induction theorems of the library cannot
be used here; the same shows what `Keys` computes. The uploads: `IdentityInv`
says that no two rows of the identities have one name or one id, and `UploadInv`
that every row an upload has been through has an identity that is committed or
its own, so that a rollback or a deadlock of *another* upload takes nothing away;
`FileInv` follows at the commit (`Filed`: a counterparty under the identities of
its group and its name, a row below under its parent), and `ReportInv` because
no file is added to a completed cycle. The keys: `KeyApart` shows that a key can
be taken apart at its last mark when names hold none, `KeyIffPath`, by levels,
that two positions have one key exactly when their paths agree, and
`PairedByKey` that entities pair positions that are alone with their key.

The sums: `SetFacts` shows that the fold behind `MapThenSumSet` does not depend on
the order in which it takes the elements (`SumRemove`, by a smallest set on
which it would), and that a sum may be gathered by any function (`SumFibres`).
So every control within the database holds (`RollupsHold`): departments, groups
and counterparties only split the same sum, and `Near` compares equal numbers. What
is left are the controls of the files against their own totals, which are those
of the upload except for blanks (`TotalInv`: a file was saved with a total it
was reconciled with; `FailuresAre`). For the changes, `CounterpartiesPaired` says
that without repeated counterparties the entities of level 1 pair the two sides one
to one, within their groups: a key determines the group because a counterparty's
identity has one owner (`SameKey`). `PairsExplain` then sums up: each pair
contributes the difference of its sides, what the sheet of changes omits
contributes nothing to the debt and the overdue buckets (`UnlistedIsZero`), and
a pair blank on one side is excepted.

**Model-checked only.** The liveness properties `DeliverySettles`,
`ReportsSettle`, `JobsFollow` and `SilentCyclesEnd` need fairness and the
`ENABLED` in it, and the second half of `Unblocked`, that `CanGo` is the guard of a
statement, is about `ENABLED` itself: both are outside the prover's reach. The
two properties of section 6 are refuted, not proved. Everything else that a
run checks is a theorem.

## 6. Findings

* `UploadOldKeyboard`: `docs/ASSUMPTIONS.md:58` says that the user chooses one
  department and then confirms that choice. The buttons of the question carry only
  the token (`keyboards/confirm.py:11`), which "other department" keeps, and the
  handler saves `data["department"]` (`upload.py:285`). So: choose d1, which asks
  "assign to d1?"; press "other" and choose d2, which asks "assign to d2?"; press
  "confirm" under the first question. The file is saved under d2. The token
  keeps old buttons from acting on another file (`SavedAsChosen`), not from
  acting on another choice.
* `BuildFirstReport`: a report whose previous cycle is frozen as "none" is
  compared with an earlier date that completes before the build, because
  `compare_cycles` looks again when it is given none. Its `input_hash` still
  says that there was none. With a previous cycle frozen, the frozen one is used
  (`FrozenPreviousUsed`).

Observations that no run of their own shows, but that a reader should know. The
first contradicts a document, the others no text of the repository:

* `docs/IMPLEMENTATION_PLAN.md:384` says that a retry never calls
  `send_document` once `document_message_id` is recorded. The scheduler keeps to it
  (`ScheduledDocumentNotResent`), `handle_report` does not look
  (`handlers/report.py:157-176`): it creates a manual row, is held up, a scheduler
  claims the row, records the document and fails before completing; when the
  retry is due the handler claims the row and sends the document again. The
  second record is then refused. The property therefore speaks of schedulers only:
  with `Actor` for `Worker`, TLC finds this trace on the instance of
  `DeliverySafety`.
* A file whose column is blank while its total is a printed 0 (or the reverse)
  is accepted, because `reconcile` takes blanks as zeros, and reported as a failed
  control, because `_near` does not (`ReportAddsUp` states the case).
* A debt that is blank on one side has no known change: `change_class` calls it
  unchanged and the sheet of changes omits it, while the totals contain it. A
  counterparty of which only `document_amount`, `advance` or `not_due` has changed
  is not on that sheet either (`report_workbook.py:843`).
* Two valid uploads that name the same new groups or counterparties in another
  order can deadlock; PostgreSQL aborts one, and its user sends the file again.
  `persistence.py:9-12` promises only that none falls over a unique constraint.
* A run that has lost its claim still asks the LLM about the comments that are
  left.
* A name that contains a separator (`|2:` ... `|4:`) can make two positions
  below a counterparty share a key.

## 7. Not modelled, and why

* Layout and formatting of workbooks, message texts, percentages, the bucket
  transition of documents and other figures that nothing else depends on.
* The comment parser and the parsing of cells, headers and dates: regular
  expressions over strings. `Clear`, `template` and `BadCell` stand for their
  outcomes. The year rule of the comment parser stays a hazard without property.
* HTTP retries within one LLM call, redaction of texts.
* Middlewares, `/start`, `/status`, process setup except the event isolation,
  migrations: stateless, read-only or run offline.
* Cell and file formats of Excel: library behaviour.
* The order of CORE and ENRICHED deliveries of one batch
  (`report_scheduler.py:190`): it needs several rows of either kind.
* `recover_missing_reports` (`report_service.py:154-173`) is the single step
  `RecoverMissing`. Its statements each see what is committed when they run, so a
  cycle completed between two of them may or may not count, and two schedulers may
  meet at `uq_audit_report_cycle`, where the later one's tick ends as with a
  `Restart`. Each report is frozen as the step would freeze it at some moment of the
  transaction, though not all at the same moment.
* A least distance between delivery attempts (`report_scheduler.py:409`), which
  nothing promises, and the upload that PostgreSQL aborts in a deadlock of
  identities (`persistence.py:44`): hazards without a property.
* A liveness run for enrichment: its ticks are those of building and delivery,
  whose liveness is checked; the recovery of an expired claim is in the safety
  run only.

## 8. Plan

Done: cycles, building, delivery, reminders, enrichment, the upload dialogue,
identities and comparison; two abstract specifications, with three modules shown
to implement one; every safety invariant and action property of the runs proved,
except for `ENABLED` (section 5).

Open, should the code move that way: a run with several artifacts of both kinds
for the order of a batch (section 7), the bucket transition of documents, and
liveness of enrichment. Bounds will stay at two actors per kind, as above.
