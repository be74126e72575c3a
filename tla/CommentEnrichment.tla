------------------------- MODULE CommentEnrichment --------------------------
(***************************************************************************)
(* The enrichment of a READY report: the tables comment_enrichment_jobs    *)
(* and comment_analyses, the ENRICHED artifacts, and the third part of the *)
(* ReportScheduler tick.                                                   *)
(*                                                                         *)
(* A job belongs to a report and to the versions of the settings it was    *)
(* made under.  A worker (a scheduler) claims it, goes through its         *)
(* comments one by one - parsed, or sent to the LLM - and commits each     *)
(* result in a transaction of its own, then writes the workbook and        *)
(* completes the job.  All of it happens under one run timeout that begins *)
(* after the job has been loaded.  Processes of an old and a new           *)
(* deployment may run side by side.                                        *)
(***************************************************************************)
EXTENDS Integers, FiniteSetsExt

CONSTANTS
  Report,       \* reports, by id
  Version,      \* versions of parser, prompt, schema, redaction and model
  Comment,      \* positions that may have a comment, by row order
  Commented,    \* the positions with a comment, of each report
  Clear,        \* comments that the parser resolves
  Answer,       \* facts that the LLM may find in a comment
  Worker,       \* report schedulers: one per bot process
  Settings,     \* the version in the settings of each worker
  Supported,    \* the versions that the binary of each worker can execute
  Keyed,        \* <<w, v>>: worker w has a key for the LLM and version v names a model
  ClaimTTL,     \* comment_enrichment_claim_ttl_seconds
  RunTimeout,   \* comment_enrichment_run_timeout_seconds
  Backoff,      \* comment_enrichment_backoff_seconds
  MaxAttempts,  \* comment_enrichment_max_attempts
  Batch,        \* comment_enrichment_batch_size
  Poll,         \* report_scheduler_poll_seconds
  MaxStall,     \* bound: how long a worker is held up outside of any timeout
  MaxFaults,    \* bound: restarts, stalls, database errors, lost answers
  MaxReopen,    \* bound: how often the operator reopens failed jobs
  MaxTime       \* bound: the horizon of the clock

\* Settings validates its values one by one ...
PositiveSettings ==
  /\ ClaimTTL \in Nat \ {0} /\ RunTimeout \in Nat \ {0} /\ Backoff \in Nat \ {0}
  /\ Batch \in Nat \ {0} /\ Poll \in Nat \ {0} /\ MaxAttempts \in Nat \ {0}

\* ... and the relation of the timeouts.
TimeoutsInOrder == RunTimeout < ClaimTTL

ASSUME EnrichmentAssumption ==
  /\ Report \subseteq Nat /\ Comment \subseteq Nat \ {0}
  /\ IsFiniteSet(Report) /\ IsFiniteSet(Comment) /\ IsFiniteSet(Version)
  /\ Commented \in [Report -> SUBSET Comment] /\ Clear \subseteq Comment
  /\ Settings \in [Worker -> Version] /\ Supported \in [Worker -> SUBSET Version]
  /\ Keyed \subseteq Worker \X Version
  /\ PositiveSettings /\ TimeoutsInOrder
  /\ MaxTime \in Nat /\ MaxStall \in Nat /\ MaxFaults \in Nat /\ MaxReopen \in Nat
  /\ Answer \cap {"parsed", "nokey", "refused", "unread"} = {}

NoTime == -1     \* SQL NULL in a timestamp column
Job == Report \X Version     \* uq_comment_enrichment_job_report_hash
ReportOf(j) == j[1]
VersionOf(j) == j[2]

\* DETERMINISTIC and RESOLVED; UNPARSED and NEEDS_REVIEW, for want of a key or of
\* a valid answer; LLM and RESOLVED.
Result == {"parsed", "nokey", "refused"} \cup Answer

VARIABLES
  clock,      \* the time of the database and of every process
  ready,      \* reports that are READY, their CORE artifact stored
  rowId,      \* comment_enrichment_jobs.id, 0 while the row does not exist
  status, claims, claimedAt, attempts, nextRetry,   \* comment_enrichment_jobs
  analysis,   \* comment_analyses: the result of each comment of each job
  artifacts,  \* ENRICHED artifacts
  queued,     \* ENRICHED artifacts with an automatic delivery
  reopened,   \* how often the operator has reopened a job (for the bound)
  pc, job,    \* what each worker does, and its claim
  now,        \* now_utc of a worker's tick; while idle, when its next tick starts
  reports, todo,  \* reports, jobs that a worker has listed and not yet come to
  stall,      \* until when a worker may be held up
  faults      \* faults so far (for the bound)

claimVars == <<claims, claimedAt, attempts>>
jobVars == <<rowId, status, claimVars, nextRetry, reopened>>
resultVars == <<analysis, artifacts, queued>>
tickVars == <<now, reports, todo>>
workerVars == <<pc, job, tickVars, stall>>
vars == <<clock, ready, jobVars, resultVars, workerVars, faults>>

Status == {"ABSENT", "PENDING", "CLAIMED", "READY", "FAILED", "SKIPPED"}
PC == {"idle", "enqueue", "stale", "list", "next",
       "load", "ask", "record", "build", "store", "commit", "fail"}

\* A claim in memory: the job, its token, the end of the run, the comments
\* taken as done, the comment at hand with its result, the analyses that the
\* workbook shows and the revision of its artifact.
Unread == [c \in Comment |-> "unread"]
NoClaim == [tok |-> 0]
Claim == [id: Job, tok: Nat, deadline: Nat, done: SUBSET Comment, comment: Comment \cup {0},
          result: Result \cup {"unread"}, content: [Comment -> Result \cup {"unread"}],
          revision: Nat]
Artifact == [id: Job, revision: Nat, content: [Comment -> Result \cup {"unread"}]]

JobTypeOK ==
  /\ rowId \in [Job -> Nat]
  /\ status \in [Job -> Status]
  /\ claims \in [Job -> Nat] /\ attempts \in [Job -> 0 .. MaxAttempts]
  /\ claimedAt \in [Job -> Int] /\ nextRetry \in [Job -> Int]
  /\ analysis \in [Job -> [Comment -> Result \cup {"unread"}]]
  /\ artifacts \subseteq Artifact /\ queued \subseteq Artifact

\* A job has an id once it exists; claimed_at is set while it is CLAIMED, and
\* next_retry_at only while it waits for a retry (ck_comment_enrichment_job_claim_fields).
TypeOK ==
  /\ JobTypeOK
  /\ clock \in Nat /\ faults \in Nat /\ reopened \in Nat /\ ready \subseteq Report
  /\ pc \in [Worker -> PC] /\ job \in [Worker -> Claim \cup {NoClaim}]
  /\ now \in [Worker -> Nat] /\ stall \in [Worker -> Nat]
  /\ reports \in [Worker -> SUBSET Report] /\ todo \in [Worker -> SUBSET Job]
  /\ \A j \in Job :
       /\ status[j] = "ABSENT" <=> rowId[j] = 0
       /\ status[j] = "CLAIMED" <=> claimedAt[j] # NoTime
       /\ nextRetry[j] # NoTime => status[j] = "FAILED" /\ attempts[j] < MaxAttempts

Init ==
  /\ clock = 0 /\ faults = 0 /\ reopened = 0 /\ ready = {}
  /\ rowId = [j \in Job |-> 0] /\ status = [j \in Job |-> "ABSENT"]
  /\ claims = [j \in Job |-> 0] /\ attempts = [j \in Job |-> 0]
  /\ claimedAt = [j \in Job |-> NoTime] /\ nextRetry = [j \in Job |-> NoTime]
  /\ analysis = [j \in Job |-> Unread] /\ artifacts = {} /\ queued = {}
  /\ pc = [w \in Worker |-> "idle"] /\ job = [w \in Worker |-> NoClaim]
  /\ now = [w \in Worker |-> 0] /\ todo = [w \in Worker |-> {}]
  /\ reports = [w \in Worker |-> {}]
  /\ stall = [w \in Worker |-> 0]

-----------------------------------------------------------------------------
(* Rows *)

Exhausted(j) == attempts[j] >= MaxAttempts

\* Mutant: any claim of the job will do.
ClaimedByAnyone(w) == status[job[w].id] = "CLAIMED"

\* _is_fenced: a token is fresh for each claim and NULL while nobody holds it,
\* so it is the number of the claim as long as the job is CLAIMED.
Fenced(w) == status[job[w].id] = "CLAIMED" /\ claims[job[w].id] = job[w].tok

\* The row locks of complete_enrichment, held until it commits.
Locked(j) == \E w \in Worker : pc[w] = "commit" /\ job[w].id = j

\* Mutant: complete_enrichment does not lock the row of the report.
NotLocked(r) == FALSE

ReportLocked(r) == \E w \in Worker : pc[w] = "commit" /\ ReportOf(job[w].id) = r

\* list_due_enrichment_job_ids
Due(j, t) ==
  \/ status[j] = "PENDING"
  \/ status[j] = "FAILED" /\ ~Exhausted(j) /\ nextRetry[j] <= t

\* claim_enrichment_job looks again, and lets an exhausted job with a retry time pass.
Claimable(j, t) ==
  \/ status[j] = "PENDING"
  \/ /\ status[j] = "FAILED" /\ nextRetry[j] <= t
     /\ ~(Exhausted(j) /\ nextRetry[j] = NoTime)

\* Mutant: the budget of attempts is not looked at.
AlwaysRetry(j, t) == t + Backoff * attempts[j]

\* What fail_enrichment and recover_stale_claimed_enrichment_jobs write.
RetryAt(j, t) == IF Exhausted(j) THEN NoTime ELSE t + Backoff * attempts[j]

-----------------------------------------------------------------------------
(* Environment: stored reports, the operator, time, restarts *)

\* complete_report_build of ReportBuild commits.  The enqueue_enrichment_job that
\* follows it is the same transaction as Enqueue, of the same process.
CoreReady(r) ==
  /\ r \notin ready
  /\ ready' = ready \cup {r}
  /\ UNCHANGED <<clock, jobVars, resultVars, workerVars, faults>>

\* retry_terminal_enrichment: a fresh budget of attempts, the same analyses.
Reopen(j) ==
  /\ reopened < MaxReopen /\ ~Locked(j)
  /\ status[j] = "FAILED" /\ nextRetry[j] = NoTime
  /\ \A a \in artifacts : a.id # j
  /\ status' = [status EXCEPT ![j] = "PENDING"]
  /\ attempts' = [attempts EXCEPT ![j] = 0]
  /\ reopened' = reopened + 1
  /\ UNCHANGED <<clock, ready, rowId, claims, claimedAt, nextRetry, resultVars, workerVars, faults>>

\* A worker sleeps, waits for the LLM within the run timeout, or is held up.
Waiting(w) ==
  \/ pc[w] = "idle" /\ clock < now[w]
  \/ pc[w] = "ask" /\ clock < job[w].deadline
  \/ clock < stall[w]

Tick ==
  /\ clock < MaxTime /\ \A w \in Worker : Waiting(w)
  /\ clock' = clock + 1
  /\ UNCHANGED <<ready, jobVars, resultVars, workerVars, faults>>

\* What happens after the horizon is not explored.
Horizon == clock = MaxTime /\ UNCHANGED vars

\* The run timeout covers neither the loading of the job nor, since it blocks the
\* event loop, the writing of the workbook: either may outlast the claim.
Stall(w) ==
  /\ faults < MaxFaults /\ pc[w] \in {"load", "store"}
  /\ faults' = faults + 1
  /\ stall' = [stall EXCEPT ![w] = clock + MaxStall]
  /\ UNCHANGED <<clock, ready, jobVars, resultVars, pc, job, tickVars>>

Awake(w) == clock >= stall[w]

Go(w, to) == pc' = [pc EXCEPT ![w] = to]

\* The process dies, or stop() cancels the task: CancelledError is no Exception,
\* so nothing is written.  The scheduler starts anew.
Restart(w) ==
  /\ faults < MaxFaults /\ pc[w] # "idle"
  /\ faults' = faults + 1
  /\ Go(w, "idle")
  /\ job' = [job EXCEPT ![w] = NoClaim]
  /\ now' = [now EXCEPT ![w] = clock]
  /\ todo' = [todo EXCEPT ![w] = {}] /\ reports' = [reports EXCEPT ![w] = {}]
  /\ stall' = [stall EXCEPT ![w] = 0]
  /\ UNCHANGED <<clock, ready, jobVars, resultVars>>

-----------------------------------------------------------------------------
(* The third part of a tick: run_once *)

\* run_once fixes now_utc and comes to the list of recover_missing_enrichment_jobs.
StartTick(w) ==
  /\ pc[w] = "idle" /\ clock >= now[w]
  /\ now' = [now EXCEPT ![w] = clock]
  /\ reports' = [reports EXCEPT ![w] = ready]
  /\ Go(w, "enqueue")
  /\ UNCHANGED <<clock, ready, jobVars, resultVars, job, todo, stall, faults>>

\* enqueue_enrichment_job: idempotent for a report and a version.  A report
\* without comments gets a job that is SKIPPED.
Enqueue(w) ==
  /\ pc[w] = "enqueue"
  /\ \/ reports[w] = {} /\ Go(w, "stale") /\ UNCHANGED <<reports, rowId, status>>
     \/ \E r \in reports[w] :
          LET j == <<r, Settings[w]>> IN
          /\ \A q \in reports[w] : r <= q
          /\ ~ReportLocked(r)
          /\ reports' = [reports EXCEPT ![w] = @ \ {r}]
          /\ IF status[j] = "ABSENT"
               THEN /\ rowId' = [rowId EXCEPT ![j] = 1 + Cardinality({i \in Job : rowId[i] > 0})]
                    /\ status' = [status EXCEPT ![j] =
                         IF Commented[r] = {} THEN "SKIPPED" ELSE "PENDING"]
               ELSE UNCHANGED <<rowId, status>>
          /\ UNCHANGED pc
  /\ UNCHANGED <<clock, ready, claimVars, nextRetry, reopened, resultVars, job, now, todo, stall, faults>>

\* The listed job that the worker comes to next: they are in the order of their ids.
IsNext(w, j) == j \in todo[w] /\ \A i \in todo[w] : rowId[j] <= rowId[i]

\* Jobs that a transaction of this moment may have locked (FOR UPDATE).
MayBeLocked(w, j) ==
  \E v \in Worker \ {w} :
    \/ pc[v] = "next" /\ IsNext(v, j)
    \/ pc[v] \in {"record", "store", "commit", "fail"} /\ job[v].id = j

\* Mutant: the time to live is not looked at.
ExpiredAtOnce(j, t) == status[j] = "CLAIMED"

Expired(j, t) == status[j] = "CLAIMED" /\ claimedAt[j] + ClaimTTL <= t

\* recover_stale_claimed_enrichment_jobs: locked rows are skipped.
RecoverStale(w) ==
  /\ pc[w] = "stale"
  /\ \E skipped \in SUBSET {j \in Job : Expired(j, now[w]) /\ MayBeLocked(w, j)} :
       LET stale == {j \in Job \ skipped : Expired(j, now[w]) /\ ~Locked(j)} IN
       /\ status' = [j \in Job |-> IF j \in stale THEN "FAILED" ELSE status[j]]
       /\ claimedAt' = [j \in Job |-> IF j \in stale THEN NoTime ELSE claimedAt[j]]
       /\ nextRetry' = [j \in Job |-> IF j \in stale THEN RetryAt(j, now[w]) ELSE nextRetry[j]]
  /\ Go(w, "list")
  /\ UNCHANGED <<clock, ready, rowId, claims, attempts, reopened, resultVars,
                 job, tickVars, stall, faults>>

\* Mutant: the batch is cut before the jobs that are due are selected.
FirstJobs(t) ==
  {j \in Job : Due(j, t) /\ Cardinality({i \in Job : 0 < rowId[i] /\ rowId[i] < rowId[j]}) < Batch}

\* The due jobs with the least ids, as many as fit into the batch.
DueJobs(t) ==
  {j \in Job : Due(j, t) /\ Cardinality({i \in Job : Due(i, t) /\ rowId[i] < rowId[j]}) < Batch}

ListDue(w) ==
  /\ pc[w] = "list"
  /\ todo' = [todo EXCEPT ![w] = DueJobs(now[w])]
  /\ Go(w, "next")
  /\ UNCHANGED <<clock, ready, jobVars, resultVars, job, now, reports, stall, faults>>

\* claim_enrichment_job of the next listed job, or the end of this part.
ClaimNext(w) ==
  /\ pc[w] = "next"
  /\ \E j \in Job :
     /\ IsNext(w, j) /\ ~Locked(j)
     /\ todo' = [todo EXCEPT ![w] = @ \ {j}]
     /\ IF Claimable(j, now[w])
          THEN /\ status' = [status EXCEPT ![j] = "CLAIMED"]
               /\ claims' = [claims EXCEPT ![j] = @ + 1]
               /\ claimedAt' = [claimedAt EXCEPT ![j] = clock]
               /\ attempts' = [attempts EXCEPT ![j] = @ + 1]
               /\ nextRetry' = [nextRetry EXCEPT ![j] = NoTime]
               /\ job' = [job EXCEPT ![w] =
                    [id |-> j, tok |-> claims[j] + 1, deadline |-> 0, done |-> {}, comment |-> 0,
                     result |-> "unread", content |-> Unread, revision |-> 0]]
               /\ Go(w, "load")
          ELSE UNCHANGED <<status, claimVars, nextRetry, job, pc>>
  /\ UNCHANGED <<clock, ready, rowId, reopened, resultVars, now, reports, stall, faults>>

EndTick(w) ==
  /\ pc[w] = "next" /\ todo[w] = {}
  /\ Go(w, "idle")
  /\ now' = [now EXCEPT ![w] = clock + Poll]
  /\ UNCHANGED <<clock, ready, jobVars, resultVars, job, reports, todo, stall, faults>>

\* A query of this part fails: run_once gives up and the loop sleeps.
TickFails(w) ==
  /\ faults < MaxFaults
  /\ pc[w] \in {"enqueue", "stale", "list"} \/ (pc[w] = "idle" /\ clock >= now[w])
  /\ faults' = faults + 1
  /\ Go(w, "idle")
  /\ now' = [now EXCEPT ![w] = clock + Poll]
  /\ todo' = [todo EXCEPT ![w] = {}] /\ reports' = [reports EXCEPT ![w] = {}]
  /\ UNCHANGED <<clock, ready, jobVars, resultVars, job, stall>>


-----------------------------------------------------------------------------
(* One claimed job: run_claimed_enrichment *)

\* The loop over the comments of the snapshot, up to its next await: comments
\* taken as done are passed over, and one that is not parsed goes to the LLM.
NextComment(w, claim) ==
  LET left == Commented[ReportOf(claim.id)] \ claim.done
      c == Min(left)
      result == IF c \in Clear THEN "parsed"
                ELSE IF <<w, VersionOf(claim.id)>> \in Keyed THEN "unread" ELSE "nokey"
  IN IF left = {}
       THEN /\ Go(w, "build")
            /\ job' = [job EXCEPT ![w] = [claim EXCEPT !.comment = 0, !.result = "unread"]]
       ELSE /\ Go(w, IF result = "unread" THEN "ask" ELSE "record")
            /\ job' = [job EXCEPT ![w] = [claim EXCEPT !.comment = c, !.result = result]]

\* Mutant: a retry does not look for the analyses of the attempts before it.
Forgotten(j) == {}

Recorded(j) == {c \in Comment : analysis[j][c] # "unread"}

Load(w) ==
  /\ pc[w] = "load" /\ Awake(w)
  /\ LET j == job[w].id IN
     IF VersionOf(j) \in Supported[w]
       THEN NextComment(w, [job[w] EXCEPT !.deadline = clock + RunTimeout, !.done = Recorded(j)])
       ELSE Go(w, "fail") /\ UNCHANGED job
  /\ UNCHANGED <<clock, ready, jobVars, resultVars, tickVars, stall, faults>>

\* analyze_comment answers, with facts or with something the schema refuses, or
\* it gives up on a transient error, or the run timeout interrupts it.
Answered(w) ==
  /\ pc[w] = "ask"
  /\ \/ \E r \in Answer \cup {"refused"} :
          job' = [job EXCEPT ![w].result = r] /\ Go(w, "record")
     \/ Go(w, "fail") /\ UNCHANGED job
  /\ UNCHANGED <<clock, ready, jobVars, resultVars, tickVars, stall, faults>>

\* Whether record_comment_analysis inserts a row, and whether it raises
\* EnrichmentConflictError.
Inserts(w) == Fenced(w) /\ analysis[job[w].id][job[w].comment] = "unread"
Conflict(w) == Fenced(w) /\ analysis[job[w].id][job[w].comment] \notin {"unread", job[w].result}

Insert(w) ==
  analysis' = IF Inserts(w)
                THEN [analysis EXCEPT ![job[w].id][job[w].comment] = job[w].result]
                ELSE analysis

\* A claim that is lost goes unnoticed: the comment is taken as done.
Record(w) ==
  /\ pc[w] = "record" /\ ~Locked(job[w].id)
  /\ Insert(w)
  /\ IF Conflict(w)
       THEN Go(w, "fail") /\ UNCHANGED job
       ELSE NextComment(w, [job[w] EXCEPT !.done = @ \cup {job[w].comment}])
  /\ UNCHANGED <<clock, ready, jobVars, artifacts, queued, tickVars, stall, faults>>

\* A transaction of the run ends in an exception: the run timeout is over, or
\* the database fails.
Interrupted(w) ==
  \/ clock >= job[w].deadline /\ UNCHANGED faults
  \/ faults < MaxFaults /\ faults' = faults + 1

\* The insertion may be committed all the same.
RecordFails(w) ==
  /\ pc[w] = "record" /\ ~Locked(job[w].id)
  /\ Interrupted(w)
  /\ Insert(w) \/ UNCHANGED analysis
  /\ Go(w, "fail")
  /\ UNCHANGED <<clock, ready, jobVars, artifacts, queued, job, tickVars, stall>>

\* The analyses are read in a transaction of their own.
Build(w) ==
  /\ pc[w] = "build"
  /\ job' = [job EXCEPT ![w].content = analysis[job[w].id]]
  /\ Go(w, "store")
  /\ UNCHANGED <<clock, ready, jobVars, resultVars, tickVars, stall, faults>>

Release(w) == job' = [job EXCEPT ![w] = NoClaim] /\ Go(w, "next")

ArtifactsOf(r) == {a \in artifacts : ReportOf(a.id) = r}

\* complete_enrichment up to the insertion: an artifact of the job ends the run,
\* whoever stored it; otherwise only the holder of the claim goes on.
Store(w) ==
  /\ pc[w] = "store" /\ Awake(w)
  /\ LET j == job[w].id
         stored == \E a \in artifacts : a.id = j
     IN /\ ~Locked(j)
        /\ \/ stored /\ status[j] = "READY" /\ Release(w)
           \/ /\ IF stored THEN status[j] # "READY" ELSE ~Fenced(w)
              /\ Go(w, "fail") /\ UNCHANGED job
           \/ /\ ~stored /\ Fenced(w) /\ ~ReportLocked(ReportOf(j))
              /\ job' = [job EXCEPT ![w].revision =
                   Max({a.revision : a \in ArtifactsOf(ReportOf(j))} \cup {0}) + 1]
              /\ Go(w, "commit")
  /\ UNCHANGED <<clock, ready, jobVars, resultVars, tickVars, stall, faults>>

\* The rest of complete_enrichment: the first revision gets an automatic delivery.
Complete(w) ==
  LET j == job[w].id
      a == [id |-> j, revision |-> job[w].revision, content |-> job[w].content]
  IN /\ artifacts' = artifacts \cup {a}
     /\ queued' = IF a.revision = 1 THEN queued \cup {a} ELSE queued
     /\ status' = [status EXCEPT ![j] = "READY"]
     /\ claimedAt' = [claimedAt EXCEPT ![j] = NoTime]

Commit(w) ==
  /\ pc[w] = "commit"
  /\ Complete(w) /\ Release(w)
  /\ UNCHANGED <<clock, ready, rowId, claims, attempts, nextRetry, reopened, analysis,
                 tickVars, stall, faults>>

RunFails(w) ==
  /\ pc[w] \in {"build", "store", "commit"} /\ Awake(w)
  /\ Interrupted(w)
  /\ \/ pc[w] = "commit" /\ Complete(w)
     \/ UNCHANGED <<artifacts, queued, status, claimedAt>>
  /\ Go(w, "fail")
  /\ UNCHANGED <<clock, ready, rowId, claims, attempts, nextRetry, reopened, analysis,
                 job, tickVars, stall>>

\* fail_enrichment, with the now_utc of the tick.
Fail(w) ==
  /\ pc[w] = "fail"
  /\ LET j == job[w].id IN
     /\ ~Locked(j)
     /\ IF Fenced(w)
          THEN /\ status' = [status EXCEPT ![j] = "FAILED"]
               /\ claimedAt' = [claimedAt EXCEPT ![j] = NoTime]
               /\ nextRetry' = [nextRetry EXCEPT ![j] = RetryAt(j, now[w])]
          ELSE UNCHANGED <<status, claimedAt, nextRetry>>
  /\ Release(w)
  /\ UNCHANGED <<clock, ready, rowId, claims, attempts, reopened, resultVars,
                 tickVars, stall, faults>>

\* The claim's answer is lost, or loading or fail_enrichment raises: the exception
\* leaves run_claimed_enrichment, and the next job is tried.
GiveUp(w) ==
  /\ faults < MaxFaults /\ pc[w] \in {"load", "fail"}
  /\ faults' = faults + 1
  /\ Release(w)
  /\ UNCHANGED <<clock, ready, jobVars, resultVars, tickVars, stall>>

-----------------------------------------------------------------------------
TickStep(w) ==
  \/ StartTick(w) \/ Enqueue(w) \/ RecoverStale(w) \/ ListDue(w)
  \/ ClaimNext(w) \/ EndTick(w)

JobStep(w) ==
  \/ Load(w) \/ Answered(w) \/ Record(w) \/ Build(w) \/ Store(w) \/ Commit(w) \/ Fail(w)

FaultOf(w) ==
  Stall(w) \/ Restart(w) \/ TickFails(w) \/ RecordFails(w) \/ RunFails(w) \/ GiveUp(w)

Next ==
  \/ \E r \in Report : CoreReady(r)
  \/ \E j \in Job : Reopen(j)
  \/ Tick \/ Horizon
  \/ \E w \in Worker : TickStep(w) \/ JobStep(w) \/ FaultOf(w)

Spec == Init /\ [][Next]_vars

-----------------------------------------------------------------------------
(* Properties *)

\* A holder of a claim never meets an analysis that differs from its own, though
\* the LLM answers differently every time: EnrichmentConflictError is never raised.
NoConflict == \A w \in Worker : pc[w] = "record" => ~Conflict(w)

\* A stored workbook shows the recorded analysis of each comment of its report,
\* and none is missing, though a run that has lost its claim goes through the
\* comments without recording anything.
WorkbookComplete ==
  \A a \in artifacts :
    /\ a.content = analysis[a.id]
    /\ \A c \in Commented[ReportOf(a.id)] : a.content[c] # "unread"

\* A job is READY exactly if it has a workbook, it has only one, and the workbooks
\* of a report are revisions 1, 2, ... of which the first alone is delivered of
\* itself, whatever jobs of different versions are completed side by side.
RevisionsInOrder ==
  /\ \A j \in Job : Cardinality({a \in artifacts : a.id = j}) = IF status[j] = "READY" THEN 1 ELSE 0
  /\ \A r \in Report :
       {a.revision : a \in ArtifactsOf(r)} = 1 .. Cardinality(ArtifactsOf(r))
  /\ queued = {a \in artifacts : a.revision = 1}

\* A recorded analysis is never changed or lost, and a claim ends by its holder's
\* hand or after its time to live.
WorkIsKept ==
  [][\A j \in Job :
       /\ \A c \in Recorded(j) : analysis'[j][c] = analysis[j][c]
       /\ status[j] = "CLAIMED" /\ status'[j] # "CLAIMED" =>
            \/ clock >= claimedAt[j] + ClaimTTL
            \/ \E w \in Worker : job[w].tok = claims[j] /\ job[w].id = j /\ pc'[w] # pc[w]
    ]_vars

\* A tick that finds a job due tries one: jobs with lesser ids that are done, failed
\* for good or not yet due do not use up the batch (the Stage 4.4 regression).
DueIsTried ==
  [][\A w \in Worker :
       pc[w] = "list" /\ pc'[w] = "next" /\ (\E j \in Job : Due(j, now[w])) =>
         \E j \in todo'[w] : Claimable(j, now[w])]_vars

\* The inductive strengthening of the above.  A claim has one holder; a holder that
\* has not lost it has gone through the comments that are recorded, and shows them
\* in its workbook; complete_enrichment keeps the rows it has locked.
Busy(w) == pc[w] \in {"load", "ask", "record", "build", "store", "commit", "fail"}

HolderOK(w) ==
  /\ pc[w] # "idle" => now[w] <= clock
  /\ Busy(w) => job[w] \in Claim /\ 0 < job[w].tok /\ job[w].tok <= claims[job[w].id]

HolderInv ==
  /\ \A w \in Worker : HolderOK(w)
  /\ \A v, w \in Worker :
       v # w /\ Busy(v) /\ Busy(w) /\ job[v].id = job[w].id => job[v].tok # job[w].tok

RunOK(w) ==
  LET j == job[w].id
      due == Commented[ReportOf(j)]
  IN
  /\ pc[w] \in {"ask", "record"} => job[w].comment \in due \ job[w].done
  /\ pc[w] = "record" => job[w].result # "unread"
  /\ pc[w] \in {"build", "store", "commit"} => due \subseteq job[w].done
  /\ pc[w] \in {"ask", "record", "build", "store", "commit"} /\ Fenced(w) =>
       job[w].done = Recorded(j)
  /\ pc[w] \in {"store", "commit"} /\ Fenced(w) => job[w].content = analysis[j]
  /\ pc[w] = "commit" => /\ Fenced(w)
                         /\ job[w].revision = Cardinality(ArtifactsOf(ReportOf(j))) + 1

RunInv ==
  /\ \A w \in Worker : RunOK(w)
  /\ \A v, w \in Worker :
       v # w /\ pc[v] = "commit" /\ pc[w] = "commit" =>
         ReportOf(job[v].id) # ReportOf(job[w].id)

ArtifactInv ==
  /\ IsFiniteSet(artifacts)
  /\ \A j \in Job : status[j] = "READY" <=> \E a \in artifacts : a.id = j
  /\ \A a, b \in artifacts : a.id = b.id => a = b
  /\ WorkbookComplete
  /\ \A r \in Report :
       {a.revision : a \in ArtifactsOf(r)} = 1 .. Cardinality(ArtifactsOf(r))
  /\ queued = {a \in artifacts : a.revision = 1}

AttemptsInv == \A j \in Job : status[j] \in {"ABSENT", "PENDING"} => attempts[j] = 0

EnrichmentInv ==
  TypeOK /\ AttemptsInv /\ HolderInv /\ RunInv /\ ArtifactInv
=============================================================================
