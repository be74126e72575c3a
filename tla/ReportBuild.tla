---------------------------- MODULE ReportBuild ----------------------------
(***************************************************************************)
(* The CORE report of a completed cycle: the table audit_reports and the   *)
(* build half of the ReportScheduler tick.                                 *)
(*                                                                         *)
(* The transaction that completes a cycle finds the previous completed     *)
(* cycle and inserts the report PENDING with that previous cycle frozen in *)
(* it.  A builder (a scheduler) claims the report, reads the positions of  *)
(* both cycles in one transaction, writes the workbook outside of any, and *)
(* stores it in a third one, fenced by the token of its claim.  A build    *)
(* has no timeout: a claim may expire under it.                            *)
(***************************************************************************)
EXTENDS Integers, FiniteSets

CONSTANTS
  Date,         \* report dates, one cycle each
  Legacy,       \* dates whose cycle may be older than the table audit_reports
  Builder,      \* report schedulers: one per bot process
  ClaimTTL,     \* report_build_claim_ttl_seconds
  Backoff,      \* report_build_backoff_seconds
  MaxAttempts,  \* report_build_max_attempts
  Poll,         \* report_scheduler_poll_seconds
  MaxFaults,    \* bound: restarts, failed builds and database errors
  MaxTime       \* bound: the horizon of the clock

\* Settings validates that the numbers are positive (settings.py).
ASSUME BuildAssumption ==
  /\ Date \subseteq Nat \ {0} /\ IsFiniteSet(Date) /\ Legacy \subseteq Date
  /\ ClaimTTL \in Nat \ {0} /\ Backoff \in Nat \ {0} /\ MaxAttempts \in Nat \ {0}
  /\ Poll \in Nat \ {0} /\ MaxFaults \in Nat /\ MaxTime \in Nat

NoTime == -1     \* SQL NULL in a timestamp column
NoDate == 0      \* SQL NULL in previous_cycle_id
NoCore == -1     \* no CORE artifact

VARIABLES
  clock,      \* the time of the database and of every process
  cycle,      \* the cycle of each date
  previous,   \* previous_cycle_id, uncommitted while the cycle is closing
  status, token, claimedAt, attempts, nextRetry,   \* audit_reports
  core,       \* previous cycle that the stored CORE workbook compares with
  queued,     \* reports whose CORE artifact has its automatic delivery
  jobs,       \* reports with a comment enrichment job
  pc, job,    \* what each builder does, and its claim
  now,        \* now_utc of a builder's tick; while idle, when its next tick starts
  todo,       \* reports the builder has listed and not yet tried
  faults      \* faults so far (for the bound)

claimVars == <<status, token, claimedAt, nextRetry>>
reportVars == <<previous, claimVars, attempts, core, queued>>
tickVars == <<now, todo>>
vars == <<clock, cycle, reportVars, jobs, pc, job, tickVars, faults>>

CycleStatus == {"collecting", "closing", "completed"}
Status == {"ABSENT", "PENDING", "BUILDING", "READY", "FAILED"}
PC == {"idle", "missing", "stale", "again", "list", "next",
       "read", "store", "enqueue", "fail"}
\* The claimed report and the previous cycle that its workbook compares with.
Job == [date: Date \cup {NoDate}, tok: Nat, base: Date \cup {NoDate}]
NoJob == [date |-> NoDate, tok |-> 0, base |-> NoDate]

ReportTypeOK ==
  /\ previous \in [Date -> Date \cup {NoDate}]
  /\ status \in [Date -> Status]
  /\ token \in [Date -> Nat] /\ attempts \in [Date -> Nat]
  /\ claimedAt \in [Date -> Int] /\ nextRetry \in [Date -> Int]
  /\ core \in [Date -> Date \cup {NoDate, NoCore}]
  /\ queued \subseteq Date /\ jobs \subseteq Date

TypeOK ==
  /\ clock \in Nat /\ faults \in Nat
  /\ cycle \in [Date -> CycleStatus]
  /\ ReportTypeOK
  /\ pc \in [Builder -> PC] /\ job \in [Builder -> Job]
  /\ now \in [Builder -> Nat] /\ todo \in [Builder -> SUBSET Date]

Init ==
  /\ clock = 0 /\ faults = 0
  /\ \E old \in SUBSET Legacy :
       cycle = [d \in Date |-> IF d \in old THEN "completed" ELSE "collecting"]
  /\ previous = [d \in Date |-> NoDate]
  /\ status = [d \in Date |-> "ABSENT"]
  /\ token = [d \in Date |-> 0] /\ attempts = [d \in Date |-> 0]
  /\ claimedAt = [d \in Date |-> NoTime] /\ nextRetry = [d \in Date |-> NoTime]
  /\ core = [d \in Date |-> NoCore] /\ queued = {} /\ jobs = {}
  /\ pc = [b \in Builder |-> "idle"] /\ job = [b \in Builder |-> NoJob]
  /\ now = [b \in Builder |-> 0] /\ todo = [b \in Builder |-> {}]

-----------------------------------------------------------------------------
(* Reports *)

\* Mutant: the previous cycle is a matter of the calendar.
DayBefore(d) == d - 1

\* find_previous_completed_cycle: the latest committed one before d.
LatestBefore(d) ==
  LET earlier == {e \in Date : e < d /\ cycle[e] = "completed"} IN
  IF earlier = {} THEN NoDate ELSE CHOOSE e \in earlier : \A f \in earlier : f <= e

\* PENDING, or FAILED with attempts left and no retry time in the future.
Due(d, t) ==
  \/ status[d] = "PENDING"
  \/ status[d] = "FAILED" /\ attempts[d] < MaxAttempts /\ nextRetry[d] <= t

\* Mutant: a claim never expires.
ClaimIsActiveForEver(d, t) == claimedAt[d] # NoTime

\* _claim_is_active
ClaimIsActive(d, t) == claimedAt[d] # NoTime /\ t - claimedAt[d] < ClaimTTL

Exhausted(d) == attempts[d] >= MaxAttempts

\* Mutant: the token is not compared.
FencedByStatus(b) == job[b].date \in Date /\ status[job[b].date] = "BUILDING"

\* The build's claim is the current one.
Fenced(b) ==
  LET d == job[b].date IN
  d \in Date /\ status[d] = "BUILDING" /\ token[d] = job[b].tok

-----------------------------------------------------------------------------
(* Environment: the uploads that complete cycles, time, restarts *)

\* The transaction of the last upload reads the previous cycle (finalize_if_complete,
\* enqueue_pending_report); cycles of other dates are not locked.
Closing(d) ==
  /\ cycle[d] = "collecting"
  /\ cycle' = [cycle EXCEPT ![d] = "closing"]
  /\ previous' = [previous EXCEPT ![d] = LatestBefore(d)]
  /\ UNCHANGED <<clock, claimVars, attempts, core, queued, jobs, pc, job, tickVars, faults>>

\* It commits the cycle COMPLETED and the report PENDING, or rolls back.
Closed(d) ==
  /\ cycle[d] = "closing"
  /\ \/ /\ cycle' = [cycle EXCEPT ![d] = "completed"]
        /\ status' = [status EXCEPT ![d] = "PENDING"]
        /\ UNCHANGED previous
     \/ /\ cycle' = [cycle EXCEPT ![d] = "collecting"]
        /\ previous' = [previous EXCEPT ![d] = NoDate]
        /\ UNCHANGED status
  /\ UNCHANGED <<clock, token, claimedAt, nextRetry, attempts, core, queued, jobs,
                 pc, job, tickVars, faults>>

Tick ==
  /\ clock < MaxTime
  /\ clock' = clock + 1
  /\ UNCHANGED <<cycle, reportVars, jobs, pc, job, tickVars, faults>>

\* What happens after the horizon is not explored.
Horizon == clock = MaxTime /\ UNCHANGED vars

\* The process dies, or stop() cancels the task: CancelledError is no
\* Exception, so nothing is written.  The scheduler starts anew.
Restart(b) ==
  /\ faults < MaxFaults /\ pc[b] # "idle"
  /\ faults' = faults + 1
  /\ pc' = [pc EXCEPT ![b] = "idle"]
  /\ job' = [job EXCEPT ![b] = NoJob]
  /\ now' = [now EXCEPT ![b] = clock]
  /\ todo' = [todo EXCEPT ![b] = {}]
  /\ UNCHANGED <<clock, cycle, reportVars, jobs>>

Go(b, to) == pc' = [pc EXCEPT ![b] = to]

\* The build is over, well or badly: the next report of the list.
Release(b) == Go(b, "next") /\ job' = [job EXCEPT ![b] = NoJob]

\* The comparison, the workbook or a transaction of the build fails.
BuildFails(b) ==
  /\ faults < MaxFaults /\ pc[b] \in {"read", "store"}
  /\ faults' = faults + 1
  /\ Go(b, "fail")
  /\ UNCHANGED <<clock, cycle, reportVars, jobs, job, tickVars>>

\* A transaction after the build fails: fail_report_build, which leaves the
\* report BUILDING, or enqueue_enrichment_job, which leaves it without a job.
Fault(b) ==
  /\ faults < MaxFaults /\ pc[b] \in {"fail", "enqueue"}
  /\ faults' = faults + 1
  /\ Release(b)
  /\ UNCHANGED <<clock, cycle, reportVars, jobs, tickVars>>

-----------------------------------------------------------------------------
(* The scheduler's tick *)

StartTick(b) ==
  /\ pc[b] = "idle" /\ clock >= now[b]
  /\ now' = [now EXCEPT ![b] = clock]
  /\ Go(b, "missing")
  /\ UNCHANGED <<clock, cycle, reportVars, jobs, job, todo, faults>>

\* Mutant: a report that waits is brought up to date.
RecoverMissingAnew(b) ==
  LET missing == {d \in Date : cycle[d] = "completed" /\ status[d] \in {"ABSENT", "PENDING"}} IN
  /\ pc[b] = "missing"
  /\ previous' = [d \in Date |-> IF d \in missing THEN LatestBefore(d) ELSE previous[d]]
  /\ status' = [d \in Date |-> IF d \in missing THEN "PENDING" ELSE status[d]]
  /\ Go(b, "stale")
  /\ UNCHANGED <<clock, cycle, token, claimedAt, nextRetry, attempts, core, queued, jobs,
                 job, tickVars, faults>>

\* recover_missing_reports, whose statements are one step here.
RecoverMissing(b) ==
  LET missing == {d \in Date : cycle[d] = "completed" /\ status[d] = "ABSENT"} IN
  /\ pc[b] = "missing"
  /\ previous' = [d \in Date |-> IF d \in missing THEN LatestBefore(d) ELSE previous[d]]
  /\ status' = [d \in Date |-> IF d \in missing THEN "PENDING" ELSE status[d]]
  /\ Go(b, "stale")
  /\ UNCHANGED <<clock, cycle, token, claimedAt, nextRetry, attempts, core, queued, jobs,
                 job, tickVars, faults>>

\* Reports that a transaction of this moment may have locked (FOR UPDATE).
MayBeLocked(d) ==
  \E b \in Builder : d \in todo[b] \/ (job[b].date = d /\ pc[b] \in {"store", "enqueue", "fail"})

\* recover_stale_building_reports: run_once calls it, and so does
\* prepare_buildable_report_ids right after.  Locked rows are skipped.
RecoverStale(b) ==
  /\ pc[b] \in {"stale", "again"}
  /\ \E skipped \in SUBSET {d \in Date : MayBeLocked(d)} :
       LET stale == {d \in Date \ skipped : status[d] = "BUILDING" /\ ~ClaimIsActive(d, now[b])}
       IN /\ status' = [d \in Date |-> IF d \in stale THEN "FAILED" ELSE status[d]]
          /\ token' = [d \in Date |-> IF d \in stale THEN 0 ELSE token[d]]
          /\ claimedAt' = [d \in Date |-> IF d \in stale THEN NoTime ELSE claimedAt[d]]
          /\ nextRetry' = [d \in Date |-> IF d \notin stale THEN nextRetry[d]
                                          ELSE IF Exhausted(d) THEN NoTime ELSE now[b]]
  /\ Go(b, IF pc[b] = "stale" THEN "again" ELSE "list")
  /\ UNCHANGED <<clock, cycle, previous, attempts, core, queued, jobs, job, tickVars, faults>>

\* prepare_buildable_report_ids
ListDue(b) ==
  /\ pc[b] = "list"
  /\ todo' = [todo EXCEPT ![b] = {d \in Date : Due(d, now[b])}]
  /\ Go(b, "next")
  /\ UNCHANGED <<clock, cycle, reportVars, jobs, job, now, faults>>

\* Mutant: jobs are enqueued after the build and nowhere else.
RecoverNoJobs(b) ==
  /\ pc[b] = "next" /\ todo[b] = {}
  /\ Go(b, "idle")
  /\ now' = [now EXCEPT ![b] = clock + Poll]
  /\ UNCHANGED <<clock, cycle, reportVars, jobs, job, todo, faults>>

\* recover_missing_enrichment_jobs ends this half of the tick.  The deliveries
\* before it and after it are in ReportDelivery.
RecoverJobs(b) ==
  /\ pc[b] = "next" /\ todo[b] = {}
  /\ jobs' = jobs \cup {d \in Date : status[d] = "READY"}
  /\ Go(b, "idle")
  /\ now' = [now EXCEPT ![b] = clock + Poll]
  /\ UNCHANGED <<clock, cycle, reportVars, job, todo, faults>>

\* One of its transactions fails, one for each report: the tick ends with the
\* jobs made so far.
RecoverJobsFails(b) ==
  /\ faults < MaxFaults /\ pc[b] = "next" /\ todo[b] = {}
  /\ faults' = faults + 1
  /\ \E S \in SUBSET {d \in Date : status[d] = "READY"} : jobs' = jobs \cup S
  /\ Go(b, "idle")
  /\ now' = [now EXCEPT ![b] = clock + Poll]
  /\ UNCHANGED <<clock, cycle, reportVars, job, todo>>

-----------------------------------------------------------------------------
(* One build: _build_one *)

\* claim_report_build of the next listed report, due or not any more.  Their
\* order, that of the ids, is left open.
ClaimNext(b) ==
  /\ pc[b] = "next"
  /\ \E d \in todo[b] :
       /\ todo' = [todo EXCEPT ![b] = @ \ {d}]
       /\ \/ /\ Due(d, now[b])
             /\ status' = [status EXCEPT ![d] = "BUILDING"]
             /\ attempts' = [attempts EXCEPT ![d] = @ + 1]
             /\ token' = [token EXCEPT ![d] = attempts[d] + 1]   \* a fresh uuid4
             /\ claimedAt' = [claimedAt EXCEPT ![d] = clock]
             /\ nextRetry' = [nextRetry EXCEPT ![d] = NoTime]
             /\ job' = [job EXCEPT ![b] = [date |-> d, tok |-> attempts[d] + 1,
                                           base |-> NoDate]]
             /\ Go(b, "read")
          \/ ~Due(d, now[b]) /\ UNCHANGED <<claimVars, attempts, job, pc>>
  /\ UNCHANGED <<clock, cycle, previous, core, queued, jobs, now, faults>>

\* Mutant: the comparison does not use the report's previous cycle.
BaseAnew(d) == LatestBefore(d)

\* compare_cycles looks for the previous cycle again if the report has none.
Base(d) == IF previous[d] # NoDate THEN previous[d] ELSE LatestBefore(d)

\* The read transaction of run_claimed_build checks only the token.
Read(b) ==
  LET d == job[b].date IN
  /\ pc[b] = "read"
  /\ IF token[d] = job[b].tok
       THEN Go(b, "store") /\ job' = [job EXCEPT ![b].base = Base(d)]
       ELSE Go(b, "fail") /\ UNCHANGED job
  /\ UNCHANGED <<clock, cycle, reportVars, jobs, tickVars, faults>>

\* complete_report_build stores the CORE artifact and its automatic delivery and
\* marks the report READY; the answer of the commit may be lost.  A build that
\* lost its claim stores nothing and goes on all the same.
Store(b) ==
  LET d == job[b].date IN
  /\ pc[b] = "store"
  /\ \/ /\ Fenced(b) /\ core[d] = NoCore
        /\ core' = [core EXCEPT ![d] = job[b].base]
        /\ queued' = queued \cup {d}
        /\ status' = [status EXCEPT ![d] = "READY"]
        /\ token' = [token EXCEPT ![d] = 0]
        /\ claimedAt' = [claimedAt EXCEPT ![d] = NoTime]
        /\ nextRetry' = [nextRetry EXCEPT ![d] = NoTime]
        /\ \/ Go(b, "enqueue") /\ UNCHANGED faults
           \/ faults < MaxFaults /\ faults' = faults + 1 /\ Go(b, "fail")
     \/ Fenced(b) /\ core[d] # NoCore /\ Go(b, "fail")
        /\ UNCHANGED <<core, queued, claimVars, faults>>
     \/ ~Fenced(b) /\ Go(b, "enqueue") /\ UNCHANGED <<core, queued, claimVars, faults>>
  /\ UNCHANGED <<clock, cycle, previous, attempts, jobs, job, tickVars>>

\* enqueue_enrichment_job, after the commit of CORE
Enqueue(b) ==
  /\ pc[b] = "enqueue"
  /\ jobs' = jobs \cup {d \in {job[b].date} : status[d] = "READY"}
  /\ Release(b)
  /\ UNCHANGED <<clock, cycle, reportVars, tickVars, faults>>

\* Mutant: whoever built the report fails it.
FailUnfenced(b) ==
  LET d == job[b].date IN
  /\ pc[b] = "fail"
  /\ status' = [status EXCEPT ![d] = "FAILED"]
  /\ token' = [token EXCEPT ![d] = 0]
  /\ claimedAt' = [claimedAt EXCEPT ![d] = NoTime]
  /\ nextRetry' = [nextRetry EXCEPT ![d] =
       IF Exhausted(d) THEN NoTime ELSE now[b] + Backoff * attempts[d]]
  /\ Release(b)
  /\ UNCHANGED <<clock, cycle, previous, attempts, core, queued, jobs, tickVars, faults>>

\* fail_report_build
Fail(b) ==
  LET d == job[b].date IN
  /\ pc[b] = "fail"
  /\ IF Fenced(b)
       THEN /\ status' = [status EXCEPT ![d] = "FAILED"]
            /\ token' = [token EXCEPT ![d] = 0]
            /\ claimedAt' = [claimedAt EXCEPT ![d] = NoTime]
            /\ nextRetry' = [nextRetry EXCEPT ![d] =
                 IF Exhausted(d) THEN NoTime ELSE now[b] + Backoff * attempts[d]]
       ELSE UNCHANGED claimVars
  /\ Release(b)
  /\ UNCHANGED <<clock, cycle, previous, attempts, core, queued, jobs, tickVars, faults>>

-----------------------------------------------------------------------------
TickStep(b) ==
  \/ StartTick(b) \/ RecoverMissing(b) \/ RecoverStale(b) \/ ListDue(b) \/ RecoverJobs(b)

BuildStep(b) == ClaimNext(b) \/ Read(b) \/ Store(b) \/ Enqueue(b) \/ Fail(b)

Step ==
  \/ \E d \in Date : Closing(d) \/ Closed(d)
  \/ \E b \in Builder : \/ TickStep(b) \/ BuildStep(b)
                        \/ Restart(b) \/ BuildFails(b) \/ Fault(b) \/ RecoverJobsFails(b)

Next == Step \/ Tick \/ Horizon

Spec == Init /\ [][Next]_vars

-----------------------------------------------------------------------------
(* Safety *)

\* A report is READY exactly while its CORE artifact and its automatic delivery
\* exist: no late failure, not even one after a commit whose answer is lost,
\* takes a stored report back.
ReadyIffStored ==
  \A d \in Date : /\ status[d] = "READY" <=> core[d] # NoCore
                  /\ core[d] # NoCore <=> d \in queued

\* The previous cycle of a report is an earlier completed one, and it is the one
\* the stored workbook compares with, whatever has been completed since.
FrozenPreviousUsed ==
  \A d \in Date : status[d] # "ABSENT" /\ previous[d] # NoDate =>
    /\ previous[d] < d /\ cycle[previous[d]] = "completed"
    /\ core[d] # NoCore => core[d] = previous[d]

\* The same for a report whose previous cycle is frozen as "none".
CoreFromFrozenPrevious ==
  \A d \in Date : core[d] # NoCore => core[d] = previous[d]

\* The previous cycle of a report never changes, and a stored workbook is
\* neither replaced nor lost.
ReportFrozen ==
  [][\A d \in Date :
       /\ status[d] # "ABSENT" => previous'[d] = previous[d]
       /\ core[d] # NoCore => core'[d] = core[d]]_vars

\* A claim ends by the hand of its builder, or after its time to live: the
\* recovery measures it by the start of a tick, which lies in the past, and a
\* builder that lost its claim does not touch the next one.
ClaimKept ==
  [][\A d \in Date : status[d] = "BUILDING" /\ token'[d] # token[d] =>
       \/ clock - claimedAt[d] >= ClaimTTL
       \/ \E b \in Builder : /\ pc[b] \in {"store", "fail"} /\ pc'[b] # pc[b]
                             /\ job[b].date = d /\ job[b].tok = token[d]]_vars

\* The inductive strengthening of the above: a report exists for completed cycles
\* only, so that nothing that is completed later touches its previous cycle, and
\* a build that is about to be stored has used it.
Busy(b) == pc[b] \in {"read", "store", "enqueue", "fail"}

ReportInv ==
  \A d \in Date :
    /\ status[d] # "ABSENT" => cycle[d] = "completed"
    /\ status[d] = "BUILDING" => claimedAt[d] # NoTime
    /\ previous[d] # NoDate => previous[d] < d /\ cycle[previous[d]] = "completed"
    /\ core[d] # NoCore /\ previous[d] # NoDate => core[d] = previous[d]

BuilderInv ==
  \A b \in Builder :
    /\ pc[b] # "idle" => now[b] <= clock
    /\ Busy(b) => job[b].date \in Date /\ status[job[b].date] # "ABSENT"
    /\ pc[b] = "store" /\ previous[job[b].date] # NoDate => job[b].base = previous[job[b].date]

BuildInv == TypeOK /\ ReadyIffStored /\ ReportInv /\ BuilderInv

-----------------------------------------------------------------------------
(* Liveness *)

\* Time passes while every builder sleeps: a tick takes none.
UrgentTick ==
  /\ \A b \in Builder : pc[b] = "idle" /\ clock < now[b]
  /\ Tick

\* The event loop runs every task that can go on; uploads and faults are free.
LiveSpec ==
  /\ Init /\ [][Step \/ UrgentTick \/ Horizon]_vars
  /\ WF_vars(UrgentTick)
  /\ \A b \in Builder : WF_vars(TickStep(b) \/ BuildStep(b))

Settled(d) ==
  \/ status[d] = "READY"
  \/ status[d] = "FAILED" /\ Exhausted(d)

\* Every completed cycle gets its report within Span time units, or the report
\* has failed as often as it may: no restart leaves it BUILDING.
BuiltWithin(Span) ==
  \A d \in Date : (cycle[d] = "completed" /\ clock + Span <= MaxTime) ~> Settled(d)

\* Every stored report gets its enrichment job, though the job is not part of
\* the transaction that stores it.
JobWithin(Span) ==
  \A d \in Date : (status[d] = "READY" /\ clock + Span <= MaxTime) ~> d \in jobs
=============================================================================
