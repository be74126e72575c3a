--------------------------- MODULE IdleReminders ---------------------------
(***************************************************************************)
(* Reminders and expiry of idle cycles: the reminder columns of            *)
(* audit_cycles, idle_policy, idle_reminder_service and the tick of the    *)
(* IdleReminderScheduler.                                                  *)
(*                                                                         *)
(* A cycle that still collects is idle when nobody uploads.  A scheduler   *)
(* claims it, sends one reminder outside of any transaction and counts it  *)
(* when Telegram has accepted it; after MaxReminders and a grace period    *)
(* the cycle expires.  Every upload (AuditCycle) resets the series and     *)
(* takes the claim away from a scheduler that is just sending.             *)
(***************************************************************************)
EXTENDS Integers, FiniteSets

CONSTANTS
  Cycle,         \* audit cycles
  NoCycle,       \* "no cycle": the job of an idle scheduler
  Worker,        \* idle schedulers: one per bot process
  Idle,          \* audit_idle_timeout_seconds
  Interval,      \* audit_reminder_interval_seconds
  Grace,         \* audit_expire_grace_seconds
  MaxReminders,  \* audit_max_reminders
  ClaimTTL,      \* audit_reminder_claim_ttl_seconds
  SendTimeout,   \* audit_reminder_send_timeout_seconds
  Backoff,       \* audit_reminder_error_backoff_seconds
  Poll,          \* audit_scheduler_poll_seconds
  MaxFaults,     \* bound: restarts, failed sends and database errors
  MaxTime        \* bound: the horizon of the clock

\* Settings validates the numbers and SendTimeout < ClaimTTL (settings.py).
ASSUME ReminderAssumption ==
  /\ NoCycle \notin Cycle
  /\ Idle \in Nat \ {0} /\ Interval \in Nat \ {0} /\ Grace \in Nat
  /\ MaxReminders \in Nat \ {0} /\ Backoff \in Nat \ {0} /\ Poll \in Nat \ {0}
  /\ ClaimTTL \in Nat /\ SendTimeout \in Nat \ {0} /\ SendTimeout < ClaimTTL
  /\ MaxFaults \in Nat /\ MaxTime \in Nat

NoTime == -1     \* SQL NULL in a timestamp column

VARIABLES
  clock,      \* the time of the database and of every process
  status, activity,                           \* of each cycle: last_activity_at
  count, lastReminder, token, claimedAt,      \* its reminder columns
  claims,     \* how many claims there have been: a fresh token is the next one
  chat,       \* reminders the chat has received since the last activity
  pc, job,    \* what each scheduler does, and its claim
  now, todo,  \* of each scheduler's tick; while idle, now is when the next one starts
  backoff,    \* _backoff_until, in the memory of each scheduler
  faults      \* faults so far (for the bound)

seriesVars == <<count, lastReminder, token, claimedAt>>
cycleVars == <<status, activity, seriesVars, claims, chat>>
tickVars == <<now, todo>>
vars == <<clock, cycleVars, pc, job, tickVars, backoff, faults>>

Status == {"absent", "collecting", "completed", "expired"}
PC == {"idle", "list", "next", "expire", "claim", "recheck", "send", "record", "release"}
\* The claimed cycle, the reminder_count and the time of the claim; the deadline.
Job == [cycle: Cycle \cup {NoCycle}, tok: Nat, count: Nat, at: Int, until: Int]
NoJob == [cycle |-> NoCycle, tok |-> 0, count |-> 0, at |-> NoTime, until |-> NoTime]

CycleTypeOK ==
  /\ status \in [Cycle -> Status]
  /\ activity \in [Cycle -> Int] /\ lastReminder \in [Cycle -> Int]
  /\ claimedAt \in [Cycle -> Int]
  /\ count \in [Cycle -> Nat] /\ token \in [Cycle -> Nat]
  /\ chat \in [Cycle -> Nat] /\ claims \in Nat

TypeOK ==
  /\ clock \in Nat /\ faults \in Nat
  /\ CycleTypeOK
  /\ pc \in [Worker -> PC] /\ job \in [Worker -> Job]
  /\ now \in [Worker -> Nat] /\ todo \in [Worker -> SUBSET Cycle]
  /\ backoff \in [Worker -> [Cycle -> Nat]]

Init ==
  /\ clock = 0 /\ faults = 0 /\ claims = 0
  /\ status = [c \in Cycle |-> "absent"] /\ activity = [c \in Cycle |-> NoTime]
  /\ count = [c \in Cycle |-> 0] /\ lastReminder = [c \in Cycle |-> NoTime]
  /\ token = [c \in Cycle |-> 0] /\ claimedAt = [c \in Cycle |-> NoTime]
  /\ chat = [c \in Cycle |-> 0]
  /\ pc = [w \in Worker |-> "idle"] /\ job = [w \in Worker |-> NoJob]
  /\ now = [w \in Worker |-> 0] /\ todo = [w \in Worker |-> {}]
  /\ backoff = [w \in Worker |-> [c \in Cycle |-> 0]]

-----------------------------------------------------------------------------
(* Policy *)

\* Mutant: the interval runs from the last activity.
PauseFromActivity(c, t) ==
  IF count[c] = 0 THEN t - activity[c] >= Idle
  ELSE IF count[c] < MaxReminders THEN t - activity[c] >= Interval
  ELSE t - lastReminder[c] >= Grace

\* The cycle has been silent, or silent since its last reminder, for long enough.
Pause(c, t) ==
  IF count[c] = 0 THEN t - activity[c] >= Idle
  ELSE \/ lastReminder[c] = NoTime
       \/ t - lastReminder[c] >= (IF count[c] < MaxReminders THEN Interval ELSE Grace)

\* decide_idle_action
Remind(c, t) == count[c] < MaxReminders /\ Pause(c, t)
DueToExpire(c, t) == count[c] >= MaxReminders /\ Pause(c, t)

\* Mutant: a claim never expires.
ClaimIsActiveForEver(c, t) == token[c] # 0

\* _claim_is_active
ClaimIsActive(c, t) ==
  token[c] # 0 /\ claimedAt[c] # NoTime /\ t - claimedAt[c] < ClaimTTL

-----------------------------------------------------------------------------
(* Environment: uploads, time, restarts *)

\* Mutant: the count of reminders outlives an upload.
ResetClaimOnly(c) ==
  /\ token' = [token EXCEPT ![c] = 0]
  /\ claimedAt' = [claimedAt EXCEPT ![c] = NoTime]
  /\ UNCHANGED <<count, lastReminder>>

\* Mutant: the count becomes NULL.
ResetToNull(c) ==
  /\ count' = [count EXCEPT ![c] = NoTime]
  /\ lastReminder' = [lastReminder EXCEPT ![c] = NoTime]
  /\ token' = [token EXCEPT ![c] = 0]
  /\ claimedAt' = [claimedAt EXCEPT ![c] = NoTime]

\* _reset_reminder_series
ResetSeries(c) ==
  /\ count' = [count EXCEPT ![c] = 0]
  /\ lastReminder' = [lastReminder EXCEPT ![c] = NoTime]
  /\ token' = [token EXCEPT ![c] = 0]
  /\ claimedAt' = [claimedAt EXCEPT ![c] = NoTime]

\* A file is added, replaced or withdrawn: one transaction of AuditCycle, which
\* holds the row of the cycle, creates it at first and may complete it.
Activity(c) ==
  /\ \/ status[c] = "absent" /\ status' = [status EXCEPT ![c] = "collecting"]
     \/ /\ status[c] = "collecting"
        /\ \E to \in {"collecting", "completed"} : status' = [status EXCEPT ![c] = to]
  /\ activity' = [activity EXCEPT ![c] = clock]
  /\ ResetSeries(c)
  /\ chat' = [chat EXCEPT ![c] = 0]
  /\ UNCHANGED <<clock, claims, pc, job, tickVars, backoff, faults>>

\* A send ends no later than its deadline.
Tick ==
  /\ clock < MaxTime
  /\ \A w \in Worker : pc[w] = "send" => clock < job[w].until
  /\ clock' = clock + 1
  /\ UNCHANGED <<cycleVars, pc, job, tickVars, backoff, faults>>

\* What happens after the horizon is not explored.
Horizon == clock = MaxTime /\ UNCHANGED vars

Go(w, to) == pc' = [pc EXCEPT ![w] = to]

\* The scheduler lets go of its claim in memory and tries the next cycle.
Leave(w) == Go(w, "next") /\ job' = [job EXCEPT ![w] = NoJob]

\* The process dies, or stop() cancels the task: the claim stays in the row.
Restart(w) ==
  /\ faults < MaxFaults /\ pc[w] # "idle"
  /\ faults' = faults + 1
  /\ Go(w, "idle")
  /\ job' = [job EXCEPT ![w] = NoJob]
  /\ now' = [now EXCEPT ![w] = clock]
  /\ todo' = [todo EXCEPT ![w] = {}]
  /\ backoff' = [backoff EXCEPT ![w] = [c \in Cycle |-> 0]]
  /\ UNCHANGED <<clock, cycleVars>>

\* A database error: run_once logs it and goes on with the next cycle.
Fault(w) ==
  /\ faults < MaxFaults /\ pc[w] \in {"expire", "claim", "recheck", "record", "release"}
  /\ faults' = faults + 1
  /\ Leave(w)
  /\ UNCHANGED <<clock, cycleVars, tickVars, backoff>>

-----------------------------------------------------------------------------
(* The scheduler's tick *)

StartTick(w) ==
  /\ pc[w] = "idle" /\ clock >= now[w]
  /\ now' = [now EXCEPT ![w] = clock]
  /\ Go(w, "list")
  /\ UNCHANGED <<clock, cycleVars, job, todo, backoff, faults>>

\* list_collecting_cycle_ids
ListCollecting(w) ==
  /\ pc[w] = "list"
  /\ todo' = [todo EXCEPT ![w] = {c \in Cycle : status[c] = "collecting"}]
  /\ Go(w, "next")
  /\ UNCHANGED <<clock, cycleVars, job, now, backoff, faults>>

EndTick(w) ==
  /\ pc[w] = "next" /\ todo[w] = {}
  /\ now' = [now EXCEPT ![w] = clock + Poll]
  /\ Go(w, "idle")
  /\ UNCHANGED <<clock, cycleVars, job, todo, backoff, faults>>

\* _process_cycle of the next listed cycle, their order left open: the backoff,
\* then process_cycle_decision, which reads without a lock.
Peek(w) ==
  /\ pc[w] = "next"
  /\ \E c \in todo[w] :
       LET to == IF now[w] < backoff[w][c] \/ status[c] # "collecting" THEN "next"
                 ELSE IF Remind(c, now[w]) THEN "claim"
                 ELSE IF DueToExpire(c, now[w]) THEN "expire"
                 ELSE "next" IN
       /\ todo' = [todo EXCEPT ![w] = @ \ {c}]
       /\ Go(w, to)
       /\ job' = [job EXCEPT ![w] = IF to = "next" THEN NoJob ELSE [NoJob EXCEPT !.cycle = c]]
  /\ UNCHANGED <<clock, cycleVars, now, backoff, faults>>

\* expire_cycle_if_due decides anew with the row locked.  That the cycle is not
\* complete, which it checks as well, holds of every collecting cycle (AuditCycle).
Expire(w) ==
  LET c == job[w].cycle
      due == status[c] = "collecting" /\ ~ClaimIsActive(c, now[w]) /\ DueToExpire(c, now[w])
  IN
  /\ pc[w] = "expire"
  /\ IF due THEN /\ status' = [status EXCEPT ![c] = "expired"]
                 /\ token' = [token EXCEPT ![c] = 0]
                 /\ claimedAt' = [claimedAt EXCEPT ![c] = NoTime]
            ELSE UNCHANGED <<status, token, claimedAt>>
  /\ Leave(w)
  /\ UNCHANGED <<clock, activity, count, lastReminder, claims, chat, tickVars, backoff, faults>>

-----------------------------------------------------------------------------
(* One reminder *)

\* claim_reminder
Claim(w) ==
  LET c == job[w].cycle IN
  /\ pc[w] = "claim"
  /\ IF status[c] = "collecting" /\ ~ClaimIsActive(c, now[w]) /\ Remind(c, now[w])
       THEN /\ claims' = claims + 1
            /\ token' = [token EXCEPT ![c] = claims + 1]     \* a fresh uuid4
            /\ claimedAt' = [claimedAt EXCEPT ![c] = clock]
            /\ job' = [job EXCEPT ![w] = [cycle |-> c, tok |-> claims + 1, count |-> count[c],
                                          at |-> clock, until |-> NoTime]]
            /\ Go(w, "recheck")
       ELSE Leave(w) /\ UNCHANGED <<claims, token, claimedAt>>
  /\ UNCHANGED <<clock, status, activity, count, lastReminder, chat, tickVars, backoff, faults>>

\* Mutant: the time to send counts from the send.
DeadlineFromSend(w) == clock + SendTimeout

\* _send_with_retry: the send timeout counts from the start of the tick.
Deadline(w) == now[w] + (IF SendTimeout < ClaimTTL - 1 THEN SendTimeout ELSE ClaimTTL - 1)

\* claim_still_valid, and the send unless its time is over already.
Recheck(w) ==
  /\ pc[w] = "recheck"
  /\ IF status[job[w].cycle] = "collecting" /\ token[job[w].cycle] = job[w].tok
       THEN /\ job' = [job EXCEPT ![w].until = Deadline(w)]
            /\ Go(w, IF clock < Deadline(w) THEN "send" ELSE "release")
       ELSE Leave(w)
  /\ UNCHANGED <<clock, cycleVars, tickVars, backoff, faults>>

Receive(c) == chat' = [chat EXCEPT ![c] = @ + 1]

\* Telegram accepts the reminder, at once or after one RetryAfter.
SendOk(w) ==
  /\ pc[w] = "send"
  /\ Receive(job[w].cycle)
  /\ Go(w, "record")
  /\ UNCHANGED <<clock, status, activity, seriesVars, claims, job, tickVars, backoff, faults>>

\* Mutant: a reminder counts whether Telegram accepts it or not.
SendFailsAsSent(w) ==
  /\ faults < MaxFaults /\ pc[w] = "send"
  /\ faults' = faults + 1
  /\ Go(w, "record")
  /\ UNCHANGED <<clock, cycleVars, job, tickVars, backoff>>

\* Telegram refuses, or the deadline cuts the send off; the reminder may have
\* been accepted all the same.
SendFails(w) ==
  /\ faults < MaxFaults /\ pc[w] = "send"
  /\ faults' = faults + 1
  /\ Receive(job[w].cycle) \/ UNCHANGED chat
  /\ Go(w, "release")
  /\ UNCHANGED <<clock, status, activity, seriesVars, claims, job, tickVars, backoff>>

\* The claim is still the scheduler's.
Own(w) == token[job[w].cycle] = job[w].tok

\* record_successful_reminder: nothing is counted after an upload.
Record(w) ==
  LET c == job[w].cycle
      counts == status[c] = "collecting" /\ Own(w) /\ count[c] = job[w].count
  IN
  /\ pc[w] = "record"
  /\ IF counts THEN /\ count' = [count EXCEPT ![c] = @ + 1]
                    /\ lastReminder' = [lastReminder EXCEPT ![c] = clock]
                    /\ token' = [token EXCEPT ![c] = 0]
                    /\ claimedAt' = [claimedAt EXCEPT ![c] = NoTime]
                    /\ backoff' = [backoff EXCEPT ![w][c] = 0]
               ELSE UNCHANGED <<seriesVars, backoff>>
  /\ Leave(w)
  /\ UNCHANGED <<clock, status, activity, claims, chat, tickVars, faults>>

\* release_reminder_claim, then the backoff.  A longer retry_after is left out.
Release(w) ==
  LET c == job[w].cycle IN
  /\ pc[w] = "release"
  /\ IF Own(w) THEN /\ token' = [token EXCEPT ![c] = 0]
                    /\ claimedAt' = [claimedAt EXCEPT ![c] = NoTime]
               ELSE UNCHANGED <<token, claimedAt>>
  /\ backoff' = [backoff EXCEPT ![w][c] = now[w] + Backoff]
  /\ Leave(w)
  /\ UNCHANGED <<clock, status, activity, count, lastReminder, claims, chat, tickVars, faults>>

-----------------------------------------------------------------------------
WorkerStep(w) ==
  \/ StartTick(w) \/ ListCollecting(w) \/ EndTick(w) \/ Peek(w) \/ Expire(w)
  \/ Claim(w) \/ Recheck(w) \/ SendOk(w) \/ Record(w) \/ Release(w)

Step ==
  \/ \E c \in Cycle : Activity(c)
  \/ \E w \in Worker : WorkerStep(w) \/ SendFails(w) \/ Restart(w) \/ Fault(w)

Next == Step \/ Tick \/ Horizon

Spec == Init /\ [][Next]_vars

-----------------------------------------------------------------------------
(* Safety *)

\* Every counted reminder has reached the chat since the last upload: a failed
\* send, or one for a series that an upload has ended, is not counted.
CountedWasReceived == \A c \in Cycle : count[c] <= chat[c]

\* A scheduler that sends holds the claim, unless an upload has taken it away
\* since: the deadline, which counts from the start of the tick, ends the send
\* before another scheduler may claim the cycle.
SenderKeepsClaim ==
  \A w \in Worker : pc[w] = "send" =>
    LET c == job[w].cycle IN
    \/ Own(w) /\ ClaimIsActive(c, clock)
    \/ activity[c] >= job[w].at

\* Reminders are counted no faster than the policy says, whoever sends them.
RemindersSpaced ==
  [][\A c \in Cycle : count'[c] > count[c] =>
       /\ count'[c] = count[c] + 1
       /\ IF count[c] = 0 THEN clock - activity[c] >= Idle
          ELSE clock - lastReminder[c] >= Interval]_vars

\* A cycle expires only after all its reminders have reached the chat and nobody
\* has uploaded for the whole series and the grace period.
ExpiredWasWarned ==
  [][\A c \in Cycle : status'[c] = "expired" /\ status[c] # "expired" =>
       /\ status[c] = "collecting"
       /\ chat[c] >= MaxReminders
       /\ clock - activity[c] >= Idle + (MaxReminders - 1) * Interval + Grace]_vars

\* The inductive strengthening of the above: the series of a cycle is as long as
\* the pauses between its reminders say, no two schedulers hold the same claim, and
\* whoever holds the current one may still count a reminder.
Busy(w) == pc[w] \in {"recheck", "send", "record", "release"}

SeriesInv ==
  \A c \in Cycle :
    /\ token[c] <= claims /\ activity[c] <= clock
    /\ count[c] <= chat[c] /\ count[c] <= MaxReminders
    /\ count[c] > 0 => /\ lastReminder[c] # NoTime
                       /\ lastReminder[c] - activity[c] >= Idle + (count[c] - 1) * Interval

HolderOK(w) ==
  /\ pc[w] # "idle" => now[w] <= clock
  /\ pc[w] \in {"expire", "claim"} \/ Busy(w) => job[w].cycle \in Cycle
  /\ Busy(w) => /\ 0 < job[w].tok /\ job[w].tok <= claims
                /\ now[w] <= job[w].at /\ job[w].at <= clock

HolderInv ==
  /\ \A w \in Worker : HolderOK(w)
  /\ \A v, w \in Worker : v # w /\ Busy(v) /\ Busy(w) => job[v].tok # job[w].tok

OwnerOK(w) ==
  LET c == job[w].cycle IN
  /\ Busy(w) /\ Own(w) => /\ claimedAt[c] = job[w].at
                          /\ count[c] < MaxReminders
                          /\ Pause(c, clock)
  /\ pc[w] = "send" => /\ job[w].until = Deadline(w) /\ clock <= job[w].until
                       /\ Own(w) \/ activity[c] >= job[w].at
  /\ pc[w] = "record" /\ Own(w) => chat[c] > count[c]

OwnerInv == \A w \in Worker : OwnerOK(w)

ReminderInv == TypeOK /\ SeriesInv /\ HolderInv /\ OwnerInv

-----------------------------------------------------------------------------
(* Liveness *)

\* Time passes while every scheduler sleeps or waits for Telegram.
UrgentTick ==
  /\ \A w \in Worker : pc[w] = "send" \/ (pc[w] = "idle" /\ clock < now[w])
  /\ Tick

\* The event loop runs every task that can go on; uploads and faults are free,
\* but no more than MaxFaults sends fail.
LiveSpec ==
  /\ Init /\ [][Step \/ UrgentTick \/ Horizon]_vars
  /\ WF_vars(UrgentTick)
  /\ \A w \in Worker : WF_vars(WorkerStep(w))

\* A cycle that nobody touches is over within Span time units: no restart leaves
\* a claim that keeps it from being reminded and expired.
SilentCycleEnds(Span) ==
  \A c \in Cycle : \A t \in 0..(MaxTime - Span) :
    (status[c] = "collecting" /\ activity[c] = t)
      ~> (status[c] # "collecting" \/ activity[c] # t)
=============================================================================
