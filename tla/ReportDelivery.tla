--------------------------- MODULE ReportDelivery ---------------------------
(***************************************************************************)
(* Telegram delivery of a report artifact: the table report_deliveries,    *)
(* the delivery half of the ReportScheduler tick and the /report command.  *)
(*                                                                         *)
(* A row is one delivery lifecycle PENDING -> CLAIMED -> DELIVERED or      *)
(* FAILED -> CLAIMED ...  An actor (a scheduler or one /report handler)    *)
(* claims a row in one short transaction, talks to Telegram outside of any *)
(* transaction, and records every accepted message in a transaction of its *)
(* own, each fenced by the token of the claim.  Every action is one        *)
(* transaction, one answer of Telegram or one failure, so the actors       *)
(* interleave exactly where the code awaits.                               *)
(***************************************************************************)
EXTENDS Integers, FiniteSets

CONSTANTS
  AutoRow,       \* automatic lifecycles, one per CORE or ENRICHED r1 artifact
  Handler,       \* runs of /report; each one creates the manual row of its name
  EnrichedRow,   \* the rows whose artifact is ENRICHED, the others are CORE
  BadRow,        \* the rows whose artifact bytes fail the size or hash check
  Worker,        \* report schedulers: one per bot process
  NoRow,         \* "no row": the job of an actor that delivers nothing
  NumParts,      \* summary messages that precede the document
  ClaimTTL,      \* report_delivery_claim_ttl_seconds
  SendTimeout,   \* report_delivery_send_timeout_seconds
  Backoff,       \* report_delivery_backoff_seconds
  MaxAttempts,   \* report_delivery_max_attempts
  BatchSize,     \* report_delivery_batch_size
  Poll,          \* report_scheduler_poll_seconds
  MaxLoadDelay,  \* environment: longest time from a claim to its first send
  MaxFaults,     \* bound: restarts and database errors outside of the send block
  MaxTime        \* bound: the horizon of the clock

Row == AutoRow \cup Handler
Actor == Worker \cup Handler
Part == 1..(NumParts + 1)      \* the summary messages, then the document
Document == NumParts + 1
NoTime == -1                   \* SQL NULL in a timestamp column

\* Settings validates the numbers and SendTimeout < ClaimTTL (settings.py).
ASSUME DeliveryAssumption ==
  /\ AutoRow \cap Handler = {} /\ Worker \cap Handler = {}
  /\ NoRow \notin Row
  /\ EnrichedRow \subseteq Row /\ BadRow \subseteq Row
  /\ NumParts \in Nat /\ MaxLoadDelay \in Nat /\ MaxFaults \in Nat /\ MaxTime \in Nat
  /\ SendTimeout \in Nat \ {0} /\ Backoff \in Nat \ {0} /\ MaxAttempts \in Nat \ {0}
  /\ BatchSize \in Nat \ {0} /\ Poll \in Nat \ {0}
  /\ ClaimTTL \in Nat /\ SendTimeout < ClaimTTL

VARIABLES
  clock,      \* the time of the database and of every process
  published,  \* automatic rows whose artifact has been committed
  id,         \* report_deliveries.id, 0 while the row does not exist
  status, token, claimedAt, attempts, nextRetry,   \* the lifecycle columns
  sent,       \* summary_sent_count
  doc,        \* document_message_id IS NOT NULL
  copies,     \* copies of each part that reached the chat (Telegram's state)
  pc, job,    \* what each actor does, and its claim
  now,        \* now_utc of a scheduler's tick; while idle, when its next tick starts
  phase,      \* "core" or "enriched" half of the tick
  todo,       \* delivery ids the scheduler has listed and not yet tried
  faults      \* faults so far (for the bound)

rowVars == <<id, status, token, claimedAt, attempts, nextRetry, sent, doc>>
claimVars == <<status, token, claimedAt, nextRetry>>
tickVars == <<now, phase, todo>>
vars == <<clock, published, rowVars, copies, pc, job, tickVars, faults>>

NoJob == [row |-> NoRow, tok |-> 0, part |-> 0, until |-> NoTime]
Job == [row: Row \cup {NoRow}, tok: Nat, part: Nat, until: Int]
Status == {"ABSENT", "PENDING", "CLAIMED", "DELIVERED", "FAILED"}
PC == {"idle", "missing", "stale", "list", "next",             \* schedulers
       "start", "claim", "done",                               \* handlers
       "load", "sending", "record", "complete", "fail"}        \* both

RowTypeOK ==
  /\ id \in [Row -> Nat]
  /\ status \in [Row -> Status]
  /\ token \in [Row -> Nat] /\ attempts \in [Row -> Nat] /\ sent \in [Row -> Nat]
  /\ claimedAt \in [Row -> Int] /\ nextRetry \in [Row -> Int]
  /\ doc \in [Row -> BOOLEAN]
  /\ copies \in [Row -> [Part -> Nat]]

ActorTypeOK == pc \in [Actor -> PC] /\ job \in [Actor -> Job]

TickTypeOK ==
  /\ now \in [Worker -> Nat]
  /\ phase \in [Worker -> {"core", "enriched"}]
  /\ todo \in [Worker -> SUBSET Row]

TypeOK ==
  /\ clock \in Nat /\ faults \in Nat /\ published \subseteq AutoRow
  /\ RowTypeOK /\ ActorTypeOK /\ TickTypeOK

\* An artifact may be older than the table: then its row is still missing.
Init ==
  /\ clock = 0 /\ faults = 0
  /\ published \in SUBSET AutoRow
  /\ id = [r \in Row |-> 0]
  /\ status = [r \in Row |-> "ABSENT"]
  /\ token = [r \in Row |-> 0] /\ attempts = [r \in Row |-> 0]
  /\ sent = [r \in Row |-> 0] /\ doc = [r \in Row |-> FALSE]
  /\ claimedAt = [r \in Row |-> NoTime] /\ nextRetry = [r \in Row |-> NoTime]
  /\ copies = [r \in Row |-> [p \in Part |-> 0]]
  /\ pc = [a \in Actor |-> IF a \in Worker THEN "idle" ELSE "start"]
  /\ job = [a \in Actor |-> NoJob]
  /\ now = [w \in Worker |-> 0]
  /\ phase = [w \in Worker |-> "core"]
  /\ todo = [w \in Worker |-> {}]

-----------------------------------------------------------------------------
(* Rows *)

\* A scheduler uses the time its tick began, a handler the present time.
Now(a) == IF a \in Worker THEN now[a] ELSE clock

\* PENDING, or FAILED with attempts left and no retry time in the future.
Due(r, t) ==
  \/ status[r] = "PENDING"
  \/ status[r] = "FAILED" /\ attempts[r] < MaxAttempts /\ nextRetry[r] <= t

\* Mutant: the limit is applied before the retry time and the attempts.
BatchOfOpen(t) ==
  LET open == {r \in Row : status[r] \in {"PENDING", "FAILED"}} IN
  {r \in open : Due(r, t) /\ Cardinality({q \in open : id[q] < id[r]}) < BatchSize}

\* The first BatchSize due rows by id, whatever their artifact kind.
Batch(t) ==
  {r \in Row : /\ Due(r, t)
               /\ Cardinality({q \in Row : Due(q, t) /\ id[q] < id[r]}) < BatchSize}

\* Mutant: a claim lasts no longer than the send block.
ClaimIsActiveTooShort(r, t) == claimedAt[r] # NoTime /\ t - claimedAt[r] < SendTimeout

\* _claim_is_active
ClaimIsActive(r, t) == claimedAt[r] # NoTime /\ t - claimedAt[r] < ClaimTTL

\* Mutant: the token is not compared.
FencedByStatus(a) == job[a].row \in Row /\ status[job[a].row] = "CLAIMED"

\* _is_fenced
Fenced(a) ==
  LET r == job[a].row IN
  r \in Row /\ status[r] = "CLAIMED" /\ token[r] = job[a].tok

Exhausted(r) == attempts[r] >= MaxAttempts

\* New rows take the next ids of the sequence, in any order within one commit.
Insert(S) ==
  /\ \E new \in [S -> 1..Cardinality(Row)] :
       /\ \A r \in S : new[r] = 1 + Cardinality({q \in Row : id[q] > 0})
                                  + Cardinality({q \in S : new[q] < new[r]})
       /\ \A r, q \in S : r # q => new[r] # new[q]
       /\ id' = [r \in Row |-> IF r \in S THEN new[r] ELSE id[r]]
  /\ status' = [r \in Row |-> IF r \in S THEN "PENDING" ELSE status[r]]

-----------------------------------------------------------------------------
(* Environment: artifacts, time, restarts *)

\* complete_report_build and complete_enrichment commit the artifact and its
\* automatic lifecycle in the same transaction.
Publish(r) ==
  /\ r \in AutoRow \ published
  /\ published' = published \cup {r}
  /\ Insert({r})
  /\ UNCHANGED <<clock, token, claimedAt, attempts, nextRetry, sent, doc, copies,
                 pc, job, tickVars, faults>>

\* asyncio.timeout ends the send block no later than its deadline, and a claim
\* is loaded within MaxLoadDelay.
Tick ==
  /\ clock < MaxTime
  /\ \A a \in Actor : \/ pc[a] \notin {"load", "sending", "record", "complete"}
                      \/ job[a].until = NoTime
                      \/ clock < job[a].until
  /\ clock' = clock + 1
  /\ UNCHANGED <<published, rowVars, copies, pc, job, tickVars, faults>>

\* What happens after the horizon is not explored.
Horizon == clock = MaxTime /\ UNCHANGED vars

\* The actor lets go of its claim in memory; the row keeps what is committed.
Release(a) ==
  /\ pc' = [pc EXCEPT ![a] = IF a \in Worker THEN "next" ELSE "done"]
  /\ job' = [job EXCEPT ![a] = NoJob]

\* The process dies, or stop() cancels the task: CancelledError is no
\* Exception, so nothing is written.  A scheduler starts anew, a handler is lost.
Restart(a) ==
  /\ faults < MaxFaults
  /\ pc[a] \notin {"idle", "start", "done"}
  /\ faults' = faults + 1
  /\ pc' = [pc EXCEPT ![a] = IF a \in Worker THEN "idle" ELSE "done"]
  /\ job' = [job EXCEPT ![a] = NoJob]
  /\ IF a \in Worker
       THEN /\ todo' = [todo EXCEPT ![a] = {}]
            /\ now' = [now EXCEPT ![a] = clock]
            /\ phase' = [phase EXCEPT ![a] = "core"]
       ELSE UNCHANGED tickVars
  /\ UNCHANGED <<clock, published, rowVars, copies>>

\* A database error outside of the send block leaves the row CLAIMED: run_once
\* logs it and goes on with the next id.
Fault(a) ==
  /\ faults < MaxFaults
  /\ \/ pc[a] \in {"load", "fail"}
     \/ pc[a] = "complete" /\ job[a].until = NoTime
  /\ faults' = faults + 1
  /\ Release(a)
  /\ UNCHANGED <<clock, published, rowVars, copies, tickVars>>

-----------------------------------------------------------------------------
(* The scheduler's tick *)

StartTick(w) ==
  /\ pc[w] = "idle" /\ clock >= now[w]
  /\ now' = [now EXCEPT ![w] = clock]
  /\ pc' = [pc EXCEPT ![w] = "missing"]
  /\ UNCHANGED <<clock, published, rowVars, copies, job, phase, todo, faults>>

\* recover_missing_automatic_deliveries.  An artifact is skipped while another
\* transaction inserts a row for it (SKIP LOCKED).
RecoverMissing(w) ==
  LET missing == {r \in published : status[r] = "ABSENT"}
      inserting == \E a \in Actor \ {w} : pc[a] \in {"missing", "start"} IN
  /\ pc[w] = "missing"
  /\ \E S \in SUBSET missing : (S = missing \/ inserting) /\ Insert(S)
  /\ pc' = [pc EXCEPT ![w] = "stale"]
  /\ UNCHANGED <<clock, published, token, claimedAt, attempts, nextRetry, sent, doc,
                 copies, job, tickVars, faults>>

\* Mutant: an expired claim gets a status the table does not know.
RecoverStaleExpired(w) ==
  /\ pc[w] = "stale"
  /\ status' = [r \in Row |-> IF status[r] = "CLAIMED" /\ ~ClaimIsActive(r, now[w])
                               THEN "EXPIRED" ELSE status[r]]
  /\ pc' = [pc EXCEPT ![w] = "list"]
  /\ UNCHANGED <<clock, published, id, token, claimedAt, attempts, nextRetry, sent, doc,
                 copies, job, tickVars, faults>>

\* Rows that a transaction of this moment may have locked (FOR UPDATE).
MayBeLocked(r) ==
  \/ \E a \in Actor : job[a].row = r /\ pc[a] \in {"record", "complete", "fail"}
  \/ \E w \in Worker : r \in todo[w]
  \/ r \in Handler /\ pc[r] = "claim"

\* recover_stale_claimed_deliveries: expired claims fail, progress is kept, and
\* locked rows are skipped (SKIP LOCKED).
RecoverStale(w) ==
  /\ pc[w] = "stale"
  /\ \E skipped \in SUBSET {r \in Row : MayBeLocked(r)} :
       LET stale == {r \in Row \ skipped : status[r] = "CLAIMED" /\ ~ClaimIsActive(r, now[w])}
       IN /\ status' = [r \in Row |-> IF r \in stale THEN "FAILED" ELSE status[r]]
          /\ token' = [r \in Row |-> IF r \in stale THEN 0 ELSE token[r]]
          /\ claimedAt' = [r \in Row |-> IF r \in stale THEN NoTime ELSE claimedAt[r]]
          /\ nextRetry' = [r \in Row |-> IF r \notin stale THEN nextRetry[r]
                                         ELSE IF Exhausted(r) THEN NoTime ELSE now[w]]
  /\ pc' = [pc EXCEPT ![w] = "list"]
  /\ UNCHANGED <<clock, published, id, attempts, sent, doc, copies, job, tickVars, faults>>

\* _split_due_deliveries keeps the batch's ids of the phase's kind.
ListDue(w) ==
  /\ pc[w] = "list"
  /\ todo' = [todo EXCEPT ![w] =
                {r \in Batch(now[w]) : (r \in EnrichedRow) <=> (phase[w] = "enriched")}]
  /\ pc' = [pc EXCEPT ![w] = "next"]
  /\ UNCHANGED <<clock, published, rowVars, copies, job, now, phase, faults>>

\* The list of the phase is exhausted: the enriched half, or the poll interval.
EndPhase(w) ==
  /\ pc[w] = "next" /\ todo[w] = {}
  /\ IF phase[w] = "core"
       THEN /\ phase' = [phase EXCEPT ![w] = "enriched"]
            /\ pc' = [pc EXCEPT ![w] = "missing"]
            /\ UNCHANGED now
       ELSE /\ phase' = [phase EXCEPT ![w] = "core"]
            /\ pc' = [pc EXCEPT ![w] = "idle"]
            /\ now' = [now EXCEPT ![w] = clock + Poll]
  /\ UNCHANGED <<clock, published, rowVars, copies, job, todo, faults>>

-----------------------------------------------------------------------------
(* One delivery: _deliver_one of the scheduler, handle_report of /report *)

\* claim_delivery of a due row r by actor a.
Claim(a, r) ==
  /\ Due(r, Now(a))
  /\ status' = [status EXCEPT ![r] = "CLAIMED"]
  /\ attempts' = [attempts EXCEPT ![r] = @ + 1]
  /\ token' = [token EXCEPT ![r] = attempts[r] + 1]    \* a fresh uuid4
  /\ claimedAt' = [claimedAt EXCEPT ![r] = clock]
  /\ nextRetry' = [nextRetry EXCEPT ![r] = NoTime]
  /\ job' = [job EXCEPT ![a] = [row |-> r, tok |-> attempts[r] + 1, part |-> 0,
                                until |-> clock + MaxLoadDelay]]
  /\ pc' = [pc EXCEPT ![a] = "load"]
  /\ UNCHANGED <<id, sent, doc>>

\* The scheduler tries the next id of its list, due or not any more.
ClaimNext(w) ==
  /\ pc[w] = "next"
  /\ \E r \in todo[w] :
       /\ \A q \in todo[w] : id[r] <= id[q]
       /\ todo' = [todo EXCEPT ![w] = @ \ {r}]
       /\ \/ Claim(w, r)
          \/ ~Due(r, now[w]) /\ UNCHANGED <<rowVars, job, pc>>
  /\ UNCHANGED <<clock, published, copies, now, phase, faults>>

\* /report resolved to a ready artifact: create_manual_delivery.
CreateManual(h) ==
  /\ pc[h] = "start" /\ published # {}
  /\ Insert({h})
  /\ pc' = [pc EXCEPT ![h] = "claim"]
  /\ UNCHANGED <<clock, published, token, claimedAt, attempts, nextRetry, sent, doc,
                 copies, job, tickVars, faults>>

ClaimManual(h) ==
  /\ pc[h] = "claim"
  /\ \/ Claim(h, h)
     \/ ~Due(h, clock) /\ Release(h) /\ UNCHANGED rowVars
  /\ UNCHANGED <<clock, published, copies, tickVars, faults>>

\* Mutant: the messages that have been recorded are sent again.
FirstPartAgain(r) == 1

\* Mutant: a retry sends only the document.
FirstPartOfRetry(r) == IF attempts[r] > 1 THEN Document ELSE 1

\* load_delivery_send_context: the first part that is not recorded.
FirstPart(r) == sent[r] + 1

\* Mutant: the scheduler ignores a recorded document, as /report does.
DocumentIsSentNever(a) == FALSE

\* document_already_sent: only the scheduler looks at it.
DocumentIsSent(a) == a \in Worker /\ doc[job[a].row]

\* load_delivery_send_context, then the checks before the send block.
Load(a) ==
  LET r == job[a].row IN
  /\ pc[a] = "load"
  /\ \/ /\ DocumentIsSent(a)
        /\ pc' = [pc EXCEPT ![a] = "complete"]
        /\ job' = [job EXCEPT ![a].until = NoTime]
     \/ /\ ~DocumentIsSent(a)
        /\ r \in BadRow
        /\ pc' = [pc EXCEPT ![a] = "fail"]
        /\ UNCHANGED job
     \/ /\ ~DocumentIsSent(a)
        /\ r \notin BadRow
        /\ pc' = [pc EXCEPT ![a] = "sending"]
        /\ job' = [job EXCEPT ![a].part = FirstPart(r),
                              ![a].until = clock + SendTimeout]
  /\ UNCHANGED <<clock, published, rowVars, copies, tickVars, faults>>

Receive(r, p) == copies' = [copies EXCEPT ![r][p] = copies[r][p] + 1]

\* Telegram accepts the part and the answer arrives in time.
SendOk(a) ==
  /\ pc[a] = "sending"
  /\ Receive(job[a].row, job[a].part)
  /\ pc' = [pc EXCEPT ![a] = "record"]
  /\ UNCHANGED <<clock, published, rowVars, job, tickVars, faults>>

\* Mutant: an error of Telegram is retried in the same attempt.
SendFailsInPlace(a) ==
  /\ pc[a] = "sending"
  /\ Receive(job[a].row, job[a].part)
  /\ UNCHANGED <<clock, published, rowVars, job, pc, tickVars, faults>>

\* An error of Telegram or of the network, or the send timeout: the part may
\* have been accepted all the same.
SendFails(a) ==
  /\ pc[a] = "sending"
  /\ Receive(job[a].row, job[a].part) \/ UNCHANGED copies
  /\ pc' = [pc EXCEPT ![a] = "fail"]
  /\ UNCHANGED <<clock, published, rowVars, job, tickVars, faults>>

\* record_summary_message_sent.  If the answer of the commit is lost (~ack),
\* the error is caught in the send block like one of Telegram.
RecordSummary(a) ==
  LET r == job[a].row IN
  /\ pc[a] = "record" /\ job[a].part < Document
  /\ \/ /\ Fenced(a)
        /\ sent' = [sent EXCEPT ![r] = @ + 1]
        /\ \E ack \in BOOLEAN :
             pc' = [pc EXCEPT ![a] = IF ack THEN "sending" ELSE "fail"]
        /\ job' = [job EXCEPT ![a].part = job[a].part + 1]
     \/ ~Fenced(a) /\ Release(a) /\ UNCHANGED sent
  /\ UNCHANGED <<clock, published, id, claimVars, attempts, doc, copies, tickVars, faults>>

\* record_document_sent: a document that is recorded already has another
\* message id, so the second record is refused.
RecordDocument(a) ==
  LET r == job[a].row IN
  /\ pc[a] = "record" /\ job[a].part = Document
  /\ \/ /\ Fenced(a) /\ ~doc[r]
        /\ doc' = [doc EXCEPT ![r] = TRUE]
        /\ \E ack \in BOOLEAN :
             pc' = [pc EXCEPT ![a] = IF ack THEN "complete" ELSE "fail"]
        /\ UNCHANGED job
     \/ ~(Fenced(a) /\ ~doc[r]) /\ Release(a) /\ UNCHANGED doc
  /\ UNCHANGED <<clock, published, id, claimVars, attempts, sent, copies, tickVars, faults>>

\* A transaction of the send block fails, or the answer to the user of /report about a
\* refused record, or the timeout hits them: nothing is committed and the delivery fails.
BlockFails(a) ==
  /\ pc[a] \in {"record", "complete"} /\ job[a].until # NoTime
  /\ pc' = [pc EXCEPT ![a] = "fail"]
  /\ UNCHANGED <<clock, published, rowVars, copies, job, tickVars, faults>>

\* complete_delivery
Complete(a) ==
  LET r == job[a].row IN
  /\ pc[a] = "complete"
  /\ IF Fenced(a) /\ doc[r]
       THEN /\ status' = [status EXCEPT ![r] = "DELIVERED"]
            /\ token' = [token EXCEPT ![r] = 0]
            /\ claimedAt' = [claimedAt EXCEPT ![r] = NoTime]
            /\ nextRetry' = [nextRetry EXCEPT ![r] = NoTime]
       ELSE UNCHANGED claimVars
  /\ Release(a)
  /\ UNCHANGED <<clock, published, id, attempts, sent, doc, copies, tickVars, faults>>

\* fail_delivery
Fail(a) ==
  LET r == job[a].row IN
  /\ pc[a] = "fail"
  /\ IF Fenced(a)
       THEN /\ status' = [status EXCEPT ![r] = "FAILED"]
            /\ token' = [token EXCEPT ![r] = 0]
            /\ claimedAt' = [claimedAt EXCEPT ![r] = NoTime]
            /\ nextRetry' = [nextRetry EXCEPT ![r] =
                 IF Exhausted(r) THEN NoTime ELSE Now(a) + Backoff * attempts[r]]
       ELSE UNCHANGED claimVars
  /\ Release(a)
  /\ UNCHANGED <<clock, published, id, attempts, sent, doc, copies, tickVars, faults>>

-----------------------------------------------------------------------------
TickStep(w) ==
  \/ StartTick(w) \/ RecoverMissing(w) \/ RecoverStale(w)
  \/ ListDue(w) \/ EndPhase(w) \/ ClaimNext(w)

ManualStep(h) == CreateManual(h) \/ ClaimManual(h)

DeliverStep(a) ==
  \/ Load(a) \/ SendOk(a) \/ SendFails(a)
  \/ RecordSummary(a) \/ RecordDocument(a) \/ BlockFails(a)
  \/ Complete(a) \/ Fail(a)

Step ==
  \/ \E w \in Worker : TickStep(w)
  \/ \E h \in Handler : ManualStep(h)
  \/ \E a \in Actor : DeliverStep(a) \/ Restart(a) \/ Fault(a)
  \/ \E r \in AutoRow : Publish(r)

Next == Step \/ Tick \/ Horizon

Spec == Init /\ [][Next]_vars

-----------------------------------------------------------------------------
(* Safety *)

\* What the row records has reached the chat: each counted summary message, the
\* document only after all of them, and DELIVERED only with the document.  It
\* rests on the fence of record_*, on loading the progress after the claim and
\* on recover_stale keeping it.
RecordedWasReceived ==
  \A r \in Row :
    /\ \A p \in Part : p <= sent[r] => copies[r][p] > 0
    /\ doc[r] => sent[r] = NumParts /\ copies[r][Document] > 0
    /\ status[r] = "DELIVERED" => doc[r]

\* Delivery is at-least-once, yet each attempt sends a part at most once: the
\* chat holds no more copies of a part than the row has had attempts.
CopiesBoundedByAttempts ==
  \A r \in Row, p \in Part : copies[r][p] <= attempts[r]

\* recover_stale_claimed_deliveries takes a claim from an actor that is sending
\* only if the send block began so late that it may outlast the claim: the reason
\* settings demand SendTimeout < ClaimTTL.
SendsUnderOwnClaim ==
  [][\A a \in Actor :
       (pc[a] = "sending" /\ pc'[a] = "sending" /\ Fenced(a) /\ ~Fenced(a)') =>
         job[a].until >= claimedAt[job[a].row] + ClaimTTL]_vars

\* What an actor sends while its claim is current.
Sends(a) == pc[a] = "sending" /\ copies' # copies /\ pc'[a] # "sending" /\ Fenced(a)

\* A summary message whose record is committed is not sent again under a current
\* claim, neither by a retry of the scheduler nor by /report
\* (load_delivery_send_context starts at summary_sent_count).
RecordedSummaryNotResent ==
  [][\A a \in Actor :
       Sends(a) /\ job[a].part < Document => job[a].part > sent[job[a].row]]_vars

\* Nor does the scheduler send a document again whose message id is committed
\* (_deliver_one completes a row with document_already_sent without a send).  A
\* /report handler may: with Actor for Worker the property is violated.
ScheduledDocumentNotResent ==
  [][\A w \in Worker : Sends(w) /\ job[w].part = Document => ~doc[job[w].row]]_vars

\* The inductive strengthening of TypeOK and RecordedWasReceived: no two actors
\* hold the same claim of a row, and the holder of the current claim is always
\* at the first part that is not recorded.
Busy(a) == pc[a] \in {"load", "sending", "record", "complete", "fail"}

ClaimInv ==
  /\ \A r \in Row : token[r] <= attempts[r]
  /\ \A a \in Actor : Busy(a) =>
       /\ job[a].row \in Row
       /\ 0 < job[a].tok /\ job[a].tok <= attempts[job[a].row]
  /\ \A a, b \in Actor :
       a # b /\ Busy(a) /\ Busy(b) /\ job[a].row = job[b].row => job[a].tok # job[b].tok

ProgressInv ==
  /\ \A r \in Row : sent[r] <= NumParts
  /\ \A a \in Actor : pc[a] \in {"sending", "record"} =>
       /\ job[a].part \in Part /\ job[a].part <= sent[job[a].row] + 1
       /\ Fenced(a) => job[a].part = sent[job[a].row] + 1
       /\ pc[a] = "record" => copies[job[a].row][job[a].part] > 0

ExistsInv ==
  /\ \A r \in AutoRow \ published : status[r] = "ABSENT"
  /\ \A h \in Handler : pc[h] = "start" => status[h] = "ABSENT"
  /\ \A a \in Actor : Busy(a) => status[job[a].row] # "ABSENT"

DeliveryInv == TypeOK /\ ClaimInv /\ ProgressInv /\ RecordedWasReceived /\ ExistsInv

\* The inductive strengthening of CopiesBoundedByAttempts: every claim of a row
\* that may still send a part is an attempt that has not sent it.
MaySend(a, p) ==
  \/ pc[a] = "load"
  \/ pc[a] = "sending" /\ job[a].part <= p
  \/ pc[a] = "record" /\ job[a].part < p

OpenClaims(r, p) == {job[a].tok : a \in {b \in Actor : job[b].row = r /\ MaySend(b, p)}}

CopiesInv ==
  \A r \in Row, p \in Part : copies[r][p] + Cardinality(OpenClaims(r, p)) <= attempts[r]

\* That of SendsUnderOwnClaim: no tick began in the future, a claim has its time,
\* and the timeout of a send block has not passed while it sends.
TimeInv ==
  /\ \A w \in Worker : pc[w] # "idle" => now[w] <= clock
  /\ \A r \in Row : status[r] = "CLAIMED" => claimedAt[r] # NoTime
  /\ \A a \in Actor : pc[a] \in {"sending", "record"} => clock <= job[a].until

\* That of ScheduledDocumentNotResent: what Load saw of the document stays true
\* while the claim is current.
DocumentInv ==
  \A w \in Worker : pc[w] \in {"sending", "record"} /\ Fenced(w) => ~doc[job[w].row]

SendInv == DeliveryInv /\ CopiesInv /\ TimeInv /\ DocumentInv

-----------------------------------------------------------------------------
(* Refinement and liveness *)

\* Each row promises what DeliveryPromise says of a parcel: the parts arrive in
\* order, and the outcome is delivered only when all of them have arrived.
outcome ==
  [r \in Row |-> IF status[r] = "ABSENT" THEN "none"
                 ELSE IF status[r] = "DELIVERED" THEN "delivered"
                 ELSE IF status[r] = "FAILED" /\ Exhausted(r) THEN "abandoned"
                 ELSE "open"]
seen == [r \in Row |-> {p \in Part : copies[r][p] > 0}]

Promise == INSTANCE DeliveryPromise WITH Parcel <- Row, LastPart <- Document
PromiseKept == Promise!Spec

\* Time passes only while every task waits: for Telegram, for the poll interval
\* or for a user.  Database transactions take no time.
UrgentTick ==
  /\ \A a \in Actor : pc[a] \in {"idle", "start", "done", "sending"}
  /\ \A w \in Worker : pc[w] = "idle" => clock < now[w]
  /\ Tick

\* The event loop runs every task that can go on; users and faults are free.
LiveSpec ==
  /\ Init /\ [][Step \/ UrgentTick \/ Horizon]_vars
  /\ WF_vars(UrgentTick)
  /\ \A w \in Worker : WF_vars(TickStep(w))
  /\ \A h \in Handler : WF_vars(ClaimManual(h))
  /\ \A a \in Actor : WF_vars(DeliverStep(a))

Settled(r) ==
  \/ status[r] = "DELIVERED"
  \/ status[r] = "FAILED" /\ Exhausted(r)

\* Every delivery is settled within Span time units: no restart, lost claim or
\* batch limit leaves it PENDING, CLAIMED or FAILED with attempts left.
SettlesWithin(Span) ==
  \A r \in Row : (status[r] = "PENDING" /\ clock + Span <= MaxTime) ~> Settled(r)
=============================================================================
