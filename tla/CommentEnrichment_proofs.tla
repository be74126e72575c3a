---------------------- MODULE CommentEnrichment_proofs -----------------------
(***************************************************************************)
(* Proofs about CommentEnrichment, for every set of reports and comments,  *)
(* every number of workers with whatever settings, and every setting of    *)
(* the times that Settings accepts.                                        *)
(***************************************************************************)
EXTENDS CommentEnrichment, SetFacts

-----------------------------------------------------------------------------
(* Operators *)

\* The least of a set of naturals is a member of it.
LEMMA MinIsMember ==
  ASSUME NEW S \in SUBSET Nat, S # {}
  PROVE  Min(S) \in S
<1>1. \E x \in S : \A y \in S : x <= y
  BY LeastNatural
<1> QED
  BY <1>1 DEF Min

\* The greatest revision of a report with n workbooks is n.
LEMMA MaxOfInterval ==
  ASSUME NEW n \in Nat
  PROVE  Max((1 .. n) \cup {0}) = n
<1> DEFINE S == (1 .. n) \cup {0}
<1>1. n \in S /\ \A y \in S : n >= y
  OBVIOUS
<1>2. Max(S) \in S /\ \A y \in S : Max(S) >= y
  BY <1>1 DEF Max
<1>3. \A y \in S : y \in Int
  OBVIOUS
<1>4. ASSUME NEW T, n \in T, \A y \in T : n >= y /\ y \in Int,
             NEW m \in T, \A y \in T : m >= y
      PROVE  m = n
  BY <1>4
<1>5. Max(S) = n
  BY <1>1, <1>2, <1>3, <1>4
<1> QED
  BY <1>5

\* There are as many jobs as reports and versions.
LEMMA JobsAreFinite == IsFiniteSet(Job)
BY EnrichmentAssumption, FS_Product DEF Job

\* A job is a report and a version.
LEMMA JobParts ==
  ASSUME NEW j \in Job
  PROVE  ReportOf(j) \in Report /\ VersionOf(j) \in Version
BY DEF Job, ReportOf, VersionOf

\* The loop over the comments stops at one that is not done, with its result when it
\* needs no answer, or goes on to the workbook when all are done.
LEMMA NextCommentEffect ==
  ASSUME NEW w \in Worker, NEW claim \in Claim, NextComment(w, claim)
  PROVE  \E p \in {"build", "ask", "record"}, k \in Claim :
           /\ pc' = [pc EXCEPT ![w] = p] /\ job' = [job EXCEPT ![w] = k]
           /\ k.id = claim.id /\ k.tok = claim.tok /\ k.done = claim.done
           /\ p = "build" => Commented[ReportOf(claim.id)] \subseteq claim.done
           /\ p \in {"ask", "record"} =>
                k.comment \in Commented[ReportOf(claim.id)] \ claim.done
           /\ p = "record" => k.result # "unread"
<1> DEFINE left == Commented[ReportOf(claim.id)] \ claim.done
           c == Min(left)
           result == IF c \in Clear THEN "parsed"
                     ELSE IF <<w, VersionOf(claim.id)>> \in Keyed THEN "unread" ELSE "nokey"
<1>1. CASE left = {}
  <2> DEFINE k == [claim EXCEPT !.comment = 0, !.result = "unread"]
  <2>1. k \in Claim /\ k.id = claim.id /\ k.tok = claim.tok /\ k.done = claim.done
    BY DEF Claim
  <2>2. pc' = [pc EXCEPT ![w] = "build"] /\ job' = [job EXCEPT ![w] = k]
    BY <1>1 DEF NextComment, Go
  <2> HIDE DEF k
  <2> QED
    BY <1>1, <2>1, <2>2
<1>2. CASE left # {}
  <2> DEFINE k == [claim EXCEPT !.comment = c, !.result = result]
             p == IF result = "unread" THEN "ask" ELSE "record"
  <2>1. ReportOf(claim.id) \in Report
    BY JobParts DEF Claim
  <2>2. left \subseteq Comment /\ left \subseteq Nat
    BY <2>1, EnrichmentAssumption
  <2>3. c \in left
    BY <1>2, <2>2, MinIsMember
  <2>4. result \in Result \cup {"unread"}
    BY DEF Result
  <2>5. k \in Claim
    BY <2>2, <2>3, <2>4 DEF Claim
  <2>6. k.id = claim.id /\ k.tok = claim.tok /\ k.done = claim.done /\ k.comment = c
        /\ k.result = result
    BY DEF Claim
  <2>7. pc' = [pc EXCEPT ![w] = p] /\ job' = [job EXCEPT ![w] = k]
    BY <1>2 DEF NextComment, Go
  <2>8. p \in {"ask", "record"} /\ (p = "record" => result # "unread")
    OBVIOUS
  <2> HIDE DEF k, p, result, c
  <2> QED
    BY <2>3, <2>5, <2>6, <2>7, <2>8
<1> QED
  BY <1>1, <1>2

\* A retry is due after the time of the failure, and only within the budget.
LEMMA RetryType ==
  ASSUME JobTypeOK, NEW j \in Job, NEW t \in Nat
  PROVE  RetryAt(j, t) \in Int /\ (RetryAt(j, t) # NoTime => attempts[j] < MaxAttempts)
<1>1. attempts[j] \in Nat /\ attempts[j] <= MaxAttempts /\ MaxAttempts \in Nat /\ Backoff \in Nat
  BY EnrichmentAssumption DEF JobTypeOK, PositiveSettings
<1>2. Backoff * attempts[j] \in Int
  BY <1>1
<1> QED
  BY <1>1, <1>2 DEF RetryAt, Exhausted, NoTime

-----------------------------------------------------------------------------
(* Types *)

\* The part of the types about workers and time, and the part about rows.
WorkerTypeOK ==
  /\ clock \in Nat /\ faults \in Nat /\ reopened \in Nat /\ ready \subseteq Report
  /\ pc \in [Worker -> PC] /\ job \in [Worker -> Claim \cup {NoClaim}]
  /\ now \in [Worker -> Nat] /\ stall \in [Worker -> Nat]
  /\ reports \in [Worker -> SUBSET Report] /\ todo \in [Worker -> SUBSET Job]

RowTypeOK ==
  /\ JobTypeOK
  /\ \A j \in Job :
       /\ status[j] = "ABSENT" <=> rowId[j] = 0
       /\ status[j] = "CLAIMED" <=> claimedAt[j] # NoTime
       /\ nextRetry[j] # NoTime => status[j] = "FAILED" /\ attempts[j] < MaxAttempts

\* The steps that change no row.
Memory(w) ==
  \/ StartTick(w) \/ ListDue(w) \/ EndTick(w) \/ TickFails(w) \/ Load(w) \/ Answered(w)
  \/ Build(w) \/ Store(w) \/ GiveUp(w) \/ Stall(w) \/ Restart(w)

\* What these steps leave alone.
LEMMA MemoryFrame ==
  ASSUME NEW w \in Worker, Memory(w)
  PROVE  UNCHANGED <<clock, ready, rowId, status, claims, claimedAt, attempts, nextRetry,
                     reopened, analysis, artifacts, queued>>
BY DEF Memory, StartTick, ListDue, EndTick, TickFails, Load, Answered, Build, Store, GiveUp,
       Stall, Restart, jobVars, claimVars, resultVars

\* A worker whose claim ends has none.
LEMMA ReleaseEffect ==
  ASSUME TypeOK, NEW w \in Worker, Release(w)
  PROVE  /\ pc' = [pc EXCEPT ![w] = "next"] /\ job' = [job EXCEPT ![w] = NoClaim]
         /\ pc' \in [Worker -> PC] /\ job' \in [Worker -> Claim \cup {NoClaim}]
BY DEF Release, Go, TypeOK, PC

\* A worker that goes on to another statement has its program counter in the type.
LEMMA GoType ==
  ASSUME TypeOK, NEW w \in Worker, NEW p \in PC, Go(w, p)
  PROVE  pc' \in [Worker -> PC] /\ pc'[w] = p
BY DEF Go, TypeOK

\* A worker that runs a job has a claim in memory.
LEMMA ClaimOfBusy ==
  ASSUME HolderInv, NEW w \in Worker, Busy(w)
  PROVE  /\ job[w] \in Claim /\ job[w].id \in Job
         /\ job[w].tok \in Nat /\ 0 < job[w].tok /\ job[w].tok <= claims[job[w].id]
BY DEF HolderInv, HolderOK, Claim

\* The comment that a worker is about to record is one of the comments of its report.
LEMMA CommentAtHand ==
  ASSUME HolderInv, RunInv, NEW w \in Worker, pc[w] = "record"
  PROVE  /\ job[w].comment \in Comment /\ job[w].comment \in Commented[ReportOf(job[w].id)]
         /\ job[w].comment \notin job[w].done
         /\ job[w].result \in Result /\ job[w].result # "unread"
<1>1. job[w] \in Claim /\ job[w].id \in Job
  BY ClaimOfBusy DEF Busy
<1>2. Commented[ReportOf(job[w].id)] \subseteq Comment
  BY <1>1, JobParts, EnrichmentAssumption
<1>3. job[w].comment \in Commented[ReportOf(job[w].id)] \ job[w].done /\ job[w].result # "unread"
  BY DEF RunInv, RunOK
<1> QED
  BY <1>1, <1>2, <1>3 DEF Claim

\* The workbooks of a report are finitely many.
LEMMA ArtifactsFinite ==
  ASSUME ArtifactInv, NEW r
  PROVE  IsFiniteSet(ArtifactsOf(r)) /\ Cardinality(ArtifactsOf(r)) \in Nat
<1>1. ArtifactsOf(r) \subseteq artifacts /\ IsFiniteSet(artifacts)
  BY DEF ArtifactsOf, ArtifactInv
<1> QED
  BY <1>1, FS_Subset, FS_CardinalityType

\* complete_enrichment goes on with the revision after those there are, or it ends.
LEMMA StoreEffect ==
  ASSUME TypeOK, HolderInv, ArtifactInv, NEW w \in Worker, Store(w)
  PROVE  \/ Release(w)
         \/ Go(w, "fail") /\ UNCHANGED job
         \/ /\ Go(w, "commit") /\ Fenced(w) /\ ~ReportLocked(ReportOf(job[w].id))
            /\ Cardinality(ArtifactsOf(ReportOf(job[w].id))) \in Nat
            /\ job' = [job EXCEPT ![w].revision =
                         Cardinality(ArtifactsOf(ReportOf(job[w].id))) + 1]
<1> DEFINE r == ReportOf(job[w].id)
           n == Cardinality(ArtifactsOf(r))
<1>1. r \in Report
  BY ClaimOfBusy, JobParts DEF Store, Busy
<1>2. n \in Nat /\ {a.revision : a \in ArtifactsOf(r)} = 1 .. n
  BY <1>1, ArtifactsFinite DEF ArtifactInv
<1>3. Max({a.revision : a \in ArtifactsOf(r)} \cup {0}) = n
  BY <1>2, MaxOfInterval
<1> QED
  BY <1>2, <1>3 DEF Store

\* Every local variable of a worker stays in its type.
LEMMA WorkerTypeStep ==
  ASSUME TypeOK, HolderInv, RunInv, ArtifactInv, [Next]_vars
  PROVE  WorkerTypeOK'
<1> USE DEF TypeOK, vars, jobVars, claimVars, resultVars, workerVars, tickVars
<1>a. /\ Poll \in Nat /\ RunTimeout \in Nat /\ MaxStall \in Nat
      /\ \A w \in Worker : now[w] \in Nat
  BY EnrichmentAssumption DEF PositiveSettings
<1>1. ASSUME NEW r \in Report, CoreReady(r)  PROVE WorkerTypeOK'
  BY <1>1 DEF CoreReady, WorkerTypeOK
<1>2. ASSUME NEW j \in Job, Reopen(j)  PROVE WorkerTypeOK'
  BY <1>2 DEF Reopen, WorkerTypeOK
<1>3. CASE Tick \/ UNCHANGED vars
  BY <1>3 DEF Tick, WorkerTypeOK
<1>4. ASSUME NEW w \in Worker, Stall(w)  PROVE WorkerTypeOK'
  <2>1. stall' \in [Worker -> Nat]
    BY <1>4, <1>a DEF Stall
  <2> QED
    BY <1>4, <2>1 DEF Stall, WorkerTypeOK
<1>5. ASSUME NEW w \in Worker, Restart(w)  PROVE WorkerTypeOK'
  <2>1. pc' \in [Worker -> PC]
    BY <1>5, GoType DEF Restart, PC
  <2>2. job' \in [Worker -> Claim \cup {NoClaim}]
    BY <1>5 DEF Restart
  <2>3. /\ now' \in [Worker -> Nat] /\ stall' \in [Worker -> Nat]
        /\ reports' \in [Worker -> SUBSET Report] /\ todo' \in [Worker -> SUBSET Job]
    BY <1>5 DEF Restart
  <2> QED
    BY <1>5, <2>1, <2>2, <2>3 DEF Restart, WorkerTypeOK
<1>6. ASSUME NEW w \in Worker, StartTick(w)  PROVE WorkerTypeOK'
  <2>1. pc' \in [Worker -> PC] /\ now' \in [Worker -> Nat] /\ reports' \in [Worker -> SUBSET Report]
    BY <1>6, GoType DEF StartTick, PC
  <2> QED
    BY <1>6, <2>1 DEF StartTick, WorkerTypeOK
<1>7. ASSUME NEW w \in Worker, Enqueue(w)  PROVE WorkerTypeOK'
  <2>1. pc' \in [Worker -> PC] /\ reports' \in [Worker -> SUBSET Report]
    BY <1>7, GoType DEF Enqueue, PC
  <2> QED
    BY <1>7, <2>1 DEF Enqueue, WorkerTypeOK
<1>8. ASSUME NEW w \in Worker, RecoverStale(w)  PROVE WorkerTypeOK'
  <2>1. pc' \in [Worker -> PC]
    BY <1>8, GoType DEF RecoverStale, PC
  <2> QED
    BY <1>8, <2>1 DEF RecoverStale, WorkerTypeOK
<1>9. ASSUME NEW w \in Worker, ListDue(w)  PROVE WorkerTypeOK'
  <2>1. pc' \in [Worker -> PC]
    BY <1>9, GoType DEF ListDue, PC
  <2>2. DueJobs(now[w]) \subseteq Job
    BY DEF DueJobs
  <2>3. todo' \in [Worker -> SUBSET Job]
    BY <1>9, <2>2 DEF ListDue
  <2> QED
    BY <1>9, <2>1, <2>3 DEF ListDue, WorkerTypeOK
<1>10. ASSUME NEW w \in Worker, ClaimNext(w)  PROVE WorkerTypeOK'
  <2>1. PICK j \in Job :
          /\ todo' = [todo EXCEPT ![w] = @ \ {j}]
          /\ \/ /\ job' = [job EXCEPT ![w] =
                     [id |-> j, tok |-> claims[j] + 1, deadline |-> 0, done |-> {}, comment |-> 0,
                      result |-> "unread", content |-> Unread, revision |-> 0]]
                /\ Go(w, "load")
             \/ UNCHANGED <<job, pc>>
    BY <1>10 DEF ClaimNext
  <2>2. [id |-> j, tok |-> claims[j] + 1, deadline |-> 0, done |-> {}, comment |-> 0,
         result |-> "unread", content |-> Unread, revision |-> 0] \in Claim
    <3>1. claims[j] + 1 \in Nat
      BY DEF JobTypeOK
    <3> QED
      BY <3>1 DEF Claim, Unread
  <2>3. job' \in [Worker -> Claim \cup {NoClaim}] /\ todo' \in [Worker -> SUBSET Job]
    BY <2>1, <2>2
  <2>4. pc' \in [Worker -> PC]
    BY <2>1, GoType DEF PC
  <2> QED
    BY <1>10, <2>3, <2>4 DEF ClaimNext, WorkerTypeOK
<1>11. ASSUME NEW w \in Worker, EndTick(w)  PROVE WorkerTypeOK'
  <2>1. pc' \in [Worker -> PC]
    BY <1>11, GoType DEF EndTick, PC
  <2>2. now' \in [Worker -> Nat]
    BY <1>11, <1>a DEF EndTick
  <2> QED
    BY <1>11, <2>1, <2>2 DEF EndTick, WorkerTypeOK
<1>12. ASSUME NEW w \in Worker, TickFails(w)  PROVE WorkerTypeOK'
  <2>1. pc' \in [Worker -> PC]
    BY <1>12, GoType DEF TickFails, PC
  <2>2. now' \in [Worker -> Nat]
    BY <1>12, <1>a DEF TickFails
  <2>3. reports' \in [Worker -> SUBSET Report] /\ todo' \in [Worker -> SUBSET Job]
    BY <1>12 DEF TickFails
  <2> QED
    BY <1>12, <2>1, <2>2, <2>3 DEF TickFails, WorkerTypeOK
<1>13. ASSUME NEW w \in Worker, NEW p \in {"build", "ask", "record"}, NEW k \in Claim,
              pc' = [pc EXCEPT ![w] = p], job' = [job EXCEPT ![w] = k]
       PROVE  pc' \in [Worker -> PC] /\ job' \in [Worker -> Claim \cup {NoClaim}]
  BY <1>13 DEF PC
<1>14. ASSUME NEW w \in Worker, Load(w)  PROVE WorkerTypeOK'
  <2>1. job[w] \in Claim /\ job[w].id \in Job
    BY <1>14, ClaimOfBusy DEF Load, Busy
  <2>2. clock + RunTimeout \in Nat /\ Recorded(job[w].id) \in SUBSET Comment
    BY <1>a DEF Recorded
  <2>3. [job[w] EXCEPT !.deadline = clock + RunTimeout, !.done = Recorded(job[w].id)] \in Claim
    BY <2>1, <2>2 DEF Claim
  <2>4. pc' \in [Worker -> PC] /\ job' \in [Worker -> Claim \cup {NoClaim}]
    <3>1. CASE Go(w, "fail") /\ UNCHANGED job
      BY <3>1, GoType DEF PC
    <3>2. CASE NextComment(w, [job[w] EXCEPT !.deadline = clock + RunTimeout,
                                             !.done = Recorded(job[w].id)])
      BY <2>3, <3>2, <1>13, NextCommentEffect
    <3> QED
      BY <1>14, <3>1, <3>2 DEF Load
  <2> QED
    BY <1>14, <2>4 DEF Load, WorkerTypeOK
<1>15. ASSUME NEW w \in Worker, Answered(w)  PROVE WorkerTypeOK'
  <2>1. job[w] \in Claim
    BY <1>15, ClaimOfBusy DEF Answered, Busy
  <2>2. pc' \in [Worker -> PC]
    BY <1>15, GoType DEF Answered, PC
  <2>3. ASSUME NEW r \in Answer \cup {"refused"}  PROVE [job[w] EXCEPT !.result = r] \in Claim
    BY <2>1, <2>3 DEF Claim, Result
  <2>4. job' \in [Worker -> Claim \cup {NoClaim}]
    BY <1>15, <2>3 DEF Answered
  <2> QED
    BY <1>15, <2>2, <2>4 DEF Answered, WorkerTypeOK
<1>16. ASSUME NEW w \in Worker, Record(w)  PROVE WorkerTypeOK'
  <2>1. job[w] \in Claim /\ job[w].id \in Job
    BY <1>16, ClaimOfBusy DEF Record, Busy
  <2>2. pc' \in [Worker -> PC] /\ job' \in [Worker -> Claim \cup {NoClaim}]
    <3>1. CASE Go(w, "fail") /\ UNCHANGED job
      BY <3>1, GoType DEF PC
    <3>2. CASE ~Conflict(w) /\ NextComment(w, [job[w] EXCEPT !.done = @ \cup {job[w].comment}])
      <4>1. job[w].done \cup {job[w].comment} \in SUBSET Comment
        BY <1>16, <2>1, CommentAtHand DEF Record, Claim
      <4>2. [job[w] EXCEPT !.done = @ \cup {job[w].comment}] \in Claim
        BY <2>1, <4>1 DEF Claim
      <4> QED
        BY <3>2, <4>2, <1>13, NextCommentEffect
    <3> QED
      BY <1>16, <3>1, <3>2 DEF Record
  <2> QED
    BY <1>16, <2>2 DEF Record, WorkerTypeOK
<1>17. ASSUME NEW w \in Worker, RecordFails(w)  PROVE WorkerTypeOK'
  <2>1. pc' \in [Worker -> PC]
    BY <1>17, GoType DEF RecordFails, PC
  <2> QED
    BY <1>17, <2>1 DEF RecordFails, Interrupted, WorkerTypeOK
<1>18. ASSUME NEW w \in Worker, Build(w)  PROVE WorkerTypeOK'
  <2>1. pc' \in [Worker -> PC]
    BY <1>18, GoType DEF Build, PC
  <2>2. job[w] \in Claim /\ job[w].id \in Job
    BY <1>18, ClaimOfBusy DEF Build, Busy
  <2>3. [job[w] EXCEPT !.content = analysis[job[w].id]] \in Claim
    BY <2>2 DEF JobTypeOK, Claim
  <2>4. job' \in [Worker -> Claim \cup {NoClaim}]
    BY <1>18, <2>3 DEF Build
  <2> QED
    BY <1>18, <2>1, <2>4 DEF Build, WorkerTypeOK
<1>19. ASSUME NEW w \in Worker, Store(w)  PROVE WorkerTypeOK'
  <2>1. job[w] \in Claim
    BY <1>19, ClaimOfBusy DEF Store, Busy
  <2>2. CASE Release(w)
    BY <1>19, <2>2, ReleaseEffect DEF Store, WorkerTypeOK
  <2>3. CASE Go(w, "fail") /\ UNCHANGED job
    <3>1. pc' \in [Worker -> PC]
      BY <2>3, GoType DEF PC
    <3> QED
      BY <1>19, <2>3, <3>1 DEF Store, WorkerTypeOK
  <2>4. ASSUME NEW n \in Nat, Go(w, "commit"), job' = [job EXCEPT ![w].revision = n + 1]
        PROVE  WorkerTypeOK'
    <3>1. pc' \in [Worker -> PC]
      BY <2>4, GoType DEF PC
    <3>2. [job[w] EXCEPT !.revision = n + 1] \in Claim
      BY <2>1 DEF Claim
    <3>3. job' \in [Worker -> Claim \cup {NoClaim}]
      BY <2>4, <3>2
    <3> QED
      BY <1>19, <3>1, <3>3 DEF Store, WorkerTypeOK
  <2> QED
    BY <1>19, <2>2, <2>3, <2>4, StoreEffect
<1>20. ASSUME NEW w \in Worker, Commit(w)  PROVE WorkerTypeOK'
  <2>1. pc' \in [Worker -> PC] /\ job' \in [Worker -> Claim \cup {NoClaim}]
    BY <1>20, ReleaseEffect DEF Commit
  <2> QED
    BY <1>20, <2>1 DEF Commit, WorkerTypeOK
<1>21. ASSUME NEW w \in Worker, RunFails(w)  PROVE WorkerTypeOK'
  <2>1. pc' \in [Worker -> PC]
    BY <1>21, GoType DEF RunFails, PC
  <2> QED
    BY <1>21, <2>1 DEF RunFails, Interrupted, WorkerTypeOK
<1>22. ASSUME NEW w \in Worker, Fail(w)  PROVE WorkerTypeOK'
  <2>1. pc' \in [Worker -> PC] /\ job' \in [Worker -> Claim \cup {NoClaim}]
    BY <1>22, ReleaseEffect DEF Fail
  <2> QED
    BY <1>22, <2>1 DEF Fail, WorkerTypeOK
<1>23. ASSUME NEW w \in Worker, GiveUp(w)  PROVE WorkerTypeOK'
  <2>1. pc' \in [Worker -> PC] /\ job' \in [Worker -> Claim \cup {NoClaim}]
    BY <1>23, ReleaseEffect DEF GiveUp
  <2> QED
    BY <1>23, <2>1 DEF GiveUp, WorkerTypeOK
<1> HIDE DEF TypeOK, vars, jobVars, claimVars, resultVars, workerVars, tickVars
<1> QED
  BY <1>1, <1>2, <1>3, <1>4, <1>5, <1>6, <1>7, <1>8, <1>9, <1>10, <1>11, <1>12, <1>14, <1>15,
     <1>16, <1>17, <1>18, <1>19, <1>20, <1>21, <1>22, <1>23
     DEF Next, TickStep, JobStep, FaultOf, Horizon

\* An insertion records the result of the comment at hand, where none was recorded.
LEMMA InsertEffect ==
  ASSUME TypeOK, HolderInv, RunInv, NEW w \in Worker, pc[w] = "record",
         Insert(w) \/ UNCHANGED analysis
  PROVE  /\ analysis' \in [Job -> [Comment -> Result \cup {"unread"}]]
         /\ \A j \in Job, c \in Comment :
              analysis'[j][c] # analysis[j][c] =>
                j = job[w].id /\ c = job[w].comment /\ Fenced(w) /\ analysis[j][c] = "unread"
<1>1. job[w].id \in Job /\ job[w].comment \in Comment /\ job[w].result \in Result
  BY ClaimOfBusy, CommentAtHand DEF Busy
<1>2. analysis \in [Job -> [Comment -> Result \cup {"unread"}]]
  BY DEF TypeOK, JobTypeOK
<1>3. CASE analysis' = analysis
  BY <1>2, <1>3
<1>4. CASE Inserts(w) /\ analysis' = [analysis EXCEPT ![job[w].id][job[w].comment] = job[w].result]
  BY <1>1, <1>2, <1>4 DEF Inserts
<1> QED
  BY <1>3, <1>4 DEF Insert

\* What a completed job leaves behind.
LEMMA CompleteEffect ==
  ASSUME TypeOK, HolderInv, RunInv, NEW w \in Worker, pc[w] = "commit", Complete(w)
  PROVE  \E a \in Artifact :
           /\ a.id = job[w].id /\ a.revision = job[w].revision /\ a.content = job[w].content
           /\ artifacts' = artifacts \cup {a}
           /\ queued' = IF a.revision = 1 THEN queued \cup {a} ELSE queued
           /\ status' = [status EXCEPT ![job[w].id] = "READY"]
           /\ claimedAt' = [claimedAt EXCEPT ![job[w].id] = NoTime]
<1> DEFINE a == [id |-> job[w].id, revision |-> job[w].revision, content |-> job[w].content]
<1>1. job[w] \in Claim
  BY ClaimOfBusy DEF Busy
<1>2. /\ a \in Artifact /\ a.id = job[w].id /\ a.revision = job[w].revision
      /\ a.content = job[w].content
  BY <1>1 DEF Claim, Artifact
<1>3. /\ artifacts' = artifacts \cup {a}
      /\ queued' = IF a.revision = 1 THEN queued \cup {a} ELSE queued
      /\ status' = [status EXCEPT ![job[w].id] = "READY"]
      /\ claimedAt' = [claimedAt EXCEPT ![job[w].id] = NoTime]
  BY DEF Complete
<1> HIDE DEF a
<1> QED
  BY <1>2, <1>3

\* Every column stays in its type, the columns of a job agree with its status, and a
\* job that waits for its first claim has its whole budget of attempts.
LEMMA RowTypeStep ==
  ASSUME EnrichmentInv, [Next]_vars
  PROVE  RowTypeOK' /\ AttemptsInv'
<1> USE DEF EnrichmentInv
<1>a. /\ rowId \in [Job -> Nat] /\ status \in [Job -> Status] /\ claims \in [Job -> Nat]
      /\ attempts \in [Job -> 0 .. MaxAttempts] /\ MaxAttempts \in Nat \ {0}
      /\ claimedAt \in [Job -> Int] /\ nextRetry \in [Job -> Int]
      /\ analysis \in [Job -> [Comment -> Result \cup {"unread"}]]
      /\ artifacts \subseteq Artifact /\ queued \subseteq Artifact
      /\ clock \in Nat
  BY EnrichmentAssumption DEF TypeOK, JobTypeOK, PositiveSettings
<1>b. ASSUME NEW j \in Job
      PROVE  /\ status[j] = "ABSENT" <=> rowId[j] = 0
             /\ status[j] = "CLAIMED" <=> claimedAt[j] # NoTime
             /\ nextRetry[j] # NoTime => status[j] = "FAILED" /\ attempts[j] < MaxAttempts
             /\ status[j] \in {"ABSENT", "PENDING"} => attempts[j] = 0
  BY DEF TypeOK, AttemptsInv
<1>1. ASSUME UNCHANGED <<rowId, status, claims, claimedAt, attempts, nextRetry, artifacts, queued>>,
             analysis' \in [Job -> [Comment -> Result \cup {"unread"}]]
      PROVE  RowTypeOK' /\ AttemptsInv'
  BY <1>1, <1>a, <1>b DEF RowTypeOK, JobTypeOK, AttemptsInv
<1>2. CASE (\E r \in Report : CoreReady(r)) \/ Tick \/ UNCHANGED vars
  BY <1>1, <1>2, <1>a DEF CoreReady, Tick, vars, jobVars, claimVars, resultVars
<1>3. ASSUME NEW w \in Worker, Memory(w)  PROVE RowTypeOK' /\ AttemptsInv'
  BY <1>1, <1>3, <1>a, MemoryFrame
<1>4. ASSUME NEW j \in Job, Reopen(j)  PROVE RowTypeOK' /\ AttemptsInv'
  <2>1. /\ status[j] = "FAILED" /\ nextRetry[j] = NoTime
        /\ status' = [status EXCEPT ![j] = "PENDING"] /\ attempts' = [attempts EXCEPT ![j] = 0]
        /\ UNCHANGED <<rowId, claims, claimedAt, nextRetry, analysis, artifacts, queued>>
    BY <1>4 DEF Reopen, resultVars
  <2>2. JobTypeOK'
    BY <1>a, <2>1 DEF JobTypeOK, Status
  <2> QED
    BY <1>a, <1>b, <2>1, <2>2 DEF RowTypeOK, AttemptsInv
<1>5. ASSUME NEW w \in Worker, Enqueue(w)  PROVE RowTypeOK' /\ AttemptsInv'
  <2> DEFINE n == Cardinality({i \in Job : rowId[i] > 0})
  <2>1. n \in Nat
    BY JobsAreFinite, FS_Subset, FS_CardinalityType
  <2>2. UNCHANGED <<claims, claimedAt, attempts, nextRetry, analysis, artifacts, queued>>
    BY <1>5 DEF Enqueue, claimVars, resultVars
  <2>3. CASE UNCHANGED <<rowId, status>>
    BY <1>1, <1>a, <2>2, <2>3
  <2>4. CASE \E j \in Job, s \in {"SKIPPED", "PENDING"} :
               /\ status[j] = "ABSENT" /\ rowId' = [rowId EXCEPT ![j] = 1 + n]
               /\ status' = [status EXCEPT ![j] = s]
    <3>1. PICK j \in Job, s \in {"SKIPPED", "PENDING"} :
               /\ status[j] = "ABSENT" /\ rowId' = [rowId EXCEPT ![j] = 1 + n]
               /\ status' = [status EXCEPT ![j] = s]
      BY <2>4
    <3>2. JobTypeOK'
      BY <1>a, <2>1, <2>2, <3>1 DEF JobTypeOK, Status
    <3> HIDE DEF n
    <3> QED
      BY <1>a, <1>b, <2>1, <2>2, <3>1, <3>2 DEF RowTypeOK, AttemptsInv
  <2>5. ASSUME NEW r \in reports[w]  PROVE <<r, Settings[w]>> \in Job
    BY EnrichmentAssumption DEF Job, TypeOK
  <2> QED
    BY <1>5, <2>3, <2>4, <2>5 DEF Enqueue
<1>6. ASSUME NEW w \in Worker, RecoverStale(w)  PROVE RowTypeOK' /\ AttemptsInv'
  <2>1. PICK stale \in SUBSET Job :
          /\ \A j \in stale : status[j] = "CLAIMED"
          /\ status' = [j \in Job |-> IF j \in stale THEN "FAILED" ELSE status[j]]
          /\ claimedAt' = [j \in Job |-> IF j \in stale THEN NoTime ELSE claimedAt[j]]
          /\ nextRetry' = [j \in Job |-> IF j \in stale THEN RetryAt(j, now[w]) ELSE nextRetry[j]]
    <3>1. PICK skipped : LET stale == {j \in Job \ skipped : Expired(j, now[w]) /\ ~Locked(j)} IN
          /\ status' = [j \in Job |-> IF j \in stale THEN "FAILED" ELSE status[j]]
          /\ claimedAt' = [j \in Job |-> IF j \in stale THEN NoTime ELSE claimedAt[j]]
          /\ nextRetry' = [j \in Job |-> IF j \in stale THEN RetryAt(j, now[w]) ELSE nextRetry[j]]
      BY <1>6 DEF RecoverStale
    <3> QED
      BY <3>1 DEF Expired
  <2>2. UNCHANGED <<rowId, claims, attempts, analysis, artifacts, queued>>
    BY <1>6 DEF RecoverStale, resultVars
  <2>3. ASSUME NEW j \in Job
        PROVE  RetryAt(j, now[w]) \in Int /\ (RetryAt(j, now[w]) # NoTime => attempts[j] < MaxAttempts)
    BY RetryType DEF TypeOK
  <2>4. /\ status' \in [Job -> Status] /\ claimedAt' \in [Job -> Int] /\ nextRetry' \in [Job -> Int]
    BY <1>a, <2>1, <2>3 DEF Status, NoTime
  <2>5. JobTypeOK'
    BY <1>a, <2>2, <2>4 DEF JobTypeOK
  <2> QED
    BY <1>b, <2>1, <2>2, <2>3, <2>5 DEF RowTypeOK, AttemptsInv
<1>7. ASSUME NEW w \in Worker, ClaimNext(w)  PROVE RowTypeOK' /\ AttemptsInv'
  <2>1. UNCHANGED <<rowId, analysis, artifacts, queued>>
    BY <1>7 DEF ClaimNext, resultVars
  <2>2. CASE UNCHANGED <<status, claims, claimedAt, attempts, nextRetry>>
    BY <1>1, <1>a, <2>1, <2>2
  <2>3. CASE ~UNCHANGED <<status, claims, claimedAt, attempts, nextRetry>>
    <3>1. PICK j \in Job :
            /\ Claimable(j, now[w])
            /\ status' = [status EXCEPT ![j] = "CLAIMED"]
            /\ claims' = [claims EXCEPT ![j] = @ + 1]
            /\ claimedAt' = [claimedAt EXCEPT ![j] = clock]
            /\ attempts' = [attempts EXCEPT ![j] = @ + 1]
            /\ nextRetry' = [nextRetry EXCEPT ![j] = NoTime]
      BY <1>7, <2>3 DEF ClaimNext, claimVars
    <3>2. attempts[j] + 1 \in 0 .. MaxAttempts /\ status[j] # "ABSENT"
      BY <1>a, <1>b, <3>1 DEF Claimable, Exhausted
    <3>3. JobTypeOK'
      BY <1>a, <2>1, <3>1, <3>2 DEF JobTypeOK, Status, NoTime
    <3>4. clock # NoTime
      BY <1>a DEF NoTime
    <3> QED
      BY <1>a, <1>b, <2>1, <3>1, <3>2, <3>3, <3>4 DEF RowTypeOK, AttemptsInv
  <2> QED
    BY <2>2, <2>3
<1>8. ASSUME NEW w \in Worker, Record(w) \/ RecordFails(w)  PROVE RowTypeOK' /\ AttemptsInv'
  <2>1. pc[w] = "record" /\ (Insert(w) \/ UNCHANGED analysis)
    BY <1>8 DEF Record, RecordFails
  <2> QED
    BY <1>1, <1>8, <2>1, InsertEffect DEF Record, RecordFails, jobVars, claimVars
<1>9. ASSUME NEW w \in Worker, pc[w] = "commit", Complete(w),
             UNCHANGED <<rowId, claims, attempts, nextRetry, analysis>>
      PROVE  RowTypeOK' /\ AttemptsInv'
  <2>1. PICK a \in Artifact :
           /\ artifacts' = artifacts \cup {a}
           /\ queued' = IF a.revision = 1 THEN queued \cup {a} ELSE queued
           /\ status' = [status EXCEPT ![job[w].id] = "READY"]
           /\ claimedAt' = [claimedAt EXCEPT ![job[w].id] = NoTime]
    BY <1>9, CompleteEffect
  <2>2. job[w].id \in Job /\ status[job[w].id] = "CLAIMED"
    BY <1>9, ClaimOfBusy DEF Busy, RunInv, RunOK, Fenced
  <2>3. JobTypeOK'
    BY <1>9, <1>a, <2>1, <2>2 DEF JobTypeOK, Status, NoTime
  <2> QED
    BY <1>9, <1>a, <1>b, <2>1, <2>2, <2>3 DEF RowTypeOK, AttemptsInv
<1>10. ASSUME NEW w \in Worker, Commit(w) \/ RunFails(w)  PROVE RowTypeOK' /\ AttemptsInv'
  <2>1. \/ pc[w] = "commit" /\ Complete(w)
        \/ UNCHANGED <<artifacts, queued, status, claimedAt>>
    BY <1>10 DEF Commit, RunFails
  <2>2. UNCHANGED <<rowId, claims, attempts, nextRetry, analysis>>
    BY <1>10 DEF Commit, RunFails
  <2> QED
    BY <1>1, <1>9, <1>a, <2>1, <2>2
<1>11. ASSUME NEW w \in Worker, Fail(w)  PROVE RowTypeOK' /\ AttemptsInv'
  <2>1. UNCHANGED <<rowId, claims, attempts, analysis, artifacts, queued>>
    BY <1>11 DEF Fail, resultVars
  <2>2. CASE UNCHANGED <<status, claimedAt, nextRetry>>
    BY <1>1, <1>a, <2>1, <2>2
  <2>3. CASE ~UNCHANGED <<status, claimedAt, nextRetry>>
    <3> DEFINE j == job[w].id
    <3>1. /\ j \in Job /\ status[j] = "CLAIMED"
          /\ status' = [status EXCEPT ![j] = "FAILED"]
          /\ claimedAt' = [claimedAt EXCEPT ![j] = NoTime]
          /\ nextRetry' = [nextRetry EXCEPT ![j] = RetryAt(j, now[w])]
      BY <1>11, <2>3, ClaimOfBusy DEF Fail, Busy, Fenced
    <3>2. RetryAt(j, now[w]) \in Int /\ (RetryAt(j, now[w]) # NoTime => attempts[j] < MaxAttempts)
      BY <3>1, RetryType DEF TypeOK
    <3>3. JobTypeOK'
      BY <1>a, <2>1, <3>1, <3>2 DEF JobTypeOK, Status, NoTime
    <3> HIDE DEF j
    <3> QED
      BY <1>a, <1>b, <2>1, <3>1, <3>2, <3>3 DEF RowTypeOK, AttemptsInv
  <2> QED
    BY <2>2, <2>3
<1> QED
  BY <1>2, <1>3, <1>4, <1>5, <1>6, <1>7, <1>8, <1>10, <1>11
     DEF Next, TickStep, JobStep, FaultOf, Horizon, Memory

-----------------------------------------------------------------------------
(* Who holds a claim *)

\* Only the worker that moves can come to share a claim.
LEMMA HolderFrame ==
  ASSUME TypeOK, HolderInv, NEW w \in Worker,
         clock' \in Nat, clock <= clock',
         claims' \in [Job -> Nat], \A j \in Job : claims[j] <= claims'[j],
         \A v \in Worker : v # w => pc'[v] = pc[v] /\ job'[v] = job[v] /\ now'[v] = now[v],
         HolderOK(w)',
         Busy(w)' => \A v \in Worker :
           v # w /\ Busy(v) /\ job[v].id = job'[w].id => job[v].tok # job'[w].tok
  PROVE  HolderInv'
<1>1. ASSUME NEW v \in Worker, v # w  PROVE HolderOK(v)'
  <2>1. pc'[v] = pc[v] /\ job'[v] = job[v] /\ now'[v] = now[v]
    BY <1>1
  <2>2. now[v] \in Nat /\ clock \in Nat /\ (pc[v] # "idle" => now[v] <= clock)
    BY DEF TypeOK, HolderInv, HolderOK
  <2>3. ASSUME Busy(v)
        PROVE  job[v] \in Claim /\ 0 < job[v].tok /\ job[v].tok <= claims'[job[v].id]
    <3>1. job[v].id \in Job /\ claims \in [Job -> Nat]
      BY <2>3, ClaimOfBusy DEF TypeOK, JobTypeOK
    <3> QED
      BY <2>3, <3>1, ClaimOfBusy
  <2> QED
    BY <2>1, <2>2, <2>3 DEF HolderOK, Busy
<1>2. ASSUME NEW u \in Worker, NEW v \in Worker, u # v, Busy(u)', Busy(v)',
             job'[u].id = job'[v].id
      PROVE  job'[u].tok # job'[v].tok
  BY <1>2 DEF HolderInv, Busy
<1> QED
  BY <1>1, <1>2 DEF HolderInv

\* Every claim is held by one worker at most.
LEMMA HolderStep ==
  ASSUME EnrichmentInv, [Next]_vars
  PROVE  HolderInv'
<1> USE DEF EnrichmentInv
<1>a. /\ clock \in Nat /\ claims \in [Job -> Nat]
      /\ DOMAIN pc = Worker /\ DOMAIN job = Worker /\ DOMAIN now = Worker
      /\ \A j \in Job : claims[j] <= claims[j]
  BY DEF TypeOK, JobTypeOK
<1>b. ASSUME NEW w \in Worker  PROVE HolderOK(w) /\ now[w] \in Nat
  BY DEF HolderInv, TypeOK
<1>1. ASSUME UNCHANGED <<claims, pc, job, now>>, clock' \in Nat, clock <= clock'
      PROVE  HolderInv'
  <2>1. ASSUME NEW w \in Worker  PROVE HolderOK(w)'
    BY <1>1, <1>a, <1>b DEF HolderOK, Busy
  <2> QED
    BY <1>1, <2>1 DEF HolderInv, Busy
<1>2. CASE Tick \/ UNCHANGED vars \/ \E r \in Report : CoreReady(r)
  BY <1>1, <1>2, <1>a DEF Tick, CoreReady, vars, jobVars, claimVars, workerVars, tickVars
<1>3. ASSUME NEW j \in Job, Reopen(j)  PROVE HolderInv'
  BY <1>1, <1>3, <1>a DEF Reopen, workerVars, tickVars
<1>4. ASSUME NEW w \in Worker, UNCHANGED <<clock, claims>>,
             NEW p \in {"idle", "enqueue", "stale", "list", "next"}, Go(w, p),
             p = "idle" \/ now'[w] <= clock,
             \A v \in Worker : v # w => job'[v] = job[v] /\ now'[v] = now[v]
      PROVE  HolderInv'
  <2>1. pc' = [pc EXCEPT ![w] = p]
    BY <1>4 DEF Go
  <2>2. ~Busy(w)' /\ HolderOK(w)'
    BY <1>4, <1>a, <2>1 DEF HolderOK, Busy
  <2> QED
    BY <1>4, <1>a, <2>1, <2>2, HolderFrame
<1>5. ASSUME NEW w \in Worker,
             StartTick(w) \/ RecoverStale(w) \/ ListDue(w) \/ EndTick(w) \/ TickFails(w) \/ Restart(w)
      PROVE  HolderInv'
  <2>1. UNCHANGED <<clock, claims>>
    BY <1>5 DEF StartTick, RecoverStale, ListDue, EndTick, TickFails, Restart, jobVars, claimVars
  <2>2. \A v \in Worker : v # w => job'[v] = job[v] /\ now'[v] = now[v]
    BY <1>5, <1>a DEF StartTick, RecoverStale, ListDue, EndTick, TickFails, Restart, tickVars
  <2>3. \E p \in {"idle", "enqueue", "stale", "list", "next"} :
          Go(w, p) /\ (p = "idle" \/ now'[w] <= clock)
    <3>1. CASE EndTick(w) \/ TickFails(w) \/ Restart(w)
      BY <3>1 DEF EndTick, TickFails, Restart
    <3>2. CASE StartTick(w)
      <4>1. now'[w] = clock /\ Go(w, "enqueue")
        BY <3>2, <1>a DEF StartTick
      <4> QED
        BY <4>1, <1>a
    <3>3. CASE RecoverStale(w) \/ ListDue(w)
      <4>1. now'[w] = now[w] /\ pc[w] # "idle" /\ (Go(w, "list") \/ Go(w, "next"))
        BY <3>3 DEF RecoverStale, ListDue, tickVars
      <4> QED
        BY <4>1, <1>b DEF HolderOK
    <3> QED
      BY <1>5, <3>1, <3>2, <3>3
  <2> QED
    BY <1>4, <2>1, <2>2, <2>3
<1>6. ASSUME NEW w \in Worker, Release(w), pc[w] # "idle", UNCHANGED <<clock, claims, now>>
      PROVE  HolderInv'
  <2>1. Go(w, "next") /\ job' = [job EXCEPT ![w] = NoClaim] /\ now[w] <= clock
    BY <1>6, <1>b DEF Release, HolderOK
  <2> QED
    BY <1>4, <1>6, <1>a, <2>1
<1>7. ASSUME NEW w \in Worker, Busy(w), UNCHANGED <<clock, claims, now>>,
             NEW p \in {"load", "ask", "record", "build", "store", "commit", "fail"},
             pc' = [pc EXCEPT ![w] = p],
             NEW k \in Claim, job' = [job EXCEPT ![w] = k],
             k.id = job[w].id, k.tok = job[w].tok
      PROVE  HolderInv'
  <2>1. HolderOK(w)'
    BY <1>7, <1>a, <1>b DEF HolderOK, Busy
  <2>2. job'[w].id = job[w].id /\ job'[w].tok = job[w].tok
    BY <1>7, <1>a
  <2> QED
    BY <1>7, <1>a, <2>1, <2>2, HolderFrame DEF HolderInv
<1>8. ASSUME NEW w \in Worker, Busy(w), UNCHANGED <<clock, claims, now, job>>, Go(w, "fail")
      PROVE  HolderInv'
  <2>1. job[w] \in Claim /\ job' = [job EXCEPT ![w] = job[w]] /\ pc' = [pc EXCEPT ![w] = "fail"]
    BY <1>8, <1>a, ClaimOfBusy DEF TypeOK, Go
  <2> QED
    BY <1>7, <1>8, <2>1
<1>9. ASSUME NEW w \in Worker, Enqueue(w)  PROVE HolderInv'
  <2>1. UNCHANGED <<clock, claims, job, now>> /\ pc[w] = "enqueue" /\ (Go(w, "stale") \/ UNCHANGED pc)
    BY <1>9 DEF Enqueue, claimVars
  <2>2. now[w] <= clock
    BY <2>1, <1>b DEF HolderOK
  <2> QED
    BY <1>1, <1>4, <1>a, <2>1, <2>2
<1>10. ASSUME NEW w \in Worker, Stall(w)  PROVE HolderInv'
  BY <1>1, <1>10, <1>a DEF Stall, jobVars, claimVars, tickVars
<1>11. ASSUME NEW w \in Worker, ClaimNext(w)  PROVE HolderInv'
  <2>1. UNCHANGED <<clock, now>> /\ pc[w] = "next"
    BY <1>11 DEF ClaimNext
  <2>2. CASE UNCHANGED <<claims, job, pc>>
    BY <1>1, <1>a, <2>1, <2>2
  <2>3. CASE ~UNCHANGED <<claims, job, pc>>
    <3>1. PICK j \in Job :
            /\ claims' = [claims EXCEPT ![j] = @ + 1]
            /\ job' = [job EXCEPT ![w] =
                 [id |-> j, tok |-> claims[j] + 1, deadline |-> 0, done |-> {}, comment |-> 0,
                  result |-> "unread", content |-> Unread, revision |-> 0]]
            /\ Go(w, "load")
      BY <1>11, <2>3 DEF ClaimNext, claimVars
    <3>2. pc' = [pc EXCEPT ![w] = "load"]
      BY <3>1 DEF Go
    <3>3. claims' \in [Job -> Nat] /\ \A i \in Job : claims[i] <= claims'[i]
      BY <1>a, <3>1
    <3>4. /\ [id |-> j, tok |-> claims[j] + 1, deadline |-> 0, done |-> {}, comment |-> 0,
              result |-> "unread", content |-> Unread, revision |-> 0] \in Claim
          /\ job'[w].id = j /\ job'[w].tok = claims[j] + 1 /\ claims'[j] = claims[j] + 1
          /\ claims[j] \in Nat
      BY <1>a, <3>1 DEF Claim, Unread
    <3>5. HolderOK(w)'
      <4>1. now[w] <= clock
        BY <1>b, <2>1 DEF HolderOK
      <4>2. job'[w] \in Claim
        BY <1>a, <3>1, <3>4
      <4> QED
        BY <2>1, <3>4, <4>1, <4>2 DEF HolderOK
    <3>6. ASSUME NEW v \in Worker, Busy(v), job[v].id = j  PROVE job[v].tok # claims[j] + 1
      BY <3>4, <3>6, ClaimOfBusy
    <3>7. \A v \in Worker : v # w => pc'[v] = pc[v] /\ job'[v] = job[v] /\ now'[v] = now[v]
      BY <1>a, <2>1, <3>1, <3>2
    <3> QED
      BY <1>a, <2>1, <3>3, <3>4, <3>5, <3>6, <3>7, HolderFrame
  <2> QED
    BY <2>2, <2>3
<1>12. ASSUME NEW w \in Worker, Load(w)  PROVE HolderInv'
  <2>1. UNCHANGED <<clock, claims, now>> /\ Busy(w)
    BY <1>12 DEF Load, Busy, jobVars, claimVars, tickVars
  <2>2. job[w] \in Claim
    BY <2>1, ClaimOfBusy
  <2>3. CASE Go(w, "fail") /\ UNCHANGED job
    BY <1>8, <2>1, <2>3
  <2>4. CASE NextComment(w, [job[w] EXCEPT !.deadline = clock + RunTimeout,
                                           !.done = Recorded(job[w].id)])
    <3> DEFINE k == [job[w] EXCEPT !.deadline = clock + RunTimeout, !.done = Recorded(job[w].id)]
    <3>1. k \in Claim /\ k.id = job[w].id /\ k.tok = job[w].tok
      <4>1. clock + RunTimeout \in Nat /\ Recorded(job[w].id) \in SUBSET Comment
        BY <1>a, EnrichmentAssumption DEF Recorded, PositiveSettings
      <4> QED
        BY <2>2, <4>1 DEF Claim
    <3> HIDE DEF k
    <3>2. NextComment(w, k)
      BY <2>4 DEF k
    <3> QED
      BY <1>7, <2>1, <3>1, <3>2, NextCommentEffect
  <2> QED
    BY <1>12, <2>3, <2>4 DEF Load
<1>13. ASSUME NEW w \in Worker, Record(w)  PROVE HolderInv'
  <2>1. UNCHANGED <<clock, claims, now>> /\ Busy(w) /\ pc[w] = "record"
    BY <1>13 DEF Record, Busy, jobVars, claimVars, tickVars
  <2>2. job[w] \in Claim
    BY <2>1, ClaimOfBusy
  <2>3. CASE Go(w, "fail") /\ UNCHANGED job
    BY <1>8, <2>1, <2>3
  <2>4. CASE NextComment(w, [job[w] EXCEPT !.done = @ \cup {job[w].comment}])
    <3> DEFINE k == [job[w] EXCEPT !.done = @ \cup {job[w].comment}]
    <3>1. k \in Claim /\ k.id = job[w].id /\ k.tok = job[w].tok
      BY <2>1, <2>2, CommentAtHand DEF Claim
    <3> HIDE DEF k
    <3>2. NextComment(w, k)
      BY <2>4 DEF k
    <3> QED
      BY <1>7, <2>1, <3>1, <3>2, NextCommentEffect
  <2> QED
    BY <1>13, <2>3, <2>4 DEF Record
<1>14. ASSUME NEW w \in Worker, Answered(w) \/ Build(w) \/ Store(w)  PROVE HolderInv'
  <2>1. UNCHANGED <<clock, claims, now>> /\ Busy(w)
    BY <1>14 DEF Answered, Build, Store, Busy, jobVars, claimVars, tickVars
  <2>2. job[w] \in Claim /\ job[w].id \in Job /\ pc[w] # "idle"
    BY <2>1, ClaimOfBusy DEF Busy
  <2>3. CASE (Go(w, "fail") /\ UNCHANGED job) \/ Release(w)
    BY <1>6, <1>8, <2>1, <2>2, <2>3
  <2>4. CASE \E r \in Answer \cup {"refused"} : job' = [job EXCEPT ![w].result = r] /\ Go(w, "record")
    <3>1. PICK r \in Answer \cup {"refused"} : job' = [job EXCEPT ![w].result = r] /\ Go(w, "record")
      BY <2>4
    <3> DEFINE k == [job[w] EXCEPT !.result = r]
    <3>2. k \in Claim /\ k.id = job[w].id /\ k.tok = job[w].tok
      BY <2>2 DEF Claim, Result
    <3>3. job' = [job EXCEPT ![w] = k] /\ pc' = [pc EXCEPT ![w] = "record"]
      BY <1>a, <3>1 DEF Go
    <3> HIDE DEF k
    <3> QED
      BY <1>7, <2>1, <3>2, <3>3
  <2>5. CASE Build(w)
    <3> DEFINE k == [job[w] EXCEPT !.content = analysis[job[w].id]]
    <3>2. k \in Claim /\ k.id = job[w].id /\ k.tok = job[w].tok
      BY <2>2 DEF Claim, TypeOK, JobTypeOK
    <3>3. job' = [job EXCEPT ![w] = k] /\ pc' = [pc EXCEPT ![w] = "store"]
      BY <1>a, <2>5 DEF Go, Build
    <3> HIDE DEF k
    <3> QED
      BY <1>7, <2>1, <3>2, <3>3
  <2>6. ASSUME NEW n \in Nat, Go(w, "commit"), job' = [job EXCEPT ![w].revision = n + 1]
        PROVE  HolderInv'
    <3> DEFINE k == [job[w] EXCEPT !.revision = n + 1]
    <3>2. k \in Claim /\ k.id = job[w].id /\ k.tok = job[w].tok
      BY <2>2 DEF Claim
    <3>3. job' = [job EXCEPT ![w] = k] /\ pc' = [pc EXCEPT ![w] = "commit"]
      BY <1>a, <2>6 DEF Go
    <3> HIDE DEF k
    <3> QED
      BY <1>7, <2>1, <3>2, <3>3
  <2>7. CASE Store(w)
    BY <2>3, <2>6, <2>7, StoreEffect
  <2> QED
    BY <1>14, <2>3, <2>4, <2>5, <2>7 DEF Answered
<1>15. ASSUME NEW w \in Worker, Commit(w) \/ Fail(w) \/ GiveUp(w)  PROVE HolderInv'
  <2>1. UNCHANGED <<clock, claims, now>> /\ Release(w) /\ pc[w] # "idle"
    BY <1>15 DEF Commit, Fail, GiveUp, jobVars, claimVars, tickVars
  <2> QED
    BY <1>6, <2>1
<1>16. ASSUME NEW w \in Worker, RecordFails(w) \/ RunFails(w)  PROVE HolderInv'
  <2>1. UNCHANGED <<clock, claims, now, job>> /\ Go(w, "fail") /\ Busy(w)
    BY <1>16 DEF RecordFails, RunFails, Busy, jobVars, claimVars, tickVars
  <2> QED
    BY <1>8, <2>1
<1> QED
  BY <1>2, <1>3, <1>5, <1>9, <1>10, <1>11, <1>12, <1>13, <1>14, <1>15, <1>16
     DEF Next, TickStep, JobStep, FaultOf, Horizon

-----------------------------------------------------------------------------
(* What a holder has done *)

\* Nobody else disturbs a run: a claim that is still held covers the analyses, and the
\* rows that complete_enrichment has locked stay as they are.
Undisturbed(v) ==
  /\ Fenced(v)' => Fenced(v) /\ analysis'[job[v].id] = analysis[job[v].id]
  /\ pc[v] = "commit" => /\ Fenced(v)'
                         /\ artifacts' = artifacts \/ ArtifactsOf(ReportOf(job[v].id))'
                                                        = ArtifactsOf(ReportOf(job[v].id))

\* A run that does not move stays what it is while nobody disturbs it.
LEMMA RunFrame ==
  ASSUME RunInv, NEW v \in Worker, pc'[v] = pc[v], job'[v] = job[v], Busy(v) => Undisturbed(v)
  PROVE  RunOK(v)'
<1>1. RunOK(v)
  BY DEF RunInv
<1>2. CASE ~Busy(v)
  BY <1>2 DEF RunOK, Busy
<1>3. CASE Busy(v)
  <2>1. Undisturbed(v)
    BY <1>3
  <2>2. Fenced(v)' => Recorded(job[v].id)' = Recorded(job[v].id)
    BY <2>1 DEF Undisturbed, Recorded
  <2>3. pc[v] = "commit" =>
          ArtifactsOf(ReportOf(job[v].id))' = ArtifactsOf(ReportOf(job[v].id))
    BY <2>1 DEF Undisturbed, ArtifactsOf
  <2> QED
    BY <1>1, <2>1, <2>2, <2>3 DEF RunOK, Undisturbed
<1> QED
  BY <1>2, <1>3

\* No step of another worker disturbs a run.
LEMMA OthersDoNotDisturb ==
  ASSUME EnrichmentInv, NEW v \in Worker, Busy(v), pc'[v] = pc[v], job'[v] = job[v],
         \/ \E r \in Report : CoreReady(r)
         \/ \E j \in Job : Reopen(j)
         \/ Tick \/ UNCHANGED vars
         \/ \E w \in Worker \ {v} : TickStep(w) \/ JobStep(w) \/ FaultOf(w)
  PROVE  Undisturbed(v)
<1> USE DEF EnrichmentInv
<1>a. /\ status \in [Job -> Status] /\ claims \in [Job -> Nat]
      /\ analysis \in [Job -> [Comment -> Result \cup {"unread"}]]
  BY DEF TypeOK, JobTypeOK
<1> DEFINE j == job[v].id
<1>b. /\ j \in Job /\ job[v].tok \in Nat /\ job[v].tok <= claims[j] /\ 0 < job[v].tok
      /\ pc[v] = "commit" => Fenced(v) /\ Locked(j)
  BY ClaimOfBusy DEF RunInv, RunOK, Locked
<1>1. ASSUME UNCHANGED <<status, claims, analysis, artifacts>>  PROVE Undisturbed(v)
  BY <1>1, <1>b DEF Undisturbed, Fenced
<1>2. ASSUME UNCHANGED <<claims, analysis, artifacts>>,
             status'[j] = "CLAIMED" => status[j] = "CLAIMED",
             Locked(j) => status'[j] = status[j]
      PROVE  Undisturbed(v)
  BY <1>2, <1>b DEF Undisturbed, Fenced
<1>3. CASE Tick \/ UNCHANGED vars \/ \E r \in Report : CoreReady(r)
  BY <1>1, <1>3 DEF Tick, CoreReady, vars, jobVars, claimVars, resultVars
<1>4. ASSUME NEW i \in Job, Reopen(i)  PROVE Undisturbed(v)
  BY <1>2, <1>4, <1>a, <1>b DEF Reopen, resultVars
<1>5. ASSUME NEW w \in Worker, Memory(w)  PROVE Undisturbed(v)
  BY <1>1, <1>5, MemoryFrame
<1>6. ASSUME NEW w \in Worker, Enqueue(w)  PROVE Undisturbed(v)
  <2>1. UNCHANGED <<claims, analysis, artifacts>>
    BY <1>6 DEF Enqueue, claimVars, resultVars
  <2>2. CASE status' = status
    BY <1>1, <2>1, <2>2
  <2>3. ASSUME NEW i \in Job, status[i] = "ABSENT", NEW t \in {"SKIPPED", "PENDING"},
               status' = [status EXCEPT ![i] = t]
        PROVE  Undisturbed(v)
    <3>1. Locked(j) => status[j] = "CLAIMED"
      BY DEF Locked, RunInv, RunOK, Fenced
    <3> QED
      BY <1>2, <1>a, <1>b, <2>1, <2>3, <3>1
  <2>4. ASSUME NEW r \in reports[w]  PROVE <<r, Settings[w]>> \in Job
    BY EnrichmentAssumption DEF Job, TypeOK
  <2> QED
    BY <1>6, <2>2, <2>3, <2>4 DEF Enqueue
<1>7. ASSUME NEW w \in Worker, RecoverStale(w)  PROVE Undisturbed(v)
  <2>1. UNCHANGED <<claims, analysis, artifacts>>
    BY <1>7 DEF RecoverStale, resultVars
  <2>2. \/ status'[j] = status[j]
        \/ status'[j] = "FAILED" /\ ~Locked(j)
    BY <1>7, <1>b DEF RecoverStale
  <2> QED
    BY <1>2, <2>1, <2>2
<1>8. ASSUME NEW w \in Worker, ClaimNext(w)  PROVE Undisturbed(v)
  <2>1. UNCHANGED <<analysis, artifacts>>
    BY <1>8 DEF ClaimNext, resultVars
  <2>2. CASE UNCHANGED <<status, claims>>
    BY <1>1, <2>1, <2>2
  <2>3. CASE ~UNCHANGED <<status, claims>>
    <3>1. PICK i \in Job :
            /\ ~Locked(i) /\ status' = [status EXCEPT ![i] = "CLAIMED"]
            /\ claims' = [claims EXCEPT ![i] = @ + 1]
      BY <1>8, <2>3 DEF ClaimNext, claimVars
    <3>2. CASE i = j
      BY <1>a, <1>b, <2>1, <3>1, <3>2 DEF Undisturbed, Fenced
    <3>3. CASE i # j
      <4>1. status'[j] = status[j] /\ claims'[j] = claims[j]
        BY <1>a, <1>b, <3>1, <3>3
      <4> QED
        BY <1>b, <2>1, <4>1 DEF Undisturbed, Fenced
    <3> QED
      BY <3>2, <3>3
  <2> QED
    BY <2>2, <2>3
<1>9. ASSUME NEW w \in Worker, w # v, Record(w) \/ RecordFails(w)  PROVE Undisturbed(v)
  <2>1. /\ UNCHANGED <<status, claims, artifacts>> /\ pc[w] = "record"
        /\ Insert(w) \/ UNCHANGED analysis
    BY <1>9 DEF Record, RecordFails, jobVars, claimVars
  <2>2. Busy(w)
    BY <2>1 DEF Busy
  <2>3. ASSUME Fenced(v)  PROVE analysis'[j] = analysis[j]
    <3>1. \A c \in Comment : analysis'[j][c] = analysis[j][c]
      BY <1>9, <1>b, <2>1, <2>2, <2>3, InsertEffect DEF HolderInv, Fenced
    <3>2. analysis' \in [Job -> [Comment -> Result \cup {"unread"}]]
      BY <2>1, InsertEffect
    <3> QED
      BY <1>a, <1>b, <3>1, <3>2
  <2> QED
    BY <1>b, <2>1, <2>3 DEF Undisturbed, Fenced
<1>10. ASSUME NEW w \in Worker, w # v, Commit(w) \/ RunFails(w)  PROVE Undisturbed(v)
  <2>1. UNCHANGED <<claims, analysis>>
    BY <1>10 DEF Commit, RunFails
  <2>2. CASE UNCHANGED <<status, artifacts>>
    BY <1>1, <2>1, <2>2
  <2>3. CASE pc[w] = "commit" /\ Complete(w)
    <3>1. PICK a \in Artifact :
            /\ a.id = job[w].id /\ artifacts' = artifacts \cup {a}
            /\ status' = [status EXCEPT ![job[w].id] = "READY"]
      BY <2>3, CompleteEffect
    <3>2. job[w].id \in Job
      BY <2>3, ClaimOfBusy DEF Busy
    <3>3. CASE job[w].id = j
      <4>1. pc[v] # "commit"
        BY <1>10, <2>3, <3>3 DEF RunInv
      <4> QED
        BY <1>a, <3>1, <3>2, <3>3, <4>1 DEF Undisturbed, Fenced
    <3>4. CASE job[w].id # j
      <4>1. status'[j] = status[j]
        BY <1>a, <1>b, <3>1, <3>4
      <4>2. ASSUME pc[v] = "commit"
            PROVE  ArtifactsOf(ReportOf(j))' = ArtifactsOf(ReportOf(j))
        <5>1. ReportOf(a.id) # ReportOf(j)
          BY <1>10, <2>3, <3>1, <4>2 DEF RunInv
        <5> QED
          BY <3>1, <5>1 DEF ArtifactsOf
      <4> QED
        BY <1>b, <2>1, <4>1, <4>2 DEF Undisturbed, Fenced
    <3> QED
      BY <3>3, <3>4
  <2> QED
    BY <1>10, <2>2, <2>3 DEF Commit, RunFails
<1>11. ASSUME NEW w \in Worker, Fail(w)  PROVE Undisturbed(v)
  <2>1. UNCHANGED <<claims, analysis, artifacts>>
    BY <1>11 DEF Fail, resultVars
  <2>2. job[w].id \in Job
    BY <1>11, ClaimOfBusy DEF Fail, Busy
  <2>3. ~Locked(job[w].id) /\ (status' = status \/ status' = [status EXCEPT ![job[w].id] = "FAILED"])
    BY <1>11 DEF Fail
  <2> QED
    BY <1>2, <1>a, <1>b, <2>1, <2>2, <2>3
<1> QED
  BY <1>3, <1>4, <1>5, <1>6, <1>7, <1>8, <1>9, <1>10, <1>11
     DEF TickStep, JobStep, FaultOf, Memory

\* A step of a worker changes no other worker.
LEMMA OthersKeepTheirClaims ==
  ASSUME TypeOK, NEW w \in Worker, TickStep(w) \/ JobStep(w) \/ FaultOf(w), NEW v \in Worker, v # w
  PROVE  pc'[v] = pc[v] /\ job'[v] = job[v]
<1>a. DOMAIN pc = Worker /\ DOMAIN job = Worker
  BY DEF TypeOK
<1>1. CASE TickStep(w)
  BY <1>1, <1>a DEF TickStep, StartTick, Enqueue, RecoverStale, ListDue, ClaimNext, EndTick, Go
<1>2. CASE FaultOf(w)
  BY <1>2, <1>a DEF FaultOf, Stall, Restart, TickFails, RecordFails, RunFails, GiveUp, Go, Release
<1>3. CASE Answered(w) \/ Build(w) \/ Store(w) \/ Commit(w) \/ Fail(w)
  BY <1>3, <1>a DEF Answered, Build, Store, Commit, Fail, Go, Release
<1>4. CASE Load(w) \/ Record(w)
  BY <1>4, <1>a DEF Load, Record, NextComment, Go
<1> QED
  BY <1>1, <1>2, <1>3, <1>4 DEF JobStep

\* A holder of a claim has gone through the comments recorded so far.
LEMMA RunStep ==
  ASSUME EnrichmentInv, [Next]_vars
  PROVE  RunInv'
<1> USE DEF EnrichmentInv
<1>a. /\ DOMAIN pc = Worker /\ DOMAIN job = Worker
      /\ status \in [Job -> Status] /\ claims \in [Job -> Nat]
      /\ analysis \in [Job -> [Comment -> Result \cup {"unread"}]]
  BY DEF TypeOK, JobTypeOK
\* The statements at which a worker's run owes nothing.
<1>b. ASSUME NEW w \in Worker, pc'[w] \notin {"ask", "record", "build", "store", "commit"}
      PROVE  RunOK(w)'
  BY <1>b DEF RunOK
<1>1. ASSUME NEW w \in Worker, TickStep(w) \/ JobStep(w) \/ FaultOf(w), RunOK(w)',
             pc'[w] = "commit" => ~ReportLocked(ReportOf(job'[w].id))
      PROVE  RunInv'
  <2>1. ASSUME NEW v \in Worker, v # w  PROVE pc'[v] = pc[v] /\ job'[v] = job[v] /\ RunOK(v)'
    <3>1. pc'[v] = pc[v] /\ job'[v] = job[v]
      BY <1>1, <2>1, OthersKeepTheirClaims
    <3>2. Busy(v) => Undisturbed(v)
      BY <1>1, <2>1, <3>1, OthersDoNotDisturb
    <3> QED
      BY <3>1, <3>2, RunFrame
  <2>2. ASSUME NEW u \in Worker, NEW v \in Worker, u # v, pc'[u] = "commit", pc'[v] = "commit"
        PROVE  ReportOf(job'[u].id) # ReportOf(job'[v].id)
    <3>1. CASE u # w /\ v # w
      BY <2>1, <2>2, <3>1 DEF RunInv
    <3>2. CASE u = w \/ v = w
      BY <1>1, <2>1, <2>2, <3>2 DEF ReportLocked
    <3> QED
      BY <3>1, <3>2
  <2> QED
    BY <1>1, <2>1, <2>2 DEF RunInv
<1>2. ASSUME UNCHANGED <<pc, job>>,
             \/ \E r \in Report : CoreReady(r)
             \/ \E j \in Job : Reopen(j)
             \/ Tick \/ UNCHANGED vars
      PROVE  RunInv'
  <2>1. ASSUME NEW v \in Worker  PROVE RunOK(v)'
    <3>1. Busy(v) => Undisturbed(v)
      BY <1>2, OthersDoNotDisturb
    <3> QED
      BY <1>2, <3>1, RunFrame
  <2> QED
    BY <1>2, <2>1 DEF RunInv
<1>3. CASE \/ \E r \in Report : CoreReady(r)
           \/ \E j \in Job : Reopen(j)
           \/ Tick \/ UNCHANGED vars
  <2>1. UNCHANGED <<pc, job>>
    BY <1>3 DEF CoreReady, Reopen, Tick, vars, workerVars
  <2> QED
    BY <1>2, <1>3, <2>1
\* A step of a worker to a statement where its run owes nothing.
<1>4. ASSUME NEW w \in Worker, TickStep(w) \/ JobStep(w) \/ FaultOf(w),
             pc'[w] \notin {"ask", "record", "build", "store", "commit"}
      PROVE  RunInv'
  BY <1>1, <1>4, <1>b
<1>5. ASSUME NEW w \in Worker, TickStep(w)  PROVE RunInv'
  <2>1. pc'[w] \in {"idle", "enqueue", "stale", "list", "next", "load"}
    BY <1>5, <1>a DEF TickStep, StartTick, Enqueue, RecoverStale, ListDue, ClaimNext, EndTick, Go
  <2> QED
    BY <1>4, <1>5, <2>1
<1>6. ASSUME NEW w \in Worker, FaultOf(w), ~Stall(w)  PROVE RunInv'
  <2>1. pc'[w] \in {"idle", "next", "fail"}
    BY <1>6, <1>a DEF FaultOf, Restart, TickFails, RecordFails, RunFails, GiveUp, Go, Release
  <2> QED
    BY <1>4, <1>6, <2>1
<1>7. ASSUME NEW w \in Worker, Stall(w)  PROVE RunInv'
  <2>1. UNCHANGED <<pc, job, status, claims, analysis, artifacts>> /\ pc[w] # "commit"
    BY <1>7 DEF Stall, jobVars, claimVars, resultVars
  <2>2. Undisturbed(w)
    BY <2>1 DEF Undisturbed, Fenced
  <2>3. RunOK(w)'
    BY <2>1, <2>2, RunFrame
  <2> QED
    BY <1>1, <1>7, <2>1, <2>3 DEF FaultOf
<1>8. ASSUME NEW w \in Worker, JobStep(w), pc'[w] \in {"next", "fail"}  PROVE RunInv'
  BY <1>4, <1>8
\* The loop over the comments, with the analyses of this moment taken as done.
<1>9. ASSUME NEW w \in Worker, JobStep(w), NEW claim \in Claim, NextComment(w, claim),
             UNCHANGED <<status, claims>>,
             Fenced(w) => claim.done = {c \in Comment : analysis'[job[w].id][c] # "unread"},
             claim.id = job[w].id, claim.tok = job[w].tok
      PROVE  RunInv'
  <2>1. PICK p \in {"build", "ask", "record"}, k \in Claim :
           /\ pc' = [pc EXCEPT ![w] = p] /\ job' = [job EXCEPT ![w] = k]
           /\ k.id = claim.id /\ k.tok = claim.tok /\ k.done = claim.done
           /\ p = "build" => Commented[ReportOf(claim.id)] \subseteq claim.done
           /\ p \in {"ask", "record"} =>
                k.comment \in Commented[ReportOf(claim.id)] \ claim.done
           /\ p = "record" => k.result # "unread"
    BY <1>9, NextCommentEffect
  <2>2. pc'[w] = p /\ job'[w] = k
    BY <1>a, <2>1
  <2>3. Fenced(w)' => Fenced(w)
    BY <1>9, <2>1, <2>2 DEF Fenced
  <2>4. RunOK(w)'
    BY <1>9, <2>1, <2>2, <2>3 DEF RunOK, Recorded
  <2> QED
    BY <1>1, <1>9, <2>2, <2>4
<1>10. ASSUME NEW w \in Worker, Load(w)  PROVE RunInv'
  <2>1. UNCHANGED <<status, claims, analysis>> /\ Busy(w) /\ JobStep(w)
    BY <1>10 DEF Load, Busy, JobStep, jobVars, claimVars, resultVars
  <2>2. job[w] \in Claim
    BY <2>1, ClaimOfBusy
  <2>3. CASE Go(w, "fail")
    <3>1. pc'[w] = "fail"
      BY <1>a, <2>3 DEF Go
    <3> QED
      BY <1>8, <2>1, <3>1
  <2>4. CASE NextComment(w, [job[w] EXCEPT !.deadline = clock + RunTimeout,
                                           !.done = Recorded(job[w].id)])
    <3> DEFINE k == [job[w] EXCEPT !.deadline = clock + RunTimeout, !.done = Recorded(job[w].id)]
    <3>1. clock + RunTimeout \in Nat /\ Recorded(job[w].id) \in SUBSET Comment
      BY EnrichmentAssumption DEF Recorded, PositiveSettings, TypeOK
    <3>2. k \in Claim /\ k.id = job[w].id /\ k.tok = job[w].tok /\ k.done = Recorded(job[w].id)
      BY <2>2, <3>1 DEF Claim
    <3> HIDE DEF k
    <3>3. NextComment(w, k)
      BY <2>4 DEF k
    <3>4. k.done = {c \in Comment : analysis'[job[w].id][c] # "unread"}
      BY <2>1, <3>2 DEF Recorded
    <3> QED
      BY <1>9, <2>1, <3>2, <3>3, <3>4
  <2> QED
    BY <1>10, <2>3, <2>4 DEF Load
<1>11. ASSUME NEW w \in Worker, Record(w)  PROVE RunInv'
  <2>1. UNCHANGED <<status, claims>> /\ Busy(w) /\ JobStep(w) /\ pc[w] = "record" /\ Insert(w)
    BY <1>11 DEF Record, Busy, JobStep, jobVars, claimVars
  <2>2. job[w] \in Claim /\ job[w].id \in Job
    BY <2>1, ClaimOfBusy
  <2>3. CASE Go(w, "fail")
    <3>1. pc'[w] = "fail"
      BY <1>a, <2>3 DEF Go
    <3> QED
      BY <1>8, <2>1, <3>1
  <2>4. CASE NextComment(w, [job[w] EXCEPT !.done = @ \cup {job[w].comment}])
    <3> DEFINE k == [job[w] EXCEPT !.done = @ \cup {job[w].comment}]
               c == job[w].comment
               j == job[w].id
    <3>1. /\ k \in Claim /\ k.id = j /\ k.tok = job[w].tok
          /\ k.done = job[w].done \cup {c}
      BY <2>1, <2>2, CommentAtHand DEF Claim
    <3> HIDE DEF k
    <3>2. NextComment(w, k)
      BY <2>4 DEF k
    <3>3. c \in Comment /\ c \notin job[w].done /\ job[w].result # "unread"
      BY <2>1, CommentAtHand
    <3>4. ASSUME Fenced(w)
          PROVE  k.done = {d \in Comment : analysis'[j][d] # "unread"}
      <4>1. job[w].done = {d \in Comment : analysis[j][d] # "unread"}
        BY <2>1, <3>4 DEF RunInv, RunOK, Recorded
      <4>2. Inserts(w)
        BY <3>3, <3>4, <4>1 DEF Inserts
      <4>3. analysis' = [analysis EXCEPT ![j][c] = job[w].result]
        BY <2>1, <4>2 DEF Insert
      <4>4. \A d \in Comment : analysis'[j][d] = IF d = c THEN job[w].result ELSE analysis[j][d]
        BY <1>a, <2>2, <3>3, <4>3
      <4> QED
        BY <3>1, <3>3, <4>1, <4>4
    <3> QED
      BY <1>9, <2>1, <3>1, <3>2, <3>4
  <2> QED
    BY <1>11, <2>3, <2>4 DEF Record
<1>12. ASSUME NEW w \in Worker, Answered(w)  PROVE RunInv'
  <2>1. /\ UNCHANGED <<status, claims, analysis, artifacts>> /\ Busy(w) /\ JobStep(w)
        /\ pc[w] = "ask"
    BY <1>12 DEF Answered, Busy, JobStep, jobVars, claimVars, resultVars
  <2>2. CASE Go(w, "fail")
    <3>1. pc'[w] = "fail"
      BY <1>a, <2>2 DEF Go
    <3> QED
      BY <1>8, <2>1, <3>1
  <2>3. ASSUME NEW r \in Answer \cup {"refused"}, job' = [job EXCEPT ![w].result = r],
               Go(w, "record")
        PROVE  RunInv'
    <3>1. job[w] \in Claim
      BY <2>1, ClaimOfBusy
    <3>2. /\ pc'[w] = "record" /\ job'[w].id = job[w].id /\ job'[w].tok = job[w].tok
          /\ job'[w].done = job[w].done /\ job'[w].comment = job[w].comment
          /\ job'[w].result = r
      BY <1>a, <2>3, <3>1 DEF Go, Claim
    <3>3. r # "unread"
      BY EnrichmentAssumption
    <3>4. Fenced(w)' = Fenced(w) /\ Recorded(job[w].id)' = Recorded(job[w].id)
      BY <2>1, <3>2 DEF Fenced, Recorded
    <3>5. RunOK(w)'
      BY <2>1, <3>2, <3>3, <3>4 DEF RunOK, RunInv
    <3> QED
      BY <1>1, <2>1, <3>2, <3>5
  <2> QED
    BY <1>12, <2>2, <2>3 DEF Answered
<1>13. ASSUME NEW w \in Worker, Build(w)  PROVE RunInv'
  <2>1. /\ UNCHANGED <<status, claims, analysis, artifacts>> /\ Busy(w) /\ JobStep(w)
        /\ pc[w] = "build"
    BY <1>13 DEF Build, Busy, JobStep, jobVars, claimVars, resultVars
  <2>2. job[w] \in Claim
    BY <2>1, ClaimOfBusy
  <2>3. /\ pc'[w] = "store" /\ job'[w].id = job[w].id /\ job'[w].tok = job[w].tok
        /\ job'[w].done = job[w].done /\ job'[w].content = analysis[job[w].id]
    BY <1>13, <1>a, <2>2 DEF Build, Go, Claim
  <2>4. Fenced(w)' = Fenced(w) /\ Recorded(job[w].id)' = Recorded(job[w].id)
    BY <2>1, <2>3 DEF Fenced, Recorded
  <2>5. RunOK(w)'
    BY <2>1, <2>3, <2>4 DEF RunOK, RunInv
  <2> QED
    BY <1>1, <2>1, <2>3, <2>5
<1>14. ASSUME NEW w \in Worker, Store(w)  PROVE RunInv'
  <2>1. /\ UNCHANGED <<status, claims, analysis, artifacts>> /\ Busy(w) /\ JobStep(w)
        /\ pc[w] = "store"
    BY <1>14 DEF Store, Busy, JobStep, jobVars, claimVars, resultVars
  <2>2. CASE Go(w, "fail") \/ Release(w)
    <3>1. pc'[w] \in {"next", "fail"}
      BY <1>a, <2>2 DEF Go, Release
    <3> QED
      BY <1>8, <2>1, <3>1
  <2>3. CASE /\ Go(w, "commit") /\ Fenced(w) /\ ~ReportLocked(ReportOf(job[w].id))
             /\ Cardinality(ArtifactsOf(ReportOf(job[w].id))) \in Nat
             /\ job' = [job EXCEPT ![w].revision =
                         Cardinality(ArtifactsOf(ReportOf(job[w].id))) + 1]
    <3> DEFINE n == Cardinality(ArtifactsOf(ReportOf(job[w].id))) + 1
    <3>1. job[w] \in Claim
      BY <2>1, ClaimOfBusy
    <3>2. /\ pc'[w] = "commit" /\ job'[w].id = job[w].id /\ job'[w].tok = job[w].tok
          /\ job'[w].done = job[w].done /\ job'[w].content = job[w].content
          /\ job'[w].revision = n
      BY <1>a, <2>3, <3>1 DEF Go, Claim
    <3>3. /\ Fenced(w)' = Fenced(w) /\ Recorded(job[w].id)' = Recorded(job[w].id)
          /\ ArtifactsOf(ReportOf(job[w].id))' = ArtifactsOf(ReportOf(job[w].id))
      BY <2>1, <3>2 DEF Fenced, Recorded, ArtifactsOf
    <3>4. RunOK(w)'
      BY <2>1, <2>3, <3>2, <3>3 DEF RunOK, RunInv
    <3> QED
      BY <1>1, <2>1, <2>3, <3>2, <3>4
  <2> QED
    BY <1>14, <2>2, <2>3, StoreEffect
<1>15. ASSUME NEW w \in Worker, Commit(w) \/ Fail(w)  PROVE RunInv'
  <2>1. pc'[w] = "next" /\ JobStep(w)
    BY <1>15, <1>a DEF Commit, Fail, Release, Go, JobStep
  <2> QED
    BY <1>8, <2>1
<1> QED
  BY <1>3, <1>5, <1>6, <1>7, <1>10, <1>11, <1>12, <1>13, <1>14, <1>15
     DEF Next, JobStep, Horizon

-----------------------------------------------------------------------------
(* The stored workbooks *)

\* A step that stores no workbook leaves the READY jobs and their analyses alone.
LEMMA ArtifactFrame ==
  ASSUME TypeOK, ArtifactInv, UNCHANGED <<artifacts, queued>>,
         \A j \in Job : status'[j] = "READY" <=> status[j] = "READY",
         \A j \in Job : status[j] = "READY" => analysis'[j] = analysis[j]
  PROVE  ArtifactInv'
<1>1. \A a \in artifacts : a.id \in Job /\ status[a.id] = "READY"
  BY DEF ArtifactInv, TypeOK, JobTypeOK, Artifact
<1>2. WorkbookComplete'
  BY <1>1 DEF ArtifactInv, WorkbookComplete
<1> QED
  BY <1>2 DEF ArtifactInv, ArtifactsOf

\* complete_enrichment stores the first workbook of its job, as the next revision of
\* its report, with every comment of the report.
LEMMA CompleteKeepsArtifacts ==
  ASSUME EnrichmentInv, NEW w \in Worker, pc[w] = "commit", Complete(w), UNCHANGED analysis
  PROVE  ArtifactInv'
<1> USE DEF EnrichmentInv
<1> DEFINE j == job[w].id
           R == ReportOf(j)
           n == Cardinality(ArtifactsOf(R))
<1>1. job[w] \in Claim /\ j \in Job /\ R \in Report /\ Commented[R] \subseteq Comment
  BY ClaimOfBusy, JobParts, EnrichmentAssumption DEF Busy
<1>2. /\ status[j] = "CLAIMED" /\ Commented[R] \subseteq job[w].done
      /\ job[w].done = Recorded(j) /\ job[w].content = analysis[j]
      /\ job[w].revision = n + 1
  BY DEF RunInv, RunOK, Fenced
<1>3. PICK a \in Artifact :
        /\ a.id = j /\ a.revision = n + 1 /\ a.content = analysis[j]
        /\ artifacts' = artifacts \cup {a}
        /\ queued' = IF a.revision = 1 THEN queued \cup {a} ELSE queued
        /\ status' = [status EXCEPT ![j] = "READY"]
  BY <1>2, CompleteEffect
<1>4. \A b \in artifacts : b.id # j /\ b.id \in Job
  BY <1>2 DEF ArtifactInv, TypeOK, JobTypeOK, Artifact
<1>5. IsFiniteSet(artifacts')
  BY <1>3, FS_AddElement DEF ArtifactInv
<1>6. \A i \in Job : status'[i] = "READY" <=> \E b \in artifacts' : b.id = i
  <2>1. ASSUME NEW i \in Job, i # j
        PROVE  status'[i] = status[i] /\ ((\E b \in artifacts' : b.id = i) <=> \E b \in artifacts : b.id = i)
    BY <1>3, <2>1 DEF TypeOK, JobTypeOK
  <2>2. status'[j] = "READY"
    BY <1>1, <1>3 DEF TypeOK, JobTypeOK
  <2> QED
    BY <1>3, <2>1, <2>2 DEF ArtifactInv
<1>7. \A b, d \in artifacts' : b.id = d.id => b = d
  BY <1>3, <1>4 DEF ArtifactInv
<1>8. WorkbookComplete'
  <2>1. \A c \in Commented[R] : a.content[c] # "unread"
    BY <1>2, <1>3 DEF Recorded
  <2> QED
    BY <1>3, <2>1 DEF ArtifactInv, WorkbookComplete
<1>9. \A r \in Report :
        {b.revision : b \in ArtifactsOf(r)'} = 1 .. Cardinality(ArtifactsOf(r)')
  <2>1. ASSUME NEW r \in Report, r # R
        PROVE  {b.revision : b \in ArtifactsOf(r)'} = 1 .. Cardinality(ArtifactsOf(r)')
    <3>1. ArtifactsOf(r)' = ArtifactsOf(r)
      BY <1>3, <2>1 DEF ArtifactsOf
    <3> QED
      BY <3>1 DEF ArtifactInv
  <2>2. ASSUME NEW r \in Report, r = R
        PROVE  {b.revision : b \in ArtifactsOf(r)'} = 1 .. Cardinality(ArtifactsOf(r)')
    <3>1. ArtifactsOf(r)' = ArtifactsOf(r) \cup {a} /\ a \notin ArtifactsOf(r)
      BY <1>3, <1>4, <2>2 DEF ArtifactsOf
    <3>2. n \in Nat /\ Cardinality(ArtifactsOf(r)') = n + 1
      BY <2>2, <3>1, ArtifactsFinite, FS_AddElement
    <3>3. {b.revision : b \in ArtifactsOf(r)} = 1 .. n
      BY <1>1, <2>2 DEF ArtifactInv
    <3>4. {b.revision : b \in ArtifactsOf(r)'} = (1 .. n) \cup {n + 1}
      <4> HIDE DEF n, R, j
      <4> QED
        BY <1>3, <3>1, <3>3
    <3> QED
      BY <3>2, <3>4
  <2> QED
    BY <2>1, <2>2
<1>10. queued' = {b \in artifacts' : b.revision = 1}
  BY <1>3 DEF ArtifactInv
<1> QED
  BY <1>5, <1>6, <1>7, <1>8, <1>9, <1>10 DEF ArtifactInv

\* The workbooks of a report are complete and numbered in order.
LEMMA ArtifactStep ==
  ASSUME EnrichmentInv, [Next]_vars
  PROVE  ArtifactInv'
<1> USE DEF EnrichmentInv
<1>a. /\ status \in [Job -> Status]
      /\ analysis \in [Job -> [Comment -> Result \cup {"unread"}]]
  BY DEF TypeOK, JobTypeOK
<1>1. ASSUME UNCHANGED <<artifacts, queued, status, analysis>>  PROVE ArtifactInv'
  BY <1>1, ArtifactFrame
<1>2. CASE (\E r \in Report : CoreReady(r)) \/ Tick \/ UNCHANGED vars
  BY <1>1, <1>2 DEF CoreReady, Tick, vars, jobVars, resultVars
<1>3. ASSUME NEW w \in Worker, Memory(w)  PROVE ArtifactInv'
  BY <1>1, <1>3, MemoryFrame
\* A step that writes the status of jobs none of which is or becomes READY.
<1>4. ASSUME UNCHANGED <<artifacts, queued, analysis>>,
             \A j \in Job : status'[j] # status[j] => status[j] # "READY" /\ status'[j] # "READY"
      PROVE  ArtifactInv'
  BY <1>4, ArtifactFrame
<1>5. ASSUME NEW j \in Job, Reopen(j)  PROVE ArtifactInv'
  BY <1>4, <1>5, <1>a DEF Reopen, resultVars
<1>6. ASSUME NEW w \in Worker, Enqueue(w)  PROVE ArtifactInv'
  <2>1. UNCHANGED <<artifacts, queued, analysis>>
    BY <1>6 DEF Enqueue, resultVars
  <2>2. \A j \in Job : status'[j] # status[j] => status[j] = "ABSENT" /\ status'[j] # "READY"
    BY <1>6, <1>a DEF Enqueue
  <2> QED
    BY <1>4, <2>1, <2>2
<1>7. ASSUME NEW w \in Worker, RecoverStale(w)  PROVE ArtifactInv'
  <2>1. UNCHANGED <<artifacts, queued, analysis>>
    BY <1>7 DEF RecoverStale, resultVars
  <2>2. \A j \in Job : status'[j] # status[j] => status[j] = "CLAIMED" /\ status'[j] = "FAILED"
    BY <1>7 DEF RecoverStale, Expired
  <2> QED
    BY <1>4, <2>1, <2>2
<1>8. ASSUME NEW w \in Worker, ClaimNext(w)  PROVE ArtifactInv'
  <2>1. UNCHANGED <<artifacts, queued, analysis>>
    BY <1>8 DEF ClaimNext, resultVars
  <2>2. \A j \in Job : status'[j] # status[j] =>
          status[j] \in {"PENDING", "FAILED"} /\ status'[j] = "CLAIMED"
    BY <1>8, <1>a DEF ClaimNext, Claimable
  <2> QED
    BY <1>4, <2>1, <2>2
<1>9. ASSUME NEW w \in Worker, Record(w) \/ RecordFails(w)  PROVE ArtifactInv'
  <2>1. /\ UNCHANGED <<artifacts, queued, status>> /\ pc[w] = "record"
        /\ Insert(w) \/ UNCHANGED analysis
    BY <1>9 DEF Record, RecordFails, jobVars
  <2>2. ASSUME NEW j \in Job, status[j] = "READY"  PROVE analysis'[j] = analysis[j]
    <3>1. \A c \in Comment : analysis'[j][c] = analysis[j][c]
      BY <2>1, <2>2, InsertEffect DEF Fenced
    <3>2. analysis' \in [Job -> [Comment -> Result \cup {"unread"}]]
      BY <2>1, InsertEffect
    <3> QED
      BY <1>a, <3>1, <3>2
  <2> QED
    BY <2>1, <2>2, ArtifactFrame
<1>10. ASSUME NEW w \in Worker, Commit(w) \/ RunFails(w)  PROVE ArtifactInv'
  <2>1. UNCHANGED analysis
    BY <1>10 DEF Commit, RunFails
  <2>2. CASE pc[w] = "commit" /\ Complete(w)
    BY <2>1, <2>2, CompleteKeepsArtifacts
  <2> QED
    BY <1>1, <1>10, <2>1, <2>2 DEF Commit, RunFails
<1>11. ASSUME NEW w \in Worker, Fail(w)  PROVE ArtifactInv'
  <2>1. UNCHANGED <<artifacts, queued, analysis>>
    BY <1>11 DEF Fail, resultVars
  <2>2. \A j \in Job : status'[j] # status[j] => status[j] = "CLAIMED" /\ status'[j] = "FAILED"
    BY <1>11, <1>a DEF Fail, Fenced
  <2> QED
    BY <1>4, <2>1, <2>2
<1> QED
  BY <1>2, <1>3, <1>5, <1>6, <1>7, <1>8, <1>9, <1>10, <1>11
     DEF Next, TickStep, JobStep, FaultOf, Horizon, Memory

-----------------------------------------------------------------------------
(* Theorems *)

\* The invariant holds at the start.
LEMMA EnrichmentInit ==
  ASSUME Init
  PROVE  EnrichmentInv
<1>1. TypeOK
  BY EnrichmentAssumption
     DEF Init, TypeOK, JobTypeOK, Status, PC, Unread, NoTime, PositiveSettings
<1>2. AttemptsInv /\ HolderInv /\ RunInv
  BY DEF Init, AttemptsInv, HolderInv, HolderOK, RunInv, RunOK, Busy
<1>3. ArtifactInv
  <2>1. artifacts = {} /\ queued = {} /\ \A j \in Job : status[j] = "ABSENT"
    BY DEF Init
  <2>2. \A r : ArtifactsOf(r) = {}
    BY <2>1 DEF ArtifactsOf
  <2>3. Cardinality({}) = 0 /\ IsFiniteSet({})
    BY FS_EmptySet
  <2> QED
    BY <2>1, <2>2, <2>3 DEF ArtifactInv, WorkbookComplete
<1> QED
  BY <1>1, <1>2, <1>3 DEF EnrichmentInv

\* Every claim has one holder, a holder has gone through the recorded comments, and
\* the stored workbooks are in order (comment_enrichment_service).
THEOREM EnrichmentInvariant == Spec => []EnrichmentInv
<1>1. Init => EnrichmentInv
  BY EnrichmentInit
<1>2. EnrichmentInv /\ [Next]_vars => EnrichmentInv'
  <2> SUFFICES ASSUME EnrichmentInv, [Next]_vars  PROVE EnrichmentInv'
    OBVIOUS
  <2>1. TypeOK'
    <3>1. WorkerTypeOK' /\ RowTypeOK'
      BY WorkerTypeStep, RowTypeStep DEF EnrichmentInv
    <3> QED
      BY <3>1 DEF TypeOK, WorkerTypeOK, RowTypeOK
  <2> QED
    BY <2>1, RowTypeStep, HolderStep, RunStep, ArtifactStep DEF EnrichmentInv
<1> QED
  BY <1>1, <1>2, PTL DEF Spec

\* The columns stay in their types and agree with the status of their job
\* (ck_comment_enrichment_job_claim_fields).
THEOREM EnrichmentTypeCorrect == Spec => []TypeOK
<1>1. EnrichmentInv => TypeOK
  BY DEF EnrichmentInv
<1> QED
  BY <1>1, EnrichmentInvariant, PTL

\* record_comment_analysis never raises EnrichmentConflictError.
THEOREM NeverInConflict == Spec => []NoConflict
<1>1. EnrichmentInv => NoConflict
  <2> SUFFICES ASSUME EnrichmentInv, NEW w \in Worker, pc[w] = "record", Fenced(w)
               PROVE  analysis[job[w].id][job[w].comment] = "unread"
    BY DEF NoConflict, Conflict
  <2>1. job[w].comment \in Comment /\ job[w].comment \notin job[w].done
    BY CommentAtHand DEF EnrichmentInv
  <2>2. job[w].done = Recorded(job[w].id)
    BY DEF EnrichmentInv, RunInv, RunOK
  <2> QED
    BY <2>1, <2>2 DEF Recorded
<1> QED
  BY <1>1, EnrichmentInvariant, PTL

\* A stored workbook shows the recorded analysis of every comment of its report.
THEOREM WorkbooksAreComplete == Spec => []WorkbookComplete
<1>1. EnrichmentInv => WorkbookComplete
  BY DEF EnrichmentInv, ArtifactInv
<1> QED
  BY <1>1, EnrichmentInvariant, PTL

\* A job has one workbook when it is READY and none before, and the workbooks of a
\* report are its revisions 1, 2, ..., the first of them queued (complete_enrichment).
THEOREM RevisionsStayInOrder == Spec => []RevisionsInOrder
<1>1. EnrichmentInv => RevisionsInOrder
  <2> SUFFICES ASSUME EnrichmentInv  PROVE RevisionsInOrder
    OBVIOUS
  <2>1. ArtifactInv
    BY DEF EnrichmentInv
  <2>2. ASSUME NEW j \in Job
        PROVE  Cardinality({a \in artifacts : a.id = j}) = IF status[j] = "READY" THEN 1 ELSE 0
    <3>1. CASE status[j] = "READY"
      <4>1. PICK a \in artifacts : a.id = j
        BY <2>1, <3>1 DEF ArtifactInv
      <4>2. {b \in artifacts : b.id = j} = {a}
        BY <2>1, <4>1 DEF ArtifactInv
      <4> QED
        BY <3>1, <4>2, FS_Singleton
    <3>2. CASE status[j] # "READY"
      <4>1. {b \in artifacts : b.id = j} = {}
        BY <2>1, <3>2 DEF ArtifactInv
      <4> QED
        BY <3>2, <4>1, FS_EmptySet
    <3> QED
      BY <3>1, <3>2
  <2> QED
    BY <2>1, <2>2 DEF ArtifactInv, RevisionsInOrder
<1> QED
  BY <1>1, EnrichmentInvariant, PTL

\* A recorded analysis is kept for good, and a claim ends by its holder's hand or after
\* its time to live (record_comment_analysis, recover_stale_claimed_enrichment_jobs).
THEOREM WorkStaysKept == Spec => WorkIsKept
<1> DEFINE Kept(j) ==
      /\ \A c \in Recorded(j) : analysis'[j][c] = analysis[j][c]
      /\ status[j] = "CLAIMED" /\ status'[j] # "CLAIMED" =>
           \/ clock >= claimedAt[j] + ClaimTTL
           \/ \E w \in Worker : job[w].tok = claims[j] /\ job[w].id = j /\ pc'[w] # pc[w]
<1>1. EnrichmentInv /\ [Next]_vars => [\A j \in Job : Kept(j)]_vars
  <2> SUFFICES ASSUME EnrichmentInv, Next, NEW j \in Job  PROVE Kept(j)
    OBVIOUS
  <2> USE DEF EnrichmentInv
  <2>a. /\ status \in [Job -> Status] /\ DOMAIN pc = Worker /\ clock \in Nat
        /\ claimedAt \in [Job -> Int] /\ ClaimTTL \in Nat
    BY EnrichmentAssumption DEF TypeOK, JobTypeOK, PositiveSettings
  <2>1. ASSUME analysis' = analysis, status'[j] = "CLAIMED" \/ status[j] # "CLAIMED"
        PROVE  Kept(j)
    BY <2>1
  <2>2. CASE (\E r \in Report : CoreReady(r)) \/ Tick \/ Horizon
    BY <2>1, <2>2 DEF CoreReady, Tick, Horizon, vars, jobVars, resultVars
  <2>3. ASSUME NEW w \in Worker, Memory(w)  PROVE Kept(j)
    BY <2>1, <2>3, MemoryFrame
  <2>4. ASSUME NEW i \in Job, Reopen(i)  PROVE Kept(j)
    BY <2>1, <2>4, <2>a DEF Reopen, resultVars
  <2>5. ASSUME NEW w \in Worker, Enqueue(w) \/ ClaimNext(w)  PROVE Kept(j)
    <3>1. analysis' = analysis
      BY <2>5 DEF Enqueue, ClaimNext, resultVars
    <3>2. status'[j] = "CLAIMED" \/ status[j] # "CLAIMED"
      BY <2>5, <2>a DEF Enqueue, ClaimNext
    <3> QED
      BY <2>1, <3>1, <3>2
  <2>6. ASSUME NEW w \in Worker, RecoverStale(w)  PROVE Kept(j)
    <3>1. analysis' = analysis /\ pc[w] = "stale"
      BY <2>6 DEF RecoverStale, resultVars
    <3>2. now[w] \in Nat /\ now[w] <= clock
      BY <3>1 DEF HolderInv, HolderOK, TypeOK
    <3>3. status'[j] # status[j] => claimedAt[j] + ClaimTTL <= now[w]
      BY <2>6 DEF RecoverStale, Expired
    <3> QED
      BY <2>a, <3>1, <3>2, <3>3
  <2>7. ASSUME NEW w \in Worker, Record(w) \/ RecordFails(w)  PROVE Kept(j)
    <3>1. /\ UNCHANGED status /\ pc[w] = "record" /\ (Insert(w) \/ UNCHANGED analysis)
      BY <2>7 DEF Record, RecordFails, jobVars
    <3>2. \A c \in Recorded(j) : analysis'[j][c] = analysis[j][c]
      BY <3>1, InsertEffect DEF Recorded
    <3> QED
      BY <3>1, <3>2
  <2>8. ASSUME NEW w \in Worker, Commit(w) \/ RunFails(w) \/ Fail(w)  PROVE Kept(j)
    <3>1. analysis' = analysis
      BY <2>8 DEF Commit, RunFails, Fail, resultVars
    <3>2. pc[w] \in {"build", "store", "commit", "fail"} /\ Busy(w)
      BY <2>8 DEF Commit, RunFails, Fail, Busy
    <3>3. pc'[w] # pc[w]
      BY <2>8, <2>a DEF Commit, RunFails, Fail, Release, Go
    <3>4. ASSUME status[j] = "CLAIMED", status'[j] # "CLAIMED"
          PROVE  job[w].id = j /\ job[w].tok = claims[j]
      <4>1. CASE Fail(w)
        BY <2>a, <3>4, <4>1 DEF Fail, Fenced
      <4>2. CASE Commit(w) \/ RunFails(w)
        <5>1. pc[w] = "commit" /\ status' = [status EXCEPT ![job[w].id] = "READY"]
          BY <3>4, <4>2 DEF Commit, RunFails, Complete
        <5> QED
          BY <2>a, <3>4, <5>1 DEF RunInv, RunOK, Fenced
      <4> QED
        BY <2>8, <4>1, <4>2
    <3> QED
      BY <3>1, <3>3, <3>4
  <2> QED
    BY <2>2, <2>3, <2>4, <2>5, <2>6, <2>7, <2>8
       DEF Next, TickStep, JobStep, FaultOf, Memory
<1> QED
  BY <1>1, EnrichmentInvariant, PTL DEF Spec, WorkIsKept

\* Whenever a job is due, the batch has one: the due job with the least id
\* (list_due_enrichment_job_ids).
THEOREM DueJobIsListed == Spec => DueIsTried
<1>1. TypeOK /\ [Next]_vars =>
        [\A w \in Worker :
           pc[w] = "list" /\ pc'[w] = "next" /\ (\E j \in Job : Due(j, now[w])) =>
             \E j \in todo'[w] : Claimable(j, now[w])]_vars
  <2> SUFFICES ASSUME TypeOK, Next, NEW w \in Worker, pc[w] = "list", pc'[w] = "next",
                      NEW d \in Job, Due(d, now[w])
               PROVE  \E j \in todo'[w] : Claimable(j, now[w])
    OBVIOUS
  <2>1. todo'[w] = DueJobs(now[w])
    <3>a. DOMAIN pc = Worker /\ DOMAIN todo = Worker
      BY DEF TypeOK
    <3>1. pc' # pc
      OBVIOUS
    <3>2. PICK v \in Worker : TickStep(v) \/ JobStep(v) \/ FaultOf(v)
      BY <3>1 DEF Next, CoreReady, Reopen, Tick, Horizon, vars, workerVars
    <3>3. v = w
      BY <3>2, OthersKeepTheirClaims
    <3>4. ListDue(w)
      BY <3>2, <3>3, <3>a DEF TickStep, JobStep, FaultOf, StartTick, Enqueue, RecoverStale,
         ClaimNext, EndTick, Load, Answered, Record, Build, Store, Commit, Fail,
         Stall, Restart, TickFails, RecordFails, RunFails, GiveUp, Go
    <3> QED
      BY <3>4, <3>a DEF ListDue
  <2> DEFINE D == {j \in Job : Due(j, now[w])}
             ids == {rowId[j] : j \in D}
  <2>2. rowId \in [Job -> Nat] /\ Batch \in Nat \ {0}
    BY EnrichmentAssumption DEF TypeOK, JobTypeOK, PositiveSettings
  <2>3. PICK j \in D : \A i \in D : rowId[j] <= rowId[i]
    <3>1. ids \in SUBSET Nat /\ ids # {}
      BY <2>2
    <3>2. PICK n \in ids : \A m \in ids : n <= m
      BY <3>1, LeastNatural
    <3> QED
      BY <3>2
  <2>4. {i \in Job : Due(i, now[w]) /\ rowId[i] < rowId[j]} = {}
    BY <2>2, <2>3
  <2>5. j \in DueJobs(now[w])
    BY <2>2, <2>3, <2>4, FS_EmptySet DEF DueJobs
  <2>6. Claimable(j, now[w])
    BY <2>3 DEF Due, Claimable
  <2> QED
    BY <2>1, <2>5, <2>6
<1> QED
  BY <1>1, EnrichmentTypeCorrect, PTL DEF Spec, DueIsTried
=============================================================================
