------------------------- MODULE ReportBuild_proofs --------------------------
(***************************************************************************)
(* Proofs about ReportBuild, for every set of dates, every number of       *)
(* builders and every setting of the times and attempts.                   *)
(***************************************************************************)
EXTENDS ReportBuild, SetFacts

-----------------------------------------------------------------------------
(* Dates and jobs *)

\* The previous completed cycle of a date is an earlier, completed one.
LEMMA LatestBeforeFact ==
  ASSUME TypeOK, NEW d \in Date
  PROVE  /\ LatestBefore(d) \in Date \cup {NoDate}
         /\ LatestBefore(d) # NoDate =>
              LatestBefore(d) < d /\ cycle[LatestBefore(d)] = "completed"
<1> DEFINE earlier == {e \in Date : e < d /\ cycle[e] = "completed"}
<1>1. Date \subseteq Nat
  BY BuildAssumption
<1>2. CASE earlier = {}
  BY <1>2 DEF LatestBefore
<1>3. CASE earlier # {}
  <2>1. \E e \in earlier : \A f \in earlier : f <= e
    <3>1. \A e \in earlier : e <= d
      BY <1>1
    <3> QED
      BY <1>1, <1>3, <3>1, GreatestNatural
  <2>2. LatestBefore(d) = CHOOSE e \in earlier : \A f \in earlier : f <= e
    BY <1>3 DEF LatestBefore
  <2>3. LatestBefore(d) \in earlier
    BY <2>1, <2>2
  <2> QED
    BY <2>3
<1> QED
  BY <1>2, <1>3

\* A build that ends leaves its builder well typed.
LEMMA ReleaseType ==
  ASSUME TypeOK, NEW b \in Builder, Release(b)
  PROVE  pc' \in [Builder -> PC] /\ job' \in [Builder -> Job]
BY DEF TypeOK, Release, Go, PC, Job, NoJob, NoDate

\* What a builder that goes on to another statement does to its types.
LEMMA GoType ==
  ASSUME TypeOK, NEW b \in Builder, NEW p \in PC, Go(b, p)
  PROVE  pc' \in [Builder -> PC]
BY DEF TypeOK, Go

-----------------------------------------------------------------------------
(* The invariant *)

\* Before the first tick there are no reports, and every builder is idle.
LEMMA BuildInit == Init => BuildInv
<1> SUFFICES ASSUME Init  PROVE BuildInv
  OBVIOUS
<1>1. TypeOK
  BY BuildAssumption DEF Init, TypeOK, ReportTypeOK, CycleStatus, Status, PC, Job, NoJob, NoDate,
                         NoCore, NoTime
<1>2. ReadyIffStored /\ ReportInv /\ BuilderInv
  BY DEF Init, ReadyIffStored, ReportInv, BuilderInv, Busy
<1> QED
  BY <1>1, <1>2 DEF BuildInv

\* Uploads complete cycles whose reports do not exist yet.
LEMMA ClosingInv ==
  ASSUME BuildInv, NEW d \in Date, Closing(d) \/ Closed(d)
  PROVE  BuildInv'
<1> USE DEF BuildInv, TypeOK, ReportTypeOK
<1>1. CASE Closing(d)
  <2>1. cycle[d] = "collecting" /\ status[d] = "ABSENT"
    BY <1>1 DEF Closing, ReportInv
  <2>2. /\ previous' = [previous EXCEPT ![d] = LatestBefore(d)]
        /\ cycle' = [cycle EXCEPT ![d] = "closing"]
        /\ UNCHANGED <<clock, claimVars, attempts, core, queued, jobs, pc, job, tickVars, faults>>
    BY <1>1 DEF Closing
  <2>3. /\ LatestBefore(d) \in Date \cup {NoDate}
        /\ LatestBefore(d) # NoDate => LatestBefore(d) < d /\ cycle[LatestBefore(d)] = "completed"
    BY LatestBeforeFact
  <2> HIDE DEF LatestBefore
  <2>4. TypeOK'
    BY <2>2, <2>3 DEF CycleStatus, claimVars, tickVars
  <2>5. ReadyIffStored'
    BY <2>2 DEF ReadyIffStored, claimVars
  <2>6. ReportInv'
    BY <2>1, <2>2, <2>3 DEF ReportInv, claimVars, ReadyIffStored
  <2>7. BuilderInv'
    BY <2>1, <2>2 DEF BuilderInv, Busy, claimVars, tickVars
  <2> QED
    BY <2>4, <2>5, <2>6, <2>7
<1>2. CASE Closed(d)
  <2>1. cycle[d] = "closing" /\ status[d] = "ABSENT"
    BY <1>2 DEF Closed, ReportInv
  <2>2. TypeOK'
    BY <1>2 DEF Closed, CycleStatus, Status, tickVars
  <2>3. ReadyIffStored'
    BY <1>2, <2>1 DEF Closed, ReadyIffStored
  <2>4. ReportInv'
    BY <1>2, <2>1 DEF Closed, ReportInv, ReadyIffStored
  <2>5. BuilderInv'
    BY <1>2, <2>1 DEF Closed, BuilderInv, Busy, tickVars
  <2> QED
    BY <2>2, <2>3, <2>4, <2>5
<1> QED
  BY <1>1, <1>2

\* A step that leaves the reports alone, and keeps or ends the builds, keeps BuildInv.
LEMMA BuilderFrame ==
  ASSUME BuildInv, TypeOK', UNCHANGED <<cycle, reportVars>>, clock' = clock,
         \A b \in Builder :
           /\ pc'[b] # "idle" => now'[b] <= clock
           /\ Busy(b)' => job'[b].date \in Date /\ status[job'[b].date] # "ABSENT"
           /\ pc'[b] = "store" => pc[b] = "store" /\ job'[b] = job[b]
  PROVE  BuildInv'
<1> USE DEF BuildInv, reportVars, claimVars
<1>1. ReadyIffStored'
  BY DEF ReadyIffStored
<1>2. ReportInv'
  BY DEF ReportInv
<1>3. BuilderInv'
  BY DEF BuilderInv
<1> QED
  BY <1>1, <1>2, <1>3

\* The faults write nothing but what the builder remembers.
LEMMA FaultInv ==
  ASSUME BuildInv, NEW b \in Builder,
         Restart(b) \/ BuildFails(b) \/ Fault(b) \/ RecoverJobsFails(b)
  PROVE  BuildInv'
<1> USE DEF BuildInv, TypeOK, reportVars, claimVars, tickVars
<1>1. CASE Restart(b)
  <2>1. TypeOK'
    BY <1>1 DEF Restart, ReportTypeOK, PC, Job, NoJob, NoDate
  <2> QED
    BY <1>1, <2>1, BuilderFrame DEF Restart, BuilderInv, Busy
<1>2. CASE BuildFails(b)
  <2>1. TypeOK'
    BY <1>2, GoType DEF BuildFails, ReportTypeOK, PC
  <2> QED
    BY <1>2, <2>1, BuilderFrame DEF BuildFails, BuilderInv, Busy, Go
<1>3. CASE Fault(b)
  <2>1. TypeOK'
    BY <1>3, ReleaseType DEF Fault, ReportTypeOK
  <2> QED
    BY <1>3, <2>1, BuilderFrame DEF Fault, BuilderInv, Busy, Release, Go
<1>4. CASE RecoverJobsFails(b)
  <2>1. TypeOK'
    <3>1. now' \in [Builder -> Nat]
      BY <1>4, BuildAssumption DEF RecoverJobsFails
    <3>2. pc' \in [Builder -> PC]
      BY <1>4, GoType DEF RecoverJobsFails, PC
    <3> QED
      BY <1>4, <3>1, <3>2 DEF RecoverJobsFails, ReportTypeOK
  <2> QED
    BY <1>4, <2>1, BuilderFrame DEF RecoverJobsFails, BuilderInv, Busy, Go
<1> QED
  BY <1>1, <1>2, <1>3, <1>4

\* The steps of a tick outside of a build.
LEMMA TickStepInv ==
  ASSUME BuildInv, NEW b \in Builder, TickStep(b)
  PROVE  BuildInv'
<1> USE DEF BuildInv, TypeOK, reportVars, claimVars, tickVars
<1>1. CASE StartTick(b)
  <2>1. TypeOK'
    BY <1>1, GoType DEF StartTick, ReportTypeOK, PC
  <2> QED
    BY <1>1, <2>1, BuilderFrame DEF StartTick, BuilderInv, Busy, Go
<1>2. CASE ListDue(b)
  <2>1. TypeOK'
    BY <1>2, GoType DEF ListDue, ReportTypeOK, PC
  <2> QED
    BY <1>2, <2>1, BuilderFrame DEF ListDue, BuilderInv, Busy, Go
<1>3. CASE RecoverJobs(b)
  <2>1. TypeOK'
    <3>1. now' \in [Builder -> Nat]
      BY <1>3, BuildAssumption DEF RecoverJobs
    <3>2. pc' \in [Builder -> PC]
      BY <1>3, GoType DEF RecoverJobs, PC
    <3> QED
      BY <1>3, <3>1, <3>2 DEF RecoverJobs, ReportTypeOK
  <2> QED
    BY <1>3, <2>1, BuilderFrame DEF RecoverJobs, BuilderInv, Busy, Go
<1>4. CASE RecoverMissing(b)
  <2> DEFINE missing == {d \in Date : cycle[d] = "completed" /\ status[d] = "ABSENT"}
  <2>1. /\ previous' = [d \in Date |-> IF d \in missing THEN LatestBefore(d) ELSE previous[d]]
        /\ status' = [d \in Date |-> IF d \in missing THEN "PENDING" ELSE status[d]]
        /\ Go(b, "stale") /\ pc[b] = "missing"
        /\ UNCHANGED <<clock, cycle, token, claimedAt, nextRetry, attempts, core, queued, jobs,
                       job, tickVars, faults>>
    BY <1>4 DEF RecoverMissing
  <2>2. \A d \in Date :
          /\ LatestBefore(d) \in Date \cup {NoDate}
          /\ LatestBefore(d) # NoDate => LatestBefore(d) < d /\ cycle[LatestBefore(d)] = "completed"
    BY LatestBeforeFact
  <2> HIDE DEF LatestBefore
  <2>3. TypeOK'
    <3>1. pc' \in [Builder -> PC]
      BY <2>1, GoType DEF PC
    <3> QED
      BY <2>1, <2>2, <3>1 DEF ReportTypeOK, Status
  <2>4. ReadyIffStored'
    BY <2>1 DEF ReadyIffStored
  <2>5. \A d \in Date : d \in missing => core[d] = NoCore
    BY DEF ReadyIffStored
  <2>6. ReportInv'
    BY <2>1, <2>2, <2>5 DEF ReportInv, ReportTypeOK
  <2>7. BuilderInv'
    <3>1. \A d \in Date : status[d] # "ABSENT" => status'[d] = status[d] /\ previous'[d] = previous[d]
      BY <2>1
    <3> QED
      BY <2>1, <3>1 DEF BuilderInv, Busy, Go
  <2> QED
    BY <2>3, <2>4, <2>6, <2>7
<1>5. CASE RecoverStale(b)
  <2>1. PICK stale \in SUBSET Date :
          /\ \A d \in stale : status[d] = "BUILDING"
          /\ status' = [d \in Date |-> IF d \in stale THEN "FAILED" ELSE status[d]]
          /\ token' = [d \in Date |-> IF d \in stale THEN 0 ELSE token[d]]
          /\ claimedAt' = [d \in Date |-> IF d \in stale THEN NoTime ELSE claimedAt[d]]
          /\ nextRetry' = [d \in Date |-> IF d \notin stale THEN nextRetry[d]
                                          ELSE IF Exhausted(d) THEN NoTime ELSE now[b]]
    BY <1>5 DEF RecoverStale
  <2>2. /\ Go(b, IF pc[b] = "stale" THEN "again" ELSE "list") /\ pc[b] \in {"stale", "again"}
        /\ UNCHANGED <<clock, cycle, previous, attempts, core, queued, jobs, job, tickVars, faults>>
    BY <1>5 DEF RecoverStale
  <2>3. TypeOK'
    <3>1. pc' \in [Builder -> PC]
      BY <2>2, GoType DEF PC
    <3>2. nextRetry' \in [Date -> Int]
      BY <2>1 DEF ReportTypeOK, NoTime
    <3> QED
      BY <2>1, <2>2, <3>1, <3>2 DEF ReportTypeOK, Status, NoTime
  <2>4. ReadyIffStored'
    BY <2>1, <2>2 DEF ReadyIffStored, ReportTypeOK
  <2>5. ReportInv'
    BY <2>1, <2>2 DEF ReportInv, ReportTypeOK
  <2>6. BuilderInv'
    BY <2>1, <2>2 DEF BuilderInv, Busy, Go
  <2> QED
    BY <2>3, <2>4, <2>5, <2>6
<1> QED
  BY <1>1, <1>2, <1>3, <1>4, <1>5 DEF TickStep

\* The steps of a build.
LEMMA BuildStepInv ==
  ASSUME BuildInv, NEW b \in Builder, BuildStep(b)
  PROVE  BuildInv'
<1> USE DEF BuildInv, TypeOK, reportVars, claimVars, tickVars
<1>1. CASE ClaimNext(b)
  <2>1. PICK d \in todo[b] :
          /\ todo' = [todo EXCEPT ![b] = @ \ {d}]
          /\ \/ /\ Due(d, now[b])
                /\ status' = [status EXCEPT ![d] = "BUILDING"]
                /\ attempts' = [attempts EXCEPT ![d] = @ + 1]
                /\ token' = [token EXCEPT ![d] = attempts[d] + 1]
                /\ claimedAt' = [claimedAt EXCEPT ![d] = clock]
                /\ nextRetry' = [nextRetry EXCEPT ![d] = NoTime]
                /\ job' = [job EXCEPT ![b] = [date |-> d, tok |-> attempts[d] + 1,
                                              base |-> NoDate]]
                /\ Go(b, "read")
             \/ UNCHANGED <<claimVars, attempts, job, pc>>
    BY <1>1 DEF ClaimNext
  <2>2. /\ pc[b] = "next" /\ d \in Date
        /\ UNCHANGED <<clock, cycle, previous, core, queued, jobs, now, faults>>
    BY <1>1 DEF ClaimNext
  <2>3. CASE UNCHANGED <<claimVars, attempts, job, pc>>
    <3>1. TypeOK'
      BY <2>1, <2>2, <2>3 DEF ReportTypeOK
    <3> QED
      BY <2>2, <2>3, <3>1, BuilderFrame DEF BuilderInv, Busy
  <2>4. CASE ~UNCHANGED <<claimVars, attempts, job, pc>>
    <3>1. status[d] \in {"PENDING", "FAILED"}
      BY <2>1, <2>4 DEF Due
    <3>2. TypeOK'
      <4>1. status' \in [Date -> Status] /\ token' \in [Date -> Nat]
        BY <2>1, <2>2, <2>4 DEF ReportTypeOK, Status
      <4>2. attempts' \in [Date -> Nat] /\ claimedAt' \in [Date -> Int] /\ nextRetry' \in [Date -> Int]
        BY <2>1, <2>2, <2>4 DEF ReportTypeOK, NoTime
      <4>3. pc' \in [Builder -> PC]
        BY <2>1, <2>4, GoType DEF PC
      <4>4. [date |-> d, tok |-> attempts[d] + 1, base |-> NoDate] \in Job
        BY <2>2 DEF ReportTypeOK, Job
      <4>5. job' \in [Builder -> Job]
        BY <2>1, <2>4, <4>4
      <4> QED
        BY <2>1, <2>2, <4>1, <4>2, <4>3, <4>5 DEF ReportTypeOK
    <3>3. ReadyIffStored'
      BY <2>1, <2>2, <2>4, <3>1 DEF ReadyIffStored, ReportTypeOK
    <3>4. ReportInv'
      BY <2>1, <2>2, <2>4, <3>1 DEF ReportInv, ReportTypeOK, NoTime
    <3>5. BuilderInv'
      <4>1. \A e \in Date : status[e] # "ABSENT" => status'[e] # "ABSENT"
        BY <2>1, <2>2, <2>4 DEF ReportTypeOK
      <4>2. status'[d] # "ABSENT" /\ job'[b].date = d /\ pc'[b] = "read"
        BY <2>1, <2>2, <2>4 DEF ReportTypeOK, Go
      <4>3. \A c \in Builder : c # b => job'[c] = job[c] /\ pc'[c] = pc[c]
        BY <2>1, <2>4 DEF Go
      <4> QED
        BY <2>2, <4>1, <4>2, <4>3 DEF BuilderInv, Busy
    <3> QED
      BY <3>2, <3>3, <3>4, <3>5
  <2> QED
    BY <2>3, <2>4
<1>2. CASE Read(b)
  <2>1. /\ pc[b] = "read" /\ job[b].date \in Date /\ status[job[b].date] # "ABSENT"
        /\ UNCHANGED <<clock, cycle, reportVars, jobs, tickVars, faults>>
    BY <1>2 DEF Read, BuilderInv, Busy
  <2>2. CASE Go(b, "fail") /\ job' = job
    <3>1. TypeOK'
      BY <2>1, <2>2, GoType DEF ReportTypeOK, PC
    <3> QED
      BY <2>1, <2>2, <3>1, BuilderFrame DEF BuilderInv, Busy, Go
  <2>3. CASE Go(b, "store") /\ job' = [job EXCEPT ![b].base = Base(job[b].date)]
    <3>1. Base(job[b].date) \in Date \cup {NoDate}
      BY <2>1, LatestBeforeFact DEF Base, ReportTypeOK
    <3>2. previous[job[b].date] # NoDate => Base(job[b].date) = previous[job[b].date]
      BY DEF Base
    <3> HIDE DEF Base
    <3>3. TypeOK'
      <4>1. job' \in [Builder -> Job]
        BY <2>3, <3>1 DEF Job
      <4> QED
        BY <2>1, <2>3, <4>1, GoType DEF ReportTypeOK, PC
    <3>4. ReadyIffStored' /\ ReportInv'
      BY <2>1 DEF ReadyIffStored, ReportInv
    <3>5. /\ job'[b].date = job[b].date /\ job'[b].base = Base(job[b].date)
          /\ \A c \in Builder : c # b => job'[c] = job[c] /\ pc'[c] = pc[c]
      BY <2>3 DEF Go, Job
    <3>6. BuilderInv'
      BY <2>1, <2>3, <3>2, <3>5 DEF BuilderInv, Busy, Go
    <3> QED
      BY <3>3, <3>4, <3>6
  <2> QED
    BY <1>2, <2>2, <2>3 DEF Read
<1>3. CASE Store(b)
  <2> DEFINE d == job[b].date
  <2>1. /\ pc[b] = "store" /\ d \in Date /\ status[d] # "ABSENT"
        /\ previous[d] # NoDate => job[b].base = previous[d]
        /\ UNCHANGED <<clock, cycle, previous, attempts, jobs, job, tickVars>>
    BY <1>3 DEF Store, BuilderInv, Busy
  <2>2. pc' \in [Builder -> PC] /\ faults' \in Nat
    BY <1>3, BuildAssumption, GoType DEF Store, PC
  <2>3. \E p \in {"enqueue", "fail"} : Go(b, p)
    BY <1>3 DEF Store
  <2>4. CASE UNCHANGED <<core, queued, claimVars>>
    <3>1. TypeOK'
      BY <2>1, <2>2, <2>4 DEF ReportTypeOK
    <3> QED
      BY <2>1, <2>3, <2>4, <3>1, BuilderFrame DEF BuilderInv, Busy, Go
  <2>5. CASE /\ Fenced(b) /\ core[d] = NoCore
             /\ core' = [core EXCEPT ![d] = job[b].base]
             /\ queued' = queued \cup {d}
             /\ status' = [status EXCEPT ![d] = "READY"]
             /\ token' = [token EXCEPT ![d] = 0]
             /\ claimedAt' = [claimedAt EXCEPT ![d] = NoTime]
             /\ nextRetry' = [nextRetry EXCEPT ![d] = NoTime]
    <3>1. job[b].base \in Date \cup {NoDate} /\ status[d] = "BUILDING"
      BY <2>5 DEF Job, Fenced
    <3>2. job[b].base # NoCore
      BY <3>1, BuildAssumption DEF NoCore, NoDate
    <3>3. TypeOK'
      <4>1. core' \in [Date -> Date \cup {NoDate, NoCore}] /\ status' \in [Date -> Status]
        BY <2>1, <2>5, <3>1 DEF ReportTypeOK, Status
      <4>2. token' \in [Date -> Nat] /\ claimedAt' \in [Date -> Int] /\ nextRetry' \in [Date -> Int]
        BY <2>1, <2>5 DEF ReportTypeOK, NoTime
      <4> QED
        BY <2>1, <2>2, <2>5, <4>1, <4>2 DEF ReportTypeOK
    <3>4. ReadyIffStored'
      BY <2>1, <2>5, <3>2 DEF ReadyIffStored, ReportTypeOK
    <3>5. ReportInv'
      BY <2>1, <2>5 DEF ReportInv, ReportTypeOK
    <3>6. BuilderInv'
      <4>1. \A e \in Date : status[e] # "ABSENT" => status'[e] # "ABSENT"
        BY <2>1, <2>5 DEF ReportTypeOK
      <4> QED
        BY <2>1, <2>3, <4>1 DEF BuilderInv, Busy, Go
    <3> QED
      BY <3>3, <3>4, <3>5, <3>6
  <2> QED
    BY <1>3, <2>4, <2>5 DEF Store
<1>4. CASE Enqueue(b)
  <2>1. job[b].date \in Date
    BY <1>4 DEF Enqueue, BuilderInv, Busy
  <2>2. TypeOK'
    BY <1>4, <2>1, ReleaseType DEF Enqueue, ReportTypeOK
  <2> QED
    BY <1>4, <2>2, BuilderFrame DEF Enqueue, BuilderInv, Busy, Release, Go
<1>5. CASE Fail(b)
  <2> DEFINE d == job[b].date
  <2>1. /\ pc[b] = "fail" /\ d \in Date /\ status[d] # "ABSENT" /\ Release(b)
        /\ UNCHANGED <<clock, cycle, previous, attempts, core, queued, jobs, tickVars, faults>>
    BY <1>5 DEF Fail, BuilderInv, Busy
  <2>2. CASE UNCHANGED claimVars
    <3>1. TypeOK'
      BY <2>1, <2>2, ReleaseType DEF ReportTypeOK
    <3> QED
      BY <2>1, <2>2, <3>1, BuilderFrame DEF BuilderInv, Busy, Release, Go
  <2>3. CASE /\ Fenced(b)
             /\ status' = [status EXCEPT ![d] = "FAILED"]
             /\ token' = [token EXCEPT ![d] = 0]
             /\ claimedAt' = [claimedAt EXCEPT ![d] = NoTime]
             /\ nextRetry' = [nextRetry EXCEPT ![d] =
                  IF Exhausted(d) THEN NoTime ELSE now[b] + Backoff * attempts[d]]
    <3>1. status[d] = "BUILDING"
      BY <2>3 DEF Fenced
    <3>2. now[b] + Backoff * attempts[d] \in Int
      <4>1. attempts[d] \in Nat /\ now[b] \in Nat
        BY <2>1 DEF ReportTypeOK
      <4> QED
        BY <4>1, BuildAssumption
    <3>3. TypeOK'
      <4>1. status' \in [Date -> Status] /\ token' \in [Date -> Nat]
        BY <2>1, <2>3 DEF ReportTypeOK, Status
      <4>2. claimedAt' \in [Date -> Int] /\ nextRetry' \in [Date -> Int]
        BY <2>1, <2>3, <3>2 DEF ReportTypeOK, NoTime
      <4> QED
        BY <2>1, <2>3, <4>1, <4>2, ReleaseType DEF ReportTypeOK
    <3>4. ReadyIffStored'
      BY <2>1, <2>3, <3>1 DEF ReadyIffStored, ReportTypeOK
    <3>5. ReportInv'
      BY <2>1, <2>3, <3>1 DEF ReportInv, ReportTypeOK
    <3>6. BuilderInv'
      <4>1. \A e \in Date : status[e] # "ABSENT" => status'[e] # "ABSENT"
        BY <2>1, <2>3 DEF ReportTypeOK
      <4> QED
        BY <2>1, <4>1 DEF BuilderInv, Busy, Release, Go
    <3> QED
      BY <3>3, <3>4, <3>5, <3>6
  <2> QED
    BY <1>5, <2>2, <2>3 DEF Fail
<1> QED
  BY <1>1, <1>2, <1>3, <1>4, <1>5 DEF BuildStep

\* The invariant is inductive.
LEMMA BuildNext ==
  ASSUME BuildInv, [Next]_vars
  PROVE  BuildInv'
<1>1. ASSUME NEW d \in Date, Closing(d) \/ Closed(d)  PROVE BuildInv'
  BY <1>1, ClosingInv
<1>2. ASSUME NEW b \in Builder, TickStep(b)  PROVE BuildInv'
  BY <1>2, TickStepInv
<1>3. ASSUME NEW b \in Builder, BuildStep(b)  PROVE BuildInv'
  BY <1>3, BuildStepInv
<1>4. ASSUME NEW b \in Builder,
             Restart(b) \/ BuildFails(b) \/ Fault(b) \/ RecoverJobsFails(b)
      PROVE  BuildInv'
  BY <1>4, FaultInv
<1>5. CASE Tick
  <2> USE <1>5 DEF Tick, reportVars, claimVars, tickVars
  <2>1. TypeOK'
    BY DEF BuildInv, TypeOK, ReportTypeOK
  <2>2. ReadyIffStored' /\ ReportInv'
    BY DEF BuildInv, ReadyIffStored, ReportInv
  <2>3. BuilderInv'
    BY DEF BuildInv, TypeOK, BuilderInv, Busy
  <2> QED
    BY <2>1, <2>2, <2>3 DEF BuildInv
<1>6. CASE UNCHANGED vars
  BY <1>6 DEF vars, reportVars, claimVars, tickVars, BuildInv, TypeOK, ReportTypeOK,
              ReadyIffStored, ReportInv, BuilderInv, Busy
<1> QED
  BY <1>1, <1>2, <1>3, <1>4, <1>5, <1>6 DEF Next, Step, Horizon

\* In every reachable state a report belongs to a completed cycle, and a build that
\* has read the positions has read those of the report's previous cycle.
THEOREM BuildInvariant == Spec => []BuildInv
BY BuildInit, BuildNext, PTL DEF Spec

\* Every column of audit_reports and every local variable keeps its type.
THEOREM BuildTypeCorrect == Spec => []TypeOK
BY BuildInvariant, PTL DEF BuildInv

\* A report is READY exactly while its CORE artifact and its delivery exist,
\* whatever claims expire, builds fail and answers are lost.
THEOREM ReadyExactlyWhenStored == Spec => []ReadyIffStored
BY BuildInvariant, PTL DEF BuildInv

\* A stored workbook compares with the previous cycle that was frozen when its
\* cycle completed, whatever dates complete between its claim and its commit.
THEOREM FrozenUsed == Spec => []FrozenPreviousUsed
<1>1. BuildInv => FrozenPreviousUsed
  BY DEF BuildInv, ReportInv, FrozenPreviousUsed
<1> QED
  BY <1>1, BuildInvariant, PTL

-----------------------------------------------------------------------------
(* Action properties *)

\* No step changes the previous cycle of a report or the workbook it has.
LEMMA FrozenStep ==
  ASSUME BuildInv, [Next]_vars, NEW d \in Date
  PROVE  /\ status[d] # "ABSENT" => previous'[d] = previous[d]
         /\ core[d] # NoCore => core'[d] = core[d]
<1> USE DEF BuildInv, TypeOK, ReportTypeOK, reportVars
<1>1. ASSUME NEW e \in Date, Closing(e) \/ Closed(e)
      PROVE  core' = core /\ (status[d] # "ABSENT" => previous'[d] = previous[d])
  <2>1. status[e] = "ABSENT"
    BY <1>1 DEF Closing, Closed, ReportInv
  <2> QED
    BY <1>1, <2>1 DEF Closing, Closed
<1>2. ASSUME NEW b \in Builder, RecoverMissing(b)
      PROVE  core' = core /\ (status[d] # "ABSENT" => previous'[d] = previous[d])
  BY <1>2 DEF RecoverMissing
<1>3. ASSUME NEW b \in Builder, Store(b)
      PROVE  previous' = previous /\ (core[d] # NoCore => core'[d] = core[d])
  BY <1>3 DEF Store
<1>4. ASSUME NEW b \in Builder,
             StartTick(b) \/ RecoverStale(b) \/ ListDue(b) \/ RecoverJobs(b)
             \/ ClaimNext(b) \/ Read(b) \/ Enqueue(b) \/ Fail(b)
      PROVE  previous' = previous /\ core' = core
  BY <1>4 DEF StartTick, RecoverStale, ListDue, RecoverJobs, ClaimNext, Read, Enqueue, Fail
<1>5. ASSUME NEW b \in Builder,
             Restart(b) \/ BuildFails(b) \/ Fault(b) \/ RecoverJobsFails(b)
      PROVE  previous' = previous /\ core' = core
  BY <1>5 DEF Restart, BuildFails, Fault, RecoverJobsFails
<1>6. CASE Tick \/ UNCHANGED vars
  BY <1>6 DEF Tick, vars
<1> QED
  BY <1>1, <1>2, <1>3, <1>4, <1>5, <1>6 DEF Next, Step, Horizon, TickStep, BuildStep

\* The previous cycle and the workbook of a report are frozen.
THEOREM ReportStaysFrozen == Spec => ReportFrozen
<1>1. BuildInv /\ [Next]_vars =>
        [\A d \in Date : /\ status[d] # "ABSENT" => previous'[d] = previous[d]
                         /\ core[d] # NoCore => core'[d] = core[d]]_vars
  BY FrozenStep
<1> QED
  BY <1>1, BuildInvariant, PTL DEF Spec, ReportFrozen

\* A claim changes hands only after its time to live, unless its builder ends it.
LEMMA ClaimStep ==
  ASSUME BuildInv, [Next]_vars, NEW d \in Date, status[d] = "BUILDING", token'[d] # token[d]
  PROVE  \/ clock - claimedAt[d] >= ClaimTTL
         \/ \E b \in Builder : /\ pc[b] \in {"store", "fail"} /\ pc'[b] # pc[b]
                               /\ job[b].date = d /\ job[b].tok = token[d]
<1> USE DEF BuildInv, TypeOK, ReportTypeOK, reportVars, claimVars
<1>1. ASSUME NEW e \in Date, Closing(e) \/ Closed(e)  PROVE FALSE
  BY <1>1 DEF Closing, Closed
<1>2. ASSUME NEW b \in Builder, RecoverStale(b)
      PROVE  clock - claimedAt[d] >= ClaimTTL
  <2>1. ~ClaimIsActive(d, now[b])
    BY <1>2 DEF RecoverStale
  <2>2. claimedAt[d] # NoTime /\ now[b] <= clock
    BY <1>2 DEF ReportInv, BuilderInv, RecoverStale
  <2>3. now[b] - claimedAt[d] >= ClaimTTL
    BY <2>1, <2>2, BuildAssumption DEF ClaimIsActive
  <2>4. now[b] \in Nat /\ clock \in Nat /\ claimedAt[d] \in Int /\ ClaimTTL \in Nat
    BY BuildAssumption
  <2> QED
    BY <2>2, <2>3, <2>4
<1>3. ASSUME NEW b \in Builder, Store(b) \/ Fail(b)
      PROVE  /\ pc[b] \in {"store", "fail"} /\ pc'[b] # pc[b]
             /\ job[b].date = d /\ job[b].tok = token[d]
  BY <1>3 DEF Store, Fail, Fenced, Release, Go
<1>4. ASSUME NEW b \in Builder, ClaimNext(b)  PROVE FALSE
  BY <1>4 DEF ClaimNext, Due
<1>5. ASSUME NEW b \in Builder,
             StartTick(b) \/ RecoverMissing(b) \/ ListDue(b) \/ RecoverJobs(b)
             \/ Read(b) \/ Enqueue(b)
      PROVE  FALSE
  BY <1>5 DEF StartTick, RecoverMissing, ListDue, RecoverJobs, Read, Enqueue
<1>6. ASSUME NEW b \in Builder,
             Restart(b) \/ BuildFails(b) \/ Fault(b) \/ RecoverJobsFails(b)
      PROVE  FALSE
  BY <1>6 DEF Restart, BuildFails, Fault, RecoverJobsFails
<1>7. ~ (Tick \/ UNCHANGED vars)
  BY DEF Tick, vars
<1> QED
  BY <1>1, <1>2, <1>3, <1>4, <1>5, <1>6, <1>7 DEF Next, Step, Horizon, TickStep, BuildStep

\* A builder that is slow or late never ends the claim of another one early.
THEOREM ClaimIsKept == Spec => ClaimKept
<1>1. BuildInv /\ [Next]_vars =>
        [\A d \in Date : status[d] = "BUILDING" /\ token'[d] # token[d] =>
           \/ clock - claimedAt[d] >= ClaimTTL
           \/ \E b \in Builder : /\ pc[b] \in {"store", "fail"} /\ pc'[b] # pc[b]
                                 /\ job[b].date = d /\ job[b].tok = token[d]]_vars
  BY ClaimStep
<1> QED
  BY <1>1, BuildInvariant, PTL DEF Spec, ClaimKept
=============================================================================
