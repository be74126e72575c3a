----------------------- MODULE ReportDelivery_proofs -----------------------
(***************************************************************************)
(* Proofs about ReportDelivery, for every number of schedulers, /report    *)
(* runs, rows, summary messages, attempts and every setting of the clocks. *)
(* The settings' SendTimeout < ClaimTTL is used nowhere: the results hold  *)
(* for senders that outlast their claim too.                               *)
(***************************************************************************)
EXTENDS ReportDelivery, FiniteSetTheorems, TLAPS

-----------------------------------------------------------------------------
(* What the shared parts of the actions do to the types *)

\* Inserted rows are well typed.
LEMMA InsertType ==
  ASSUME NEW S \in SUBSET Row, id \in [Row -> Nat], status \in [Row -> Status], Insert(S)
  PROVE  id' \in [Row -> Nat] /\ status' \in [Row -> Status]
BY DEF Insert, Status

\* An actor that lets go of its claim is well typed.
LEMMA ReleaseType ==
  ASSUME ActorTypeOK, NEW a \in Actor, Release(a)
  PROVE  ActorTypeOK'
BY DEF Release, ActorTypeOK, PC, Job, NoJob, NoTime

\* A change of an actor's statement alone is well typed.
LEMMA PcType ==
  ASSUME ActorTypeOK, NEW a \in Actor, NEW p \in PC, UNCHANGED job,
         pc' = [pc EXCEPT ![a] = p]
  PROVE  ActorTypeOK'
BY DEF ActorTypeOK

\* What claim_delivery writes is well typed.
LEMMA ClaimType ==
  ASSUME TypeOK, NEW a \in Actor, NEW r \in Row, Claim(a, r)
  PROVE  /\ status' \in [Row -> Status] /\ attempts' \in [Row -> Nat]
         /\ token' \in [Row -> Nat] /\ claimedAt' \in [Row -> Int]
         /\ nextRetry' \in [Row -> Int]
         /\ ActorTypeOK'
BY DeliveryAssumption
   DEF Claim, TypeOK, RowTypeOK, ActorTypeOK, PC, Status, Job, NoTime

\* A claim leaves the rows and the actors well typed.
LEMMA ClaimRowType ==
  ASSUME TypeOK, NEW a \in Actor, NEW r \in Row, Claim(a, r), UNCHANGED copies
  PROVE  RowTypeOK' /\ ActorTypeOK'
BY ClaimType DEF Claim, TypeOK, RowTypeOK

\* A new deadline leaves the jobs well typed.
LEMMA UntilType ==
  ASSUME job \in [Actor -> Job], NEW a \in Actor, NEW t \in Int
  PROVE  [job EXCEPT ![a].until = t] \in [Actor -> Job]
BY DEF Job

\* A new part leaves the jobs well typed.
LEMMA PartType ==
  ASSUME job \in [Actor -> Job], NEW a \in Actor, NEW p \in Nat
  PROVE  [job EXCEPT ![a].part = p] \in [Actor -> Job]
BY DEF Job

\* A new part and deadline leave the jobs well typed.
LEMMA PartUntilType ==
  ASSUME job \in [Actor -> Job], NEW a \in Actor, NEW p \in Nat, NEW t \in Int
  PROVE  [job EXCEPT ![a].part = p, ![a].until = t] \in [Actor -> Job]
BY DEF Job

\* The chat's counts stay natural numbers.
LEMMA ReceiveType ==
  ASSUME copies \in [Row -> [Part -> Nat]], NEW r \in Row, NEW p \in Part, Receive(r, p)
  PROVE  copies' \in [Row -> [Part -> Nat]]
BY DEF Receive

-----------------------------------------------------------------------------
(* Type correctness *)

\* Every column, local variable and history variable stays in its type.
LEMMA TypeStep ==
  ASSUME DeliveryInv, [Next]_vars
  PROVE  TypeOK'
<1> USE DEF DeliveryInv, TypeOK, rowVars, claimVars, tickVars
<1>a. \A w \in Worker : w \in Actor
  BY DEF Actor
<1>h. \A h \in Handler : h \in Actor /\ h \in Row
  BY DEF Actor, Row
<1>r. \A a \in Actor : Busy(a) => job[a].row \in Row
  BY DEF ClaimInv
<1>1. ASSUME NEW w \in Worker, StartTick(w)  PROVE TypeOK'
  <2>1. ActorTypeOK'
    BY <1>1, <1>a, PcType DEF StartTick, PC
  <2>2. TickTypeOK'
    BY <1>1 DEF StartTick, TickTypeOK
  <2> QED
    BY <1>1, <2>1, <2>2 DEF StartTick, RowTypeOK
<1>2. ASSUME NEW w \in Worker, RecoverMissing(w)  PROVE TypeOK'
  <2>1. ActorTypeOK'
    BY <1>2, <1>a, PcType DEF RecoverMissing, PC
  <2>2. RowTypeOK'
    BY <1>2, InsertType DEF RecoverMissing, RowTypeOK, Row
  <2> QED
    BY <1>2, <2>1, <2>2 DEF RecoverMissing, TickTypeOK
<1>3. ASSUME NEW w \in Worker, RecoverStale(w)  PROVE TypeOK'
  <2>1. ActorTypeOK'
    BY <1>3, <1>a, PcType DEF RecoverStale, PC
  <2>2. RowTypeOK'
    BY <1>3 DEF RecoverStale, RowTypeOK, TickTypeOK, Status, NoTime
  <2> QED
    BY <1>3, <2>1, <2>2 DEF RecoverStale, TickTypeOK
<1>4. ASSUME NEW w \in Worker, ListDue(w)  PROVE TypeOK'
  <2>1. ActorTypeOK'
    BY <1>4, <1>a, PcType DEF ListDue, PC
  <2>2. TickTypeOK'
    BY <1>4 DEF ListDue, Batch, TickTypeOK
  <2> QED
    BY <1>4, <2>1, <2>2 DEF ListDue, RowTypeOK
<1>5. ASSUME NEW w \in Worker, EndPhase(w)  PROVE TypeOK'
  <2>1. ActorTypeOK'
    BY <1>5, <1>a, PcType DEF EndPhase, PC
  <2>2. now' \in [Worker -> Nat]
    BY <1>5, DeliveryAssumption DEF EndPhase, TickTypeOK
  <2>3. phase' \in [Worker -> {"core", "enriched"}]
    BY <1>5 DEF EndPhase, TickTypeOK
  <2> QED
    BY <1>5, <2>1, <2>2, <2>3 DEF EndPhase, RowTypeOK, TickTypeOK
<1>6. ASSUME NEW w \in Worker, ClaimNext(w)  PROVE TypeOK'
  <2>1. PICK r \in Row : Claim(w, r) \/ UNCHANGED <<rowVars, job, pc>>
    BY <1>6 DEF ClaimNext, TickTypeOK
  <2>2. TickTypeOK'
    BY <1>6 DEF ClaimNext, TickTypeOK
  <2>3. RowTypeOK' /\ ActorTypeOK'
    <3>1. UNCHANGED copies
      BY <1>6 DEF ClaimNext
    <3>2. CASE Claim(w, r)
      BY <3>1, <3>2, <1>a, ClaimRowType
    <3>3. CASE UNCHANGED <<rowVars, job, pc>>
      BY <3>1, <3>3 DEF RowTypeOK, ActorTypeOK
    <3> QED
      BY <2>1, <3>2, <3>3
  <2> QED
    BY <1>6, <2>2, <2>3 DEF ClaimNext
<1>7. ASSUME NEW h \in Handler, CreateManual(h)  PROVE TypeOK'
  <2>1. ActorTypeOK'
    BY <1>7, <1>h, PcType DEF CreateManual, PC
  <2>2. RowTypeOK'
    BY <1>7, <1>h, InsertType DEF CreateManual, RowTypeOK
  <2> QED
    BY <1>7, <2>1, <2>2 DEF CreateManual, TickTypeOK
<1>8. ASSUME NEW h \in Handler, ClaimManual(h)  PROVE TypeOK'
  <2>1. RowTypeOK' /\ ActorTypeOK'
    <3>1. UNCHANGED copies
      BY <1>8 DEF ClaimManual
    <3>2. CASE Claim(h, h)
      BY <3>1, <3>2, <1>h, ClaimRowType
    <3>3. CASE Release(h) /\ UNCHANGED rowVars
      BY <3>1, <3>3, <1>h, ReleaseType DEF RowTypeOK
    <3> QED
      BY <1>8, <3>2, <3>3 DEF ClaimManual
  <2> QED
    BY <1>8, <2>1 DEF ClaimManual, TickTypeOK
<1>9. ASSUME NEW a \in Actor, Load(a)  PROVE TypeOK'
  <2>1. job[a].row \in Row
    BY <1>9, <1>r DEF Load, FirstPart, DocumentIsSent, Busy
  <2>2. sent[job[a].row] + 1 \in Nat /\ clock + SendTimeout \in Int /\ NoTime \in Int
    BY <2>1, DeliveryAssumption DEF RowTypeOK, NoTime
  <2>3. job' \in [Actor -> Job]
    <3>1. job \in [Actor -> Job]
      BY DEF ActorTypeOK
    <3>2. CASE job' = [job EXCEPT ![a].until = NoTime]
      BY <2>2, <3>1, <3>2, UntilType
    <3>3. CASE job' = [job EXCEPT ![a].part = sent[job[a].row] + 1,
                                  ![a].until = clock + SendTimeout]
      BY <2>2, <3>1, <3>3, PartUntilType
    <3> QED
      BY <1>9, <3>1, <3>2, <3>3 DEF Load, FirstPart, DocumentIsSent
  <2>4. pc' \in [Actor -> PC]
    BY <1>9 DEF Load, FirstPart, DocumentIsSent, ActorTypeOK, PC
  <2> QED
    BY <1>9, <2>3, <2>4 DEF Load, FirstPart, DocumentIsSent, ActorTypeOK, RowTypeOK, TickTypeOK
<1>10. ASSUME NEW a \in Actor, SendOk(a)  PROVE TypeOK'
  <2>1. ActorTypeOK'
    BY <1>10, PcType DEF SendOk, PC
  <2>2. RowTypeOK'
    BY <1>10, <1>r, ReceiveType DEF SendOk, RowTypeOK, ProgressInv, Busy
  <2> QED
    BY <1>10, <2>1, <2>2 DEF SendOk, TickTypeOK
<1>11. ASSUME NEW a \in Actor, SendFails(a)  PROVE TypeOK'
  <2>1. ActorTypeOK'
    BY <1>11, PcType DEF SendFails, PC
  <2>2. RowTypeOK'
    BY <1>11, <1>r, ReceiveType DEF SendFails, RowTypeOK, ProgressInv, Busy
  <2> QED
    BY <1>11, <2>1, <2>2 DEF SendFails, TickTypeOK
<1>12. ASSUME NEW a \in Actor, RecordSummary(a)  PROVE TypeOK'
  <2>1. job[a].row \in Row /\ job[a].part + 1 \in Nat
    BY <1>12, <1>r DEF RecordSummary, Busy, ActorTypeOK, Job
  <2>2. sent' \in [Row -> Nat]
    BY <1>12, <2>1 DEF RecordSummary, RowTypeOK
  <2>3. pc' \in [Actor -> PC]
    BY <1>12, ReleaseType DEF RecordSummary, ActorTypeOK, PC
  <2>4. job' \in [Actor -> Job]
    BY <1>12, <2>1, ReleaseType, PartType DEF RecordSummary, ActorTypeOK
  <2> QED
    BY <1>12, <2>2, <2>3, <2>4 DEF RecordSummary, ActorTypeOK, RowTypeOK, TickTypeOK
<1>13. ASSUME NEW a \in Actor, RecordDocument(a)  PROVE TypeOK'
  <2>1. doc' \in [Row -> BOOLEAN]
    BY <1>13 DEF RecordDocument, RowTypeOK
  <2>2. ActorTypeOK'
    BY <1>13, ReleaseType DEF RecordDocument, ActorTypeOK, PC
  <2> QED
    BY <1>13, <2>1, <2>2 DEF RecordDocument, RowTypeOK, TickTypeOK
<1>14. ASSUME NEW a \in Actor, BlockFails(a)  PROVE TypeOK'
  <2>1. ActorTypeOK'
    BY <1>14, PcType DEF BlockFails, PC
  <2> QED
    BY <1>14, <2>1 DEF BlockFails, RowTypeOK, TickTypeOK
<1>15. ASSUME NEW a \in Actor, Complete(a)  PROVE TypeOK'
  <2>1. ActorTypeOK'
    BY <1>15, ReleaseType DEF Complete
  <2>2. status' \in [Row -> Status]
    BY <1>15 DEF Complete, RowTypeOK, Status
  <2>4. token' \in [Row -> Nat]
    BY <1>15 DEF Complete, RowTypeOK
  <2>3. claimedAt' \in [Row -> Int] /\ nextRetry' \in [Row -> Int]
    BY <1>15 DEF Complete, RowTypeOK, NoTime
  <2> QED
    BY <1>15, <2>1, <2>2, <2>3, <2>4 DEF Complete, RowTypeOK, TickTypeOK
<1>16. ASSUME NEW a \in Actor, Fail(a)  PROVE TypeOK'
  <2>1. ActorTypeOK'
    BY <1>16, ReleaseType DEF Fail
  <2>2. status' \in [Row -> Status]
    BY <1>16 DEF Fail, RowTypeOK, Status
  <2>6. token' \in [Row -> Nat]
    BY <1>16, SMTT(20) DEF Fail, RowTypeOK
  <2>5. claimedAt' \in [Row -> Int]
    BY <1>16 DEF Fail, RowTypeOK, NoTime
  <2>3. Now(a) + Backoff * attempts[job[a].row] \in Int
    <3>1. attempts[job[a].row] \in Nat /\ Now(a) \in Nat
      BY <1>16, <1>r DEF Fail, Busy, RowTypeOK, TickTypeOK, Now
    <3> QED
      BY <3>1, DeliveryAssumption
  <2>4. nextRetry' \in [Row -> Int]
    BY <1>16, <2>3 DEF Fail, RowTypeOK, NoTime
  <2> QED
    BY <1>16, <2>1, <2>2, <2>4, <2>5, <2>6 DEF Fail, RowTypeOK, TickTypeOK
<1>17. ASSUME NEW a \in Actor, Restart(a)  PROVE TypeOK'
  <2>1. ActorTypeOK'
    BY <1>17 DEF Restart, ActorTypeOK, PC, Job, NoJob, NoTime
  <2>2. TickTypeOK'
    BY <1>17 DEF Restart, TickTypeOK
  <2> QED
    BY <1>17, <2>1, <2>2 DEF Restart, RowTypeOK
<1>18. ASSUME NEW a \in Actor, Fault(a)  PROVE TypeOK'
  BY <1>18, ReleaseType DEF Fault, RowTypeOK, TickTypeOK
<1>19. ASSUME NEW r \in AutoRow, Publish(r)  PROVE TypeOK'
  <2>1. RowTypeOK'
    BY <1>19, InsertType DEF Publish, RowTypeOK, Row
  <2> QED
    BY <1>19, <2>1 DEF Publish, ActorTypeOK, TickTypeOK
<1>20. CASE Tick
  BY <1>20 DEF Tick, RowTypeOK, ActorTypeOK, TickTypeOK
<1>21. CASE UNCHANGED vars
  BY <1>21 DEF vars, RowTypeOK, ActorTypeOK, TickTypeOK
<1> QED
  BY <1>1, <1>2, <1>3, <1>4, <1>5, <1>6, <1>7, <1>8, <1>9, <1>10, <1>11, <1>12, <1>13,
     <1>14, <1>15, <1>16, <1>17, <1>18, <1>19, <1>20, <1>21
     DEF Next, Step, TickStep, ManualStep, DeliverStep, Horizon

-----------------------------------------------------------------------------
(* Claims: no two actors hold the same claim of a row *)

\* A step that begins no job keeps ClaimInv.
LEMMA ClaimFrame ==
  ASSUME DeliveryInv,
         \A a \in Actor : Busy(a)' => Busy(a) /\ job'[a].row = job[a].row
                                              /\ job'[a].tok = job[a].tok,
         attempts' = attempts,
         \A r \in Row : token'[r] <= attempts[r]
  PROVE  ClaimInv'
BY DEF DeliveryInv, ClaimInv

\* The token of a new claim is larger than every token in memory.
LEMMA ClaimNew ==
  ASSUME DeliveryInv, NEW a \in Actor, NEW r \in Row, Claim(a, r), ~Busy(a)
  PROVE  ClaimInv'
<1> USE DEF DeliveryInv, TypeOK, RowTypeOK, ActorTypeOK, ClaimInv
<1>1. /\ job'[a].row = r /\ job'[a].tok = attempts[r] + 1
      /\ attempts' = [attempts EXCEPT ![r] = attempts[r] + 1]
      /\ token' = [token EXCEPT ![r] = attempts[r] + 1]
  BY DEF Claim
<1>2. ASSUME NEW b \in Actor, b # a
      PROVE  job'[b] = job[b] /\ (Busy(b)' <=> Busy(b))
  BY <1>2 DEF Claim, Busy
<1>3. \A q \in Row : attempts[q] \in Nat /\ token[q] \in Nat
  OBVIOUS
<1>4. \A q \in Row : token'[q] <= attempts'[q]
  BY <1>1, <1>3
<1>5. ASSUME NEW b \in Actor, Busy(b)'
      PROVE  /\ job'[b].row \in Row
             /\ 0 < job'[b].tok /\ job'[b].tok <= attempts'[job'[b].row]
  <2>1. CASE b = a
    BY <1>1, <1>3, <2>1
  <2>2. CASE b # a
    <3>1. job[b].row \in Row /\ job[b].tok \in Nat /\ 0 < job[b].tok
          /\ job[b].tok <= attempts[job[b].row]
      BY <1>2, <1>5, <2>2 DEF Job
    <3> QED
      BY <1>1, <1>2, <1>3, <2>2, <3>1
  <2> QED
    BY <2>1, <2>2
<1>6. ASSUME NEW b \in Actor, b # a, Busy(b)', job'[b].row = r
      PROVE  job'[b].tok # job'[a].tok
  <2>1. job[b].row = r /\ job[b].tok \in Nat /\ job[b].tok <= attempts[r]
    BY <1>2, <1>6 DEF Job
  <2> QED
    BY <1>1, <1>2, <1>3, <1>6, <2>1
<1>7. ASSUME NEW b \in Actor, NEW c \in Actor, b # c, Busy(b)', Busy(c)',
             job'[b].row = job'[c].row
      PROVE  job'[b].tok # job'[c].tok
  <2>1. CASE b = a
    BY <1>1, <1>6, <1>7, <2>1
  <2>2. CASE c = a
    BY <1>1, <1>6, <1>7, <2>2
  <2>3. CASE b # a /\ c # a
    BY <1>2, <1>7, <2>3
  <2> QED
    BY <2>1, <2>2, <2>3
<1> QED
  BY <1>4, <1>5, <1>7

\* Letting go of a claim changes no job of another actor.
LEMMA ReleaseFrame ==
  ASSUME ActorTypeOK, NEW a \in Actor, Release(a), NEW b \in Actor, Busy(b)'
  PROVE  Busy(b) /\ b # a /\ job'[b] = job[b] /\ pc'[b] = pc[b]
BY DEF ActorTypeOK, Release, Busy

\* A new deadline changes neither row nor token of a job.
LEMMA JobUntil ==
  ASSUME ActorTypeOK, NEW a \in Actor, NEW t, job' = [job EXCEPT ![a].until = t],
         NEW b \in Actor
  PROVE  job'[b].row = job[b].row /\ job'[b].tok = job[b].tok
<1>1. job \in [Actor -> Job]
  BY DEF ActorTypeOK
<1>2. CASE b = a
  <2>1. job'[a] = [job[a] EXCEPT !.until = t]
    BY <1>1
  <2>2. job[a] \in Job
    BY <1>1
  <2> QED
    BY <1>2, <2>1, <2>2 DEF Job
<1>3. CASE b # a
  BY <1>1, <1>3
<1> QED
  BY <1>2, <1>3

\* A new part and deadline change neither row nor token of a job.
LEMMA JobPartUntil ==
  ASSUME ActorTypeOK, NEW a \in Actor, NEW p, NEW t,
         job' = [job EXCEPT ![a].part = p, ![a].until = t], NEW b \in Actor
  PROVE  job'[b].row = job[b].row /\ job'[b].tok = job[b].tok
<1>1. job \in [Actor -> Job]
  BY DEF ActorTypeOK
<1>2. CASE b = a
  <2>1. job'[a] = [job[a] EXCEPT !.part = p, !.until = t]
    BY <1>1
  <2>2. job[a] \in Job
    BY <1>1
  <2> QED
    BY <1>2, <2>1, <2>2, ZenonT(30) DEF Job
<1>3. CASE b # a
  BY <1>1, <1>3
<1> QED
  BY <1>2, <1>3

\* No step gives two actors the same claim: tokens are fresh.
LEMMA ClaimStep ==
  ASSUME DeliveryInv, [Next]_vars
  PROVE  ClaimInv'
<1> USE DEF rowVars, claimVars, tickVars
<1>a. /\ \A w \in Worker : w \in Actor
      /\ \A h \in Handler : h \in Actor /\ h \in Row
  BY DEF Actor, Row
<1>t. /\ pc \in [Actor -> PC] /\ job \in [Actor -> Job] /\ ActorTypeOK
      /\ token \in [Row -> Nat] /\ attempts \in [Row -> Nat]
      /\ todo \in [Worker -> SUBSET Row]
      /\ \A r \in Row : token[r] <= attempts[r]
  BY DEF DeliveryInv, TypeOK, RowTypeOK, ActorTypeOK, TickTypeOK, ClaimInv
<1> DEFINE Keeps == /\ \A a \in Actor : Busy(a)' => Busy(a) /\ job'[a].row = job[a].row
                                                  /\ job'[a].tok = job[a].tok
                    /\ attempts' = attempts
                    /\ \A r \in Row : token'[r] <= attempts[r]
<1>k. Keeps => ClaimInv'
  BY ClaimFrame
<1>1. ASSUME NEW w \in Worker, StartTick(w)  PROVE Keeps
  BY <1>1, <1>t, <1>a DEF StartTick, Busy
<1>2. ASSUME NEW w \in Worker, RecoverMissing(w)  PROVE Keeps
  BY <1>2, <1>t, <1>a DEF RecoverMissing, Busy
<1>3. ASSUME NEW w \in Worker, RecoverStale(w)  PROVE Keeps
  BY <1>3, <1>t, <1>a DEF RecoverStale, Busy
<1>4. ASSUME NEW w \in Worker, ListDue(w)  PROVE Keeps
  BY <1>4, <1>t, <1>a DEF ListDue, Busy
<1>5. ASSUME NEW w \in Worker, EndPhase(w)  PROVE Keeps
  BY <1>5, <1>t, <1>a DEF EndPhase, Busy
<1>6. ASSUME NEW w \in Worker, ClaimNext(w)  PROVE ClaimInv'
  <2>1. PICK r \in Row : Claim(w, r) \/ UNCHANGED <<rowVars, job, pc>>
    BY <1>6, <1>t DEF ClaimNext
  <2>2. CASE Claim(w, r)
    BY <1>6, <2>2, <1>a, ClaimNew DEF ClaimNext, Busy
  <2>3. CASE UNCHANGED <<rowVars, job, pc>>
    BY <2>3, <1>t, <1>k DEF Busy
  <2> QED
    BY <2>1, <2>2, <2>3
<1>7. ASSUME NEW h \in Handler, CreateManual(h)  PROVE Keeps
  BY <1>7, <1>t, <1>a DEF CreateManual, Busy
<1>8. ASSUME NEW h \in Handler, ClaimManual(h)  PROVE ClaimInv'
  <2>1. CASE Claim(h, h)
    BY <1>8, <2>1, <1>a, ClaimNew DEF ClaimManual, Busy
  <2>2. CASE Release(h) /\ UNCHANGED rowVars
    BY <2>2, <1>t, <1>a, <1>k, ReleaseFrame
  <2> QED
    BY <1>8, <2>1, <2>2 DEF ClaimManual
<1>9. ASSUME NEW a \in Actor, Load(a)  PROVE Keeps
  <2>1. ASSUME NEW b \in Actor  PROVE job'[b].row = job[b].row /\ job'[b].tok = job[b].tok
    <3>1. CASE job' = [job EXCEPT ![a].until = NoTime]
      BY <3>1, <1>t, JobUntil
    <3>2. CASE job' = [job EXCEPT ![a].part = sent[job[a].row] + 1,
                                  ![a].until = clock + SendTimeout]
      BY <3>2, <1>t, JobPartUntil
    <3>3. CASE job' = job
      BY <3>3
    <3> QED
      BY <1>9, <3>1, <3>2, <3>3 DEF Load, FirstPart, DocumentIsSent
  <2>2. \A b \in Actor : Busy(b)' => Busy(b)
    BY <1>9, <1>t DEF Load, FirstPart, DocumentIsSent, Busy
  <2> QED
    BY <1>9, <2>1, <2>2, <1>t DEF Load, FirstPart, DocumentIsSent
<1>10. ASSUME NEW a \in Actor, SendOk(a)  PROVE Keeps
  BY <1>10, <1>t DEF SendOk, Busy
<1>11. ASSUME NEW a \in Actor, SendFails(a)  PROVE Keeps
  BY <1>11, <1>t DEF SendFails, Busy
<1>12. ASSUME NEW a \in Actor, RecordSummary(a)  PROVE Keeps
  <2>1. CASE Release(a)
    BY <1>12, <2>1, <1>t, ReleaseFrame DEF RecordSummary
  <2>2. CASE /\ job' = [job EXCEPT ![a].part = job[a].part + 1]
             /\ \E s \in PC : pc' = [pc EXCEPT ![a] = s]
    BY <1>12, <2>2, <1>t DEF RecordSummary, Busy
  <2> QED
    BY <1>12, <2>1, <2>2 DEF RecordSummary, PC
<1>13. ASSUME NEW a \in Actor, RecordDocument(a)  PROVE Keeps
  <2>1. CASE Release(a)
    BY <1>13, <2>1, <1>t, ReleaseFrame DEF RecordDocument
  <2>2. CASE job' = job /\ \E s \in PC : pc' = [pc EXCEPT ![a] = s]
    BY <1>13, <2>2, <1>t DEF RecordDocument, Busy
  <2> QED
    BY <1>13, <2>1, <2>2 DEF RecordDocument, PC
<1>14. ASSUME NEW a \in Actor, BlockFails(a)  PROVE Keeps
  BY <1>14, <1>t DEF BlockFails, Busy
<1>15. ASSUME NEW a \in Actor, Complete(a)  PROVE Keeps
  <2>1. \A r \in Row : token'[r] <= attempts[r]
    BY <1>15, <1>t DEF Complete
  <2> QED
    BY <1>15, <2>1, <1>t, ReleaseFrame DEF Complete
<1>16. ASSUME NEW a \in Actor, Fail(a)  PROVE Keeps
  <2>1. \A r \in Row : token'[r] <= attempts[r]
    BY <1>16, <1>t DEF Fail
  <2> QED
    BY <1>16, <2>1, <1>t, ReleaseFrame DEF Fail
<1>17. ASSUME NEW a \in Actor, Restart(a)  PROVE Keeps
  BY <1>17, <1>t DEF Restart, Busy
<1>18. ASSUME NEW a \in Actor, Fault(a)  PROVE Keeps
  BY <1>18, <1>t, ReleaseFrame DEF Fault
<1>19. ASSUME NEW r \in AutoRow, Publish(r)  PROVE Keeps
  BY <1>19, <1>t DEF Publish, Busy
<1>20. CASE Tick
  BY <1>20, <1>t, <1>k DEF Tick, Busy
<1>21. CASE UNCHANGED vars
  BY <1>21, <1>t, <1>k DEF vars, Busy
<1> QED
  BY <1>k, <1>1, <1>2, <1>3, <1>4, <1>5, <1>6, <1>7, <1>8, <1>9, <1>10, <1>11, <1>12,
     <1>13, <1>14, <1>15, <1>16, <1>17, <1>18, <1>19, <1>20, <1>21
     DEF Next, Step, TickStep, ManualStep, DeliverStep, Horizon

-----------------------------------------------------------------------------
(* Progress: what is recorded has reached the chat *)

Kept(a) ==
  pc'[a] \in {"sending", "record"} =>
    /\ pc[a] = pc'[a] /\ job'[a] = job[a]
    /\ Fenced(a)' => Fenced(a)

\* A step that records nothing, sends nothing and starts no send block.
LEMMA ProgressFrame ==
  ASSUME DeliveryInv, sent' = sent, doc' = doc, copies' = copies,
         \A a \in Actor : Kept(a),
         \A r \in Row : status'[r] = "DELIVERED" => doc[r]
  PROVE  ProgressInv' /\ RecordedWasReceived'
BY DEF DeliveryInv, ProgressInv, RecordedWasReceived, Kept

\* One actor leaves the send block, moves within it or enters it; the fence of
\* the others is what it was.
LEMMA FenceFrame ==
  ASSUME NEW a \in Actor, job'[a] = job[a],
         status' = status, token' = token
  PROVE  Fenced(a)' <=> Fenced(a)
BY DEF Fenced

\* A claim changes the fence of no other actor, unless it takes the row from it.
LEMMA ClaimFence ==
  ASSUME DeliveryInv, NEW a \in Actor, NEW r \in Row, Claim(a, r), NEW b \in Actor
  PROVE  Kept(b)
<1> USE DEF DeliveryInv, TypeOK, RowTypeOK, ActorTypeOK
<1>1. CASE b = a
  BY <1>1 DEF Claim, Kept
<1>2. CASE b # a
  <2>1. job'[b] = job[b] /\ pc'[b] = pc[b]
    BY <1>2 DEF Claim
  <2>2. Busy(b) /\ job[b].row = r => job[b].tok # token'[r]
    <3>1. attempts[r] \in Nat /\ token'[r] = attempts[r] + 1 /\ job[b].tok \in Nat
      BY DEF Claim, Job
    <3> QED
      BY <3>1 DEF ClaimInv
  <2>3. \A q \in Row : q # r => status'[q] = status[q] /\ token'[q] = token[q]
    BY DEF Claim
  <2> QED
    BY <2>1, <2>2, <2>3 DEF Kept, Fenced, Busy
<1> QED
  BY <1>1, <1>2

\* Letting go of a claim keeps the fence and the part of the others.
LEMMA ReleaseKept ==
  ASSUME ActorTypeOK, NEW a \in Actor, Release(a), NEW b \in Actor,
         status' = status, token' = token
  PROVE  Kept(b)
BY DEF ActorTypeOK, Release, Kept, Fenced

\* The holder of the current claim of a row is the only one.
LEMMA OneHolder ==
  ASSUME DeliveryInv, NEW a \in Actor, NEW b \in Actor, Busy(a), Busy(b), a # b, Fenced(a),
         job[a].row = job[b].row
  PROVE  ~Fenced(b)
BY DEF DeliveryInv, ClaimInv, Fenced

\* The progress a row records stays true of the chat, and the holder of the
\* current claim stays at the first part that is not recorded.
LEMMA ProgressStep ==
  ASSUME DeliveryInv, [Next]_vars
  PROVE  ProgressInv' /\ RecordedWasReceived'
<1> USE DEF rowVars, claimVars, tickVars
<1> DEFINE Goal == ProgressInv' /\ RecordedWasReceived'
<1>a. /\ \A w \in Worker : w \in Actor
      /\ \A h \in Handler : h \in Actor /\ h \in Row
  BY DEF Actor, Row
<1>t. /\ pc \in [Actor -> PC] /\ job \in [Actor -> Job] /\ ActorTypeOK
      /\ status \in [Row -> Status] /\ sent \in [Row -> Nat] /\ doc \in [Row -> BOOLEAN]
      /\ token \in [Row -> Nat] /\ copies \in [Row -> [Part -> Nat]]
      /\ todo \in [Worker -> SUBSET Row]
  BY DEF DeliveryInv, TypeOK, RowTypeOK, ActorTypeOK, TickTypeOK
<1>d. \A r \in Row : status[r] = "DELIVERED" => doc[r]
  BY DEF DeliveryInv, RecordedWasReceived
<1>b. \A a \in Actor : Busy(a) => job[a].row \in Row
  BY DEF DeliveryInv, ClaimInv
<1>n. NumParts \in Nat
  BY DeliveryAssumption
<1>1. ASSUME NEW w \in Worker, StartTick(w)  PROVE Goal
  <2>1. \A a \in Actor : Kept(a)
    BY <1>1, <1>t, <1>a, FenceFrame DEF StartTick, Kept
  <2> QED
    BY <1>1, <2>1, <1>d, ProgressFrame DEF StartTick
<1>2. ASSUME NEW w \in Worker, RecoverMissing(w)  PROVE Goal
  <2>1. \A a \in Actor : Kept(a)
    BY <1>2, <1>t, <1>a DEF RecoverMissing, Insert, Kept, Fenced
  <2> QED
    BY <1>2, <2>1, <1>d, ProgressFrame DEF RecoverMissing, Insert
<1>3. ASSUME NEW w \in Worker, RecoverStale(w)  PROVE Goal
  <2>1. \A a \in Actor : Kept(a)
    BY <1>3, <1>t, <1>a DEF RecoverStale, Kept, Fenced
  <2> QED
    BY <1>3, <2>1, <1>d, ProgressFrame DEF RecoverStale
<1>4. ASSUME NEW w \in Worker, ListDue(w)  PROVE Goal
  <2>1. \A a \in Actor : Kept(a)
    BY <1>4, <1>t, <1>a, FenceFrame DEF ListDue, Kept
  <2> QED
    BY <1>4, <2>1, <1>d, ProgressFrame DEF ListDue
<1>5. ASSUME NEW w \in Worker, EndPhase(w)  PROVE Goal
  <2>1. \A a \in Actor : Kept(a)
    BY <1>5, <1>t, <1>a, FenceFrame DEF EndPhase, Kept
  <2> QED
    BY <1>5, <2>1, <1>d, ProgressFrame DEF EndPhase
<1>6. ASSUME NEW w \in Worker, ClaimNext(w)  PROVE Goal
  <2>1. PICK r \in Row : Claim(w, r) \/ UNCHANGED <<rowVars, job, pc>>
    BY <1>6, <1>t DEF ClaimNext
  <2>2. CASE Claim(w, r)
    BY <1>6, <2>2, <1>a, <1>t, <1>d, ClaimFence, ProgressFrame, ZenonT(30) DEF ClaimNext, Claim
  <2>3. CASE UNCHANGED <<rowVars, job, pc>>
    BY <1>6, <2>3, <1>d, FenceFrame, ProgressFrame DEF ClaimNext, Kept
  <2> QED
    BY <2>1, <2>2, <2>3
<1>7. ASSUME NEW h \in Handler, CreateManual(h)  PROVE Goal
  <2>1. \A a \in Actor : Kept(a)
    BY <1>7, <1>t, <1>a DEF CreateManual, Insert, Kept, Fenced
  <2> QED
    BY <1>7, <2>1, <1>d, ProgressFrame DEF CreateManual, Insert
<1>8. ASSUME NEW h \in Handler, ClaimManual(h)  PROVE Goal
  <2>1. CASE Claim(h, h)
    BY <1>8, <2>1, <1>a, <1>t, <1>d, ClaimFence, ProgressFrame DEF ClaimManual, Claim
  <2>2. CASE Release(h) /\ UNCHANGED rowVars
    BY <1>8, <2>2, <1>a, <1>t, <1>d, ReleaseKept, ProgressFrame DEF ClaimManual
  <2> QED
    BY <1>8, <2>1, <2>2 DEF ClaimManual
<1>9. ASSUME NEW a \in Actor, Load(a)  PROVE Goal
  <2>1. Busy(a) /\ job[a].row \in Row /\ pc[a] = "load"
    BY <1>9, <1>b DEF Load, FirstPart, DocumentIsSent, Busy
  <2>2. \A b \in Actor : b # a => Kept(b)
    BY <1>9, <1>t DEF Load, FirstPart, DocumentIsSent, Kept, Fenced
  <2>3. CASE pc' = [pc EXCEPT ![a] = "complete"] \/ pc' = [pc EXCEPT ![a] = "fail"]
    <3>1. Kept(a)
      BY <2>3, <1>t DEF Kept
    <3> QED
      BY <1>9, <2>2, <3>1, <1>d, ProgressFrame DEF Load, FirstPart, DocumentIsSent
  <2>4. CASE /\ pc' = [pc EXCEPT ![a] = "sending"]
             /\ job' = [job EXCEPT ![a].part = sent[job[a].row] + 1,
                                   ![a].until = clock + SendTimeout]
    <3>1. pc'[a] = "sending" /\ job'[a].row = job[a].row /\ job'[a].part = sent[job[a].row] + 1
      BY <2>4, <1>t
    <3>2. sent[job[a].row] \in Nat /\ sent[job[a].row] <= NumParts
      BY <2>1, <1>t DEF DeliveryInv, ProgressInv
    <3>3. sent[job[a].row] + 1 \in Part
      BY <3>2, <1>n DEF Part
    <3>4. sent' = sent /\ copies' = copies /\ doc' = doc /\ status' = status
      BY <1>9 DEF Load, FirstPart, DocumentIsSent
    <3> QED
      BY <2>2, <3>1, <3>2, <3>3, <3>4 DEF DeliveryInv, ProgressInv, RecordedWasReceived, Kept
  <2> QED
    BY <1>9, <2>3, <2>4 DEF Load, FirstPart, DocumentIsSent
<1>10. ASSUME NEW a \in Actor, NEW s \in {"record", "fail"}, pc[a] = "sending",
              pc' = [pc EXCEPT ![a] = s], Receive(job[a].row, job[a].part),
              UNCHANGED <<rowVars, job>>
       PROVE  Goal
  <2> DEFINE r == job[a].row  p == job[a].part
  <2>1. r \in Row /\ p \in Part /\ p <= sent[r] + 1 /\ (Fenced(a) => p = sent[r] + 1)
    BY <1>10, <1>b DEF Busy, DeliveryInv, ProgressInv
  <2>2. /\ copies'[r][p] > 0
        /\ \A q \in Row, x \in Part : copies'[q][x] \in Nat /\ copies'[q][x] >= copies[q][x]
    BY <1>10, <1>t, <2>1 DEF Receive
  <2>3. \A b \in Actor : Fenced(b)' <=> Fenced(b)
    BY <1>10, FenceFrame
  <2>4. RecordedWasReceived'
    <3>1. Document \in Part
      BY <1>n DEF Part, Document
    <3>2. /\ \A q \in Row, x \in Part : copies[q][x] \in Nat /\ (copies[q][x] > 0 => copies'[q][x] > 0)
          /\ sent' = sent /\ doc' = doc /\ status' = status
      BY <1>10, <1>t, <2>2
    <3> HIDE DEF r, p
    <3> QED
      BY <3>1, <3>2 DEF DeliveryInv, RecordedWasReceived
  <2>5. ProgressInv'
    BY <1>10, <1>t, <1>b, <2>1, <2>2, <2>3 DEF DeliveryInv, ProgressInv, Busy
  <2> QED
    BY <2>4, <2>5
<1>11. ASSUME NEW a \in Actor, SendFails(a)  PROVE Goal
  <2>1. CASE copies' = copies
    <3>1. \A b \in Actor : Kept(b)
      BY <1>11, <1>t, FenceFrame DEF SendFails, Kept
    <3> QED
      BY <1>11, <2>1, <3>1, <1>d, ProgressFrame DEF SendFails
  <2>2. CASE Receive(job[a].row, job[a].part)
    BY <1>10, <1>11, <2>2 DEF SendFails
  <2> QED
    BY <1>11, <2>1, <2>2 DEF SendFails
<1>12. ASSUME NEW a \in Actor, RecordSummary(a)  PROVE Goal
  <2> DEFINE r == job[a].row  p == job[a].part
  <2>1. CASE ~Fenced(a)
    BY <1>12, <2>1, <1>t, <1>d, ReleaseKept, ProgressFrame DEF RecordSummary
  <2>2. CASE Fenced(a)
    <3>1. /\ r \in Row /\ p \in Part /\ p = sent[r] + 1 /\ p < Document
          /\ copies[r][p] > 0 /\ Busy(a) /\ sent[r] \in Nat
      BY <1>12, <2>2, <1>b, <1>t DEF RecordSummary, Busy, DeliveryInv, ProgressInv
    <3>2. /\ sent' = [sent EXCEPT ![r] = sent[r] + 1] /\ doc' = doc /\ copies' = copies
          /\ status' = status /\ token' = token
          /\ job' = [job EXCEPT ![a].part = p + 1]
          /\ \E s \in {"sending", "fail"} : pc' = [pc EXCEPT ![a] = s]
      BY <1>12, <2>2 DEF RecordSummary
    <3>3. ~doc[r]
      BY <3>1, <1>n DEF DeliveryInv, RecordedWasReceived, Document
    <3>4. RecordedWasReceived'
      <4>1. ASSUME NEW q \in Row, NEW x \in Part, x <= sent'[q]  PROVE copies[q][x] > 0
        <5>1. CASE q = r /\ x = p
          BY <3>1, <5>1
        <5>2. CASE ~(q = r /\ x = p)
          <6>1. x <= sent[q]
            BY <3>1, <3>2, <4>1, <5>2, <1>t, <1>n DEF Part
          <6> QED
            BY <6>1 DEF DeliveryInv, RecordedWasReceived
        <5> QED
          BY <5>1, <5>2
      <4>2. \A q \in Row : doc[q] => sent'[q] = NumParts /\ copies[q][Document] > 0
        BY <3>2, <3>3, <1>t DEF DeliveryInv, RecordedWasReceived
      <4> QED
        BY <3>2, <4>1, <4>2, <1>d DEF RecordedWasReceived
    <3>5. \A q \in Row : sent'[q] <= NumParts
      BY <3>1, <3>2, <1>t, <1>n DEF DeliveryInv, ProgressInv, Document
    <3>6. ASSUME NEW b \in Actor, pc'[b] \in {"sending", "record"}
          PROVE  /\ job'[b].part \in Part /\ job'[b].part <= sent'[job'[b].row] + 1
                 /\ Fenced(b)' => job'[b].part = sent'[job'[b].row] + 1
                 /\ pc'[b] = "record" => copies'[job'[b].row][job'[b].part] > 0
      <4>1. CASE b = a
        <5>1. job'[a].part = p + 1 /\ job'[a].row = r /\ pc'[a] # "record"
          BY <3>2, <3>6, <4>1, <1>t
        <5>2. p + 1 \in Part /\ sent'[r] = p
          BY <3>1, <3>2, <1>t, <1>n DEF Part, Document
        <5> QED
          BY <4>1, <5>1, <5>2, <3>1, <1>n DEF Part
      <4>2. CASE b # a
        <5>1. job'[b] = job[b] /\ pc'[b] = pc[b] /\ (Fenced(b)' => Fenced(b))
          BY <3>2, <4>2, <1>t, FenceFrame
        <5>2. Busy(b) /\ job[b].row \in Row
          BY <3>6, <5>1, <1>b DEF Busy
        <5>3. job[b].row = r => ~Fenced(b)
          BY <2>2, <3>1, <4>2, <5>2, OneHolder
        <5>4. /\ job[b].part \in Part /\ job[b].part <= sent[job[b].row] + 1
              /\ Fenced(b) => job[b].part = sent[job[b].row] + 1
              /\ pc[b] = "record" => copies[job[b].row][job[b].part] > 0
          BY <3>6, <5>1 DEF DeliveryInv, ProgressInv
        <5>5. sent[job[b].row] \in Nat /\ sent'[job[b].row] \in Nat
              /\ sent[job[b].row] <= sent'[job[b].row]
              /\ (job[b].row # r => sent'[job[b].row] = sent[job[b].row])
          BY <3>1, <3>2, <5>2, <1>t
        <5>6. job[b].part \in Nat /\ (Fenced(b)' => job[b].row # r)
          BY <5>1, <5>3, <5>4, <1>n DEF Part
        <5>7. job[b].part <= sent'[job[b].row] + 1
          BY <5>4, <5>5, <5>6
        <5>8. Fenced(b)' => job[b].part = sent'[job[b].row] + 1
          BY <5>1, <5>4, <5>5, <5>6
        <5> QED
          BY <3>2, <3>6, <5>1, <5>4, <5>7, <5>8
      <4> QED
        BY <4>1, <4>2
    <3> QED
      BY <3>4, <3>5, <3>6 DEF ProgressInv
  <2> QED
    BY <2>1, <2>2
<1>13. ASSUME NEW a \in Actor, RecordDocument(a)  PROVE Goal
  <2> DEFINE r == job[a].row
  <2>1. CASE ~(Fenced(a) /\ ~doc[r])
    BY <1>13, <2>1, <1>t, <1>d, ReleaseKept, ProgressFrame DEF RecordDocument
  <2>2. CASE Fenced(a) /\ ~doc[r]
    <3>1. /\ r \in Row /\ job[a].part = Document /\ Document = sent[r] + 1
          /\ copies[r][Document] > 0 /\ sent[r] = NumParts
      <4>1. pc[a] = "record" /\ job[a].part = Document /\ r \in Row
        BY <1>13, <1>b DEF RecordDocument, Busy
      <4>2. job[a].part = sent[r] + 1 /\ copies[r][job[a].part] > 0
        BY <2>2, <4>1 DEF DeliveryInv, ProgressInv
      <4>3. sent[r] \in Nat
        BY <4>1, <1>t
      <4> QED
        BY <4>1, <4>2, <4>3, <1>n DEF Document
    <3>2. /\ doc' = [doc EXCEPT ![r] = TRUE] /\ sent' = sent /\ copies' = copies
          /\ status' = status /\ token' = token /\ job' = job
          /\ \E s \in {"complete", "fail"} : pc' = [pc EXCEPT ![a] = s]
      BY <1>13, <2>2 DEF RecordDocument
    <3>3. RecordedWasReceived'
      BY <3>1, <3>2, <1>t DEF DeliveryInv, RecordedWasReceived
    <3>4. ProgressInv'
      BY <3>2, <1>t, FenceFrame DEF DeliveryInv, ProgressInv
    <3> QED
      BY <3>3, <3>4
  <2> QED
    BY <2>1, <2>2
<1>14. ASSUME NEW a \in Actor, BlockFails(a)  PROVE Goal
  <2>1. \A b \in Actor : Kept(b)
    BY <1>14, <1>t, FenceFrame DEF BlockFails, Kept
  <2> QED
    BY <1>14, <2>1, <1>d, ProgressFrame DEF BlockFails
<1>15. ASSUME NEW a \in Actor, Complete(a)  PROVE Goal
  <2>1. \A b \in Actor : Kept(b)
    BY <1>15, <1>t DEF Complete, Release, Kept, Fenced
  <2>2. \A q \in Row : status'[q] = "DELIVERED" => doc[q]
    BY <1>15, <1>t, <1>d DEF Complete
  <2> QED
    BY <1>15, <2>1, <2>2, ProgressFrame DEF Complete
<1>16. ASSUME NEW a \in Actor, Fail(a)  PROVE Goal
  <2>1. \A b \in Actor : Kept(b)
    BY <1>16, <1>t DEF Fail, Release, Kept, Fenced
  <2>2. \A q \in Row : status'[q] = "DELIVERED" => doc[q]
    BY <1>16, <1>t, <1>d DEF Fail
  <2> QED
    BY <1>16, <2>1, <2>2, ProgressFrame DEF Fail
<1>17. ASSUME NEW a \in Actor, Restart(a)  PROVE Goal
  <2>1. \A b \in Actor : Kept(b)
    BY <1>17, <1>t, FenceFrame DEF Restart, Kept
  <2> QED
    BY <1>17, <2>1, <1>d, ProgressFrame DEF Restart
<1>18. ASSUME NEW a \in Actor, Fault(a)  PROVE Goal
  BY <1>18, <1>t, <1>d, ReleaseKept, ProgressFrame DEF Fault
<1>19. ASSUME NEW r \in AutoRow, Publish(r)  PROVE Goal
  <2>1. \A a \in Actor : Kept(a)
    BY <1>19, <1>t DEF Publish, Insert, Kept, Fenced
  <2> QED
    BY <1>19, <2>1, <1>d, ProgressFrame DEF Publish, Insert
<1>20. CASE Tick
  BY <1>20, <1>d, FenceFrame, ProgressFrame DEF Tick, Kept
<1>21. CASE UNCHANGED vars
  BY <1>21, <1>d, FenceFrame, ProgressFrame DEF vars, Kept
<1>22. ASSUME NEW a \in Actor, SendOk(a)  PROVE Goal
  BY <1>10, <1>22 DEF SendOk
<1> QED
  BY <1>1, <1>2, <1>3, <1>4, <1>5, <1>6, <1>7, <1>8, <1>9, <1>11, <1>12, <1>13,
     <1>14, <1>15, <1>16, <1>17, <1>18, <1>19, <1>20, <1>21, <1>22
     DEF Next, Step, TickStep, ManualStep, DeliverStep, Horizon


-----------------------------------------------------------------------------
(* Existence: nothing is delivered before its artifact or run creates it *)

\* Absent rows are the ones that were, and nobody starts or takes up a row.
LEMMA ExistsFrame ==
  ASSUME ExistsInv, published' = published,
         \A r \in Row : status'[r] = "ABSENT" <=> status[r] = "ABSENT",
         \A h \in Handler : pc'[h] = "start" => pc[h] = "start",
         \A a \in Actor : Busy(a)' => Busy(a) /\ job'[a].row = job[a].row,
         \A a \in Actor : Busy(a) => job[a].row \in Row
  PROVE  ExistsInv'
<1>a. /\ \A h \in Handler : h \in Row
      /\ \A r \in AutoRow : r \in Row
  BY DEF Row
<1>1. \A r \in AutoRow \ published' : status'[r] = "ABSENT"
  BY <1>a DEF ExistsInv
<1>2. \A h \in Handler : pc'[h] = "start" => status'[h] = "ABSENT"
  BY <1>a DEF ExistsInv
<1>3. \A a \in Actor : Busy(a)' => status'[job'[a].row] # "ABSENT"
  BY DEF ExistsInv
<1> QED
  BY <1>1, <1>2, <1>3 DEF ExistsInv

\* Only existing rows are claimed.
LEMMA ClaimExists ==
  ASSUME DeliveryInv, NEW a \in Actor, NEW r \in Row, Claim(a, r), published' = published
  PROVE  ExistsInv'
<1>t. /\ status \in [Row -> Status] /\ pc \in [Actor -> PC] /\ job \in [Actor -> Job]
      /\ \A b \in Actor : Busy(b) => job[b].row \in Row
      /\ ExistsInv
  BY DEF DeliveryInv, TypeOK, RowTypeOK, ActorTypeOK, ClaimInv
<1>1. \A q \in Row : status'[q] = "ABSENT" <=> status[q] = "ABSENT"
  BY <1>t DEF Claim, Due
<1>2. \A b \in Actor : b # a => pc'[b] = pc[b] /\ job'[b] = job[b]
  BY <1>t DEF Claim
<1>3. job'[a].row = r /\ pc'[a] = "load" /\ status'[r] = "CLAIMED"
  BY <1>t DEF Claim
<1>4. \A b \in Actor : Busy(b)' => status'[job'[b].row] # "ABSENT"
  BY <1>t, <1>1, <1>2, <1>3 DEF ExistsInv, Busy
<1>5. \A h \in Handler : pc'[h] = "start" => status'[h] = "ABSENT"
  BY <1>t, <1>1, <1>2, <1>3 DEF ExistsInv, Actor, Row
<1>6. \A q \in AutoRow \ published : status'[q] = "ABSENT"
  BY <1>t, <1>1 DEF ExistsInv, Row
<1> QED
  BY <1>4, <1>5, <1>6 DEF ExistsInv

\* New rows: S is published, or the manual row of a run that leaves "start".
LEMMA InsertExists ==
  ASSUME DeliveryInv, NEW S \in SUBSET Row, Insert(S), job' = job,
         S \cap AutoRow \subseteq published',
         \A a \in Actor : pc'[a] = pc[a] \/ pc'[a] \in {"stale", "claim"},
         \A h \in S \cap Handler : pc'[h] # "start",
         published \subseteq published'
  PROVE  ExistsInv'
<1>t. /\ \A b \in Actor : Busy(b) => job[b].row \in Row
      /\ ExistsInv
  BY DEF DeliveryInv, ClaimInv
<1>a. /\ \A h \in Handler : h \in Row /\ h \in Actor
      /\ \A r \in AutoRow : r \in Row
  BY DEF Row, Actor
<1>1. \A r \in Row : status'[r] = IF r \in S THEN "PENDING" ELSE status[r]
  BY DEF Insert
<1>2. \A r \in AutoRow \ published' : status'[r] = "ABSENT"
  BY <1>1, <1>t, <1>a DEF ExistsInv
<1>3. \A h \in Handler : pc'[h] = "start" => status'[h] = "ABSENT"
  BY <1>1, <1>t, <1>a DEF ExistsInv
<1>4. \A b \in Actor : Busy(b)' => status'[job'[b].row] # "ABSENT"
  BY <1>1, <1>t DEF ExistsInv, Busy
<1> QED
  BY <1>2, <1>3, <1>4 DEF ExistsInv

\* Rows appear only with their artifact or by their /report run.
LEMMA ExistsStep ==
  ASSUME DeliveryInv, [Next]_vars
  PROVE  ExistsInv'
<1> USE DEF rowVars, claimVars, tickVars
<1>a. /\ \A w \in Worker : w \in Actor /\ w \notin Handler
      /\ \A h \in Handler : h \in Actor /\ h \in Row /\ h \notin AutoRow
      /\ \A r \in AutoRow : r \in Row
  BY DeliveryAssumption DEF Actor, Row
<1>t. /\ pc \in [Actor -> PC] /\ job \in [Actor -> Job] /\ ActorTypeOK
      /\ status \in [Row -> Status] /\ todo \in [Worker -> SUBSET Row]
      /\ published \subseteq AutoRow
      /\ \A b \in Actor : Busy(b) => job[b].row \in Row
      /\ ExistsInv
  BY DEF DeliveryInv, TypeOK, RowTypeOK, ActorTypeOK, TickTypeOK, ClaimInv
<1> DEFINE Stays == /\ published' = published
                    /\ \A r \in Row : status'[r] = "ABSENT" <=> status[r] = "ABSENT"
                    /\ \A h \in Handler : pc'[h] = "start" => pc[h] = "start"
                    /\ \A b \in Actor : Busy(b)' => Busy(b) /\ job'[b].row = job[b].row
<1>k. Stays => ExistsInv'
  BY <1>t, ExistsFrame
<1>r. ASSUME NEW a \in Actor, Release(a)
      PROVE  /\ \A h \in Handler : pc'[h] = "start" => pc[h] = "start"
             /\ \A b \in Actor : Busy(b)' => Busy(b) /\ job'[b].row = job[b].row
  BY <1>r, <1>t, <1>a, ReleaseFrame DEF Release
<1>1. ASSUME NEW w \in Worker, StartTick(w)  PROVE Stays
  BY <1>1, <1>t, <1>a DEF StartTick, Busy
<1>2. ASSUME NEW w \in Worker, RecoverMissing(w)  PROVE ExistsInv'
  <2>0. PICK S \in SUBSET {r \in published : status[r] = "ABSENT"} : Insert(S)
    BY <1>2 DEF RecoverMissing
  <2>1. S \in SUBSET Row /\ S \cap AutoRow \subseteq published /\ S \cap Handler = {}
    BY <1>t, <1>a
  <2>2. /\ Insert(S) /\ job' = job /\ published' = published
        /\ \A b \in Actor : pc'[b] = pc[b] \/ pc'[b] \in {"stale", "claim"}
    BY <1>2, <1>t, <2>0 DEF RecoverMissing
  <2> QED
    BY <2>1, <2>2, InsertExists
<1>3. ASSUME NEW w \in Worker, RecoverStale(w)  PROVE Stays
  BY <1>3, <1>t, <1>a DEF RecoverStale, Busy
<1>4. ASSUME NEW w \in Worker, ListDue(w)  PROVE Stays
  BY <1>4, <1>t, <1>a DEF ListDue, Busy
<1>5. ASSUME NEW w \in Worker, EndPhase(w)  PROVE Stays
  BY <1>5, <1>t, <1>a DEF EndPhase, Busy
<1>6. ASSUME NEW w \in Worker, ClaimNext(w)  PROVE ExistsInv'
  <2>1. PICK r \in Row : Claim(w, r) \/ UNCHANGED <<rowVars, job, pc>>
    BY <1>6, <1>t DEF ClaimNext
  <2>2. CASE Claim(w, r)
    BY <1>6, <2>2, <1>a, ClaimExists DEF ClaimNext
  <2>3. CASE UNCHANGED <<rowVars, job, pc>>
    BY <1>6, <2>3, <1>k DEF ClaimNext, Busy
  <2> QED
    BY <2>1, <2>2, <2>3
<1>7. ASSUME NEW h \in Handler, CreateManual(h)  PROVE ExistsInv'
  <2>1. {h} \in SUBSET Row /\ {h} \cap AutoRow = {} /\ h \in Actor
    BY <1>a
  <2>2. /\ Insert({h}) /\ job' = job /\ published' = published /\ pc'[h] = "claim"
        /\ \A b \in Actor : pc'[b] = pc[b] \/ pc'[b] \in {"stale", "claim"}
    BY <1>7, <1>t, <2>1 DEF CreateManual
  <2> QED
    BY <2>1, <2>2, InsertExists
<1>8. ASSUME NEW h \in Handler, ClaimManual(h)  PROVE ExistsInv'
  <2>1. CASE Claim(h, h)
    BY <1>8, <2>1, <1>a, ClaimExists DEF ClaimManual
  <2>2. CASE Release(h) /\ UNCHANGED rowVars
    BY <1>8, <2>2, <1>a, <1>k, <1>r DEF ClaimManual
  <2> QED
    BY <1>8, <2>1, <2>2 DEF ClaimManual
<1>9. ASSUME NEW a \in Actor, Load(a)  PROVE Stays
  <2>1. \A b \in Actor : job'[b].row = job[b].row
    BY <1>9, <1>t, JobUntil, JobPartUntil DEF Load, FirstPart, DocumentIsSent
  <2>2. \A b \in Actor : (Busy(b)' => Busy(b)) /\ (pc'[b] = "start" => pc[b] = "start")
    BY <1>9, <1>t DEF Load, FirstPart, DocumentIsSent, Busy
  <2> QED
    BY <1>9, <2>1, <2>2, <1>a DEF Load, FirstPart, DocumentIsSent
<1>10. ASSUME NEW a \in Actor, SendOk(a)  PROVE Stays
  BY <1>10, <1>t, <1>a DEF SendOk, Busy
<1>11. ASSUME NEW a \in Actor, SendFails(a)  PROVE Stays
  BY <1>11, <1>t, <1>a DEF SendFails, Busy
<1>12. ASSUME NEW a \in Actor, RecordSummary(a)  PROVE Stays
  <2>1. CASE Release(a)
    BY <1>12, <2>1, <1>r DEF RecordSummary
  <2>2. CASE /\ job' = [job EXCEPT ![a].part = job[a].part + 1]
             /\ \E s \in {"sending", "fail"} : pc' = [pc EXCEPT ![a] = s]
    BY <1>12, <2>2, <1>t, <1>a DEF RecordSummary, Busy
  <2> QED
    BY <1>12, <2>1, <2>2 DEF RecordSummary
<1>13. ASSUME NEW a \in Actor, RecordDocument(a)  PROVE Stays
  <2>1. CASE Release(a)
    BY <1>13, <2>1, <1>r DEF RecordDocument
  <2>2. CASE job' = job /\ \E s \in {"complete", "fail"} : pc' = [pc EXCEPT ![a] = s]
    BY <1>13, <2>2, <1>t, <1>a DEF RecordDocument, Busy
  <2> QED
    BY <1>13, <2>1, <2>2 DEF RecordDocument
<1>14. ASSUME NEW a \in Actor, BlockFails(a)  PROVE Stays
  BY <1>14, <1>t, <1>a DEF BlockFails, Busy
<1>15. ASSUME NEW a \in Actor, Complete(a)  PROVE Stays
  <2>1. \A r \in Row : status'[r] = "ABSENT" <=> status[r] = "ABSENT"
    BY <1>15, <1>t DEF Complete, Fenced
  <2> QED
    BY <1>15, <2>1, <1>r DEF Complete
<1>16. ASSUME NEW a \in Actor, Fail(a)  PROVE Stays
  <2>1. \A r \in Row : status'[r] = "ABSENT" <=> status[r] = "ABSENT"
    BY <1>16, <1>t DEF Fail, Fenced
  <2> QED
    BY <1>16, <2>1, <1>r DEF Fail
<1>17. ASSUME NEW a \in Actor, Restart(a)  PROVE Stays
  BY <1>17, <1>t, <1>a DEF Restart, Busy
<1>18. ASSUME NEW a \in Actor, Fault(a)  PROVE Stays
  BY <1>18, <1>r DEF Fault
<1>19. ASSUME NEW r \in AutoRow, Publish(r)  PROVE ExistsInv'
  <2>1. {r} \in SUBSET Row /\ {r} \cap Handler = {}
    BY <1>a
  <2> QED
    BY <1>19, <2>1, InsertExists DEF Publish
<1>20. CASE Tick
  BY <1>20, <1>k DEF Tick, Busy
<1>21. CASE UNCHANGED vars
  BY <1>21, <1>k DEF vars, Busy
<1> QED
  BY <1>k, <1>1, <1>2, <1>3, <1>4, <1>5, <1>6, <1>7, <1>8, <1>9, <1>10, <1>11, <1>12,
     <1>13, <1>14, <1>15, <1>16, <1>17, <1>18, <1>19, <1>20, <1>21
     DEF Next, Step, TickStep, ManualStep, DeliverStep, Horizon

-----------------------------------------------------------------------------
(* Invariants of the specification *)

\* The invariant holds of an empty table.
LEMMA DeliveryInit == Init => DeliveryInv
<1> SUFFICES ASSUME Init  PROVE DeliveryInv
  OBVIOUS
<1>a. \A a \in Actor : ~Busy(a) /\ pc[a] \in {"idle", "start"} /\ job[a] = NoJob
  BY DEF Init, Busy
<1>1. RowTypeOK
  BY DEF Init, RowTypeOK, Status, NoTime
<1>2. ActorTypeOK
  BY DEF Init, ActorTypeOK, PC, Job, NoJob, NoTime
<1>3. TickTypeOK
  BY DEF Init, TickTypeOK
<1>4. TypeOK
  BY <1>1, <1>2, <1>3 DEF TypeOK, Init
<1>5. ClaimInv
  BY <1>a DEF Init, ClaimInv
<1>6. ProgressInv
  BY <1>a, DeliveryAssumption DEF Init, ProgressInv
<1>7. RecordedWasReceived
  BY DEF Init, RecordedWasReceived, Part
<1>8. ExistsInv
  BY <1>a DEF Init, ExistsInv, Row
<1> QED
  BY <1>4, <1>5, <1>6, <1>7, <1>8 DEF DeliveryInv

\* In every reachable state claims are exclusive, recorded progress is true of the
\* chat and the fence of record_* admits only the sender of the next part.
THEOREM DeliveryInvariant == Spec => []DeliveryInv
<1>1. DeliveryInv /\ [Next]_vars => DeliveryInv'
  BY TypeStep, ClaimStep, ProgressStep, ExistsStep DEF DeliveryInv
<1> QED
  BY <1>1, DeliveryInit, PTL DEF Spec

\* Every variable keeps its type, however many actors interleave.
THEOREM TypeCorrect == Spec => []TypeOK
BY DeliveryInvariant, PTL DEF DeliveryInv

\* Recorded progress is true of the chat, and DELIVERED rows have arrived: for
\* any number of schedulers and /report runs, retries, restarts and lost acks.
THEOREM RecordedReceived == Spec => []RecordedWasReceived
BY DeliveryInvariant, PTL DEF DeliveryInv

-----------------------------------------------------------------------------
(* Refinement: each row keeps the promise of DeliveryPromise *)

\* The outcome a status stands for.
LEMMA OutcomeOf ==
  ASSUME NEW r \in Row
  PROVE  /\ status[r] = "ABSENT" => outcome[r] = "none"
         /\ status[r] \in {"PENDING", "CLAIMED"} => outcome[r] = "open"
         /\ status[r] = "DELIVERED" => outcome[r] = "delivered"
         /\ status[r] = "FAILED" => outcome[r] = IF Exhausted(r) THEN "abandoned" ELSE "open"
BY DEF outcome

\* The outcome the next status stands for.
LEMMA OutcomeNext ==
  ASSUME NEW r \in Row
  PROVE  /\ status'[r] = "ABSENT" => outcome'[r] = "none"
         /\ status'[r] \in {"PENDING", "CLAIMED"} => outcome'[r] = "open"
         /\ status'[r] = "DELIVERED" => outcome'[r] = "delivered"
         /\ status'[r] = "FAILED" => outcome'[r] = IF Exhausted(r)' THEN "abandoned" ELSE "open"
BY DEF outcome

\* A row whose status and attempts stay keeps its outcome.
LEMMA OutcomeKept ==
  ASSUME NEW r \in Row, status'[r] = status[r], attempts'[r] = attempts[r]
  PROVE  outcome'[r] = outcome[r]
BY DEF outcome, Exhausted

\* Rows of one transaction change outcome together, and nothing arrives.
LEMMA PromiseMove ==
  ASSUME NEW S \in SUBSET Row, NEW from, NEW to,
         \A r \in S : outcome[r] = from /\ outcome'[r] = to,
         \A r \in Row \ S : outcome'[r] = outcome[r],
         copies' = copies
  PROVE  Promise!Move(S, from, to)
<1>1. outcome' = [r \in Row |-> outcome'[r]]
  BY DEF outcome
<1>2. outcome' = [r \in Row |-> IF r \in S THEN to ELSE outcome[r]]
  BY <1>1
<1>3. seen' = seen
  BY DEF seen
<1> QED
  BY <1>2, <1>3 DEF Promise!Move

\* A step that changes no outcome and sends nothing is invisible.
LEMMA PromiseStutter ==
  ASSUME \A r \in Row : outcome'[r] = outcome[r], copies' = copies
  PROVE  UNCHANGED Promise!vars
<1>1. outcome' = [r \in Row |-> outcome'[r]] /\ outcome = [r \in Row |-> outcome[r]]
  BY DEF outcome
<1>2. seen' = seen
  BY DEF seen
<1> QED
  BY <1>1, <1>2 DEF Promise!vars

\* New rows open their parcels together.
LEMMA PromiseOpen ==
  ASSUME DeliveryInv, NEW S \in SUBSET Row, \A r \in S : status[r] = "ABSENT", Insert(S),
         attempts' = attempts, copies' = copies
  PROVE  Promise!Next
<1>1. \A r \in Row : status'[r] = IF r \in S THEN "PENDING" ELSE status[r]
  BY DEF Insert
<1>2. \A r \in S : outcome[r] = "none" /\ outcome'[r] = "open"
  BY <1>1, OutcomeOf, OutcomeNext
<1>3. \A r \in Row \ S : outcome'[r] = outcome[r]
  BY <1>1, OutcomeKept
<1>4. Promise!Open(S)
  BY <1>2, <1>3, PromiseMove DEF Promise!Open
<1> QED
  BY <1>4 DEF Promise!Next

\* A claimed row stays open, whatever it was before.
LEMMA PromiseClaim ==
  ASSUME DeliveryInv, NEW a \in Actor, NEW r \in Row, Claim(a, r), copies' = copies
  PROVE  UNCHANGED Promise!vars
<1>t. /\ status \in [Row -> Status] /\ attempts \in [Row -> Nat]
      /\ MaxAttempts \in Nat
  BY DeliveryAssumption DEF DeliveryInv, TypeOK, RowTypeOK
<1>1. outcome[r] = "open"
  BY <1>t, OutcomeOf DEF Claim, Due, Exhausted
<1>2. outcome'[r] = "open"
  BY <1>t, OutcomeNext DEF Claim
<1>3. \A q \in Row : q # r => status'[q] = status[q] /\ attempts'[q] = attempts[q]
  BY <1>t DEF Claim
<1>4. \A q \in Row : outcome'[q] = outcome[q]
  BY <1>1, <1>2, <1>3, OutcomeKept
<1> QED
  BY <1>4, PromiseStutter

\* Claims that end in FAILED: the rows without attempts left are given up.
LEMMA PromiseFail ==
  ASSUME DeliveryInv, NEW S \in SUBSET Row, \A r \in S : status[r] = "CLAIMED",
         status' = [r \in Row |-> IF r \in S THEN "FAILED" ELSE status[r]],
         attempts' = attempts, copies' = copies
  PROVE  Promise!Next
<1> DEFINE Gone == {r \in S : Exhausted(r)}
<1>1. \A r \in Gone : outcome[r] = "open" /\ outcome'[r] = "abandoned"
  BY OutcomeOf, OutcomeNext DEF Exhausted
<1>2. ASSUME NEW r \in Row \ Gone  PROVE outcome'[r] = outcome[r]
  <2>1. CASE r \in S
    BY <1>2, <2>1, OutcomeOf, OutcomeNext DEF Exhausted
  <2>2. CASE r \notin S
    BY <2>2, OutcomeKept
  <2> QED
    BY <2>1, <2>2
<1>3. Gone \in SUBSET Row
  OBVIOUS
<1> HIDE DEF Gone
<1>4. Promise!Abandon(Gone)
  BY <1>1, <1>2, <1>3, PromiseMove DEF Promise!Abandon
<1> QED
  BY <1>3, <1>4 DEF Promise!Next

\* A part that reaches the chat comes after all the parts before it.
LEMMA PromiseArrive ==
  ASSUME DeliveryInv, NEW a \in Actor, pc[a] = "sending", UNCHANGED <<rowVars>>,
         Receive(job[a].row, job[a].part)
  PROVE  Promise!Next
<1> DEFINE r == job[a].row  p == job[a].part
<1>1. /\ r \in Row /\ p \in Part /\ p <= sent[r] + 1 /\ sent[r] \in Nat /\ NumParts \in Nat
      /\ status[r] # "ABSENT" /\ status[r] \in Status
      /\ copies \in [Row -> [Part -> Nat]]
  BY DeliveryAssumption
     DEF DeliveryInv, TypeOK, RowTypeOK, ClaimInv, ProgressInv, ExistsInv, Busy
<1>2. ASSUME NEW q \in 1..(p - 1)  PROVE q \in seen[r]
  <2>1. q \in Part /\ q <= sent[r]
    BY <1>1, <1>2 DEF Part
  <2>2. copies[r][q] > 0
    BY <1>1, <2>1 DEF DeliveryInv, RecordedWasReceived
  <2> QED
    BY <1>1, <2>1, <2>2 DEF seen
<1>3. outcome[r] # "none" /\ outcome' = outcome
  BY <1>1, OutcomeOf DEF rowVars, outcome, Exhausted, Status
<1> HIDE DEF r, p
<1>4. copies' = [copies EXCEPT ![r] = [copies[r] EXCEPT ![p] = copies[r][p] + 1]]
  BY <1>1 DEF Receive, r, p
<1>5. \A q \in Row : q # r => seen'[q] = seen[q]
  BY <1>1, <1>4 DEF seen
<1>6. seen'[r] = seen[r] \cup {p}
  <2>1. copies'[r] = [copies[r] EXCEPT ![p] = copies[r][p] + 1] /\ copies[r] \in [Part -> Nat]
    BY <1>1, <1>4
  <2>2. \A q \in Part : copies'[r][q] > 0 <=> (copies[r][q] > 0 \/ q = p)
    BY <1>1, <2>1
  <2> QED
    BY <1>1, <2>2 DEF seen
<1>7. seen' = [seen EXCEPT ![r] = seen[r] \cup {p}]
  <2>1. seen' = [q \in Row |-> seen'[q]] /\ seen = [q \in Row |-> seen[q]]
    BY DEF seen
  <2> QED
    BY <1>1, <1>5, <1>6, <2>1
<1>8. Promise!Arrive(r, p)
  BY <1>2, <1>3, <1>7 DEF Promise!Arrive
<1> QED
  BY <1>1, <1>8 DEF Promise!Next, Part, Document

\* DELIVERED is written only when every part has arrived.
LEMMA PromiseSettle ==
  ASSUME DeliveryInv, NEW a \in Actor, Complete(a)
  PROVE  Promise!Next \/ UNCHANGED Promise!vars
<1> DEFINE r == job[a].row
<1>1. /\ r \in Row /\ status \in [Row -> Status] /\ NumParts \in Nat
      /\ attempts' = attempts /\ copies' = copies
  BY DeliveryAssumption DEF DeliveryInv, TypeOK, RowTypeOK, ClaimInv, Busy, Complete
<1>2. CASE ~(Fenced(a) /\ doc[r])
  <2>1. status' = status
    BY <1>2 DEF Complete, claimVars
  <2> QED
    BY <1>1, <2>1, OutcomeKept, PromiseStutter
<1>3. CASE Fenced(a) /\ doc[r]
  <2>1. status[r] = "CLAIMED" /\ status' = [status EXCEPT ![r] = "DELIVERED"]
    BY <1>3 DEF Fenced, Complete
  <2>2. ASSUME NEW p \in 1..Document  PROVE p \in seen[r]
    <3>1. sent[r] = NumParts /\ copies[r][Document] > 0
      BY <1>1, <1>3 DEF DeliveryInv, RecordedWasReceived
    <3>2. p \in Part /\ (p <= sent[r] \/ p = Document)
      BY <1>1, <2>2, <3>1 DEF Part, Document
    <3>3. copies[r][p] > 0
      BY <1>1, <3>1, <3>2 DEF DeliveryInv, RecordedWasReceived
    <3> QED
      BY <1>1, <3>2, <3>3 DEF seen
  <2>3. seen[r] = 1..Document
    <3>1. \A p \in seen[r] : p \in 1..Document
      BY <1>1 DEF seen, Part, Document
    <3> QED
      BY <2>2, <3>1
  <2>4. \A q \in {r} : outcome[q] = "open" /\ outcome'[q] = "delivered"
    BY <1>1, <2>1, OutcomeOf, OutcomeNext
  <2>5. \A q \in Row \ {r} : outcome'[q] = outcome[q]
    BY <1>1, <2>1, OutcomeKept
  <2> HIDE DEF r
  <2>6. Promise!Move({r}, "open", "delivered")
    BY <1>1, <2>4, <2>5, PromiseMove
  <2> QED
    BY <1>1, <2>3, <2>6 DEF Promise!Settle, Promise!Next
<1> QED
  BY <1>2, <1>3

\* Every step of the delivery is a step of the promise or invisible to it.
LEMMA PromiseStep ==
  ASSUME DeliveryInv, [Next]_vars
  PROVE  [Promise!Next]_(Promise!vars)
<1> USE DEF rowVars, claimVars, tickVars
<1>a. /\ \A w \in Worker : w \in Actor
      /\ \A h \in Handler : h \in Actor /\ h \in Row
      /\ \A r \in AutoRow : r \in Row
  BY DEF Actor, Row
<1>t. /\ todo \in [Worker -> SUBSET Row] /\ published \subseteq AutoRow
      /\ \A a \in Actor : Busy(a) => job[a].row \in Row
  BY DEF DeliveryInv, TypeOK, TickTypeOK, ClaimInv
<1> DEFINE Goal == Promise!Next \/ UNCHANGED Promise!vars
<1>k. status' = status /\ attempts' = attempts /\ copies' = copies => UNCHANGED Promise!vars
  BY OutcomeKept, PromiseStutter
<1>1. ASSUME NEW w \in Worker, StartTick(w) \/ ListDue(w) \/ EndPhase(w)  PROVE Goal
  BY <1>1, <1>k DEF StartTick, ListDue, EndPhase
<1>2. ASSUME NEW w \in Worker, RecoverMissing(w)  PROVE Goal
  <2>0. PICK S \in SUBSET {r \in published : status[r] = "ABSENT"} : Insert(S)
    BY <1>2 DEF RecoverMissing
  <2>1. S \in SUBSET Row /\ \A r \in S : status[r] = "ABSENT"
    BY <1>t, <1>a
  <2>2. Insert(S) /\ attempts' = attempts /\ copies' = copies
    BY <1>2, <2>0 DEF RecoverMissing
  <2> QED
    BY <2>1, <2>2, PromiseOpen
<1>3. ASSUME NEW w \in Worker, RecoverStale(w)  PROVE Goal
  <2>1. PICK skipped \in SUBSET Row :
          status' = [r \in Row |->
            IF r \in {q \in Row \ skipped : status[q] = "CLAIMED" /\ ~ClaimIsActive(q, now[w])}
              THEN "FAILED" ELSE status[r]]
    BY <1>3 DEF RecoverStale
  <2> DEFINE S == {q \in Row \ skipped : status[q] = "CLAIMED" /\ ~ClaimIsActive(q, now[w])}
  <2>2. /\ status' = [r \in Row |-> IF r \in S THEN "FAILED" ELSE status[r]]
        /\ attempts' = attempts /\ copies' = copies
    BY <1>3, <2>1 DEF RecoverStale
  <2>3. S \in SUBSET Row /\ \A r \in S : status[r] = "CLAIMED"
    OBVIOUS
  <2> HIDE DEF S
  <2> QED
    BY <2>2, <2>3, PromiseFail
<1>6. ASSUME NEW w \in Worker, ClaimNext(w)  PROVE Goal
  <2>1. PICK r \in Row : Claim(w, r) \/ UNCHANGED <<rowVars, job, pc>>
    BY <1>6, <1>t DEF ClaimNext
  <2>2. CASE Claim(w, r)
    BY <1>6, <2>2, <1>a, PromiseClaim DEF ClaimNext
  <2>3. CASE UNCHANGED <<rowVars, job, pc>>
    BY <1>6, <2>3, <1>k DEF ClaimNext
  <2> QED
    BY <2>1, <2>2, <2>3
<1>7. ASSUME NEW h \in Handler, CreateManual(h)  PROVE Goal
  <2>1. {h} \in SUBSET Row /\ \A r \in {h} : status[r] = "ABSENT"
    BY <1>7, <1>a DEF CreateManual, DeliveryInv, ExistsInv
  <2> QED
    BY <1>7, <2>1, PromiseOpen DEF CreateManual
<1>8. ASSUME NEW h \in Handler, ClaimManual(h)  PROVE Goal
  <2>1. CASE Claim(h, h)
    BY <1>8, <2>1, <1>a, PromiseClaim DEF ClaimManual
  <2>2. CASE UNCHANGED rowVars
    BY <1>8, <2>2, <1>k DEF ClaimManual
  <2> QED
    BY <1>8, <2>1, <2>2 DEF ClaimManual
<1>9. ASSUME NEW a \in Actor, Load(a) \/ BlockFails(a)  PROVE Goal
  BY <1>9, <1>k DEF Load, FirstPart, DocumentIsSent, BlockFails
<1>10. ASSUME NEW a \in Actor, SendOk(a)  PROVE Goal
  BY <1>10, PromiseArrive DEF SendOk
<1>11. ASSUME NEW a \in Actor, SendFails(a)  PROVE Goal
  BY <1>11, <1>k, PromiseArrive DEF SendFails
<1>12. ASSUME NEW a \in Actor, RecordSummary(a) \/ RecordDocument(a)  PROVE Goal
  BY <1>12, <1>k DEF RecordSummary, RecordDocument
<1>15. ASSUME NEW a \in Actor, Complete(a)  PROVE Goal
  BY <1>15, PromiseSettle
<1>16. ASSUME NEW a \in Actor, Fail(a)  PROVE Goal
  <2>1. attempts' = attempts /\ copies' = copies
    BY <1>16 DEF Fail
  <2>2. CASE ~Fenced(a)
    BY <1>16, <2>1, <2>2, <1>k DEF Fail
  <2>3. CASE Fenced(a)
    <3> DEFINE S == {job[a].row}
    <3>1. S \in SUBSET Row /\ \A r \in S : status[r] = "CLAIMED"
      BY <2>3 DEF Fenced
    <3>2. status' = [r \in Row |-> IF r \in S THEN "FAILED" ELSE status[r]]
      BY <1>16, <2>3 DEF Fail, DeliveryInv, TypeOK, RowTypeOK
    <3> HIDE DEF S
    <3> QED
      BY <2>1, <3>1, <3>2, PromiseFail
  <2> QED
    BY <2>2, <2>3
<1>17. ASSUME NEW a \in Actor, Restart(a) \/ Fault(a)  PROVE Goal
  BY <1>17, <1>k DEF Restart, Fault
<1>19. ASSUME NEW r \in AutoRow, Publish(r)  PROVE Goal
  <2>1. {r} \in SUBSET Row /\ \A q \in {r} : status[q] = "ABSENT"
    BY <1>19, <1>a DEF Publish, DeliveryInv, ExistsInv
  <2> QED
    BY <1>19, <2>1, PromiseOpen DEF Publish
<1>20. CASE Tick \/ UNCHANGED vars
  BY <1>20, <1>k DEF Tick, vars
<1> QED
  BY <1>1, <1>2, <1>3, <1>6, <1>7, <1>8, <1>9, <1>10, <1>11, <1>12,
     <1>15, <1>16, <1>17, <1>19, <1>20
     DEF Next, Step, TickStep, ManualStep, DeliverStep, Horizon

\* An empty table promises nothing and has sent nothing.
LEMMA PromiseInit == Init => Promise!Init
<1> SUFFICES ASSUME Init  PROVE Promise!Init
  OBVIOUS
<1>1. outcome = [r \in Row |-> "none"]
  BY DEF Init, outcome
<1>2. seen = [r \in Row |-> {}]
  BY DEF Init, seen
<1> QED
  BY <1>1, <1>2 DEF Promise!Init

\* The delivery machinery implements DeliveryPromise: parts arrive in order and
\* a delivered row has arrived as a whole, at any load delay and clock setting.
THEOREM DeliveryKeepsPromise == Spec => PromiseKept
<1>1. Init => Promise!Init
  BY PromiseInit
<1>2. DeliveryInv /\ [Next]_vars => [Promise!Next]_(Promise!vars)
  BY PromiseStep
<1> QED
  BY <1>1, <1>2, DeliveryInvariant, PTL DEF Spec, PromiseKept, Promise!Spec

-----------------------------------------------------------------------------
(* Sends: how often, under which claim and of what *)

\* A step that is none of Load, SendOk and record_* records no document, and puts
\* no actor into the send block or behind the fence.
LEMMA QuietStep ==
  ASSUME DeliveryInv, [Next]_vars
  PROVE  \/ doc' = doc /\ \A a \in Actor : Kept(a)
         \/ \E a \in Actor : Load(a) \/ SendOk(a) \/ RecordSummary(a) \/ RecordDocument(a)
<1> USE DEF rowVars, claimVars, tickVars
<1> DEFINE Quiet == doc' = doc /\ \A a \in Actor : Kept(a)
<1>a. /\ \A w \in Worker : w \in Actor
      /\ \A h \in Handler : h \in Actor /\ h \in Row
  BY DEF Actor, Row
<1>t. /\ pc \in [Actor -> PC] /\ job \in [Actor -> Job] /\ ActorTypeOK
      /\ status \in [Row -> Status] /\ token \in [Row -> Nat]
      /\ todo \in [Worker -> SUBSET Row]
  BY DEF DeliveryInv, TypeOK, RowTypeOK, ActorTypeOK, TickTypeOK
<1>1. ASSUME NEW w \in Worker, StartTick(w) \/ ListDue(w) \/ EndPhase(w)  PROVE Quiet
  BY <1>1, <1>t, <1>a, FenceFrame DEF StartTick, ListDue, EndPhase, Kept
<1>2. ASSUME NEW w \in Worker, RecoverMissing(w)  PROVE Quiet
  BY <1>2, <1>t, <1>a DEF RecoverMissing, Insert, Kept, Fenced
<1>3. ASSUME NEW w \in Worker, RecoverStale(w)  PROVE Quiet
  BY <1>3, <1>t, <1>a DEF RecoverStale, Kept, Fenced
<1>6. ASSUME NEW w \in Worker, ClaimNext(w)  PROVE Quiet
  <2>1. PICK r \in Row : Claim(w, r) \/ UNCHANGED <<rowVars, job, pc>>
    BY <1>6, <1>t DEF ClaimNext
  <2>2. CASE Claim(w, r)
    BY <2>2, <1>a, ClaimFence DEF Claim
  <2>3. CASE UNCHANGED <<rowVars, job, pc>>
    BY <2>3, FenceFrame DEF Kept
  <2> QED
    BY <2>1, <2>2, <2>3
<1>7. ASSUME NEW h \in Handler, CreateManual(h)  PROVE Quiet
  BY <1>7, <1>t, <1>a DEF CreateManual, Insert, Kept, Fenced
<1>8. ASSUME NEW h \in Handler, ClaimManual(h)  PROVE Quiet
  <2>1. CASE Claim(h, h)
    BY <2>1, <1>a, ClaimFence DEF Claim
  <2>2. CASE Release(h) /\ UNCHANGED rowVars
    BY <2>2, <1>a, <1>t, ReleaseKept
  <2> QED
    BY <1>8, <2>1, <2>2 DEF ClaimManual
<1>11. ASSUME NEW a \in Actor, SendFails(a) \/ BlockFails(a)  PROVE Quiet
  BY <1>11, <1>t, FenceFrame DEF SendFails, BlockFails, Kept
<1>15. ASSUME NEW a \in Actor, Complete(a)  PROVE Quiet
  BY <1>15, <1>t DEF Complete, Release, Kept, Fenced
<1>16. ASSUME NEW a \in Actor, Fail(a)  PROVE Quiet
  BY <1>16, <1>t DEF Fail, Release, Kept, Fenced
<1>17. ASSUME NEW a \in Actor, Restart(a)  PROVE Quiet
  BY <1>17, <1>t, FenceFrame DEF Restart, Kept
<1>18. ASSUME NEW a \in Actor, Fault(a)  PROVE Quiet
  BY <1>18, <1>t, ReleaseKept DEF Fault
<1>19. ASSUME NEW r \in AutoRow, Publish(r)  PROVE Quiet
  BY <1>19, <1>t DEF Publish, Insert, Kept, Fenced
<1>20. CASE Tick \/ UNCHANGED vars
  BY <1>20, FenceFrame DEF Tick, vars, Kept
<1> QED
  BY <1>1, <1>2, <1>3, <1>6, <1>7, <1>8, <1>11, <1>15, <1>16, <1>17, <1>18, <1>19, <1>20
     DEF Next, Step, TickStep, ManualStep, DeliverStep, Horizon

\* Under a scheduler's current claim the document stays unrecorded from the load of
\* the progress to the end of the send.
LEMMA DocumentStep ==
  ASSUME SendInv, [Next]_vars
  PROVE  DocumentInv'
<1> USE DEF rowVars, claimVars, tickVars
<1>i. DeliveryInv /\ DocumentInv
  BY DEF SendInv
<1>t. /\ pc \in [Actor -> PC] /\ job \in [Actor -> Job] /\ ActorTypeOK
      /\ doc \in [Row -> BOOLEAN] /\ \A w \in Worker : w \in Actor
  BY <1>i DEF DeliveryInv, TypeOK, RowTypeOK, ActorTypeOK, Actor
<1>1. CASE doc' = doc /\ \A a \in Actor : Kept(a)
  BY <1>1, <1>i, <1>t DEF DocumentInv, Kept
<1>2. ASSUME NEW a \in Actor, Load(a)  PROVE DocumentInv'
  <2>1. \A b \in Actor : b # a => Kept(b)
    BY <1>2, <1>t DEF Load, FirstPart, Kept, Fenced
  <2>2. doc' = doc
    BY <1>2 DEF Load
  <2>3. pc'[a] \in {"sending", "record"} => ~DocumentIsSent(a) /\ job'[a].row = job[a].row
    <3>1. \A p, t : job' = [job EXCEPT ![a].part = p, ![a].until = t] => job'[a].row = job[a].row
      BY <1>t, JobPartUntil
    <3> QED
      BY <1>2, <1>t, <3>1 DEF Load
  <2>4. ASSUME NEW w \in Worker, pc'[w] \in {"sending", "record"}, Fenced(w)'
        PROVE  ~doc'[job'[w].row]
    BY <1>i, <1>t, <2>1, <2>2, <2>3, <2>4 DEF DocumentInv, DocumentIsSent, Kept
  <2> QED
    BY <2>4 DEF DocumentInv
<1>3. ASSUME NEW a \in Actor, SendOk(a) \/ RecordSummary(a)  PROVE DocumentInv'
  <2>1. status' = status /\ token' = token /\ doc' = doc
    BY <1>3 DEF SendOk, RecordSummary
  <2>2. ASSUME NEW b \in Actor
        PROVE  pc'[b] \in {"sending", "record"} =>
                 /\ pc[b] \in {"sending", "record"}
                 /\ job'[b].row = job[b].row /\ job'[b].tok = job[b].tok
    <3>1. CASE SendOk(a)
      BY <1>t, <3>1 DEF SendOk
    <3>2. CASE Release(a)
      BY <1>t, <3>2 DEF Release
    <3>3. CASE job' = [job EXCEPT ![a].part = job[a].part + 1]
      <4>1. job'[b].row = job[b].row /\ job'[b].tok = job[b].tok
        BY <1>t, <3>3 DEF Job
      <4>2. b # a /\ RecordSummary(a) => pc'[b] = pc[b]
        BY <1>t DEF RecordSummary, Release
      <4> QED
        BY <1>3, <3>1, <4>1, <4>2 DEF RecordSummary
    <3> QED
      BY <1>3, <3>1, <3>2, <3>3 DEF RecordSummary
  <2>3. ASSUME NEW w \in Worker, pc'[w] \in {"sending", "record"}, Fenced(w)'
        PROVE  ~doc'[job'[w].row]
    BY <1>i, <1>t, <2>1, <2>2, <2>3 DEF DocumentInv, Fenced
  <2> QED
    BY <2>3 DEF DocumentInv
<1>4. ASSUME NEW a \in Actor, RecordDocument(a)  PROVE DocumentInv'
  <2>1. CASE ~(Fenced(a) /\ ~doc[job[a].row])
    <3>1. doc' = doc /\ \A b \in Actor : Kept(b)
      BY <1>4, <1>t, <2>1, ReleaseKept DEF RecordDocument
    <3> QED
      BY <1>1, <3>1
  <2>2. CASE Fenced(a) /\ ~doc[job[a].row]
    <3>1. /\ doc' = [doc EXCEPT ![job[a].row] = TRUE] /\ job' = job
          /\ status' = status /\ token' = token /\ pc[a] = "record"
          /\ pc'[a] \in {"complete", "fail"} /\ \A b \in Actor : b # a => pc'[b] = pc[b]
      BY <1>4, <1>t, <2>2 DEF RecordDocument
    <3>2. ASSUME NEW w \in Worker, pc'[w] \in {"sending", "record"}, Fenced(w)'
          PROVE  ~doc'[job'[w].row]
      <4>1. w # a /\ pc[w] \in {"sending", "record"} /\ Fenced(w) /\ w \in Actor
        BY <1>t, <3>1, <3>2, FenceFrame
      <4>2. job[w].row # job[a].row
        BY <1>i, <2>2, <3>1, <4>1, OneHolder DEF Busy
      <4> QED
        BY <1>i, <1>t, <3>1, <4>1, <4>2 DEF DocumentInv, Fenced
    <3> QED
      BY <3>2 DEF DocumentInv
  <2> QED
    BY <2>1, <2>2
<1> QED
  BY <1>i, <1>1, <1>2, <1>3, <1>4, QuietStep

\* No tick begins in the future, a claim has its time, and asyncio.timeout keeps the
\* clock below the deadline of every send block.
LEMMA TimeStep ==
  ASSUME SendInv, [Next]_vars
  PROVE  TimeInv'
<1> USE DEF rowVars, claimVars, tickVars
<1>a. /\ \A w \in Worker : w \in Actor
      /\ \A h \in Handler : h \in Actor /\ h \in Row
  BY DEF Actor, Row
<1>t. /\ pc \in [Actor -> PC] /\ job \in [Actor -> Job] /\ ActorTypeOK
      /\ status \in [Row -> Status] /\ claimedAt \in [Row -> Int]
      /\ now \in [Worker -> Nat] /\ todo \in [Worker -> SUBSET Row] /\ clock \in Nat
  BY DEF SendInv, DeliveryInv, TypeOK, RowTypeOK, ActorTypeOK, TickTypeOK
<1>i. /\ \A w \in Worker : pc[w] # "idle" => now[w] <= clock
      /\ \A r \in Row : status[r] = "CLAIMED" => claimedAt[r] # NoTime
      /\ \A a \in Actor : pc[a] \in {"sending", "record"} => clock <= job[a].until
  BY DEF SendInv, TimeInv
\* Most steps let neither a tick nor a claim nor a send block begin.
<1>k. ASSUME clock' = clock,
             \A a \in Actor : pc'[a] \in {"sending", "record"} =>
               pc[a] \in {"sending", "record"} /\ job'[a].until = job[a].until,
             \A w \in Worker : pc'[w] # "idle" => now'[w] = now[w] /\ pc[w] # "idle",
             \A r \in Row : status'[r] = "CLAIMED" => status[r] = "CLAIMED" /\ claimedAt'[r] = claimedAt[r]
      PROVE  TimeInv'
  BY <1>i, <1>k DEF TimeInv
<1>1. ASSUME NEW w \in Worker, StartTick(w)  PROVE TimeInv'
  <2>1. \A v \in Worker : pc'[v] # "idle" => now'[v] <= clock
    BY <1>1, <1>i, <1>t DEF StartTick
  <2>2. /\ \A a \in Actor : pc'[a] \in {"sending", "record"} => pc[a] = pc'[a]
        /\ UNCHANGED <<clock, job, status, claimedAt>>
    BY <1>1, <1>t, <1>a DEF StartTick
  <2> QED
    BY <1>i, <2>1, <2>2 DEF TimeInv
<1>2. ASSUME NEW w \in Worker, RecoverMissing(w) \/ ListDue(w)  PROVE TimeInv'
  BY <1>2, <1>k, <1>t, <1>a DEF RecoverMissing, Insert, ListDue
<1>3. ASSUME NEW w \in Worker, RecoverStale(w)  PROVE TimeInv'
  BY <1>3, <1>k, <1>t, <1>a DEF RecoverStale
<1>5. ASSUME NEW w \in Worker, EndPhase(w)  PROVE TimeInv'
  BY <1>5, <1>k, <1>t, <1>a DEF EndPhase
<1>6. ASSUME NEW a \in Actor, NEW r \in Row, Claim(a, r), UNCHANGED <<clock, now>>,
             pc[a] # "idle"
      PROVE  TimeInv'
  <2>1. /\ \A b \in Actor : pc'[b] \in {"sending", "record"} =>
             pc[b] = pc'[b] /\ job'[b] = job[b]
        /\ \A w \in Worker : pc'[w] # "idle" => pc[w] # "idle"
    BY <1>6, <1>t, <1>a DEF Claim
  <2>2. \A q \in Row : status'[q] = "CLAIMED" => claimedAt'[q] # NoTime
    BY <1>6, <1>t, <1>i DEF Claim, NoTime
  <2> QED
    BY <1>6, <1>i, <2>1, <2>2 DEF TimeInv
<1>7. ASSUME NEW w \in Worker, ClaimNext(w)  PROVE TimeInv'
  <2>1. PICK r \in Row : Claim(w, r) \/ UNCHANGED <<rowVars, job, pc>>
    BY <1>7, <1>t DEF ClaimNext
  <2>2. CASE Claim(w, r)
    BY <1>6, <1>7, <2>2, <1>a DEF ClaimNext
  <2>3. CASE UNCHANGED <<rowVars, job, pc>>
    BY <1>k, <1>7, <2>3 DEF ClaimNext
  <2> QED
    BY <2>1, <2>2, <2>3
<1>8. ASSUME NEW a \in Actor, Release(a), UNCHANGED <<clock, now>>,
             \A r \in Row : status'[r] = "CLAIMED" => status[r] = "CLAIMED" /\ claimedAt'[r] = claimedAt[r],
             pc[a] # "idle"
      PROVE  TimeInv'
  <2>1. /\ \A b \in Actor : pc'[b] \in {"sending", "record"} =>
             pc[b] = pc'[b] /\ job'[b] = job[b]
        /\ \A w \in Worker : pc'[w] # "idle" => pc[w] # "idle"
    BY <1>8, <1>t, <1>a DEF Release
  <2> QED
    BY <1>8, <1>k, <2>1
<1>9. ASSUME NEW h \in Handler, CreateManual(h)  PROVE TimeInv'
  BY <1>9, <1>k, <1>t, <1>a, DeliveryAssumption DEF CreateManual, Insert
<1>10. ASSUME NEW h \in Handler, ClaimManual(h)  PROVE TimeInv'
  <2>1. CASE Claim(h, h)
    BY <1>6, <1>10, <2>1, <1>a DEF ClaimManual
  <2>2. CASE Release(h) /\ UNCHANGED rowVars
    BY <1>8, <1>10, <2>2, <1>a DEF ClaimManual
  <2> QED
    BY <1>10, <2>1, <2>2 DEF ClaimManual
<1>11. ASSUME NEW a \in Actor, Load(a)  PROVE TimeInv'
  <2>1. UNCHANGED <<clock, now, status, claimedAt>> /\ pc[a] = "load"
    BY <1>11 DEF Load
  <2>2. ASSUME NEW b \in Actor, pc'[b] \in {"sending", "record"}  PROVE clock <= job'[b].until
    <3>1. CASE b = a
      <4>1. job' = [job EXCEPT ![a].part = FirstPart(job[a].row), ![a].until = clock + SendTimeout]
        BY <1>11, <1>t, <2>2, <3>1 DEF Load
      <4>2. job'[a].until = clock + SendTimeout
        BY <1>t, <4>1 DEF Job
      <4> QED
        BY <1>t, <3>1, <4>2, DeliveryAssumption
    <3>2. CASE b # a
      BY <1>11, <1>i, <1>t, <2>2, <3>2 DEF Load
    <3> QED
      BY <3>1, <3>2
  <2>3. \A w \in Worker : pc'[w] # "idle" => pc[w] # "idle"
    BY <1>11, <1>t, <1>a DEF Load
  <2> QED
    BY <1>i, <2>1, <2>2, <2>3 DEF TimeInv
<1>12. ASSUME NEW a \in Actor, SendOk(a) \/ SendFails(a) \/ BlockFails(a)  PROVE TimeInv'
  BY <1>12, <1>k, <1>t, <1>a DEF SendOk, SendFails, BlockFails
<1>13. ASSUME NEW a \in Actor, RecordSummary(a)  PROVE TimeInv'
  <2>1. CASE Release(a)
    BY <1>8, <1>13, <2>1 DEF RecordSummary
  <2>2. CASE /\ job' = [job EXCEPT ![a].part = job[a].part + 1]
             /\ \E s \in {"sending", "fail"} : pc' = [pc EXCEPT ![a] = s]
    <3>1. \A b \in Actor : job'[b].until = job[b].until
      BY <1>t, <2>2 DEF Job
    <3>2. /\ \A b \in Actor : pc'[b] \in {"sending", "record"} => pc[b] \in {"sending", "record"}
          /\ \A w \in Worker : pc'[w] # "idle" => pc[w] # "idle"
      BY <1>13, <1>t, <1>a, <2>2 DEF RecordSummary
    <3> QED
      BY <1>13, <1>k, <3>1, <3>2 DEF RecordSummary
  <2> QED
    BY <1>13, <2>1, <2>2 DEF RecordSummary
<1>14. ASSUME NEW a \in Actor, RecordDocument(a)  PROVE TimeInv'
  <2>1. CASE Release(a)
    BY <1>8, <1>14, <2>1 DEF RecordDocument
  <2>2. CASE job' = job /\ \E s \in {"complete", "fail"} : pc' = [pc EXCEPT ![a] = s]
    BY <1>14, <1>k, <1>t, <1>a, <2>2 DEF RecordDocument
  <2> QED
    BY <1>14, <2>1, <2>2 DEF RecordDocument
<1>15. ASSUME NEW a \in Actor, Complete(a) \/ Fail(a)  PROVE TimeInv'
  <2>1. \A r \in Row : status'[r] = "CLAIMED" => status[r] = "CLAIMED" /\ claimedAt'[r] = claimedAt[r]
    BY <1>15, <1>t DEF Complete, Fail
  <2> QED
    BY <1>8, <1>15, <2>1 DEF Complete, Fail
<1>17. ASSUME NEW a \in Actor, Restart(a)  PROVE TimeInv'
  <2>1. /\ \A b \in Actor : pc'[b] \in {"sending", "record"} => pc[b] = pc'[b] /\ job'[b] = job[b]
        /\ \A w \in Worker : pc'[w] # "idle" => now'[w] = now[w] /\ pc[w] # "idle"
    BY <1>17, <1>t, <1>a DEF Restart
  <2> QED
    BY <1>17, <1>k, <2>1 DEF Restart
<1>18. ASSUME NEW a \in Actor, Fault(a)  PROVE TimeInv'
  BY <1>8, <1>18 DEF Fault
<1>19. ASSUME NEW r \in AutoRow, Publish(r)  PROVE TimeInv'
  BY <1>19, <1>k, <1>t DEF Publish, Insert
<1>20. CASE Tick
  <2>1. clock' = clock + 1 /\ UNCHANGED <<status, claimedAt, pc, job, now>>
    BY <1>20 DEF Tick
  <2>2. ASSUME NEW a \in Actor, pc[a] \in {"sending", "record"}  PROVE clock' <= job[a].until
    <3>1. clock <= job[a].until /\ job[a].until \in Int
      BY <1>i, <1>t, <2>2 DEF Job
    <3>2. job[a].until # NoTime
      BY <1>t, <3>1 DEF NoTime
    <3> QED
      BY <1>20, <1>t, <2>1, <2>2, <3>1, <3>2 DEF Tick
  <2>3. \A w \in Worker : pc[w] # "idle" => now[w] <= clock'
    BY <1>i, <1>t, <2>1
  <2> QED
    BY <1>i, <2>1, <2>2, <2>3 DEF TimeInv
<1>21. CASE UNCHANGED vars
  BY <1>21, <1>k DEF vars
<1> QED
  BY <1>1, <1>2, <1>3, <1>5, <1>7, <1>9, <1>10, <1>11, <1>12, <1>13, <1>14, <1>15,
     <1>17, <1>18, <1>19, <1>20, <1>21
     DEF Next, Step, TickStep, ManualStep, DeliverStep, Horizon

\* Only recover_stale_claimed_deliveries takes the current claim from a sender, and
\* only once claim_ttl_seconds have passed on a clock that its deadline bounds.
LEMMA FenceLost ==
  ASSUME SendInv, [Next]_vars, NEW a \in Actor, pc[a] = "sending", pc'[a] = "sending",
         Fenced(a), ~Fenced(a)'
  PROVE  job[a].until >= claimedAt[job[a].row] + ClaimTTL
<1> USE DEF rowVars, claimVars, tickVars
<1> DEFINE r == job[a].row
<1>a. /\ \A w \in Worker : w \in Actor
      /\ \A h \in Handler : h \in Actor /\ h \in Row
  BY DEF Actor, Row
<1>t. /\ pc \in [Actor -> PC] /\ job \in [Actor -> Job] /\ ActorTypeOK
      /\ status \in [Row -> Status] /\ claimedAt \in [Row -> Int] /\ token \in [Row -> Nat]
      /\ now \in [Worker -> Nat] /\ todo \in [Worker -> SUBSET Row] /\ clock \in Nat
  BY DEF SendInv, DeliveryInv, TypeOK, RowTypeOK, ActorTypeOK, TickTypeOK
<1>r. r \in Row /\ status[r] = "CLAIMED" /\ token[r] = job[a].tok
  BY DEF Fenced
\* Who does not touch the row, nor the job of the sender, does not take the claim.
<1>k. ~(job'[a] = job[a] /\ status'[r] = status[r] /\ token'[r] = token[r])
  BY <1>r DEF Fenced
<1>1. ASSUME NEW w \in Worker, StartTick(w) \/ ListDue(w) \/ EndPhase(w)  PROVE FALSE
  BY <1>1, <1>k DEF StartTick, ListDue, EndPhase
<1>2. ASSUME NEW S \in SUBSET Row, Insert(S), \A q \in S : status[q] = "ABSENT",
             UNCHANGED <<job, token>>
      PROVE  FALSE
  BY <1>2, <1>k, <1>r DEF Insert
<1>3. ASSUME NEW w \in Worker, RecoverStale(w)
      PROVE  job[a].until >= claimedAt[job[a].row] + ClaimTTL
  <2>1. ~ClaimIsActive(r, now[w])
    BY <1>3, <1>k, <1>r DEF RecoverStale
  <2>2. claimedAt[r] # NoTime /\ now[w] <= clock /\ clock <= job[a].until
    BY <1>3, <1>r DEF SendInv, TimeInv, RecoverStale
  <2>3. now[w] - claimedAt[r] >= ClaimTTL
    BY <1>r, <1>t, <2>1, <2>2, DeliveryAssumption DEF ClaimIsActive
  <2>4. /\ now[w] \in Nat /\ claimedAt[r] \in Int /\ job[a].until \in Int /\ ClaimTTL \in Nat
    BY <1>r, <1>t, DeliveryAssumption DEF Job
  <2> QED
    BY <1>t, <2>2, <2>3, <2>4
<1>4. ASSUME NEW b \in Actor, NEW q \in Row, Claim(b, q)  PROVE FALSE
  <2>1. q # r
    BY <1>4, <1>r DEF Claim, Due
  <2>2. b # a
    BY <1>4, <1>t DEF Claim
  <2> QED
    BY <1>4, <1>k, <1>r, <1>t, <2>1, <2>2 DEF Claim
<1>5. ASSUME NEW b \in Actor, b # a, Release(b), status'[r] = status[r], token'[r] = token[r]
      PROVE  FALSE
  BY <1>5, <1>k, <1>t DEF Release
<1>6. ASSUME NEW w \in Worker, ClaimNext(w)  PROVE FALSE
  BY <1>4, <1>6, <1>a, <1>k, <1>t DEF ClaimNext
<1>7. ASSUME NEW w \in Worker, RecoverMissing(w)  PROVE FALSE
  <2>1. published \subseteq Row
    BY DEF SendInv, DeliveryInv, TypeOK, Row
  <2> QED
    BY <1>2, <1>7, <2>1 DEF RecoverMissing
<1>8. ASSUME NEW h \in Handler, CreateManual(h)  PROVE FALSE
  <2>1. {h} \in SUBSET Row /\ \A q \in {h} : status[q] = "ABSENT"
    BY <1>8, <1>a DEF CreateManual, SendInv, DeliveryInv, ExistsInv
  <2> QED
    BY <1>2, <1>8, <2>1 DEF CreateManual
<1>9. ASSUME NEW q \in AutoRow, Publish(q)  PROVE FALSE
  <2>1. {q} \in SUBSET Row /\ \A x \in {q} : status[x] = "ABSENT"
    BY <1>9 DEF Publish, SendInv, DeliveryInv, ExistsInv, Row
  <2> QED
    BY <1>2, <1>9, <2>1 DEF Publish
<1>10. ASSUME NEW h \in Handler, ClaimManual(h)  PROVE FALSE
  <2>1. CASE Claim(h, h)
    BY <1>4, <1>a, <2>1
  <2>2. CASE Release(h) /\ UNCHANGED rowVars
    BY <1>5, <1>10, <1>a, <2>2 DEF ClaimManual
  <2> QED
    BY <1>10, <2>1, <2>2 DEF ClaimManual
<1>11. ASSUME NEW b \in Actor, Load(b)  PROVE FALSE
  <2>1. b # a
    BY <1>11 DEF Load
  <2> QED
    BY <1>11, <1>k, <1>t, <2>1 DEF Load
<1>12. ASSUME NEW b \in Actor, SendOk(b) \/ SendFails(b) \/ BlockFails(b)  PROVE FALSE
  BY <1>12, <1>k DEF SendOk, SendFails, BlockFails
<1>13. ASSUME NEW b \in Actor, RecordSummary(b) \/ RecordDocument(b)  PROVE FALSE
  <2>1. b # a
    BY <1>13 DEF RecordSummary, RecordDocument
  <2> QED
    BY <1>5, <1>13, <1>k, <1>t, <2>1 DEF RecordSummary, RecordDocument
<1>14. ASSUME NEW b \in Actor, Complete(b) \/ Fail(b)  PROVE FALSE
  <2>1. b # a /\ Busy(b) /\ Busy(a)
    BY <1>14 DEF Complete, Fail, Busy
  <2>2. Fenced(b) => job[b].row # r
    BY <2>1, OneHolder DEF SendInv
  <2>3. status'[r] = status[r] /\ token'[r] = token[r]
    BY <1>14, <1>r, <1>t, <2>2 DEF Complete, Fail
  <2> QED
    BY <1>5, <1>14, <2>1, <2>3 DEF Complete, Fail
<1>15. ASSUME NEW b \in Actor, Restart(b)  PROVE FALSE
  <2>1. b # a
    BY <1>15, <1>t DEF Restart
  <2> QED
    BY <1>15, <1>k, <1>t, <2>1 DEF Restart
<1>16. ASSUME NEW b \in Actor, Fault(b)  PROVE FALSE
  BY <1>5, <1>16 DEF Fault
<1>17. CASE Tick \/ UNCHANGED vars
  BY <1>17, <1>k DEF Tick, vars
<1> QED
  BY <1>1, <1>3, <1>6, <1>7, <1>8, <1>9, <1>10, <1>11, <1>12, <1>13, <1>14, <1>15, <1>16, <1>17
     DEF Next, Step, TickStep, ManualStep, DeliverStep, Horizon

-----------------------------------------------------------------------------
(* Copies: one attempt sends a part at most once *)

\* The claims of a row are numbered by its attempts, so there are finitely many.
LEMMA OpenFinite ==
  ASSUME DeliveryInv, NEW r \in Row, NEW p \in Part
  PROVE  /\ IsFiniteSet(OpenClaims(r, p)) /\ Cardinality(OpenClaims(r, p)) \in Nat
         /\ \A t \in OpenClaims(r, p) : t \in 1..attempts[r]
<1>1. ASSUME NEW t \in OpenClaims(r, p)  PROVE t \in 1..attempts[r]
  <2>1. PICK a \in Actor : job[a].row = r /\ MaySend(a, p) /\ t = job[a].tok
    BY DEF OpenClaims
  <2>2. Busy(a) /\ job[a] \in Job /\ attempts[r] \in Nat
    BY <2>1 DEF MaySend, Busy, DeliveryInv, TypeOK, RowTypeOK, ActorTypeOK
  <2> QED
    BY <2>1, <2>2 DEF DeliveryInv, ClaimInv, Job
<1>2. IsFiniteSet(1..attempts[r])
  BY FS_Interval DEF DeliveryInv, TypeOK, RowTypeOK
<1>3. OpenClaims(r, p) \in SUBSET (1..attempts[r])
  BY <1>1
<1> QED
  BY <1>1, <1>2, <1>3, FS_Subset, FS_CardinalityType

\* A step that sends nothing, counts no attempt and opens no claim.
LEMMA CopiesFrame ==
  ASSUME SendInv, copies' = copies, attempts' = attempts,
         \A a \in Actor, p \in Part : MaySend(a, p)' =>
           MaySend(a, p) /\ job'[a].row = job[a].row /\ job'[a].tok = job[a].tok
  PROVE  CopiesInv'
<1>1. ASSUME NEW r \in Row, NEW p \in Part
      PROVE  copies[r][p] + Cardinality(OpenClaims(r, p)') <= attempts[r]
  <2>1. OpenClaims(r, p)' \in SUBSET OpenClaims(r, p)
    BY DEF OpenClaims
  <2>2. IsFiniteSet(OpenClaims(r, p)) /\ Cardinality(OpenClaims(r, p)) \in Nat
    BY OpenFinite DEF SendInv
  <2>3. /\ IsFiniteSet(OpenClaims(r, p)')
        /\ Cardinality(OpenClaims(r, p)') <= Cardinality(OpenClaims(r, p))
    BY <2>1, <2>2, FS_Subset
  <2>4. Cardinality(OpenClaims(r, p)') \in Nat
    BY <2>3, FS_CardinalityType
  <2>5. copies[r][p] \in Nat /\ attempts[r] \in Nat
        /\ copies[r][p] + Cardinality(OpenClaims(r, p)) <= attempts[r]
    BY DEF SendInv, CopiesInv, DeliveryInv, TypeOK, RowTypeOK
  <2> QED
    BY <2>2, <2>3, <2>4, <2>5
<1> QED
  BY <1>1 DEF CopiesInv

\* A new claim is a new attempt, which may send each part once.
LEMMA CopiesClaim ==
  ASSUME SendInv, NEW a \in Actor, NEW r \in Row, Claim(a, r), copies' = copies
  PROVE  CopiesInv'
<1>t. /\ pc \in [Actor -> PC] /\ job \in [Actor -> Job] /\ attempts \in [Row -> Nat]
      /\ copies \in [Row -> [Part -> Nat]]
  BY DEF SendInv, DeliveryInv, TypeOK, RowTypeOK, ActorTypeOK
<1>1. /\ attempts' = [attempts EXCEPT ![r] = attempts[r] + 1]
      /\ job'[a].row = r /\ job'[a].tok = attempts[r] + 1
      /\ \A b \in Actor : b # a => job'[b] = job[b] /\ pc'[b] = pc[b]
  BY <1>t DEF Claim
<1>2. ASSUME NEW q \in Row, NEW p \in Part
      PROVE  copies[q][p] + Cardinality(OpenClaims(q, p)') <= attempts'[q]
  <2> DEFINE new == attempts[r] + 1
  <2>1. /\ IsFiniteSet(OpenClaims(q, p)) /\ Cardinality(OpenClaims(q, p)) \in Nat
    BY OpenFinite DEF SendInv
  <2>2. copies[q][p] \in Nat /\ attempts[q] \in Nat
        /\ copies[q][p] + Cardinality(OpenClaims(q, p)) <= attempts[q]
    BY <1>t DEF SendInv, CopiesInv
  <2>3. CASE q # r
    <3>1. OpenClaims(q, p)' \in SUBSET OpenClaims(q, p)
      BY <1>1, <2>3 DEF OpenClaims, MaySend
    <3>2. /\ IsFiniteSet(OpenClaims(q, p)')
          /\ Cardinality(OpenClaims(q, p)') <= Cardinality(OpenClaims(q, p))
      BY <2>1, <3>1, FS_Subset
    <3>3. Cardinality(OpenClaims(q, p)') \in Nat /\ attempts'[q] = attempts[q]
      BY <1>1, <1>t, <2>3, <3>2, FS_CardinalityType
    <3> QED
      BY <2>1, <2>2, <3>2, <3>3
  <2>4. CASE q = r
    <3>1. OpenClaims(q, p)' \in SUBSET (OpenClaims(q, p) \cup {new})
      BY <1>1, <2>4 DEF OpenClaims, MaySend
    <3>2. /\ IsFiniteSet(OpenClaims(q, p) \cup {new})
          /\ Cardinality(OpenClaims(q, p) \cup {new}) \in Nat
          /\ Cardinality(OpenClaims(q, p) \cup {new}) <= Cardinality(OpenClaims(q, p)) + 1
      BY <2>1, FS_AddElement
    <3>3. /\ IsFiniteSet(OpenClaims(q, p)')
          /\ Cardinality(OpenClaims(q, p)') <= Cardinality(OpenClaims(q, p) \cup {new})
      BY <3>1, <3>2, FS_Subset
    <3>4. Cardinality(OpenClaims(q, p)') \in Nat /\ attempts'[q] = attempts[q] + 1
      BY <1>1, <1>t, <2>4, <3>3, FS_CardinalityType
    <3> QED
      BY <2>1, <2>2, <3>2, <3>3, <3>4
  <2> QED
    BY <2>3, <2>4
<1> QED
  BY <1>2 DEF CopiesInv, Claim

\* A claim that sends a part may not send it again.
LEMMA CopiesSend ==
  ASSUME SendInv, NEW a \in Actor, NEW s \in {"record", "fail"}, pc[a] = "sending",
         pc' = [pc EXCEPT ![a] = s], Receive(job[a].row, job[a].part),
         UNCHANGED <<job, attempts>>
  PROVE  CopiesInv'
<1>t. /\ pc \in [Actor -> PC] /\ job \in [Actor -> Job] /\ attempts \in [Row -> Nat]
      /\ copies \in [Row -> [Part -> Nat]]
  BY DEF SendInv, DeliveryInv, TypeOK, RowTypeOK, ActorTypeOK
<1>1. PICK r \in Row, x \in Part : r = job[a].row /\ x = job[a].part
  BY DEF SendInv, DeliveryInv, ClaimInv, ProgressInv, Busy
<1>n. x \in Nat
  BY DeliveryAssumption DEF Part
<1>2. ASSUME NEW b \in Actor, NEW p \in Part, MaySend(b, p)'
      PROVE  MaySend(b, p) /\ (b = a => p # x)
  BY <1>1, <1>2, <1>n, <1>t DEF MaySend, Part
<1>3. ASSUME NEW q \in Row, NEW p \in Part
      PROVE  copies'[q][p] + Cardinality(OpenClaims(q, p)') <= attempts[q]
  <2>1. /\ IsFiniteSet(OpenClaims(q, p)) /\ Cardinality(OpenClaims(q, p)) \in Nat
    BY OpenFinite DEF SendInv
  <2>2. copies[q][p] \in Nat /\ attempts[q] \in Nat
        /\ copies[q][p] + Cardinality(OpenClaims(q, p)) <= attempts[q]
    BY <1>t DEF SendInv, CopiesInv
  <2>3. CASE q = r /\ p = x
    <3> DEFINE t == job[a].tok
    <3>1. t \in OpenClaims(q, p)
      BY <1>1, <1>n, <2>3 DEF OpenClaims, MaySend
    <3>2. \A b \in Actor : b # a /\ MaySend(b, p) /\ job[b].row = q => job[b].tok # t
      BY <1>1, <2>3 DEF SendInv, DeliveryInv, ClaimInv, MaySend, Busy
    <3>3. OpenClaims(q, p)' \in SUBSET (OpenClaims(q, p) \ {t})
      BY <1>2, <2>3, <3>2 DEF OpenClaims
    <3>4. /\ IsFiniteSet(OpenClaims(q, p) \ {t})
          /\ Cardinality(OpenClaims(q, p) \ {t}) = Cardinality(OpenClaims(q, p)) - 1
      BY <2>1, <3>1, FS_RemoveElement
    <3>5. /\ IsFiniteSet(OpenClaims(q, p)')
          /\ Cardinality(OpenClaims(q, p)') <= Cardinality(OpenClaims(q, p) \ {t})
      BY <3>3, <3>4, FS_Subset
    <3>6. Cardinality(OpenClaims(q, p)') \in Nat /\ copies'[q][p] = copies[q][p] + 1
      BY <1>1, <1>t, <2>3, <3>5, FS_CardinalityType DEF Receive
    <3> QED
      BY <2>1, <2>2, <3>4, <3>5, <3>6
  <2>4. CASE ~(q = r /\ p = x)
    <3>1. OpenClaims(q, p)' \in SUBSET OpenClaims(q, p)
      BY <1>2 DEF OpenClaims
    <3>2. /\ IsFiniteSet(OpenClaims(q, p)')
          /\ Cardinality(OpenClaims(q, p)') <= Cardinality(OpenClaims(q, p))
      BY <2>1, <3>1, FS_Subset
    <3>3. Cardinality(OpenClaims(q, p)') \in Nat /\ copies'[q][p] = copies[q][p]
      BY <1>1, <1>t, <2>4, <3>2, FS_CardinalityType DEF Receive
    <3> QED
      BY <2>1, <2>2, <3>2, <3>3
  <2> QED
    BY <2>3, <2>4
<1> QED
  BY <1>3 DEF CopiesInv

\* Attempts pay for the copies of every part.
LEMMA CopiesStep ==
  ASSUME SendInv, [Next]_vars
  PROVE  CopiesInv'
<1> USE DEF rowVars, claimVars, tickVars
<1>a. /\ \A w \in Worker : w \in Actor
      /\ \A h \in Handler : h \in Actor /\ h \in Row
  BY DEF Actor, Row
<1>t. /\ pc \in [Actor -> PC] /\ job \in [Actor -> Job] /\ ActorTypeOK
      /\ sent \in [Row -> Nat] /\ todo \in [Worker -> SUBSET Row]
      /\ \A a \in Actor : Busy(a) => job[a].row \in Row
  BY DEF SendInv, DeliveryInv, ClaimInv, TypeOK, RowTypeOK, ActorTypeOK, TickTypeOK
<1>n. \A p \in Part : p \in Nat
  BY DeliveryAssumption DEF Part
<1> DEFINE Same(b) == \A p \in Part : MaySend(b, p)' =>
                        MaySend(b, p) /\ job'[b].row = job[b].row /\ job'[b].tok = job[b].tok
<1>k. ASSUME UNCHANGED <<copies, attempts>>, \A b \in Actor : Same(b)  PROVE CopiesInv'
  BY <1>k, CopiesFrame
\* An actor lets go of its claim or changes its statement to one that sends nothing.
<1>q. ASSUME NEW a \in Actor, UNCHANGED <<copies, attempts>>,
             pc'[a] \notin {"load", "sending", "record"},
             \A b \in Actor \ {a} : pc'[b] = pc[b] /\ job'[b] = job[b]
      PROVE  CopiesInv'
  <2>1. \A b \in Actor : Same(b)
    BY <1>q DEF MaySend
  <2> QED
    BY <1>k, <1>q, <2>1
<1>1. ASSUME NEW w \in Worker,
             StartTick(w) \/ RecoverMissing(w) \/ RecoverStale(w) \/ ListDue(w) \/ EndPhase(w)
      PROVE  CopiesInv'
  BY <1>1, <1>a, <1>q, <1>t DEF StartTick, RecoverMissing, Insert, RecoverStale, ListDue, EndPhase
<1>2. ASSUME NEW w \in Worker, ClaimNext(w)  PROVE CopiesInv'
  <2>1. PICK r \in Row : Claim(w, r) \/ UNCHANGED <<rowVars, job, pc>>
    BY <1>2, <1>t DEF ClaimNext
  <2>2. CASE Claim(w, r)
    BY <1>2, <1>a, <2>2, CopiesClaim DEF ClaimNext
  <2>3. CASE UNCHANGED <<rowVars, job, pc>>
    BY <1>2, <1>k, <2>3 DEF ClaimNext, MaySend
  <2> QED
    BY <2>1, <2>2, <2>3
<1>3. ASSUME NEW h \in Handler, CreateManual(h)  PROVE CopiesInv'
  BY <1>3, <1>a, <1>q, <1>t DEF CreateManual, Insert
<1>4. ASSUME NEW a \in Actor, Release(a), UNCHANGED <<copies, attempts>>  PROVE CopiesInv'
  <2>1. pc'[a] \notin {"load", "sending", "record"}
        /\ \A b \in Actor \ {a} : pc'[b] = pc[b] /\ job'[b] = job[b]
    BY <1>4, <1>t DEF Release
  <2> QED
    BY <1>4, <1>q, <2>1
<1>5. ASSUME NEW h \in Handler, ClaimManual(h)  PROVE CopiesInv'
  <2>1. CASE Claim(h, h)
    BY <1>5, <1>a, <2>1, CopiesClaim DEF ClaimManual
  <2>2. CASE Release(h) /\ UNCHANGED rowVars
    BY <1>4, <1>5, <1>a, <2>2 DEF ClaimManual
  <2> QED
    BY <1>5, <2>1, <2>2 DEF ClaimManual
<1>6. ASSUME NEW a \in Actor, Load(a)  PROVE CopiesInv'
  <2>1. /\ pc[a] = "load" /\ UNCHANGED <<copies, attempts>>
        /\ \A b \in Actor \ {a} : pc'[b] = pc[b] /\ job'[b] = job[b]
    BY <1>6, <1>t DEF Load
  <2>2. job'[a].row = job[a].row /\ job'[a].tok = job[a].tok
    <3>1. CASE job' = [job EXCEPT ![a].until = NoTime]
      BY <1>t, <3>1, JobUntil
    <3>2. CASE job' = [job EXCEPT ![a].part = FirstPart(job[a].row), ![a].until = clock + SendTimeout]
      BY <1>t, <3>2, JobPartUntil
    <3> QED
      BY <1>6, <3>1, <3>2 DEF Load
  <2>3. \A b \in Actor : Same(b)
    BY <2>1, <2>2 DEF MaySend
  <2> QED
    BY <1>k, <2>1, <2>3
<1>7. ASSUME NEW a \in Actor, SendOk(a)  PROVE CopiesInv'
  BY <1>7, CopiesSend DEF SendOk
<1>8. ASSUME NEW a \in Actor, SendFails(a)  PROVE CopiesInv'
  <2>1. CASE copies' = copies
    BY <1>8, <1>q, <1>t, <2>1 DEF SendFails
  <2>2. CASE Receive(job[a].row, job[a].part)
    BY <1>8, <2>2, CopiesSend DEF SendFails
  <2> QED
    BY <1>8, <2>1, <2>2 DEF SendFails
<1>9. ASSUME NEW a \in Actor, RecordSummary(a)  PROVE CopiesInv'
  <2>1. CASE Release(a)
    BY <1>4, <1>9, <2>1 DEF RecordSummary
  <2>2. CASE /\ job' = [job EXCEPT ![a].part = job[a].part + 1]
             /\ \E s \in {"sending", "fail"} : pc' = [pc EXCEPT ![a] = s]
    <3>1. /\ pc[a] = "record" /\ pc'[a] \in {"sending", "fail"} /\ UNCHANGED <<copies, attempts>>
          /\ job'[a].part = job[a].part + 1 /\ job'[a].row = job[a].row /\ job'[a].tok = job[a].tok
          /\ \A b \in Actor \ {a} : pc'[b] = pc[b] /\ job'[b] = job[b]
      BY <1>9, <1>t, <2>2 DEF RecordSummary, Job
    <3>2. job[a].part \in Nat
      BY <1>t DEF Job
    <3>3. Same(a)
      BY <1>n, <3>1, <3>2 DEF MaySend
    <3>4. \A b \in Actor \ {a} : Same(b)
      BY <3>1 DEF MaySend
    <3> QED
      BY <1>k, <3>1, <3>3, <3>4
  <2> QED
    BY <1>9, <2>1, <2>2 DEF RecordSummary
<1>10. ASSUME NEW a \in Actor, RecordDocument(a)  PROVE CopiesInv'
  <2>1. CASE Release(a)
    BY <1>4, <1>10, <2>1 DEF RecordDocument
  <2>2. CASE job' = job /\ \E s \in {"complete", "fail"} : pc' = [pc EXCEPT ![a] = s]
    BY <1>10, <1>q, <1>t, <2>2 DEF RecordDocument
  <2> QED
    BY <1>10, <2>1, <2>2 DEF RecordDocument
<1>11. ASSUME NEW a \in Actor, BlockFails(a)  PROVE CopiesInv'
  BY <1>11, <1>q, <1>t DEF BlockFails
<1>12. ASSUME NEW a \in Actor, Complete(a) \/ Fail(a) \/ Fault(a)  PROVE CopiesInv'
  BY <1>4, <1>12 DEF Complete, Fail, Fault
<1>13. ASSUME NEW a \in Actor, Restart(a)  PROVE CopiesInv'
  <2>1. pc'[a] \notin {"load", "sending", "record"} /\ UNCHANGED <<copies, attempts>>
        /\ \A b \in Actor \ {a} : pc'[b] = pc[b] /\ job'[b] = job[b]
    BY <1>13, <1>t DEF Restart
  <2> QED
    BY <1>q, <2>1
<1>14. ASSUME UNCHANGED <<copies, attempts, pc, job>>  PROVE CopiesInv'
  BY <1>14, <1>k DEF MaySend
<1>15. ASSUME NEW r \in AutoRow, Publish(r)  PROVE CopiesInv'
  BY <1>14, <1>15 DEF Publish
<1>16. CASE Tick \/ UNCHANGED vars
  BY <1>14, <1>16 DEF Tick, vars
<1> QED
  BY <1>1, <1>2, <1>3, <1>5, <1>6, <1>7, <1>8, <1>9, <1>10, <1>11, <1>12, <1>13, <1>15, <1>16
     DEF Next, Step, TickStep, ManualStep, DeliverStep, Horizon

-----------------------------------------------------------------------------
(* What the chat sees *)

\* Before the first claim nothing has been sent.
LEMMA SendInit == Init => SendInv
<1> SUFFICES ASSUME Init  PROVE SendInv
  OBVIOUS
<1>a. \A a \in Actor : pc[a] \in {"idle", "start"}
  BY DEF Init
<1>w. \A w \in Worker : w \in Actor /\ pc[w] = "idle"
  BY DEF Init, Actor
<1>1. CopiesInv
  <2>1. \A r \in Row, p \in Part : OpenClaims(r, p) = {}
    BY <1>a DEF OpenClaims, MaySend
  <2>2. \A r \in Row, p \in Part :
          Cardinality(OpenClaims(r, p)) = 0 /\ copies[r][p] = 0 /\ attempts[r] = 0
    BY <2>1, FS_EmptySet DEF Init
  <2> QED
    BY <2>2 DEF CopiesInv
<1>2. TimeInv
  BY <1>a, <1>w DEF Init, TimeInv
<1>3. DocumentInv
  BY <1>w DEF DocumentInv
<1> QED
  BY <1>1, <1>2, <1>3, DeliveryInit DEF SendInv

\* In every reachable state each claim that may still send a part is an attempt that
\* has not sent it, and each send block runs before its deadline.
THEOREM SendInvariant == Spec => []SendInv
<1>1. SendInv /\ [Next]_vars => SendInv'
  BY TypeStep, ClaimStep, ProgressStep, ExistsStep, CopiesStep, TimeStep, DocumentStep
     DEF SendInv, DeliveryInv
<1> QED
  BY <1>1, SendInit, PTL DEF Spec

\* The chat holds no more copies of a part than the row has had attempts, however
\* many schedulers, /report runs, late answers and restarts there are.
THEOREM CopiesBounded == Spec => []CopiesBoundedByAttempts
<1>1. SendInv => CopiesBoundedByAttempts
  <2> SUFFICES ASSUME SendInv, NEW r \in Row, NEW p \in Part  PROVE copies[r][p] <= attempts[r]
    BY DEF CopiesBoundedByAttempts
  <2>1. Cardinality(OpenClaims(r, p)) \in Nat
    BY OpenFinite DEF SendInv
  <2>2. copies[r][p] \in Nat /\ attempts[r] \in Nat
        /\ copies[r][p] + Cardinality(OpenClaims(r, p)) <= attempts[r]
    BY DEF SendInv, CopiesInv, DeliveryInv, TypeOK, RowTypeOK
  <2> QED
    BY <2>1, <2>2
<1> QED
  BY <1>1, SendInvariant, PTL

\* A sender loses its claim only when its send block may outlast the claim.
THEOREM SenderLosesOnlyLateClaims == Spec => SendsUnderOwnClaim
<1>1. SendInv /\ [Next]_vars =>
        [\A a \in Actor : (pc[a] = "sending" /\ pc'[a] = "sending" /\ Fenced(a) /\ ~Fenced(a)') =>
           job[a].until >= claimedAt[job[a].row] + ClaimTTL]_vars
  BY FenceLost
<1> QED
  BY <1>1, SendInvariant, PTL DEF Spec, SendsUnderOwnClaim

\* Under a current claim no summary message is sent whose record is committed.
THEOREM SummaryNotResent == Spec => RecordedSummaryNotResent
<1>1. ASSUME DeliveryInv, NEW a \in Actor, Sends(a)  PROVE job[a].part > sent[job[a].row]
  <2>1. job[a].row \in Row /\ job[a].part = sent[job[a].row] + 1
    BY <1>1 DEF Sends, DeliveryInv, ClaimInv, ProgressInv, Busy
  <2>2. sent[job[a].row] \in Nat
    BY <1>1, <2>1 DEF DeliveryInv, TypeOK, RowTypeOK
  <2> QED
    BY <2>1, <2>2
<1>2. DeliveryInv /\ [Next]_vars =>
        [\A a \in Actor : Sends(a) /\ job[a].part < Document => job[a].part > sent[job[a].row]]_vars
  BY <1>1
<1> QED
  BY <1>2, DeliveryInvariant, PTL DEF Spec, RecordedSummaryNotResent

\* Under a current claim the scheduler sends no document whose record is committed.
THEOREM DocumentNotResent == Spec => ScheduledDocumentNotResent
<1>1. SendInv /\ [Next]_vars =>
        [\A w \in Worker : Sends(w) /\ job[w].part = Document => ~doc[job[w].row]]_vars
  BY DEF SendInv, DocumentInv, Sends
<1> QED
  BY <1>1, SendInvariant, PTL DEF Spec, ScheduledDocumentNotResent
=============================================================================
