------------------------ MODULE IdleReminders_proofs -------------------------
(***************************************************************************)
(* Proofs about IdleReminders, for every set of cycles, every number of    *)
(* schedulers, every length of a series and every setting of the times     *)
(* that Settings accepts.                                                  *)
(***************************************************************************)
EXTENDS IdleReminders, TLAPS

-----------------------------------------------------------------------------
(* Types *)

\* A scheduler that leaves its cycle is well typed.
LEMMA LeaveType ==
  ASSUME TypeOK, NEW w \in Worker, Leave(w)
  PROVE  pc' \in [Worker -> PC] /\ job' \in [Worker -> Job]
BY DEF TypeOK, Leave, Go, PC, Job, NoJob, NoTime

\* A scheduler that goes on to another statement is well typed.
LEMMA GoType ==
  ASSUME TypeOK, NEW w \in Worker, NEW p \in PC, Go(w, p)
  PROVE  pc' \in [Worker -> PC]
BY DEF TypeOK, Go

\* The deadline of a send is a time.
LEMMA DeadlineType ==
  ASSUME TypeOK, NEW w \in Worker
  PROVE  /\ Deadline(w) \in Int
         /\ Deadline(w) < now[w] + ClaimTTL
<1>1. /\ now[w] \in Nat /\ SendTimeout \in Nat /\ ClaimTTL \in Nat /\ SendTimeout < ClaimTTL
  BY ReminderAssumption DEF TypeOK
<1> QED
  BY <1>1 DEF Deadline

\* The end of a claim leaves the columns of the series well typed.
LEMMA ClearType ==
  ASSUME CycleTypeOK, NEW c \in Cycle,
         token' = [token EXCEPT ![c] = 0], claimedAt' = [claimedAt EXCEPT ![c] = NoTime]
  PROVE  token' \in [Cycle -> Nat] /\ claimedAt' \in [Cycle -> Int]
BY DEF CycleTypeOK, NoTime

\* Every column and every local variable stays in its type.
LEMMA TypeStep ==
  ASSUME ReminderInv, [Next]_vars
  PROVE  TypeOK'
<1> USE DEF ReminderInv, TypeOK, seriesVars, cycleVars, tickVars
<1>c. \A w \in Worker : pc[w] \in {"expire", "claim"} \/ Busy(w) => job[w].cycle \in Cycle
  BY DEF HolderInv, HolderOK
<1>1. ASSUME NEW c \in Cycle, Activity(c)  PROVE TypeOK'
  <2>1. status' \in [Cycle -> Status] /\ activity' \in [Cycle -> Int] /\ chat' \in [Cycle -> Nat]
    BY <1>1 DEF Activity, CycleTypeOK, Status
  <2>2. /\ count' \in [Cycle -> Nat] /\ lastReminder' \in [Cycle -> Int]
        /\ token' \in [Cycle -> Nat] /\ claimedAt' \in [Cycle -> Int]
    BY <1>1 DEF Activity, ResetSeries, CycleTypeOK, NoTime
  <2> QED
    BY <1>1, <2>1, <2>2 DEF Activity, CycleTypeOK
<1>2. ASSUME NEW w \in Worker, StartTick(w)  PROVE TypeOK'
  BY <1>2, GoType DEF StartTick, CycleTypeOK, PC
<1>3. ASSUME NEW w \in Worker, ListCollecting(w)  PROVE TypeOK'
  BY <1>3, GoType DEF ListCollecting, CycleTypeOK, PC
<1>4. ASSUME NEW w \in Worker, EndTick(w)  PROVE TypeOK'
  <2>1. now' \in [Worker -> Nat]
    BY <1>4, ReminderAssumption DEF EndTick
  <2> QED
    BY <1>4, <2>1, GoType DEF EndTick, CycleTypeOK, PC
<1>5. ASSUME NEW w \in Worker, Peek(w)  PROVE TypeOK'
  <2>1. PICK c \in todo[w], to \in {"next", "claim", "expire"} :
          /\ todo' = [todo EXCEPT ![w] = @ \ {c}]
          /\ Go(w, to)
          /\ job' = [job EXCEPT ![w] = IF to = "next" THEN NoJob ELSE [NoJob EXCEPT !.cycle = c]]
    BY <1>5 DEF Peek
  <2>2. c \in Cycle
    OBVIOUS
  <2>3. NoJob \in Job /\ [NoJob EXCEPT !.cycle = c] \in Job
    BY <2>2 DEF NoJob, Job, NoTime
  <2>4. job' \in [Worker -> Job]
    BY <2>1, <2>3
  <2>5. pc' \in [Worker -> PC]
    BY <2>1, GoType DEF PC
  <2> QED
    BY <1>5, <2>1, <2>4, <2>5 DEF Peek, CycleTypeOK
<1>6. ASSUME NEW w \in Worker, Expire(w)  PROVE TypeOK'
  <2>1. job[w].cycle \in Cycle
    BY <1>6, <1>c DEF Expire
  <2>2. status' \in [Cycle -> Status]
    BY <1>6, <2>1 DEF Expire, CycleTypeOK, Status
  <2>3. token' \in [Cycle -> Nat] /\ claimedAt' \in [Cycle -> Int]
    BY <1>6, <2>1, ClearType DEF Expire, CycleTypeOK
  <2>4. pc' \in [Worker -> PC] /\ job' \in [Worker -> Job]
    BY <1>6, LeaveType DEF Expire
  <2> QED
    BY <1>6, <2>2, <2>3, <2>4 DEF Expire, CycleTypeOK
<1>7. ASSUME NEW w \in Worker, Claim(w)  PROVE TypeOK'
  <2>1. job[w].cycle \in Cycle
    BY <1>7, <1>c DEF Claim
  <2>2. claims' \in Nat /\ token' \in [Cycle -> Nat] /\ claimedAt' \in [Cycle -> Int]
    <3>1. claims \in Nat /\ claims + 1 \in Nat /\ clock \in Int
      BY DEF CycleTypeOK
    <3>2. /\ token \in [Cycle -> Nat] /\ claimedAt \in [Cycle -> Int]
          /\ [token EXCEPT ![job[w].cycle] = claims + 1] \in [Cycle -> Nat]
          /\ [claimedAt EXCEPT ![job[w].cycle] = clock] \in [Cycle -> Int]
      BY <2>1, <3>1 DEF CycleTypeOK
    <3> QED
      BY <1>7, <3>1, <3>2 DEF Claim
  <2>3. pc' \in [Worker -> PC]
    BY <1>7, LeaveType, GoType DEF Claim, PC
  <2>4. job' \in [Worker -> Job]
    <3>1. [cycle |-> job[w].cycle, tok |-> claims + 1, count |-> count[job[w].cycle],
           at |-> clock, until |-> NoTime] \in Job
      BY <2>1 DEF CycleTypeOK, Job, NoTime
    <3> QED
      BY <1>7, <3>1, LeaveType DEF Claim
  <2> QED
    BY <1>7, <2>2, <2>3, <2>4 DEF Claim, CycleTypeOK
<1>8. ASSUME NEW w \in Worker, Recheck(w)  PROVE TypeOK'
  <2>1. pc' \in [Worker -> PC]
    BY <1>8, LeaveType, GoType DEF Recheck, PC
  <2>2. job' \in [Worker -> Job]
    <3>1. [job EXCEPT ![w].until = Deadline(w)] \in [Worker -> Job]
      BY DeadlineType, ZenonT(30) DEF Job
    <3> QED
      BY <1>8, <3>1, LeaveType DEF Recheck
  <2> QED
    BY <1>8, <2>1, <2>2 DEF Recheck, CycleTypeOK
<1>9. ASSUME NEW w \in Worker, SendOk(w) \/ SendFails(w)  PROVE TypeOK'
  <2>1. job[w].cycle \in Cycle
    BY <1>9, <1>c DEF SendOk, SendFails, Busy
  <2>2. chat' \in [Cycle -> Nat]
    <3>1. chat \in [Cycle -> Nat] /\ [chat EXCEPT ![job[w].cycle] = @ + 1] \in [Cycle -> Nat]
      BY <2>1 DEF CycleTypeOK
    <3> QED
      BY <1>9, <3>1 DEF SendOk, SendFails, Receive
  <2>3. pc' \in [Worker -> PC]
    BY <1>9, GoType DEF SendOk, SendFails, PC
  <2> QED
    BY <1>9, <2>2, <2>3 DEF SendOk, SendFails, CycleTypeOK
<1>10. ASSUME NEW w \in Worker, Record(w)  PROVE TypeOK'
  <2>1. job[w].cycle \in Cycle
    BY <1>10, <1>c DEF Record, Busy
  <2>2. count' \in [Cycle -> Nat] /\ lastReminder' \in [Cycle -> Int]
    <3>1. /\ count \in [Cycle -> Nat] /\ lastReminder \in [Cycle -> Int]
          /\ [count EXCEPT ![job[w].cycle] = @ + 1] \in [Cycle -> Nat]
          /\ [lastReminder EXCEPT ![job[w].cycle] = clock] \in [Cycle -> Int]
      BY <2>1 DEF CycleTypeOK
    <3> QED
      BY <1>10, <3>1 DEF Record
  <2>3. token' \in [Cycle -> Nat] /\ claimedAt' \in [Cycle -> Int]
    BY <1>10, <2>1, ClearType DEF Record, CycleTypeOK
  <2>4. backoff' \in [Worker -> [Cycle -> Nat]]
    <3>1. [backoff EXCEPT ![w][job[w].cycle] = 0] \in [Worker -> [Cycle -> Nat]]
      BY <2>1
    <3> QED
      BY <1>10, <3>1 DEF Record
  <2>5. pc' \in [Worker -> PC] /\ job' \in [Worker -> Job]
    BY <1>10, LeaveType DEF Record
  <2> QED
    BY <1>10, <2>2, <2>3, <2>4, <2>5 DEF Record, CycleTypeOK
<1>11. ASSUME NEW w \in Worker, Release(w)  PROVE TypeOK'
  <2>1. job[w].cycle \in Cycle
    BY <1>11, <1>c DEF Release, Busy
  <2>2. token' \in [Cycle -> Nat] /\ claimedAt' \in [Cycle -> Int]
    BY <1>11, <2>1, ClearType DEF Release, CycleTypeOK
  <2>3. backoff' \in [Worker -> [Cycle -> Nat]]
    BY <1>11, <2>1, ReminderAssumption DEF Release
  <2>5. pc' \in [Worker -> PC] /\ job' \in [Worker -> Job]
    BY <1>11, LeaveType DEF Release
  <2> QED
    BY <1>11, <2>2, <2>3, <2>5 DEF Release, CycleTypeOK
<1>12. ASSUME NEW w \in Worker, Restart(w)  PROVE TypeOK'
  <2>1. pc' \in [Worker -> PC]
    BY <1>12, GoType DEF Restart, PC
  <2>2. job' \in [Worker -> Job]
    BY <1>12 DEF Restart, NoJob, Job, NoTime
  <2>3. now' \in [Worker -> Nat] /\ todo' \in [Worker -> SUBSET Cycle]
    BY <1>12 DEF Restart
  <2>4. backoff' \in [Worker -> [Cycle -> Nat]]
    BY <1>12 DEF Restart
  <2> QED
    BY <1>12, <2>1, <2>2, <2>3, <2>4 DEF Restart, CycleTypeOK
<1>13. ASSUME NEW w \in Worker, Fault(w)  PROVE TypeOK'
  BY <1>13, LeaveType DEF Fault, CycleTypeOK
<1>14. CASE Tick \/ UNCHANGED vars
  BY <1>14 DEF Tick, vars, CycleTypeOK
<1> QED
  BY <1>1, <1>2, <1>3, <1>4, <1>5, <1>6, <1>7, <1>8, <1>9, <1>10, <1>11, <1>12, <1>13, <1>14
     DEF Next, Step, WorkerStep, Horizon

-----------------------------------------------------------------------------
(* The series of a cycle *)

\* A pause that is over stays over.
LEMMA PauseGoesOn ==
  ASSUME TypeOK, NEW c \in Cycle, NEW s \in Int, NEW t \in Int, s <= t, Pause(c, s)
  PROVE  Pause(c, t)
<1>1. /\ activity[c] \in Int /\ lastReminder[c] \in Int /\ count[c] \in Nat
      /\ Idle \in Int /\ Interval \in Int /\ Grace \in Int /\ MaxReminders \in Int
  BY ReminderAssumption DEF TypeOK, CycleTypeOK
<1> QED
  BY <1>1 DEF Pause

\* One more reminder makes the series longer by one pause.
LEMMA SeriesGrows ==
  ASSUME TypeOK, SeriesInv, NEW c \in Cycle, count[c] < MaxReminders, Pause(c, clock)
  PROVE  clock - activity[c] >= Idle + count[c] * Interval
<1>1. /\ activity[c] \in Int /\ lastReminder[c] \in Int /\ count[c] \in Nat /\ clock \in Int
      /\ Idle \in Int /\ Interval \in Int /\ MaxReminders \in Int
  BY ReminderAssumption DEF TypeOK, CycleTypeOK
<1>2. CASE count[c] = 0
  BY <1>1, <1>2 DEF Pause
<1>3. CASE count[c] > 0
  <2>1. /\ clock - lastReminder[c] >= Interval
        /\ lastReminder[c] - activity[c] >= Idle + (count[c] - 1) * Interval
    BY <1>1, <1>3 DEF Pause, SeriesInv
  <2>2. (count[c] - 1) * Interval + Interval = count[c] * Interval
    BY <1>1
  <2>3. (count[c] - 1) * Interval \in Int /\ count[c] * Interval \in Int
    BY <1>1
  <2> QED
    BY <1>1, <2>1, <2>2, <2>3
<1> QED
  BY <1>1, <1>2, <1>3

\* The scheduler of a statement in the middle of a claim works on a cycle.
LEMMA JobOfBusy ==
  ASSUME TypeOK, HolderInv, NEW w \in Worker, pc[w] \in {"expire", "claim"} \/ Busy(w)
  PROVE  job[w].cycle \in Cycle
BY DEF HolderInv, HolderOK

\* The steps that change only what schedulers remember.
Memory(w) ==
  StartTick(w) \/ ListCollecting(w) \/ EndTick(w) \/ Peek(w) \/ Recheck(w)
    \/ Restart(w) \/ Fault(w)

\* Reminders are counted one by one, each after a pause.
LEMMA SeriesStep ==
  ASSUME ReminderInv, [Next]_vars
  PROVE  SeriesInv'
<1> USE DEF ReminderInv
<1>a. ASSUME NEW c \in Cycle
      PROVE  /\ activity[c] \in Int /\ lastReminder[c] \in Int /\ count[c] \in Nat
             /\ token[c] \in Nat /\ claims \in Nat /\ chat[c] \in Nat /\ clock \in Nat
             /\ MaxReminders \in Nat /\ Idle \in Nat /\ Interval \in Nat
  BY ReminderAssumption DEF TypeOK, CycleTypeOK
<1>b. DOMAIN count = Cycle /\ DOMAIN chat = Cycle /\ DOMAIN token = Cycle
      /\ DOMAIN activity = Cycle /\ DOMAIN lastReminder = Cycle
  BY DEF TypeOK, CycleTypeOK
<1>1. ASSUME NEW c \in Cycle, Activity(c)  PROVE SeriesInv'
  BY <1>a, <1>b, <1>1 DEF Activity, ResetSeries, SeriesInv
<1>2. ASSUME NEW w \in Worker, Memory(w)  PROVE SeriesInv'
  <2>1. UNCHANGED <<clock, activity, claims, chat, count, lastReminder, token, claimedAt>>
    BY <1>2 DEF Memory, StartTick, ListCollecting, EndTick, Peek, Recheck, Restart, Fault,
                cycleVars, seriesVars
  <2> QED
    BY <2>1 DEF SeriesInv
<1>3. ASSUME NEW w \in Worker, Expire(w) \/ Release(w)  PROVE SeriesInv'
  <2>1. job[w].cycle \in Cycle
    BY <1>3, JobOfBusy DEF Expire, Release, Busy
  <2>2. UNCHANGED <<clock, activity, claims, chat, count, lastReminder>>
    BY <1>3 DEF Expire, Release
  <2>3. token' = token \/ token' = [token EXCEPT ![job[w].cycle] = 0]
    BY <1>3 DEF Expire, Release
  <2> QED
    BY <1>a, <1>b, <2>1, <2>2, <2>3 DEF SeriesInv
<1>4. ASSUME NEW w \in Worker, Claim(w)  PROVE SeriesInv'
  <2>1. job[w].cycle \in Cycle
    BY <1>4, JobOfBusy DEF Claim, Busy
  <2>2. UNCHANGED <<clock, activity, chat, count, lastReminder>>
    BY <1>4 DEF Claim
  <2>3. \/ token' = token /\ claims' = claims
        \/ token' = [token EXCEPT ![job[w].cycle] = claims + 1] /\ claims' = claims + 1
    BY <1>4 DEF Claim
  <2> QED
    BY <1>a, <1>b, <2>1, <2>2, <2>3 DEF SeriesInv
<1>5. ASSUME NEW w \in Worker, SendOk(w) \/ SendFails(w)  PROVE SeriesInv'
  <2>1. job[w].cycle \in Cycle
    BY <1>5, JobOfBusy DEF SendOk, SendFails, Busy
  <2>2. UNCHANGED <<clock, activity, claims, count, lastReminder, token>>
    BY <1>5 DEF SendOk, SendFails, seriesVars
  <2>3. chat' = chat \/ chat' = [chat EXCEPT ![job[w].cycle] = @ + 1]
    BY <1>5 DEF SendOk, SendFails, Receive
  <2> QED
    BY <1>a, <1>b, <2>1, <2>2, <2>3 DEF SeriesInv
<1>6. ASSUME NEW w \in Worker, Record(w)  PROVE SeriesInv'
  <2>1. job[w].cycle \in Cycle /\ Busy(w)
    BY <1>6, JobOfBusy DEF Record, Busy
  <2>2. UNCHANGED <<clock, activity, claims, chat>>
    BY <1>6 DEF Record
  <2>3. CASE UNCHANGED <<token, count, lastReminder>>
    BY <2>2, <2>3 DEF SeriesInv
  <2>4. CASE /\ Own(w)
             /\ count' = [count EXCEPT ![job[w].cycle] = @ + 1]
             /\ lastReminder' = [lastReminder EXCEPT ![job[w].cycle] = clock]
             /\ token' = [token EXCEPT ![job[w].cycle] = 0]
    <3> DEFINE c == job[w].cycle
    <3>1. count[c] < MaxReminders /\ Pause(c, clock) /\ chat[c] > count[c]
      BY <1>6, <2>1, <2>4 DEF OwnerInv, OwnerOK, Record
    <3>2. clock - activity[c] >= Idle + count[c] * Interval
      BY <2>1, <3>1, SeriesGrows
    <3>3. (count[c] + 1) - 1 = count[c] /\ NoTime # clock
      BY <1>a, <2>1 DEF NoTime
    <3>4. ASSUME NEW d \in Cycle, d # c
          PROVE  count'[d] = count[d] /\ lastReminder'[d] = lastReminder[d] /\ token'[d] = token[d]
      BY <2>4, <3>4, <1>b
    <3>5. count'[c] = count[c] + 1 /\ lastReminder'[c] = clock /\ token'[c] = 0
      BY <2>1, <2>4, <1>b
    <3>6. ASSUME NEW d \in Cycle
          PROVE  /\ token'[d] <= claims /\ activity[d] <= clock
                 /\ count'[d] <= chat[d] /\ count'[d] <= MaxReminders
                 /\ count'[d] > 0 =>
                      /\ lastReminder'[d] # NoTime
                      /\ lastReminder'[d] - activity[d] >= Idle + (count'[d] - 1) * Interval
      <4>1. CASE d = c
        <5> HIDE DEF c
        <5>0. c \in Cycle
          BY <2>1 DEF c
        <5>1. activity[c] <= clock
          BY <5>0 DEF SeriesInv
        <5> QED
          BY <1>a, <3>1, <3>2, <3>3, <3>5, <4>1, <5>0, <5>1
      <4>2. CASE d # c
        BY <3>4, <4>2 DEF SeriesInv
      <4> QED
        BY <4>1, <4>2
    <3> QED
      BY <2>2, <3>6 DEF SeriesInv
  <2> QED
    BY <1>6, <2>3, <2>4 DEF Record, seriesVars
<1>7. CASE Tick \/ UNCHANGED vars
  <2>1. UNCHANGED <<activity, claims, chat, count, lastReminder, token>>
    BY <1>7 DEF Tick, vars, cycleVars, seriesVars
  <2>2. clock' = clock \/ clock' = clock + 1
    BY <1>7 DEF Tick, vars
  <2> QED
    BY <1>a, <2>1, <2>2 DEF SeriesInv
<1> QED
  BY <1>1, <1>2, <1>3, <1>4, <1>5, <1>6, <1>7 DEF Next, Step, WorkerStep, Horizon, Memory

-----------------------------------------------------------------------------
(* Who holds a claim *)

\* Only the scheduler that moves can come to share a claim.
LEMMA HolderFrame ==
  ASSUME TypeOK, HolderInv, NEW w \in Worker,
         claims' \in Nat, clock' \in Nat, claims <= claims', clock <= clock',
         \A v \in Worker : v # w => pc'[v] = pc[v] /\ job'[v] = job[v] /\ now'[v] = now[v],
         HolderOK(w)',
         Busy(w)' => \A v \in Worker : v # w /\ Busy(v) => job[v].tok # job'[w].tok
  PROVE  HolderInv'
<1>1. ASSUME NEW v \in Worker, v # w  PROVE HolderOK(v)'
  <2>1. HolderOK(v) /\ pc'[v] = pc[v] /\ job'[v] = job[v] /\ now'[v] = now[v]
    BY <1>1 DEF HolderInv
  <2>2. /\ now[v] \in Nat /\ clock \in Nat /\ claims \in Nat
        /\ job[v].tok \in Nat /\ job[v].at \in Int
    BY DEF TypeOK, CycleTypeOK, Job
  <2> QED
    BY <2>1, <2>2 DEF HolderOK, Busy
<1>2. ASSUME NEW u \in Worker, NEW v \in Worker, u # v, Busy(u)', Busy(v)'
      PROVE  job'[u].tok # job'[v].tok
  BY <1>2 DEF HolderInv, Busy
<1> QED
  BY <1>1, <1>2 DEF HolderInv

\* Every claim is held by one scheduler at most.
LEMMA HolderStep ==
  ASSUME ReminderInv, [Next]_vars
  PROVE  HolderInv'
<1> USE DEF ReminderInv
<1>a. clock \in Nat /\ claims \in Nat /\ Poll \in Nat
  BY ReminderAssumption DEF TypeOK, CycleTypeOK
<1>b. DOMAIN pc = Worker /\ DOMAIN job = Worker /\ DOMAIN now = Worker
  BY DEF TypeOK
<1>c. ASSUME NEW w \in Worker
      PROVE  HolderOK(w) /\ now[w] \in Nat /\ job[w] \in Job
  BY DEF HolderInv, TypeOK
<1>1. ASSUME NEW c \in Cycle, Activity(c)  PROVE HolderInv'
  <2>1. UNCHANGED <<clock, claims, pc, job, now>>
    BY <1>1 DEF Activity, tickVars
  <2> QED
    BY <2>1 DEF HolderInv, HolderOK, Busy
<1>2. ASSUME NEW w \in Worker, StartTick(w)  PROVE HolderInv'
  <2>1. /\ UNCHANGED <<clock, claims, job>> /\ pc' = [pc EXCEPT ![w] = "list"]
        /\ now' = [now EXCEPT ![w] = clock]
    BY <1>2 DEF StartTick, Go, cycleVars
  <2>2. ~Busy(w)' /\ HolderOK(w)'
    BY <1>a, <1>b, <2>1 DEF Busy, HolderOK
  <2> QED
    BY <1>a, <1>b, <2>1, <2>2, HolderFrame
<1>3. ASSUME NEW w \in Worker, ListCollecting(w)  PROVE HolderInv'
  <2>1. UNCHANGED <<clock, claims, job, now>> /\ pc[w] = "list" /\ pc' = [pc EXCEPT ![w] = "next"]
    BY <1>3 DEF ListCollecting, Go, cycleVars
  <2>2. ~Busy(w)' /\ HolderOK(w)'
    BY <1>b, <1>c, <2>1 DEF Busy, HolderOK
  <2> QED
    BY <1>a, <1>b, <2>1, <2>2, HolderFrame
<1>4. ASSUME NEW w \in Worker, EndTick(w) \/ Restart(w)  PROVE HolderInv'
  <2>1. /\ UNCHANGED <<clock, claims>> /\ pc' = [pc EXCEPT ![w] = "idle"]
        /\ \A v \in Worker : v # w => job'[v] = job[v] /\ now'[v] = now[v]
    BY <1>4, <1>b DEF EndTick, Restart, Go, cycleVars
  <2>2. ~Busy(w)' /\ HolderOK(w)'
    BY <1>b, <2>1 DEF Busy, HolderOK
  <2> QED
    BY <1>a, <1>b, <2>1, <2>2, HolderFrame
<1>5. ASSUME NEW w \in Worker, Peek(w)  PROVE HolderInv'
  <2>1. PICK c \in todo[w], to \in {"next", "claim", "expire"} :
          /\ Go(w, to)
          /\ job' = [job EXCEPT ![w] = IF to = "next" THEN NoJob ELSE [NoJob EXCEPT !.cycle = c]]
    BY <1>5 DEF Peek
  <2>2. UNCHANGED <<clock, claims, now>> /\ pc[w] = "next" /\ pc' = [pc EXCEPT ![w] = to]
    BY <1>5, <2>1 DEF Peek, cycleVars, Go
  <2>3. ~Busy(w)' /\ (to # "next" => job'[w].cycle = c) /\ c \in Cycle
    BY <1>b, <2>1, <2>2 DEF Busy, NoJob, TypeOK
  <2>4. HolderOK(w)'
    BY <1>b, <1>c, <2>2, <2>3 DEF Busy, HolderOK
  <2> QED
    BY <1>a, <1>b, <2>1, <2>2, <2>3, <2>4, HolderFrame
<1>6. ASSUME NEW w \in Worker, pc[w] # "idle", Leave(w), UNCHANGED <<clock, claims, now>>
      PROVE  HolderInv'
  <2>1. pc' = [pc EXCEPT ![w] = "next"] /\ job' = [job EXCEPT ![w] = NoJob]
    BY <1>6 DEF Leave, Go
  <2>2. ~Busy(w)' /\ HolderOK(w)'
    BY <1>6, <1>b, <1>c, <2>1 DEF Busy, HolderOK
  <2> QED
    BY <1>6, <1>a, <1>b, <2>1, <2>2, HolderFrame
<1>7. ASSUME NEW w \in Worker, Claim(w), ~Leave(w)  PROVE HolderInv'
  <2> DEFINE c == job[w].cycle
  <2>1. /\ pc[w] = "claim" /\ claims' = claims + 1 /\ UNCHANGED <<clock, now>>
        /\ pc' = [pc EXCEPT ![w] = "recheck"]
        /\ job' = [job EXCEPT ![w] = [cycle |-> c, tok |-> claims + 1, count |-> count[c],
                                      at |-> clock, until |-> NoTime]]
    BY <1>7 DEF Claim, Go, tickVars
  <2>2. c \in Cycle
    BY <2>1, JobOfBusy
  <2>3. HolderOK(w)' /\ job'[w].tok = claims + 1
    BY <1>a, <1>b, <1>c, <2>1, <2>2 DEF Busy, HolderOK
  <2>4. ASSUME NEW v \in Worker, Busy(v)  PROVE job[v].tok # claims + 1
    BY <1>a, <1>c, <2>4 DEF HolderOK, Job
  <2> HIDE DEF c
  <2> QED
    BY <1>a, <1>b, <2>1, <2>3, <2>4, HolderFrame
<1>8. ASSUME NEW w \in Worker, pc[w] \in {"recheck", "send"}, UNCHANGED <<clock, claims, now>>,
             NEW p \in {"send", "record", "release"}, pc' = [pc EXCEPT ![w] = p],
             NEW u, job' = job \/ job' = [job EXCEPT ![w].until = u]
      PROVE  HolderInv'
  <2>1. /\ job'[w].tok = job[w].tok /\ job'[w].at = job[w].at /\ job'[w].cycle = job[w].cycle
        /\ \A v \in Worker : v # w => job'[v] = job[v]
    BY <1>8, <1>b, <1>c DEF Job
  <2>2. Busy(w) /\ HolderOK(w)'
    BY <1>8, <1>b, <1>c, <2>1 DEF Busy, HolderOK
  <2> QED
    BY <1>8, <1>a, <1>b, <2>1, <2>2, HolderFrame DEF HolderInv
<1>9. CASE Tick \/ UNCHANGED vars
  <2>1. UNCHANGED <<claims, pc, job, now>> /\ (clock' = clock \/ clock' = clock + 1)
    BY <1>9 DEF Tick, vars, cycleVars, tickVars
  <2>2. ASSUME NEW w \in Worker  PROVE HolderOK(w)'
    BY <1>a, <1>c, <2>1 DEF HolderOK, Busy, Job
  <2> QED
    BY <2>1, <2>2 DEF HolderInv, Busy
<1>10. ASSUME NEW w \in Worker,
              Expire(w) \/ Claim(w) \/ Recheck(w) \/ Record(w) \/ Release(w) \/ Fault(w)
       PROVE  HolderInv'
  <2>1. CASE Leave(w)
    <3>1. pc[w] # "idle" /\ UNCHANGED <<clock, now>>
      BY <1>10 DEF Expire, Claim, Recheck, Record, Release, Fault, tickVars
    <3>2. claims' = claims
      <4>1. pc'[w] = "next"
        BY <1>b, <2>1 DEF Leave, Go
      <4> QED
        BY <1>10, <1>b, <4>1 DEF Expire, Claim, Recheck, Record, Release, Fault, cycleVars, Go
    <3> QED
      BY <1>6, <2>1, <3>1, <3>2
  <2>2. CASE ~Leave(w) /\ Claim(w)
    BY <1>7, <2>2
  <2>3. CASE ~Leave(w) /\ Recheck(w)
    <3>1. /\ pc[w] = "recheck" /\ UNCHANGED <<clock, claims, now>>
          /\ job' = [job EXCEPT ![w].until = Deadline(w)]
          /\ \E p \in {"send", "record", "release"} : pc' = [pc EXCEPT ![w] = p]
      BY <2>3 DEF Recheck, Go, cycleVars, tickVars
    <3> QED
      BY <1>8, <3>1
  <2> QED
    BY <1>10, <2>1, <2>2, <2>3 DEF Expire, Record, Release, Fault
<1>11. ASSUME NEW w \in Worker, SendOk(w) \/ SendFails(w)  PROVE HolderInv'
  <2>1. /\ pc[w] = "send" /\ UNCHANGED <<clock, claims, now, job>>
        /\ \E p \in {"send", "record", "release"} : pc' = [pc EXCEPT ![w] = p]
    BY <1>11 DEF SendOk, SendFails, Go, tickVars
  <2> QED
    BY <1>8, <2>1
<1> QED
  BY <1>1, <1>2, <1>3, <1>4, <1>5, <1>9, <1>10, <1>11 DEF Next, Step, WorkerStep, Horizon

-----------------------------------------------------------------------------
(* What a claim protects *)

\* The claim of a scheduler that sends is active for everybody else: whoever else is
\* in a tick reads a time no later than the deadline.
LEMMA ClaimHeld ==
  ASSUME TypeOK, HolderInv, OwnerInv, NEW v \in Worker, pc[v] = "send", Own(v),
         NEW t \in Int, t <= clock
  PROVE  ClaimIsActive(job[v].cycle, t)
<1> DEFINE c == job[v].cycle
<1>1. /\ token[c] = job[v].tok /\ 0 < job[v].tok /\ claimedAt[c] = job[v].at
      /\ now[v] <= job[v].at /\ clock <= Deadline(v)
  BY DEF HolderInv, HolderOK, OwnerInv, OwnerOK, Busy, Own
<1>2. Deadline(v) \in Int /\ Deadline(v) < now[v] + ClaimTTL
  BY DeadlineType
<1>3. /\ now[v] \in Nat /\ clock \in Nat /\ job[v].at \in Int /\ job[v].tok \in Nat
      /\ ClaimTTL \in Nat
  BY ReminderAssumption DEF TypeOK, Job
<1>4. job[v].at # NoTime
  BY <1>1, <1>3 DEF NoTime
<1>5. t - job[v].at < ClaimTTL
  BY <1>1, <1>2, <1>3
<1> QED
  BY <1>1, <1>3, <1>4, <1>5 DEF ClaimIsActive

\* A step leaves the claim of a scheduler alone when it leaves alone the row of the
\* cycle, or when the scheduler does not hold the cycle afterwards.
LEMMA OwnerFrame ==
  ASSUME TypeOK, TypeOK', OwnerInv, NEW v \in Worker,
         pc'[v] = pc[v], job'[v] = job[v], now'[v] = now[v], clock' = clock,
         Busy(v) =>
           \/ /\ token'[job[v].cycle] = token[job[v].cycle]
              /\ claimedAt'[job[v].cycle] = claimedAt[job[v].cycle]
              /\ count'[job[v].cycle] = count[job[v].cycle]
              /\ lastReminder'[job[v].cycle] = lastReminder[job[v].cycle]
              /\ activity'[job[v].cycle] = activity[job[v].cycle]
              /\ chat'[job[v].cycle] >= chat[job[v].cycle]
              /\ job[v].cycle \in Cycle
           \/ /\ token'[job[v].cycle] # job[v].tok
              /\ pc[v] = "send" => \/ activity'[job[v].cycle] >= job[v].at
                                   \/ ~Own(v) /\ activity' = activity
  PROVE  OwnerOK(v)'
<1>1. OwnerOK(v) /\ job[v] \in Job
  BY DEF OwnerInv, TypeOK
<1> DEFINE c == job[v].cycle
<1>2. Deadline(v)' = Deadline(v)
  BY DEF Deadline
<1>3. CASE ~Busy(v)
  BY <1>3 DEF OwnerOK, Busy
<1>4. CASE /\ token'[c] = token[c] /\ claimedAt'[c] = claimedAt[c]
           /\ count'[c] = count[c] /\ lastReminder'[c] = lastReminder[c]
           /\ activity'[c] = activity[c] /\ chat'[c] >= chat[c] /\ c \in Cycle
  <2>1. Own(v)' = Own(v) /\ Pause(c, clock)' = Pause(c, clock)
    BY <1>4 DEF Own, Pause
  <2>2. chat[c] \in Nat /\ chat'[c] \in Nat /\ count[c] \in Nat
    BY <1>4 DEF TypeOK, CycleTypeOK
  <2> QED
    BY <1>1, <1>2, <1>4, <2>1, <2>2 DEF OwnerOK, Busy
<1>5. CASE /\ token'[c] # job[v].tok
           /\ pc[v] = "send" => \/ activity'[c] >= job[v].at
                                \/ ~Own(v) /\ activity' = activity
  <2>1. ~Own(v)'
    BY <1>5 DEF Own
  <2> QED
    BY <1>1, <1>2, <1>5, <2>1 DEF OwnerOK, Busy
<1> QED
  BY <1>3, <1>4, <1>5

\* A scheduler that changes the row of a cycle ends no claim but its own, and a claim
\* that somebody is sending for is ended by an upload only.
LEMMA OwnerStep ==
  ASSUME ReminderInv, TypeOK', [Next]_vars
  PROVE  OwnerInv'
<1> USE DEF ReminderInv
<1>a. ASSUME NEW c \in Cycle
      PROVE  /\ activity[c] \in Int /\ lastReminder[c] \in Int /\ count[c] \in Nat
             /\ token[c] \in Nat /\ claims \in Nat /\ chat[c] \in Nat /\ clock \in Nat
  BY DEF TypeOK, CycleTypeOK
<1>b. DOMAIN pc = Worker /\ DOMAIN job = Worker /\ DOMAIN count = Cycle /\ DOMAIN chat = Cycle
      /\ DOMAIN token = Cycle /\ DOMAIN claimedAt = Cycle /\ DOMAIN activity = Cycle
      /\ DOMAIN lastReminder = Cycle /\ DOMAIN now = Worker
  BY DEF TypeOK, CycleTypeOK
<1>c. ASSUME NEW v \in Worker, Busy(v)
      PROVE  /\ job[v].cycle \in Cycle /\ job[v].tok \in Nat /\ job[v].at \in Int
             /\ 0 < job[v].tok /\ job[v].tok <= claims /\ job[v].at <= clock
  BY <1>c DEF HolderInv, HolderOK, TypeOK, Job
<1>d. ASSUME NEW v \in Worker, ~Busy(v)'  PROVE OwnerOK(v)'
  BY <1>d DEF OwnerOK, Busy
<1>1. ASSUME NEW c \in Cycle, Activity(c), NEW v \in Worker  PROVE OwnerOK(v)'
  <2>1. UNCHANGED <<clock, pc, job, now>>
    BY <1>1 DEF Activity, tickVars
  <2>2. /\ token' = [token EXCEPT ![c] = 0] /\ claimedAt' = [claimedAt EXCEPT ![c] = NoTime]
        /\ count' = [count EXCEPT ![c] = 0] /\ lastReminder' = [lastReminder EXCEPT ![c] = NoTime]
        /\ activity' = [activity EXCEPT ![c] = clock] /\ chat' = [chat EXCEPT ![c] = 0]
    BY <1>1 DEF Activity, ResetSeries
  <2>3. ASSUME Busy(v), job[v].cycle = c
        PROVE  token'[c] # job[v].tok /\ activity'[c] >= job[v].at
    BY <1>b, <1>c, <2>2, <2>3
  <2>4. ASSUME NEW d \in Cycle, d # c
        PROVE  /\ token'[d] = token[d] /\ claimedAt'[d] = claimedAt[d] /\ count'[d] = count[d]
               /\ lastReminder'[d] = lastReminder[d] /\ activity'[d] = activity[d]
               /\ chat'[d] >= chat[d]
    BY <1>a, <1>b, <2>2, <2>4
  <2> QED
    BY <1>c, <2>1, <2>3, <2>4, OwnerFrame
<1>2. ASSUME NEW w \in Worker, Memory(w), NEW v \in Worker  PROVE OwnerOK(v)'
  <2>1. UNCHANGED <<clock, status, activity, chat, count, lastReminder, token, claimedAt>>
    BY <1>2 DEF Memory, StartTick, ListCollecting, EndTick, Peek, Recheck, Restart, Fault,
                cycleVars, seriesVars
  <2>2. CASE v # w
    <3>1. pc'[v] = pc[v] /\ job'[v] = job[v] /\ now'[v] = now[v]
      BY <1>2, <1>b, <2>2 DEF Memory, StartTick, ListCollecting, EndTick, Peek, Recheck,
                              Restart, Fault, Leave, Go, tickVars
    <3>2. \A c \in Cycle : chat[c] >= chat[c]
      BY <1>a
    <3> QED
      BY <1>c, <2>1, <3>1, <3>2, OwnerFrame
  <2>3. CASE v = w /\ ~Recheck(w)
    <3>1. pc'[w] \in {"idle", "list", "next", "claim", "expire"}
      BY <1>2, <1>b, <2>3 DEF Memory, StartTick, ListCollecting, EndTick, Peek, Restart, Fault,
                              Leave, Go
    <3> QED
      BY <1>d, <2>3, <3>1 DEF Busy
  <2>4. CASE v = w /\ Recheck(w) /\ Leave(w)
    <3>1. pc'[w] = "next"
      BY <1>b, <2>4 DEF Leave, Go
    <3> QED
      BY <1>d, <2>4, <3>1 DEF Busy
  <2>5. CASE v = w /\ Recheck(w) /\ ~Leave(w)
    <3> DEFINE c == job[w].cycle
    <3>1. /\ pc[w] = "recheck" /\ Own(w) /\ now' = now
          /\ job' = [job EXCEPT ![w].until = Deadline(w)]
          /\ \/ pc'[w] = "release"
             \/ pc'[w] = "send" /\ clock < Deadline(w)
      BY <2>5, <1>b DEF Recheck, Go, Own, tickVars
    <3>2. /\ job'[w].cycle = c /\ job'[w].tok = job[w].tok /\ job'[w].at = job[w].at
          /\ job'[w].until = Deadline(w)
      BY <1>b, <3>1 DEF TypeOK, Job
    <3>3. Busy(w) /\ OwnerOK(w) /\ c \in Cycle
      BY <1>c, <3>1 DEF Busy, OwnerInv
    <3>4. Deadline(w)' = Deadline(w) /\ Deadline(w) \in Int /\ clock \in Int
      BY <3>1, DeadlineType DEF Deadline, TypeOK
    <3>5. claimedAt[c] = job[w].at /\ count[c] < MaxReminders /\ Pause(c, clock)
      BY <3>1, <3>3 DEF OwnerOK
    <3>6. Own(w)' /\ Pause(c, clock)'
      BY <2>1, <3>1, <3>2, <3>5 DEF Own, Pause
    <3> QED
      BY <2>1, <2>5, <3>1, <3>2, <3>4, <3>5, <3>6 DEF OwnerOK
  <2> QED
    BY <2>2, <2>3, <2>4, <2>5
<1>3. ASSUME NEW w \in Worker, Expire(w) \/ Release(w) \/ Record(w), NEW v \in Worker
      PROVE  OwnerOK(v)'
  <2> DEFINE c == job[w].cycle
  <2>1. pc' = [pc EXCEPT ![w] = "next"] /\ job' = [job EXCEPT ![w] = NoJob]
    BY <1>3 DEF Expire, Release, Record, Leave, Go
  <2>2. UNCHANGED <<clock, activity, chat, now>>
    BY <1>3 DEF Expire, Release, Record, tickVars
  <2>3. CASE v = w
    BY <1>b, <1>d, <2>1, <2>3 DEF Busy
  <2>4. CASE v # w /\ UNCHANGED <<token, claimedAt, count, lastReminder>>
    <3>1. \A d \in Cycle : chat[d] >= chat[d]
      BY <1>a
    <3> QED
      BY <1>b, <1>c, <2>1, <2>2, <2>4, <3>1, OwnerFrame
  <2>5. CASE v # w /\ ~UNCHANGED <<token, claimedAt, count, lastReminder>>
    <3>1. c \in Cycle
      BY <1>3, JobOfBusy DEF Expire, Release, Record, Busy
    <3>2. /\ token' = [token EXCEPT ![c] = 0]
          /\ claimedAt' = [claimedAt EXCEPT ![c] = NoTime]
          /\ count' = count \/ count' = [count EXCEPT ![c] = @ + 1]
          /\ lastReminder' = lastReminder \/ lastReminder' = [lastReminder EXCEPT ![c] = clock]
      BY <1>3, <2>5 DEF Expire, Release, Record, seriesVars
    <3>3. ASSUME pc[v] = "send", job[v].cycle = c  PROVE ~Own(v)
      <4>1. CASE Expire(w)
        <5>1. pc[w] # "idle" /\ ~ClaimIsActive(c, now[w])
          BY <1>b, <2>5, <4>1 DEF Expire
        <5>2. now[w] \in Int /\ now[w] <= clock
          BY <5>1 DEF HolderInv, HolderOK, TypeOK
        <5> QED
          BY <3>3, <5>1, <5>2, ClaimHeld
      <4>2. CASE Release(w) \/ Record(w)
        <5>1. Busy(w) /\ Own(w)
          BY <2>5, <4>2 DEF Release, Record, Busy, seriesVars
        <5>2. job[v].tok # job[w].tok
          BY <2>5, <3>3, <5>1 DEF HolderInv, Busy
        <5> QED
          BY <3>3, <5>1, <5>2 DEF Own
      <4> QED
        BY <1>3, <4>1, <4>2
    <3>4. ASSUME Busy(v), job[v].cycle = c  PROVE token'[c] # job[v].tok
      BY <1>b, <1>c, <3>1, <3>2, <3>4
    <3>5. ASSUME NEW d \in Cycle, d # c
          PROVE  /\ token'[d] = token[d] /\ claimedAt'[d] = claimedAt[d] /\ count'[d] = count[d]
                 /\ lastReminder'[d] = lastReminder[d] /\ chat[d] >= chat[d]
      BY <1>a, <1>b, <3>1, <3>2, <3>5
    <3>6. pc'[v] = pc[v] /\ job'[v] = job[v]
      BY <1>b, <2>1, <2>5
    <3> QED
      BY <1>c, <2>2, <3>3, <3>4, <3>5, <3>6, OwnerFrame
  <2> QED
    BY <2>3, <2>4, <2>5
<1>4. ASSUME NEW w \in Worker, Claim(w), NEW v \in Worker  PROVE OwnerOK(v)'
  <2> DEFINE c == job[w].cycle
  <2>0. c \in Cycle
    BY <1>4, JobOfBusy DEF Claim, Busy
  <2>1. UNCHANGED <<clock, activity, count, lastReminder, chat, now>>
    BY <1>4 DEF Claim, tickVars
  <2>2. \A d \in Cycle : chat[d] >= chat[d]
    BY <1>a
  <2>3. CASE Leave(w) /\ UNCHANGED <<token, claimedAt>>
    <3>1. pc' = [pc EXCEPT ![w] = "next"] /\ job' = [job EXCEPT ![w] = NoJob]
      BY <2>3 DEF Leave, Go
    <3>2. CASE v = w
      BY <1>b, <1>d, <3>1, <3>2 DEF Busy
    <3>3. CASE v # w
      BY <1>b, <1>c, <2>1, <2>2, <2>3, <3>1, <3>3, OwnerFrame
    <3> QED
      BY <3>2, <3>3
  <2>4. CASE ~(Leave(w) /\ UNCHANGED <<token, claimedAt>>)
    <3>1. /\ pc[w] = "claim" /\ ~ClaimIsActive(c, now[w]) /\ Remind(c, now[w])
          /\ token' = [token EXCEPT ![c] = claims + 1]
          /\ claimedAt' = [claimedAt EXCEPT ![c] = clock]
          /\ job' = [job EXCEPT ![w] = [cycle |-> c, tok |-> claims + 1, count |-> count[c],
                                        at |-> clock, until |-> NoTime]]
          /\ pc' = [pc EXCEPT ![w] = "recheck"]
      BY <1>4, <2>4 DEF Claim, Go
    <3>2. now[w] \in Int /\ now[w] <= clock /\ clock \in Int
      BY <3>1 DEF HolderInv, HolderOK, TypeOK
    <3>3. CASE v = w
      <4>1. /\ pc'[w] = "recheck" /\ job'[w].cycle = c /\ job'[w].at = clock
            /\ claimedAt'[c] = clock
        BY <1>b, <2>0, <3>1
      <4>2. count[c] < MaxReminders /\ Pause(c, clock)
        BY <2>0, <3>1, <3>2, PauseGoesOn DEF Remind
      <4>3. Pause(c, clock)'
        BY <2>1, <4>1, <4>2 DEF Pause
      <4> QED
        BY <2>1, <3>3, <4>1, <4>2, <4>3 DEF OwnerOK
    <3>4. CASE v # w
      <4>1. pc'[v] = pc[v] /\ job'[v] = job[v]
        BY <1>b, <3>1, <3>4
      <4>2. ASSUME pc[v] = "send", job[v].cycle = c  PROVE ~Own(v)
        BY <3>1, <3>2, <4>2, ClaimHeld
      <4>3. ASSUME Busy(v), job[v].cycle = c  PROVE token'[c] # job[v].tok
        BY <1>a, <1>b, <1>c, <2>0, <3>1, <4>3
      <4>4. ASSUME NEW d \in Cycle, d # c
            PROVE  token'[d] = token[d] /\ claimedAt'[d] = claimedAt[d]
        BY <1>b, <3>1, <4>4
      <4> QED
        BY <1>c, <2>1, <2>2, <4>1, <4>2, <4>3, <4>4, OwnerFrame
    <3> QED
      BY <3>3, <3>4
  <2> QED
    BY <2>3, <2>4
<1>5. ASSUME NEW w \in Worker, SendOk(w) \/ SendFails(w), NEW v \in Worker  PROVE OwnerOK(v)'
  <2> DEFINE c == job[w].cycle
  <2>1. pc[w] = "send" /\ Busy(w) /\ c \in Cycle
    BY <1>5, JobOfBusy DEF SendOk, SendFails, Busy
  <2>2. UNCHANGED <<clock, activity, count, lastReminder, token, claimedAt, job, now>>
    BY <1>5 DEF SendOk, SendFails, seriesVars, tickVars
  <2>3. /\ chat' = chat \/ chat' = [chat EXCEPT ![c] = @ + 1]
        /\ \A d \in Cycle : chat'[d] >= chat[d]
    <3>1. chat' = chat \/ chat' = [chat EXCEPT ![c] = @ + 1]
      BY <1>5 DEF SendOk, SendFails, Receive
    <3> QED
      BY <1>a, <1>b, <2>1, <3>1
  <2>4. CASE v # w
    <3>1. pc'[v] = pc[v]
      BY <1>5, <1>b, <2>4 DEF SendOk, SendFails, Go
    <3> QED
      BY <1>c, <2>2, <2>3, <3>1, OwnerFrame
  <2>5. CASE v = w
    <3>1. Own(w)' = Own(w) /\ Pause(c, clock)' = Pause(c, clock) /\ OwnerOK(w)
      BY <2>2 DEF Own, Pause, OwnerInv
    <3>2. CASE SendOk(w)
      <4>1. pc'[w] = "record" /\ chat'[c] = chat[c] + 1
        BY <1>b, <2>1, <3>2 DEF SendOk, Go, Receive
      <4>2. count[c] <= chat[c]
        BY <2>1 DEF SeriesInv
      <4> QED
        BY <1>a, <2>1, <2>2, <2>5, <3>1, <4>1, <4>2 DEF OwnerOK
    <3>3. CASE SendFails(w)
      <4>1. pc'[w] = "release"
        BY <1>b, <3>3 DEF SendFails, Go
      <4> QED
        BY <2>1, <2>2, <2>5, <3>1, <4>1 DEF OwnerOK
    <3> QED
      BY <1>5, <3>2, <3>3
  <2> QED
    BY <2>4, <2>5
<1>6. ASSUME Tick, NEW v \in Worker  PROVE OwnerOK(v)'
  <2>1. /\ UNCHANGED <<activity, chat, count, lastReminder, token, claimedAt, pc, job, now>>
        /\ clock' = clock + 1 /\ (pc[v] = "send" => clock < job[v].until)
    BY <1>6 DEF Tick, cycleVars, seriesVars, tickVars
  <2>2. Own(v)' = Own(v) /\ Deadline(v)' = Deadline(v) /\ OwnerOK(v) /\ job[v] \in Job
    BY <2>1 DEF Own, Deadline, OwnerInv, TypeOK
  <2>3. ASSUME Busy(v), Own(v)  PROVE Pause(job[v].cycle, clock)'
    <3> DEFINE c == job[v].cycle
    <3>1. c \in Cycle /\ clock \in Int /\ clock + 1 \in Int /\ clock <= clock + 1
      BY <1>c, <2>3 DEF TypeOK
    <3>2. Pause(c, clock)
      BY <2>2, <2>3 DEF OwnerOK
    <3>3. Pause(c, clock + 1)
      BY <3>1, <3>2, PauseGoesOn
    <3> QED
      BY <2>1, <3>3 DEF Pause
  <2>4. job[v].until \in Int /\ clock \in Int
    BY <2>2 DEF Job, TypeOK
  <2> QED
    BY <2>1, <2>2, <2>3, <2>4 DEF OwnerOK, Busy
<1>7. ASSUME UNCHANGED vars, NEW v \in Worker  PROVE OwnerOK(v)'
  <2>1. UNCHANGED <<clock, activity, chat, count, lastReminder, token, claimedAt, pc, job, now>>
    BY <1>7 DEF vars, cycleVars, seriesVars, tickVars
  <2>2. \A c \in Cycle : chat[c] >= chat[c]
    BY <1>a
  <2> QED
    BY <1>c, <2>1, <2>2, OwnerFrame
<1> QED
  BY <1>1, <1>2, <1>3, <1>4, <1>5, <1>6, <1>7
     DEF Next, Step, WorkerStep, Horizon, Memory, OwnerInv

-----------------------------------------------------------------------------
(* Theorems *)

\* The invariant holds at the start.
LEMMA ReminderInit ==
  ASSUME Init
  PROVE  ReminderInv
<1>1. TypeOK
  BY DEF Init, TypeOK, CycleTypeOK, Status, PC, Job, NoJob, NoTime
<1>2. SeriesInv
  BY ReminderAssumption DEF Init, SeriesInv, NoTime
<1>3. HolderInv /\ OwnerInv
  BY DEF Init, HolderInv, HolderOK, OwnerInv, OwnerOK, Busy
<1> QED
  BY <1>1, <1>2, <1>3 DEF ReminderInv

\* The series of a cycle is as long as its pauses say, every claim has one holder, and
\* the holder of a current claim may still count its reminder (idle_reminder_service).
THEOREM ReminderInvariant == Spec => []ReminderInv
<1>1. Init => ReminderInv
  BY ReminderInit
<1>2. ReminderInv /\ [Next]_vars => ReminderInv'
  <2> SUFFICES ASSUME ReminderInv, [Next]_vars  PROVE ReminderInv'
    OBVIOUS
  <2>1. TypeOK'
    BY TypeStep
  <2> QED
    BY <2>1, SeriesStep, HolderStep, OwnerStep DEF ReminderInv
<1> QED
  BY <1>1, <1>2, PTL DEF Spec

\* The reminder columns and the memory of the schedulers stay in their types.
THEOREM ReminderTypeCorrect == Spec => []TypeOK
<1>1. ReminderInv => TypeOK
  BY DEF ReminderInv
<1> QED
  BY <1>1, ReminderInvariant, PTL

\* Every reminder that counts has reached the chat (record_successful_reminder).
THEOREM CountedReachedTheChat == Spec => []CountedWasReceived
<1>1. ReminderInv => CountedWasReceived
  BY DEF ReminderInv, SeriesInv, CountedWasReceived
<1> QED
  BY <1>1, ReminderInvariant, PTL

\* No other scheduler can claim or expire a cycle during a send; only an upload ends
\* the claim (_send_with_retry, claim_reminder).
THEOREM ClaimOutlivesSend == Spec => []SenderKeepsClaim
<1>1. ReminderInv => SenderKeepsClaim
  <2> SUFFICES ASSUME ReminderInv, NEW w \in Worker, pc[w] = "send",
                      ~(activity[job[w].cycle] >= job[w].at)
               PROVE  Own(w) /\ ClaimIsActive(job[w].cycle, clock)
    BY DEF SenderKeepsClaim
  <2>1. Own(w)
    BY DEF ReminderInv, OwnerInv, OwnerOK
  <2>2. clock \in Int /\ clock <= clock
    BY DEF ReminderInv, TypeOK
  <2> QED
    BY <2>1, <2>2, ClaimHeld DEF ReminderInv
<1> QED
  BY <1>1, ReminderInvariant, PTL

\* Whoever counts a reminder, the pause before it has passed (decide_idle_action).
LEMMA CountedAfterPause ==
  ASSUME ReminderInv, Next, NEW c \in Cycle, count'[c] > count[c]
  PROVE  count'[c] = count[c] + 1 /\ count[c] < MaxReminders /\ Pause(c, clock)
<1> USE DEF ReminderInv
<1>1. count \in [Cycle -> Nat]
  BY DEF TypeOK, CycleTypeOK
<1>2. ASSUME count' = count  PROVE FALSE
  BY <1>1, <1>2
<1>3. ASSUME NEW d \in Cycle, Activity(d)  PROVE FALSE
  BY <1>1, <1>3 DEF Activity, ResetSeries
<1>4. PICK w \in Worker : Record(w)
  BY <1>2, <1>3 DEF Next, Step, WorkerStep, StartTick, ListCollecting, EndTick, Peek, Expire,
     Claim, Recheck, SendOk, SendFails, Release, Restart, Fault, Tick, Horizon, vars,
     cycleVars, seriesVars
<1>5. /\ Busy(w) /\ Own(w)
      /\ count' = [count EXCEPT ![job[w].cycle] = @ + 1]
  BY <1>2, <1>4 DEF Record, Busy, seriesVars
<1>6. job[w].cycle \in Cycle
  BY <1>5, JobOfBusy
<1>7. job[w].cycle = c
  BY <1>1, <1>5, <1>6
<1> QED
  BY <1>1, <1>5, <1>7 DEF OwnerInv, OwnerOK

\* Reminders are counted no faster than the policy says, whoever sends them, however
\* many schedulers run (idle_policy.decide_idle_action, record_successful_reminder).
THEOREM RemindersKeepTheirDistance == Spec => RemindersSpaced
<1>1. ReminderInv /\ [Next]_vars =>
        [\A c \in Cycle : count'[c] > count[c] =>
           /\ count'[c] = count[c] + 1
           /\ IF count[c] = 0 THEN clock - activity[c] >= Idle
              ELSE clock - lastReminder[c] >= Interval]_vars
  <2> SUFFICES ASSUME ReminderInv, Next, NEW c \in Cycle, count'[c] > count[c]
               PROVE  /\ count'[c] = count[c] + 1
                      /\ IF count[c] = 0 THEN clock - activity[c] >= Idle
                         ELSE clock - lastReminder[c] >= Interval
    OBVIOUS
  <2>1. count'[c] = count[c] + 1 /\ count[c] < MaxReminders /\ Pause(c, clock)
    BY CountedAfterPause
  <2>2. count[c] \in Nat /\ (count[c] > 0 => lastReminder[c] # NoTime)
    BY DEF ReminderInv, SeriesInv, TypeOK, CycleTypeOK
  <2> QED
    BY <2>1, <2>2 DEF Pause
<1> QED
  BY <1>1, ReminderInvariant, PTL DEF Spec, RemindersSpaced

\* A cycle is given up only after all its reminders have reached the chat and every
\* pause of its series and the grace period have passed (expire_cycle_if_due).
THEOREM ExpiryComesAfterWarnings == Spec => ExpiredWasWarned
<1>1. ReminderInv /\ [Next]_vars =>
        [\A c \in Cycle : status'[c] = "expired" /\ status[c] # "expired" =>
           /\ status[c] = "collecting"
           /\ chat[c] >= MaxReminders
           /\ clock - activity[c] >= Idle + (MaxReminders - 1) * Interval + Grace]_vars
  <2> SUFFICES ASSUME ReminderInv, Next, NEW c \in Cycle,
                      status'[c] = "expired", status[c] # "expired"
               PROVE  /\ status[c] = "collecting"
                      /\ chat[c] >= MaxReminders
                      /\ clock - activity[c] >= Idle + (MaxReminders - 1) * Interval + Grace
    OBVIOUS
  <2> USE DEF ReminderInv
  <2>1. status \in [Cycle -> Status]
    BY DEF TypeOK, CycleTypeOK
  <2>2. ASSUME NEW d \in Cycle, Activity(d)  PROVE FALSE
    BY <2>1, <2>2 DEF Activity
  <2>3. PICK w \in Worker : Expire(w)
    BY <2>2 DEF Next, Step, WorkerStep, StartTick, ListCollecting, EndTick, Peek, Record,
       Claim, Recheck, SendOk, SendFails, Release, Restart, Fault, Tick, Horizon, vars,
       cycleVars
  <2>4. job[w].cycle \in Cycle /\ pc[w] = "expire"
    BY <2>3, JobOfBusy DEF Expire
  <2>5. job[w].cycle = c /\ status[c] = "collecting" /\ DueToExpire(c, now[w])
    BY <2>1, <2>3, <2>4 DEF Expire
  <2>6. /\ now[w] \in Nat /\ now[w] <= clock /\ clock \in Nat
    BY <2>4 DEF HolderInv, HolderOK, TypeOK
  <2>7. /\ count[c] \in Nat /\ chat[c] \in Nat /\ activity[c] \in Int /\ lastReminder[c] \in Int
        /\ MaxReminders \in Nat \ {0} /\ Idle \in Int /\ Interval \in Int /\ Grace \in Int
    BY ReminderAssumption DEF TypeOK, CycleTypeOK
  <2>8. count[c] = MaxReminders /\ count[c] <= chat[c]
    BY <2>5, <2>7 DEF SeriesInv, DueToExpire
  <2>9. /\ lastReminder[c] # NoTime
        /\ lastReminder[c] - activity[c] >= Idle + (MaxReminders - 1) * Interval
    BY <2>7, <2>8 DEF SeriesInv
  <2>10. now[w] - lastReminder[c] >= Grace
    BY <2>5, <2>7, <2>8, <2>9 DEF DueToExpire, Pause
  <2>11. (MaxReminders - 1) * Interval \in Int
    BY <2>7
  <2> QED
    BY <2>5, <2>6, <2>7, <2>8, <2>9, <2>10, <2>11
<1> QED
  BY <1>1, ReminderInvariant, PTL DEF Spec, ExpiredWasWarned
=============================================================================
