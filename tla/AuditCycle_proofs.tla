------------------------- MODULE AuditCycle_proofs -------------------------
(***************************************************************************)
(* Proofs about AuditCycle, for every number of sessions, dates,           *)
(* departments, contents and file ids.                                     *)
(***************************************************************************)
EXTENDS AuditCycle, FiniteSetTheorems, TLAPS

-----------------------------------------------------------------------------
(* Requests and their types *)

\* "No file" is no id of source_files.
LEMMA NoFileNotFile == NoFile \notin File
BY CycleAssumption DEF File, NoFile

\* The record of a new request (add, replace or withdraw) is well typed.
LEMMA RequestType ==
  ASSUME NEW op \in Op, NEW d \in Date, NEW p \in Dept, NEW c \in Sha,
         NEW f \in File \cup {NoFile}
  PROVE  [op |-> op, date |-> d, dept |-> p, sha |-> c, target |-> f,
          attempt |-> 1, new |-> NoFile, full |-> FALSE] \in Txn
BY DEF Txn

\* The retry after uq_audit_cycle_report_date changes nothing else of a request.
LEMMA AttemptType ==
  ASSUME NEW t \in Txn
  PROVE  /\ [t EXCEPT !.attempt = 2] \in Txn
         /\ [t EXCEPT !.attempt = 2].op = t.op /\ [t EXCEPT !.attempt = 2].date = t.date
         /\ [t EXCEPT !.attempt = 2].dept = t.dept /\ [t EXCEPT !.attempt = 2].target = t.target
         /\ [t EXCEPT !.attempt = 2].full = t.full
BY DEF Txn

\* The id of the inserted row changes nothing else of a request.
LEMMA NewType ==
  ASSUME NEW t \in Txn, NEW f \in File
  PROVE  /\ [t EXCEPT !.new = f] \in Txn
         /\ [t EXCEPT !.new = f].op = t.op /\ [t EXCEPT !.new = f].date = t.date
         /\ [t EXCEPT !.new = f].dept = t.dept /\ [t EXCEPT !.new = f].target = t.target
         /\ [t EXCEPT !.new = f].new = f /\ [t EXCEPT !.new = f].full = t.full
BY DEF Txn

\* What finalize_if_complete found changes nothing else of a request.
LEMMA FullType ==
  ASSUME NEW t \in Txn, NEW b \in BOOLEAN
  PROVE  /\ [t EXCEPT !.full = b] \in Txn
         /\ [t EXCEPT !.full = b].op = t.op /\ [t EXCEPT !.full = b].date = t.date
         /\ [t EXCEPT !.full = b].dept = t.dept /\ [t EXCEPT !.full = b].target = t.target
         /\ [t EXCEPT !.full = b].new = t.new /\ [t EXCEPT !.full = b].full = b
BY DEF Txn

-----------------------------------------------------------------------------
(* Steps that commit nothing *)

\* No committed row changes: what the invariants read of the rows stays.
LEMMA RowsStill ==
  ASSUME UNCHANGED <<cycle, report, file>>
  PROVE  /\ \A f, d, p : InSlot(f, d, p)' <=> InSlot(f, d, p)
         /\ \A d, p : ActiveIn(d, p)' = ActiveIn(d, p)
         /\ \A d : Present(d)' = Present(d)
         /\ SlotInv' <=> SlotInv
         /\ CompleteIffFull' <=> CompleteIffFull
<1>1. \A f, d, p : InSlot(f, d, p)' <=> InSlot(f, d, p)
  BY DEF InSlot
<1>2. \A d, p : ActiveIn(d, p)' = ActiveIn(d, p)
  BY DEF InSlot, ActiveIn
<1>3. \A d : Present(d)' = Present(d)
  BY <1>2 DEF Present
<1>4. SlotInv' <=> SlotInv
  BY <1>1, <1>2 DEF SlotInv
<1>5. CompleteIffFull' <=> CompleteIffFull
  BY <1>3 DEF CompleteIffFull
<1> QED
  BY <1>1, <1>2, <1>3, <1>4, <1>5

\* One session takes a step; the others keep their statement and their lock.
LEMMA SessionFrame ==
  ASSUME CycleInv, NEW s \in Session, UNCHANGED <<cycle, report, file>>,
         pc' \in [Session -> PC], txn' \in [Session -> Txn \cup {NoTxn}],
         lock' \in [Date -> Session \cup {NoSession}],
         \A q \in Session \ {s} : pc'[q] = pc[q] /\ txn'[q] = txn[q],
         \A d \in Date : lock[d] \in Session \ {s} => lock'[d] = lock[d],
         LockOK(s)', RequestOK(s)', CheckedOK(s)'
  PROVE  CycleInv'
<1>1. TypeOK'
  BY DEF CycleInv, TypeOK
<1>2. SlotInv' /\ CompleteIffFull'
  BY RowsStill DEF CycleInv
<1>3. ASSUME NEW q \in Session \ {s}  PROVE LockOK(q)' /\ RequestOK(q)' /\ CheckedOK(q)'
  <2>1. LockOK(q) /\ RequestOK(q) /\ CheckedOK(q) /\ pc'[q] = pc[q] /\ txn'[q] = txn[q]
    BY DEF CycleInv, SessionInv
  <2>2. LockOK(q)'
    <3>1. CASE Holds(q)
      <4>1. txn[q] \in Txn /\ lock[txn[q].date] = q /\ txn[q].date \in Date
        BY <2>1, <3>1 DEF LockOK, Holds, Busy, Txn
      <4>2. lock'[txn[q].date] = q
        BY <4>1
      <4> QED
        BY <2>1, <3>1, <4>2 DEF LockOK, Holds, Busy
    <3>2. CASE ~Holds(q)
      BY <2>1, <3>2 DEF LockOK, Holds, Busy
    <3> QED
      BY <3>1, <3>2
  <2>3. RequestOK(q)'
    BY <2>1, RowsStill DEF RequestOK, Busy
  <2>4. CheckedOK(q)'
    <3>1. \A x \in Session \ {s} : Inserted(x)' <=> Inserted(x)
      BY DEF Inserted, Wrote
    <3>2. Present(txn[q].date)' = Present(txn[q].date)
          /\ ActiveIn(txn[q].date, txn[q].dept)' = ActiveIn(txn[q].date, txn[q].dept)
      BY <2>1, RowsStill
    <3>3. Inserted(q)' => /\ txn'[q].new \in File /\ file'[txn'[q].new].life = "free"
                          /\ \A x \in Session \ {q, s} : Inserted(x)' => txn'[x].new # txn'[q].new
      BY <2>1, <3>1 DEF CheckedOK
    <3>4. Inserted(q)' /\ Inserted(s)' => txn'[s].new # txn'[q].new
      BY <2>1 DEF CheckedOK
    <3>5. pc'[q] \in {"write", "finalize", "commit"} =>
            IF txn'[q].op = "add" THEN txn'[q].dept \notin Present(txn[q].date)
            ELSE ActiveIn(txn[q].date, txn[q].dept) = {txn'[q].target}
      BY <2>1 DEF CheckedOK
    <3>6. pc'[q] = "commit" =>
            (txn'[q].full <=> /\ txn'[q].op # "withdraw"
                              /\ Present(txn[q].date) \cup {txn'[q].dept} = Dept)
      BY <2>1 DEF CheckedOK
    <3> QED
      BY <3>2, <3>3, <3>4, <3>5, <3>6 DEF CheckedOK
  <2> QED
    BY <2>2, <2>3, <2>4
<1> QED
  BY <1>1, <1>2, <1>3 DEF CycleInv, SessionInv

\* A transaction that ends without an effect (rollback, lost connection) keeps
\* the invariant.
LEMMA DropInv ==
  ASSUME CycleInv, NEW s \in Session, Drop(s)
  PROVE  CycleInv'
<1>1. /\ pc \in [Session -> PC] /\ txn \in [Session -> Txn \cup {NoTxn}]
      /\ lock \in [Date -> Session \cup {NoSession}]
  BY DEF CycleInv, TypeOK
<1>2. /\ pc' \in [Session -> PC] /\ txn' \in [Session -> Txn \cup {NoTxn}]
      /\ lock' \in [Date -> Session \cup {NoSession}]
  BY <1>1 DEF Drop, PC
<1>3. pc'[s] = "idle"
  BY <1>1 DEF Drop
<1>4. LockOK(s)' /\ RequestOK(s)' /\ CheckedOK(s)'
  BY <1>3 DEF LockOK, RequestOK, CheckedOK, Holds, Busy, Inserted, Wrote
<1>5. \A d \in Date : lock[d] \in Session \ {s} => lock'[d] = lock[d]
  BY DEF Drop
<1>6. \A q \in Session \ {s} : pc'[q] = pc[q] /\ txn'[q] = txn[q]
  BY <1>1 DEF Drop
<1> QED
  BY <1>2, <1>4, <1>5, <1>6, SessionFrame DEF Drop

\* Only the statement changes, and the session has or takes the lock.
LEMMA GoInv ==
  ASSUME CycleInv, NEW s \in Session, NEW to \in PC, Go(s, to), Busy(s), txn' = txn,
         pc[s] # "commit",
         UNCHANGED <<cycle, report, file>>, lock' \in [Date -> Session \cup {NoSession}],
         \A d \in Date : lock[d] \in Session \ {s} => lock'[d] = lock[d],
         to \in {"create", "check", "write"},
         to # "create" => /\ lock'[txn[s].date] = s
                          /\ cycle[txn[s].date] \in {"absent", "collecting"},
         to = "write" => CheckedOK(s)'
  PROVE  CycleInv'
<1>1. pc \in [Session -> PC] /\ txn \in [Session -> Txn \cup {NoTxn}]
  BY DEF CycleInv, TypeOK
<1>2. pc' \in [Session -> PC] /\ pc'[s] = to
  BY <1>1 DEF Go
<1>3. \A q \in Session \ {s} : pc'[q] = pc[q] /\ txn'[q] = txn[q]
  BY <1>1 DEF Go
<1>4. txn[s] \in Txn /\ RequestOK(s)
  BY DEF CycleInv, SessionInv, LockOK
<1>5. LockOK(s)'
  BY <1>2, <1>4 DEF LockOK, Holds, Busy
<1>6. RequestOK(s)'
  BY <1>2, <1>4, RowsStill DEF RequestOK, Busy
<1>7. CheckedOK(s)'
  BY <1>2 DEF CheckedOK, Inserted, Wrote
<1> QED
  BY <1>1, <1>2, <1>3, <1>5, <1>6, <1>7, SessionFrame

\* A session that begins a request keeps the invariant.
LEMMA RequestInv ==
  ASSUME CycleInv, NEW s \in Session, NEW op \in Op, NEW d \in Date, NEW p \in Dept,
         NEW c \in Sha, NEW f \in File \cup {NoFile}, Request(s, op, d, p, c, f),
         IF op = "add" THEN f = NoFile ELSE f \in File /\ InSlot(f, d, p)
  PROVE  CycleInv'
<1> DEFINE t == [op |-> op, date |-> d, dept |-> p, sha |-> c, target |-> f,
                 attempt |-> 1, new |-> NoFile, full |-> FALSE]
<1>1. t \in Txn /\ t.op = op /\ t.date = d /\ t.dept = p /\ t.target = f /\ ~t.full
  BY RequestType
<1>2. pc \in [Session -> PC] /\ txn \in [Session -> Txn \cup {NoTxn}]
      /\ lock \in [Date -> Session \cup {NoSession}]
  BY DEF CycleInv, TypeOK
<1>3. pc'[s] = "lock" /\ txn'[s] = t /\ lock' = lock /\ UNCHANGED <<cycle, report, file>>
  BY <1>2 DEF Request
<1>4. pc' \in [Session -> PC] /\ txn' \in [Session -> Txn \cup {NoTxn}]
  BY <1>1, <1>2 DEF Request, PC
<1>5. \A q \in Session \ {s} : pc'[q] = pc[q] /\ txn'[q] = txn[q]
  BY <1>2 DEF Request
<1> HIDE DEF t
<1>6. LockOK(s)'
  BY <1>1, <1>3 DEF LockOK, Holds
<1>7. RequestOK(s)'
  BY <1>1, <1>3, RowsStill DEF RequestOK
<1>8. CheckedOK(s)'
  BY <1>3 DEF CheckedOK, Inserted, Wrote
<1> QED
  BY <1>2, <1>3, <1>4, <1>5, <1>6, <1>7, <1>8, SessionFrame

\* The session records what it found in its own transaction.
LEMMA NoteInv ==
  ASSUME CycleInv, NEW s \in Session, NEW t \in Txn, NEW to \in PC, Go(s, to), Busy(s),
         txn' = [txn EXCEPT ![s] = t], UNCHANGED <<cycle, report, file, lock>>,
         t.op = txn[s].op, t.date = txn[s].date, t.dept = txn[s].dept,
         t.target = txn[s].target, to # "commit" => ~t.full, pc[s] # "commit",
         to = "finalize" => t.op # "withdraw",
         to = "lock" \/ Holds(s),
         CheckedOK(s)'
  PROVE  CycleInv'
<1>1. pc \in [Session -> PC] /\ txn \in [Session -> Txn \cup {NoTxn}]
      /\ lock \in [Date -> Session \cup {NoSession}]
  BY DEF CycleInv, TypeOK
<1>2. pc' \in [Session -> PC] /\ pc'[s] = to /\ txn' \in [Session -> Txn \cup {NoTxn}]
      /\ txn'[s] = t
  BY <1>1 DEF Go
<1>3. \A q \in Session \ {s} : pc'[q] = pc[q] /\ txn'[q] = txn[q]
  BY <1>1 DEF Go
<1>4. LockOK(s) /\ RequestOK(s)
  BY DEF CycleInv, SessionInv
<1>5. LockOK(s)'
  BY <1>2, <1>4 DEF LockOK, Holds, Busy
<1>6. RequestOK(s)'
  BY <1>2, <1>4, RowsStill DEF RequestOK, Busy
<1> QED
  BY <1>1, <1>2, <1>3, <1>5, <1>6, SessionFrame

\* Every statement before the commit keeps the invariant: the lock, the checks of
\* add, replace and withdraw, the insert and the count of departments.
LEMMA StatementInv ==
  ASSUME CycleInv, NEW s \in Session,
         LockCycle(s) \/ CreateCycle(s) \/ Check(s) \/ Write(s) \/ Finalize(s)
  PROVE  CycleInv'
<1> DEFINE d == txn[s].date  p == txn[s].dept
<1>1. /\ pc \in [Session -> PC] /\ txn \in [Session -> Txn \cup {NoTxn}]
      /\ lock \in [Date -> Session \cup {NoSession}]
      /\ cycle \in [Date -> Status]
      /\ LockOK(s) /\ RequestOK(s) /\ CheckedOK(s)
  BY DEF CycleInv, TypeOK, SessionInv
<1>2. Busy(s) /\ pc[s] # "commit" /\ txn[s] \in Txn /\ d \in Date /\ p \in Dept /\ ~txn[s].full
  BY <1>1 DEF LockCycle, Mutable, Unlocked, CreateCycle, Check, Write, Finalize, Busy, LockOK, RequestOK, Txn
<1>3. CASE Drop(s)
  BY <1>3, DropInv
<1>4. ASSUME lock[d] = NoSession, cycle[d] \in {"absent", "collecting"},
             lock' = [lock EXCEPT ![d] = s], Go(s, "check"),
             UNCHANGED <<cycle, report, file, txn>>
      PROVE  CycleInv'
  <2>1. lock' \in [Date -> Session \cup {NoSession}] /\ lock'[d] = s
    BY <1>1, <1>2, <1>4
  <2>2. \A e \in Date : lock[e] \in Session \ {s} => lock'[e] = lock[e]
    BY <1>1, <1>2, <1>4, CycleAssumption
  <2> HIDE DEF d
  <2>3. lock'[txn[s].date] = s /\ cycle[txn[s].date] \in {"absent", "collecting"}
    BY <1>4, <2>1 DEF d
  <2> QED
    BY <1>2, <1>4, <2>1, <2>2, <2>3, GoInv DEF PC
<1>5. CASE LockCycle(s)
  <2>1. CASE Go(s, "create") /\ UNCHANGED <<cycle, report, file, lock, txn>>
    BY <1>1, <1>2, <2>1, GoInv DEF PC
  <2> QED
    BY <1>3, <1>4, <1>5, <2>1 DEF LockCycle, Mutable, Unlocked
<1>6. CASE CreateCycle(s)
  <2>1. CASE /\ txn' = [txn EXCEPT ![s].attempt = 2] /\ Go(s, "lock")
             /\ UNCHANGED <<cycle, report, file, lock>>
    <3> DEFINE t == [txn[s] EXCEPT !.attempt = 2]
    <3>1. /\ t \in Txn /\ t.op = txn[s].op /\ t.date = txn[s].date /\ t.dept = txn[s].dept
          /\ t.target = txn[s].target /\ ~t.full
      BY <1>2, AttemptType
    <3>2. txn' = [txn EXCEPT ![s] = t]
      BY <2>1
    <3>3. CheckedOK(s)'
      BY <1>1, <2>1 DEF Go, CheckedOK, Inserted, Wrote
    <3> HIDE DEF t
    <3> QED
      BY <1>2, <2>1, <3>1, <3>2, <3>3, NoteInv DEF PC
  <2> QED
    BY <1>3, <1>4, <1>6, <2>1 DEF CreateCycle
<1>7. CASE Check(s)
  <2>1. CASE Allowed(s) /\ Go(s, "write") /\ UNCHANGED <<cycle, report, file, lock, txn>>
    <3>1. Holds(s) /\ lock[txn[s].date] = s /\ cycle[txn[s].date] \in {"absent", "collecting"}
      BY <1>1, <1>7 DEF Check, Holds, LockOK
    <3>2. pc'[s] = "write"
      BY <1>1, <2>1 DEF Go
    <3>3. IF txn[s].op = "add" THEN txn[s].dept \notin Present(txn[s].date)
          ELSE ActiveIn(txn[s].date, txn[s].dept) = {txn[s].target}
      <4>1. CASE txn[s].op = "withdraw"
        <5>1. txn[s].target \in ActiveIn(d, p)
          BY <1>1, <1>2, <2>1, <4>1 DEF Allowed, RequestOK, ActiveIn
        <5>2. \A f, g \in ActiveIn(d, p) : f = g
          BY <1>2 DEF CycleInv, SlotInv
        <5> QED
          BY <4>1, <5>1, <5>2
      <4>2. CASE txn[s].op # "withdraw"
        BY <2>1, <4>2 DEF Allowed
      <4> QED
        BY <4>1, <4>2
    <3>4. Present(txn[s].date)' = Present(txn[s].date)
          /\ ActiveIn(txn[s].date, txn[s].dept)' = ActiveIn(txn[s].date, txn[s].dept)
      BY <2>1, RowsStill
    <3>5. CheckedOK(s)'
      BY <2>1, <3>2, <3>3, <3>4 DEF CheckedOK, Inserted, Wrote
    <3> QED
      BY <1>1, <1>2, <2>1, <3>1, <3>5, GoInv DEF PC
  <2> QED
    BY <1>3, <1>7, <2>1 DEF Check
<1>8. CASE Write(s)
  <2>1. Holds(s) /\ pc[s] = "write"
    BY <1>8 DEF Write, Holds
  <2>2. CASE txn[s].op = "withdraw" /\ Go(s, "commit") /\ UNCHANGED <<cycle, report, file, lock, txn>>
    <3>1. pc'[s] = "commit"
      BY <1>1, <2>2 DEF Go
    <3>2. Present(txn[s].date)' = Present(txn[s].date)
          /\ ActiveIn(txn[s].date, txn[s].dept)' = ActiveIn(txn[s].date, txn[s].dept)
      BY <2>2, RowsStill
    <3>3. CheckedOK(s)'
      BY <1>1, <1>2, <2>1, <2>2, <3>1, <3>2 DEF CheckedOK, Inserted, Wrote
    <3>4. txn' = [txn EXCEPT ![s] = txn[s]]
      BY <1>1, <2>2
    <3> QED
      BY <1>2, <2>1, <2>2, <3>3, <3>4, NoteInv DEF PC
  <2>3. ASSUME NEW f \in Unused, txn[s].op # "withdraw", txn' = [txn EXCEPT ![s].new = f],
               Go(s, "finalize"), UNCHANGED <<cycle, report, file, lock>>
        PROVE  CycleInv'
    <3> DEFINE t == [txn[s] EXCEPT !.new = f]
    <3>1. /\ t \in Txn /\ t.op = txn[s].op /\ t.date = txn[s].date /\ t.dept = txn[s].dept
          /\ t.target = txn[s].target /\ ~t.full /\ t.new = f /\ f \in File
      BY <1>2, NewType DEF Unused
    <3>2. txn' = [txn EXCEPT ![s] = t]
      BY <2>3
    <3> HIDE DEF t
    <3>3. txn'[s] = t /\ pc'[s] = "finalize"
      BY <1>1, <2>3, <3>2 DEF Go
    <3>4. Present(txn[s].date)' = Present(txn[s].date)
          /\ ActiveIn(txn[s].date, txn[s].dept)' = ActiveIn(txn[s].date, txn[s].dept)
      <4>1. \A e \in Date, x \in Dept : Present(e)' = Present(e) /\ ActiveIn(e, x)' = ActiveIn(e, x)
        BY <2>3, RowsStill
      <4> QED
        BY <1>2, <3>1, <3>3, <4>1
    <3>5. \A q \in Session \ {s} : Inserted(q)' => Inserted(q) /\ txn'[q] = txn[q]
      BY <1>1, <2>3 DEF Go, Inserted, Wrote
    <3>6. /\ file[f].life = "free"
          /\ \A q \in Session : Inserted(q) => txn[q].new # f
      BY DEF Unused
    <3>7. CheckedOK(s)'
      BY <1>1, <2>1, <2>3, <3>1, <3>3, <3>4, <3>5, <3>6 DEF CheckedOK
    <3> QED
      BY <1>2, <2>1, <2>3, <3>1, <3>2, <3>7, NoteInv DEF PC
  <2> QED
    BY <1>3, <1>8, <2>2, <2>3 DEF Write
<1>9. CASE Finalize(s)
  <2> DEFINE b == (Present(txn[s].date) \cup {txn[s].dept} = Dept)
             t == [txn[s] EXCEPT !.full = b]
  <2>1. Holds(s) /\ pc[s] = "finalize"
    BY <1>9 DEF Finalize, Holds
  <2>2. /\ t \in Txn /\ t.op = txn[s].op /\ t.date = txn[s].date /\ t.dept = txn[s].dept
        /\ t.target = txn[s].target /\ t.new = txn[s].new /\ (t.full <=> b)
    <3>1. b \in BOOLEAN
      OBVIOUS
    <3> HIDE DEF b
    <3> QED
      BY <1>2, <3>1, FullType
  <2>3. txn' = [txn EXCEPT ![s] = t] /\ Go(s, "commit") /\ UNCHANGED <<cycle, report, file, lock>>
    BY <1>9 DEF Finalize
  <2> HIDE DEF t
  <2>4. txn'[s] = t /\ pc'[s] = "commit"
    BY <1>1, <2>3 DEF Go
  <2>5. Present(txn[s].date)' = Present(txn[s].date)
        /\ ActiveIn(txn[s].date, txn[s].dept)' = ActiveIn(txn[s].date, txn[s].dept)
    <3>1. \A e \in Date, x \in Dept : Present(e)' = Present(e) /\ ActiveIn(e, x)' = ActiveIn(e, x)
      BY <2>3, RowsStill
    <3> QED
      BY <1>2, <2>2, <2>4, <3>1
  <2>6. \A q \in Session \ {s} : Inserted(q)' => Inserted(q) /\ txn'[q] = txn[q]
    BY <1>1, <2>3 DEF Go, Inserted, Wrote
  <2>7. txn[s].op # "withdraw"
    BY <1>1, <1>2, <2>1 DEF RequestOK
  <2>8. CheckedOK(s)'
    BY <1>1, <2>1, <2>2, <2>3, <2>4, <2>5, <2>6, <2>7 DEF CheckedOK, Inserted, Wrote
  <2> QED
    BY <1>2, <2>1, <2>2, <2>3, <2>8, NoteInv DEF PC
<1> QED
  BY <1>5, <1>6, <1>7, <1>8, <1>9

-----------------------------------------------------------------------------
(* Commit and expiry *)

\* A change of the lifecycle changes nothing else of a file.
LEMMA LifeType ==
  ASSUME NEW r \in FileRow, NEW x \in Life
  PROVE  /\ [r EXCEPT !.life = x] \in FileRow
         /\ [r EXCEPT !.life = x].life = x /\ [r EXCEPT !.life = x].date = r.date
         /\ [r EXCEPT !.life = x].dept = r.dept /\ [r EXCEPT !.life = x].base = r.base
         /\ [r EXCEPT !.life = x].sha = r.sha
BY DEF FileRow

\* The row of an uploaded file is well typed.
LEMMA NewRow ==
  ASSUME NEW d \in Date, NEW p \in Dept, NEW c \in Sha, NEW b \in File \cup {NoFile}
  PROVE  [life |-> "active", date |-> d, dept |-> p, sha |-> c, base |-> b] \in FileRow
BY DEF FileRow, Life

\* An id that is not free has a row of source_files.
LEMMA UsedRow ==
  ASSUME CycleInv, NEW f \in File, file[f].life # "free"
  PROVE  file[f] \in FileRow /\ file[f].life \in Life
BY DEF CycleInv, TypeOK, FreeFile, FileRow

\* The rows a commit leaves: files keep their slot, and in the slot of the
\* transaction the ACTIVE file is the new one, the restored one or none.
LEMMA CommitRows ==
  ASSUME CycleInv, NEW s \in Session, Commit(s)
  PROVE  /\ file' \in [File -> FileRow \cup {FreeFile}]
         /\ \A f \in File : file[f].life # "free" =>
              /\ file'[f].life # "free" /\ file'[f].date = file[f].date
              /\ file'[f].dept = file[f].dept /\ file'[f].base = file[f].base
         /\ \A f \in File : file[f].life = "free" => file'[f] = file[f] \/
              /\ txn[s].op # "withdraw" /\ f = txn[s].new /\ file'[f].life = "active"
              /\ file'[f].date = txn[s].date /\ file'[f].dept = txn[s].dept
              /\ file'[f].base = txn[s].target
         /\ \A e \in Date, q \in Dept : ~(e = txn[s].date /\ q = txn[s].dept) =>
              ActiveIn(e, q)' = ActiveIn(e, q)
         /\ \A e \in Date, q \in Dept : e = txn[s].date /\ q = txn[s].dept =>
              ActiveIn(e, q)' =
              IF txn[s].op = "withdraw" THEN {file[txn[s].target].base} \cap File
              ELSE {txn[s].new}
<1> DEFINE t == txn[s]  d == txn[s].date  p == txn[s].dept  b == file[txn[s].target].base
<1>1. /\ t \in Txn /\ d \in Date /\ p \in Dept /\ t.sha \in Sha /\ t.op \in Op
      /\ t.target \in File \cup {NoFile}
      /\ LockOK(s) /\ RequestOK(s) /\ CheckedOK(s) /\ pc[s] = "commit"
  BY DEF CycleInv, SessionInv, LockOK, Commit, Busy, Txn
<1>2. t.op # "withdraw" => /\ t.new \in File /\ file[t.new].life = "free"
  BY <1>1 DEF CheckedOK, Inserted, Wrote
<1>3. t.op # "add" => /\ t.target \in File /\ InSlot(t.target, d, p)
                      /\ ActiveIn(d, p) = {t.target} /\ file[t.target].life = "active"
                      /\ file[t.target] \in FileRow
  <2>1. ASSUME t.op # "add"
        PROVE  t.target \in File /\ InSlot(t.target, d, p) /\ ActiveIn(d, p) = {t.target}
    BY <1>1, <2>1 DEF RequestOK, CheckedOK, Busy
  <2> QED
    BY <2>1, UsedRow DEF ActiveIn, InSlot
<1>4. t.op = "add" => ActiveIn(d, p) = {} /\ t.target = NoFile
  BY <1>1 DEF RequestOK, CheckedOK, Busy, Present
<1>5. t.op = "withdraw" => \/ b = NoFile
                           \/ /\ b \in File /\ InSlot(b, d, p) /\ file[b] \in FileRow
                              /\ b # t.target
  <2>1. ASSUME t.op = "withdraw", b # NoFile
        PROVE  InSlot(b, d, p) /\ b \in File /\ b # t.target
    <3>1. b \in File \cup {NoFile}
      BY <1>3, <2>1 DEF FileRow
    <3>2. InSlot(b, file[t.target].date, file[t.target].dept) /\ b # t.target
      BY <1>3, <2>1 DEF CycleInv, SlotInv
    <3> QED
      BY <1>3, <2>1, <3>1, <3>2 DEF InSlot
  <2> QED
    BY <2>1, UsedRow DEF InSlot
<1>6. file' = CommittedFile(s)
  BY DEF Commit
<1>7. ASSUME NEW f \in File
      PROVE  /\ t.op # "withdraw" /\ f = t.new =>
                  file'[f] = [life |-> "active", date |-> d, dept |-> p, sha |-> t.sha,
                              base |-> t.target]
             /\ t.op = "replace" /\ f = t.target => file'[f] = [file[f] EXCEPT !.life = "superseded"]
             /\ t.op = "withdraw" /\ f = t.target => file'[f] = [file[f] EXCEPT !.life = "revoked"]
             /\ t.op = "withdraw" /\ f = b /\ f # t.target =>
                  file'[f] = [file[f] EXCEPT !.life = "active"]
             /\ ~(t.op # "withdraw" /\ f = t.new) /\ ~(t.op # "add" /\ f = t.target)
                /\ ~(t.op = "withdraw" /\ f = b) => file'[f] = file[f]
  <2>1. t.op # "add" /\ f = t.target => f # t.new \/ t.op = "withdraw"
    BY <1>2, <1>3
  <2>2. t.op \in {"add", "replace", "withdraw"}
    BY <1>1 DEF Op
  <2> QED
    BY <1>6, <2>1, <2>2 DEF CommittedFile
<1>8. file \in [File -> FileRow \cup {FreeFile}]
  BY DEF CycleInv, TypeOK
<1>s. {"active", "superseded", "revoked"} = Life
  BY DEF Life
<1> HIDE DEF t, d, p, b
<1>9. ASSUME NEW f \in File, file[f].life # "free"
      PROVE  /\ file'[f] \in FileRow /\ file'[f].life # "free" /\ file'[f].date = file[f].date
             /\ file'[f].dept = file[f].dept /\ file'[f].base = file[f].base
  <2>1. file[f] \in FileRow /\ file[f].life \in Life
    BY <1>9, UsedRow
  <2>2. CASE file'[f] = file[f]
    BY <2>1, <2>2, <1>9
  <2>3. ASSUME NEW x \in Life, file'[f] = [file[f] EXCEPT !.life = x]  
        PROVE  /\ file'[f] \in FileRow /\ file'[f].life # "free" /\ file'[f].date = file[f].date
               /\ file'[f].dept = file[f].dept /\ file'[f].base = file[f].base
    <3>1. x # "free"
      BY <1>s
    <3> QED
      BY <2>1, <2>3, <3>1, LifeType
  <2>4. ~(t.op # "withdraw" /\ f = t.new)
    BY <1>2, <1>9
  <2>5. \/ file'[f] = file[f] \/ file'[f] = [file[f] EXCEPT !.life = "superseded"]
        \/ file'[f] = [file[f] EXCEPT !.life = "revoked"]
        \/ file'[f] = [file[f] EXCEPT !.life = "active"]
    <3>1. t.op \in {"add", "replace", "withdraw"}
      BY <1>1 DEF Op
    <3> QED
      BY <1>7, <2>4, <3>1
  <2> QED
    BY <1>s, <2>2, <2>3, <2>5
<1>10. ASSUME NEW f \in File, file[f].life = "free"
       PROVE  \/ file'[f] = file[f]
              \/ /\ t.op # "withdraw" /\ f = t.new /\ file'[f] \in FileRow
                 /\ file'[f].life = "active" /\ file'[f].date = d /\ file'[f].dept = p
                 /\ file'[f].base = t.target
  <2>1. CASE t.op # "withdraw" /\ f = t.new
    <3>1. file'[f] = [life |-> "active", date |-> d, dept |-> p, sha |-> t.sha,
                      base |-> t.target]
      BY <1>7, <2>1
    <3>2. file'[f] \in FileRow
      BY <1>1, <3>1, NewRow
    <3> QED
      BY <2>1, <3>1, <3>2
  <2>2. CASE ~(t.op # "withdraw" /\ f = t.new)
    <3>1. t.op # "add" => f # t.target
      BY <1>3, <1>10
    <3>2. t.op = "withdraw" => f # b
      BY <1>5, <1>10, UsedRow, NoFileNotFile DEF InSlot
    <3> QED
      BY <1>7, <2>2, <3>1, <3>2
  <2> QED
    BY <2>1, <2>2
<1>11. file' \in [File -> FileRow \cup {FreeFile}]
  <2>1. ASSUME NEW f \in File  PROVE file'[f] \in FileRow \cup {FreeFile}
    BY <1>8, <1>9, <1>10
  <2>2. file' = [f \in File |-> file'[f]]
    BY <1>6 DEF CommittedFile
  <2> QED
    BY <2>1, <2>2
\* Which files are ACTIVE afterwards.
<1>12. ASSUME NEW f \in File
       PROVE  file'[f].life = "active" <=>
                \/ t.op # "withdraw" /\ f = t.new
                \/ t.op = "withdraw" /\ f = b /\ f # t.target
                \/ file[f].life = "active" /\ ~(t.op # "add" /\ f = t.target)
  <2>1. CASE t.op # "withdraw" /\ f = t.new
    <3>1. file'[f] = [life |-> "active", date |-> d, dept |-> p, sha |-> t.sha,
                      base |-> t.target]
      BY <1>7, <2>1
    <3>2. file'[f].life = "active"
      BY <3>1
    <3> QED
      BY <2>1, <3>2
  <2>2. CASE t.op # "add" /\ f = t.target
    <3>1. file[f] \in FileRow /\ (t.op # "withdraw" => f # t.new)
      BY <1>2, <1>3, <2>2
    <3>2. \E x \in {"superseded", "revoked"} : file'[f] = [file[f] EXCEPT !.life = x]
      <4>1. t.op \in {"replace", "withdraw"}
        BY <1>1, <2>2 DEF Op
      <4> QED
        BY <1>7, <2>2, <4>1
    <3>3. file'[f].life # "active"
      BY <1>s, <3>1, <3>2, LifeType
    <3> QED
      BY <2>2, <3>1, <3>3
  <2>3. CASE t.op = "withdraw" /\ f = b /\ f # t.target
    <3>1. file'[f] = [file[f] EXCEPT !.life = "active"]
      BY <1>7, <2>3
    <3>2. file[f] \in FileRow
      BY <1>5, <2>3, NoFileNotFile
    <3> QED
      BY <1>s, <2>3, <3>1, <3>2, LifeType
  <2>4. CASE /\ ~(t.op # "withdraw" /\ f = t.new) /\ ~(t.op # "add" /\ f = t.target)
             /\ ~(t.op = "withdraw" /\ f = b)
    BY <1>7, <2>4
  <2> QED
    BY <1>s, <2>1, <2>2, <2>3, <2>4
<1>13. ASSUME NEW f \in File, NEW e \in Date, NEW q \in Dept
       PROVE  f \in ActiveIn(e, q)' <=>
                /\ file'[f].life = "active"
                /\ IF file[f].life = "free" THEN e = d /\ q = p
                   ELSE file[f].date = e /\ file[f].dept = q
  <2>1. f \in ActiveIn(e, q)' <=>
          file'[f].life = "active" /\ file'[f].date = e /\ file'[f].dept = q
    BY DEF ActiveIn, InSlot
  <2>2. CASE file[f].life = "free"
    BY <1>10, <2>1, <2>2
  <2>3. CASE file[f].life # "free"
    BY <1>9, <2>1, <2>3
  <2> QED
    BY <2>2, <2>3
<1>14. ASSUME NEW e \in Date, NEW q \in Dept, ~(e = d /\ q = p)
       PROVE  ActiveIn(e, q)' = ActiveIn(e, q)
  <2>1. ASSUME NEW f \in File  PROVE f \in ActiveIn(e, q)' <=> f \in ActiveIn(e, q)
    <3>1. f \in ActiveIn(e, q) <=>
            file[f].life = "active" /\ file[f].date = e /\ file[f].dept = q
      BY DEF ActiveIn, InSlot
    <3>2. t.op # "withdraw" /\ f = t.new => file[f].life = "free"
      BY <1>2
    <3>3. t.op = "withdraw" /\ f = b => file[f].life # "free" /\ file[f].date = d /\ file[f].dept = p
      BY <1>5, NoFileNotFile DEF InSlot
    <3>4. t.op # "add" /\ f = t.target => file[f].life # "free" /\ file[f].date = d /\ file[f].dept = p
      BY <1>3 DEF InSlot
    <3> QED
      BY <1>12, <1>13, <1>14, <3>1, <3>2, <3>3, <3>4
  <2>2. ActiveIn(e, q) \subseteq File /\ ActiveIn(e, q)' \subseteq File
    BY DEF ActiveIn
  <2> QED
    BY <2>1, <2>2
<1>15. ASSUME NEW e \in Date, NEW q \in Dept, e = d, q = p
       PROVE  ActiveIn(e, q)' = IF t.op = "withdraw" THEN {b} \cap File ELSE {t.new}
  <2>1. ASSUME NEW f \in File
        PROVE  f \in ActiveIn(e, q)' <=> IF t.op = "withdraw" THEN f = b ELSE f = t.new
    <3>1. f \in ActiveIn(d, p) <=>
            file[f].life = "active" /\ file[f].date = d /\ file[f].dept = p
      BY DEF ActiveIn, InSlot
    <3>2. t.op # "withdraw" /\ f = t.new => file[f].life = "free"
      BY <1>2
    <3>3. t.op = "withdraw" /\ f = b =>
            file[f].life # "free" /\ file[f].date = d /\ file[f].dept = p /\ f # t.target
      BY <1>5, NoFileNotFile DEF InSlot
    <3>4. file[f].life = "active" /\ file[f].date = d /\ file[f].dept = p =>
            t.op # "add" /\ f = t.target
      BY <1>3, <1>4, <3>1
    <3>5. f \in ActiveIn(e, q)' <=>
            /\ file'[f].life = "active"
            /\ file[f].life # "free" => file[f].date = d /\ file[f].dept = p
      BY <1>13, <1>15
    <3>6. CASE t.op = "withdraw"
      <4>1. f = b => f \in ActiveIn(e, q)'
        BY <1>12, <3>3, <3>5, <3>6
      <4>2. f \in ActiveIn(e, q)' => f = b
        BY <1>12, <1>10, <3>4, <3>5, <3>6
      <4> QED
        BY <3>6, <4>1, <4>2
    <3>7. CASE t.op # "withdraw"
      <4>1. f = t.new => f \in ActiveIn(e, q)'
        BY <1>12, <3>2, <3>5, <3>7
      <4>2. f \in ActiveIn(e, q)' => f = t.new
        BY <1>12, <1>10, <3>4, <3>5, <3>7
      <4> QED
        BY <3>7, <4>1, <4>2
    <3> QED
      BY <3>6, <3>7
  <2>2. ActiveIn(e, q)' \subseteq File
    BY DEF ActiveIn
  <2> QED
    BY <1>2, <2>1, <2>2
<1> QED
  BY <1>9, <1>10, <1>11, <1>14, <1>15 DEF t, d, p, b

\* A commit keeps the invariant: with the cycle locked, what the transaction has
\* checked and counted is still so.
LEMMA CommitInv ==
  ASSUME CycleInv, NEW s \in Session, Commit(s)
  PROVE  CycleInv'
<1>1. /\ txn[s] \in Txn /\ txn[s].date \in Date /\ txn[s].dept \in Dept
      /\ lock[txn[s].date] = s /\ cycle[txn[s].date] \in {"absent", "collecting"}
      /\ CheckedOK(s) /\ RequestOK(s) /\ pc[s] = "commit" /\ txn[s].full \in BOOLEAN
  BY DEF CycleInv, SessionInv, LockOK, Commit, Busy, Holds, Txn
<1>2. PICK d \in Date, p \in Dept : d = txn[s].date /\ p = txn[s].dept
  BY <1>1
<1>3. /\ pc \in [Session -> PC] /\ txn \in [Session -> Txn \cup {NoTxn}]
      /\ lock \in [Date -> Session \cup {NoSession}]
      /\ cycle \in [Date -> Status] /\ report \in [Date -> BOOLEAN]
  BY DEF CycleInv, TypeOK
<1>4. /\ cycle' = [cycle EXCEPT ![d] = IF txn[s].full THEN "completed"
                                       ELSE IF cycle[d] = "absent" THEN "collecting" ELSE cycle[d]]
      /\ report' = [report EXCEPT ![d] = report[d] \/ txn[s].full]
      /\ lock' = [lock EXCEPT ![d] = NoSession]
      /\ pc' = [pc EXCEPT ![s] = "idle"] /\ txn' = [txn EXCEPT ![s] = NoTxn]
  BY <1>2 DEF Commit, Go
<1>5. cycle'[d] = IF txn[s].full THEN "completed" ELSE "collecting"
  BY <1>1, <1>2, <1>3, <1>4
<1>6. TypeOK'
  <2>1. cycle' \in [Date -> Status]
    BY <1>3, <1>4 DEF Status
  <2>2. report' \in [Date -> BOOLEAN]
    BY <1>1, <1>3, <1>4
  <2>3. lock' \in [Date -> Session \cup {NoSession}] /\ txn' \in [Session -> Txn \cup {NoTxn}]
    BY <1>3, <1>4
  <2>4. pc' \in [Session -> PC]
    BY <1>3, <1>4 DEF PC
  <2> QED
    BY <2>1, <2>2, <2>3, <2>4, CommitRows DEF TypeOK
<1>7. \A f \in File, e \in Date, q \in Dept : InSlot(f, e, q) => InSlot(f, e, q)'
  BY CommitRows DEF InSlot
<1>8. SlotInv'
  <2>1. ASSUME NEW e \in Date, NEW q \in Dept, NEW f \in ActiveIn(e, q)', NEW g \in ActiveIn(e, q)'
        PROVE  f = g
    <3>1. CASE e = d /\ q = p
      BY <1>2, <2>1, <3>1, CommitRows
    <3>2. CASE ~(e = d /\ q = p)
      BY <1>2, <2>1, <3>2, CommitRows DEF CycleInv, SlotInv
    <3> QED
      BY <3>1, <3>2
  <2>2. ASSUME NEW f \in File, file'[f].life # "free", file'[f].base # NoFile
        PROVE  /\ file'[f].base # f
               /\ file'[file'[f].base].life # "free"
               /\ file'[file'[f].base].date = file'[f].date
               /\ file'[file'[f].base].dept = file'[f].dept
    <3>1. CASE file[f].life # "free"
      <4>1. /\ file'[f].base = file[f].base /\ file'[f].date = file[f].date
            /\ file'[f].dept = file[f].dept
        BY <3>1, CommitRows
      <4>2. file[f].base # f /\ InSlot(file[f].base, file[f].date, file[f].dept)
        BY <2>2, <3>1, <4>1 DEF CycleInv, SlotInv
      <4>3. file[f].base \in File
        BY <2>2, <3>1, <4>1, UsedRow DEF FileRow
      <4> QED
        BY <4>1, <4>2, <4>3, CommitRows DEF InSlot
    <3>2. CASE file[f].life = "free"
      <4>1. /\ file'[f].base = txn[s].target /\ file'[f].date = d /\ file'[f].dept = p
        BY <1>2, <2>2, <3>2, CommitRows
      <4>2. txn[s].target \in File /\ InSlot(txn[s].target, d, p)
        BY <1>1, <1>2, <2>2, <4>1 DEF RequestOK, Busy
      <4> QED
        BY <3>2, <4>1, <4>2, CommitRows DEF InSlot
    <3> QED
      BY <3>1, <3>2
  <2> QED
    BY <2>1, <2>2 DEF SlotInv, InSlot
<1>9. \A e \in Date : e # d => Present(e)' = Present(e)
  BY <1>2, CommitRows DEF Present
<1>10. Present(d)' = IF txn[s].op # "withdraw" THEN Present(d) \cup {p}
                     ELSE IF file[txn[s].target].base \in File THEN Present(d) ELSE Present(d) \ {p}
  <2>1. \A q \in Dept : q # p => ActiveIn(d, q)' = ActiveIn(d, q)
    BY <1>2, CommitRows
  <2>2. ActiveIn(d, p)' = IF txn[s].op = "withdraw" THEN {file[txn[s].target].base} \cap File
                          ELSE {txn[s].new}
    BY <1>2, CommitRows
  <2>3. txn[s].op = "withdraw" => p \in Present(d)
    BY <1>1, <1>2 DEF CheckedOK, Present
  <2>4. \A q \in Dept : q \in Present(d)' <=> ActiveIn(d, q)' # {}
    BY DEF Present
  <2>5. \A q \in Dept : q \in Present(d) <=> ActiveIn(d, q) # {}
    BY DEF Present
  <2>6. Present(d) \subseteq Dept /\ Present(d)' \subseteq Dept
    BY DEF Present
  <2>7. \A q \in Dept : q # p => (q \in Present(d)' <=> q \in Present(d))
    BY <2>1, <2>4, <2>5
  <2>8. p \in Present(d)' <=> txn[s].op # "withdraw" \/ file[txn[s].target].base \in File
    BY <2>2, <2>4
  <2> QED
    BY <2>3, <2>6, <2>7, <2>8
<1>11. CompleteIffFull'
  <2>1. (cycle[d] = "collecting" \/ cycle[d] = "absent") /\ Present(d) # Dept /\ ~report[d]
    <3>1. Present(d) = {} => Present(d) # Dept
      BY CycleAssumption
    <3> QED
      BY <1>1, <1>2, <3>1 DEF CycleInv, CompleteIffFull
  <2>2. txn[s].full <=> txn[s].op # "withdraw" /\ Present(d) \cup {p} = Dept
    BY <1>1, <1>2 DEF CheckedOK
  <2>3. Present(d) \subseteq Dept
    BY DEF Present
  <2>4. IF txn[s].full THEN Present(d)' = Dept ELSE Present(d)' # Dept
    BY <1>10, <2>1, <2>2, <2>3
  <2>5. report'[d] <=> txn[s].full
    BY <1>3, <1>4, <2>1
  <2>6. ASSUME NEW e \in Date, e # d
        PROVE  cycle'[e] = cycle[e] /\ report'[e] = report[e] /\ Present(e)' = Present(e)
    BY <1>3, <1>4, <1>9, <2>6
  <2>7. ASSUME NEW e \in Date
        PROVE  /\ cycle'[e] = "collecting" => Present(e)' # Dept /\ ~report'[e]
               /\ cycle'[e] = "completed" => Present(e)' = Dept /\ report'[e]
               /\ cycle'[e] = "expired" => Present(e)' # Dept /\ ~report'[e]
               /\ cycle'[e] = "absent" => Present(e)' = {} /\ ~report'[e]
    <3>1. CASE e = d
      BY <1>5, <2>4, <2>5, <3>1
    <3>2. CASE e # d
      BY <2>6, <3>2 DEF CycleInv, CompleteIffFull
    <3> QED
      BY <3>1, <3>2
  <2> QED
    BY <2>7 DEF CompleteIffFull
<1>12. ASSUME NEW q \in Session  PROVE LockOK(q)' /\ RequestOK(q)' /\ CheckedOK(q)'
  <2>1. CASE q = s
    <3>1. pc'[q] = "idle"
      BY <1>3, <1>4, <2>1
    <3> QED
      BY <3>1 DEF LockOK, RequestOK, CheckedOK, Holds, Busy, Inserted, Wrote
  <2>2. CASE q # s
    <3>1. pc'[q] = pc[q] /\ txn'[q] = txn[q] /\ LockOK(q) /\ RequestOK(q) /\ CheckedOK(q)
      BY <1>3, <1>4, <2>2 DEF CycleInv, SessionInv
    <3>2. Busy(q) => txn[q] \in Txn /\ txn[q].date \in Date /\ txn[q].dept \in Dept
      BY <3>1 DEF LockOK, Txn
    <3>3. Holds(q) => txn[q].date # d
      BY <1>1, <1>2, <2>2, <3>1 DEF LockOK
    <3>4. LockOK(q)'
      BY <1>3, <1>4, <3>1, <3>2, <3>3 DEF LockOK, Holds, Busy
    <3>5. RequestOK(q)'
      <4>1. CASE Busy(q) /\ txn[q].op # "add"
        <5>1. txn[q].target \in File /\ InSlot(txn[q].target, txn[q].date, txn[q].dept)
          BY <3>1, <4>1 DEF RequestOK
        <5>2. /\ file'[txn[q].target].life # "free"
              /\ file'[txn[q].target].date = txn[q].date
              /\ file'[txn[q].target].dept = txn[q].dept
          BY <5>1, CommitRows DEF InSlot
        <5> QED
          BY <3>1, <4>1, <5>1, <5>2 DEF RequestOK, InSlot, Busy
      <4>2. CASE ~(Busy(q) /\ txn[q].op # "add")
        BY <3>1, <4>2 DEF RequestOK, Busy
      <4> QED
        BY <4>1, <4>2
    <3>6. CheckedOK(q)'
      <4>1. CASE ~(pc[q] \in {"write", "finalize", "commit"})
        BY <3>1, <4>1 DEF CheckedOK, Inserted, Wrote
      <4>2. CASE pc[q] \in {"write", "finalize", "commit"}
        <5>1. PICK e \in Date, x \in Dept : e = txn[q].date /\ x = txn[q].dept /\ e # d
          BY <3>2, <3>3, <4>2 DEF Holds, Busy
        <5>2. Present(e)' = Present(e) /\ ActiveIn(e, x)' = ActiveIn(e, x)
          BY <1>2, <1>9, <5>1, CommitRows
        <5>3. \A y \in Session : Inserted(y)' => Inserted(y) /\ txn'[y] = txn[y]
          BY <1>3, <1>4 DEF Inserted, Wrote
        <5>4. Inserted(q) => txn[q].new \in File /\ file'[txn[q].new].life = "free"
          <6>1. ASSUME Inserted(q)
                PROVE  txn[q].new \in File /\ file'[txn[q].new].life = "free"
            <7>1. txn[q].new \in File /\ file[txn[q].new].life = "free"
              BY <3>1, <6>1 DEF CheckedOK
            <7>2. ~(txn[s].op # "withdraw" /\ txn[q].new = txn[s].new)
              BY <1>1, <2>2, <3>1, <6>1 DEF CheckedOK, Inserted, Wrote
            <7> QED
              BY <7>1, <7>2, CommitRows
          <6> QED
            BY <6>1
        <5>5. /\ IF txn[q].op = "add" THEN x \notin Present(e)
                 ELSE ActiveIn(e, x) = {txn[q].target}
              /\ Inserted(q) => \A y \in Session \ {q} : Inserted(y) => txn[y].new # txn[q].new
              /\ pc[q] = "commit" =>
                   (txn[q].full <=> txn[q].op # "withdraw" /\ Present(e) \cup {x} = Dept)
          BY <3>1, <4>2, <5>1 DEF CheckedOK
        <5>6. e = txn'[q].date /\ x = txn'[q].dept
          BY <3>1, <5>1
        <5>7. CheckedOK(q)' <=>
                /\ IF txn[q].op = "add" THEN x \notin Present(e)'
                   ELSE ActiveIn(e, x)' = {txn[q].target}
                /\ Inserted(q)' =>
                     /\ txn[q].new \in File /\ file'[txn[q].new].life = "free"
                     /\ \A y \in Session \ {q} : Inserted(y)' => txn'[y].new # txn[q].new
                /\ pc[q] = "commit" =>
                     (txn[q].full <=> txn[q].op # "withdraw" /\ Present(e)' \cup {x} = Dept)
          BY <3>1, <4>2, <5>6 DEF CheckedOK
        <5> QED
          BY <5>2, <5>3, <5>4, <5>5, <5>7
      <4> QED
        BY <4>1, <4>2
    <3> QED
      BY <3>4, <3>5, <3>6
  <2> QED
    BY <2>1, <2>2
<1> QED
  BY <1>6, <1>8, <1>11, <1>12 DEF CycleInv, SessionInv

\* expire_cycle_if_due keeps the invariant: no transaction is open on the cycle.
LEMMA ExpireInv ==
  ASSUME CycleInv, NEW d \in Date, Expire(d)
  PROVE  CycleInv'
<1>1. /\ lock \in [Date -> Session \cup {NoSession}] /\ cycle \in [Date -> Status]
      /\ cycle' = [cycle EXCEPT ![d] = "expired"] /\ lock[d] = NoSession
      /\ UNCHANGED <<report, file, lock, pc, txn>>
  BY DEF CycleInv, TypeOK, Expire
<1>2. /\ \A f, e, p : InSlot(f, e, p)' <=> InSlot(f, e, p)
      /\ \A e, p : ActiveIn(e, p)' = ActiveIn(e, p)
      /\ \A e : Present(e)' = Present(e)
  <2>1. \A f, e, p : InSlot(f, e, p)' <=> InSlot(f, e, p)
    BY <1>1 DEF InSlot
  <2>2. \A e, p : ActiveIn(e, p)' = ActiveIn(e, p)
    BY <1>1 DEF ActiveIn, InSlot
  <2> QED
    BY <2>1, <2>2 DEF Present
<1>3. TypeOK'
  BY <1>1 DEF CycleInv, TypeOK, Status
<1>4. SlotInv'
  BY <1>1, <1>2 DEF CycleInv, SlotInv
<1>5. CompleteIffFull'
  BY <1>1, <1>2 DEF CycleInv, CompleteIffFull, Expire
<1>6. ASSUME NEW s \in Session  PROVE LockOK(s)' /\ RequestOK(s)' /\ CheckedOK(s)'
  <2>1. LockOK(s) /\ RequestOK(s) /\ CheckedOK(s)
    BY DEF CycleInv, SessionInv
  <2>2. Holds(s) => txn[s].date # d /\ txn[s].date \in Date
    BY <1>1, <2>1, CycleAssumption DEF LockOK, Holds, Busy, Txn
  <2>3. LockOK(s)'
    BY <1>1, <2>1, <2>2 DEF LockOK, Holds, Busy
  <2>4. RequestOK(s)' /\ CheckedOK(s)'
    BY <1>1, <1>2, <2>1 DEF RequestOK, CheckedOK, Busy, Inserted, Wrote
  <2> QED
    BY <2>3, <2>4
<1> QED
  BY <1>3, <1>4, <1>5, <1>6 DEF CycleInv, SessionInv

-----------------------------------------------------------------------------
(* Invariants of the specification *)

\* Before the first upload no file and no cycle exists.
LEMMA CycleInit == Init => CycleInv
<1> SUFFICES ASSUME Init  PROVE CycleInv
  OBVIOUS
<1>1. \A f \in File : file[f].life = "free"
  BY DEF Init, FreeFile
<1>2. \A d \in Date, p \in Dept : ActiveIn(d, p) = {}
  BY <1>1 DEF ActiveIn
<1>3. \A d \in Date : Present(d) = {}
  BY <1>2 DEF Present
<1>4. TypeOK
  BY DEF Init, TypeOK, Status, PC
<1>5. SessionInv
  BY DEF Init, SessionInv, LockOK, RequestOK, CheckedOK, Busy, Holds, Inserted, Wrote
<1>6. SlotInv
  BY <1>1, <1>2 DEF SlotInv
<1>7. CompleteIffFull
  BY <1>3 DEF Init, CompleteIffFull
<1> QED
  BY <1>4, <1>5, <1>6, <1>7 DEF CycleInv

\* The invariant is inductive.
LEMMA CycleStep ==
  ASSUME CycleInv, [Next]_vars
  PROVE  CycleInv'
<1>1. ASSUME NEW s \in Session, AskAdd(s)  PROVE CycleInv'
  BY <1>1, RequestInv DEF AskAdd, Op
<1>2. ASSUME NEW s \in Session, AskReplace(s)  PROVE CycleInv'
  <2>1. PICK f \in File, c \in Sha :
          file[f].life # "free" /\ Request(s, "replace", file[f].date, file[f].dept, c, f)
    BY <1>2 DEF AskReplace
  <2>2. file[f].date \in Date /\ file[f].dept \in Dept
    BY <2>1, UsedRow DEF FileRow
  <2>3. InSlot(f, file[f].date, file[f].dept)
    BY <2>1 DEF InSlot
  <2> QED
    BY <2>1, <2>2, <2>3, RequestInv DEF Op
<1>3. ASSUME NEW s \in Session, AskWithdraw(s)  PROVE CycleInv'
  <2>1. PICK f \in File :
          /\ file[f].life = "active"
          /\ Request(s, "withdraw", file[f].date, file[f].dept, file[f].sha, f)
    BY <1>3 DEF AskWithdraw
  <2>2. file[f].date \in Date /\ file[f].dept \in Dept /\ file[f].sha \in Sha
    BY <2>1, UsedRow DEF FileRow
  <2>3. InSlot(f, file[f].date, file[f].dept)
    BY <2>1 DEF InSlot
  <2> QED
    BY <2>1, <2>2, <2>3, RequestInv DEF Op
<1>4. ASSUME NEW s \in Session, Statement(s)  PROVE CycleInv'
  BY <1>4, StatementInv, CommitInv DEF Statement
<1>5. ASSUME NEW s \in Session, Abort(s)  PROVE CycleInv'
  BY <1>5, DropInv DEF Abort
<1>6. ASSUME NEW d \in Date, Expire(d)  PROVE CycleInv'
  BY <1>6, ExpireInv
<1>7. CASE UNCHANGED vars
  <2>1. UNCHANGED <<cycle, report, file>> /\ lock' = lock /\ pc' = pc /\ txn' = txn
    BY <1>7 DEF vars
  <2>2. TypeOK'
    BY <2>1 DEF CycleInv, TypeOK
  <2>3. SessionInv'
    BY <2>1 DEF CycleInv, SessionInv, LockOK, RequestOK, CheckedOK, Busy, Holds, Inserted,
                Wrote, InSlot, ActiveIn, Present
  <2> QED
    BY <2>1, <2>2, <2>3, RowsStill DEF CycleInv
<1> QED
  BY <1>1, <1>2, <1>3, <1>4, <1>5, <1>6, <1>7 DEF Next, Ask, OutOfIds

\* In every reachable state a session past its lock is alone on its cycle and what
\* it has checked of the department still holds, which is why audit_service may
\* count the departments without looking again.
THEOREM CycleInvariant == Spec => []CycleInv
<1> QED
  BY CycleInit, CycleStep, PTL DEF Spec

\* Every column of the tables and every local variable keeps its type.
THEOREM CycleTypeCorrect == Spec => []TypeOK
BY CycleInvariant, PTL DEF CycleInv

\* A cycle completes, with its report, in the very transaction that brings its
\* last department, however many sessions add, replace and withdraw at once.
THEOREM CompleteExactlyWhenFull == Spec => []CompleteIffFull
BY CycleInvariant, PTL DEF CycleInv

-----------------------------------------------------------------------------
(* What a commit does to each file *)

\* The lifecycles and contents a commit leaves: the new file is ACTIVE, the replaced
\* one SUPERSEDED, the withdrawn one REVOKED, the one below it ACTIVE again.
LEMMA CommitEffect ==
  ASSUME CycleInv, NEW s \in Session, Commit(s)
  PROVE  /\ txn[s].op \in Op
         /\ txn[s].op # "withdraw" =>
              /\ txn[s].new \in File /\ file[txn[s].new].life = "free"
              /\ file'[txn[s].new].life = "active" /\ file'[txn[s].new].sha = txn[s].sha
              /\ file'[txn[s].new].base = txn[s].target
         /\ txn[s].op = "add" => txn[s].target = NoFile
         /\ txn[s].op # "add" =>
              /\ txn[s].target \in File /\ file[txn[s].target].life = "active"
              /\ InSlot(txn[s].target, txn[s].date, txn[s].dept)
         /\ txn[s].op = "replace" => file'[txn[s].target].life = "superseded"
         /\ txn[s].op = "withdraw" => file'[txn[s].target].life = "revoked"
         /\ txn[s].op = "withdraw" /\ file[txn[s].target].base # NoFile =>
              /\ file[txn[s].target].base \in File
              /\ file[txn[s].target].base # txn[s].target
              /\ file[file[txn[s].target].base].life # "free"
              /\ file'[file[txn[s].target].base].life = "active"
         /\ \A f \in File :
              \/ file'[f] = file[f]
              \/ txn[s].op # "withdraw" /\ f = txn[s].new
              \/ txn[s].op # "add" /\ f = txn[s].target
              \/ txn[s].op = "withdraw" /\ f = file[txn[s].target].base
         /\ \A f \in File : file[f].life # "free" => file'[f].sha = file[f].sha
<1> DEFINE t == txn[s]  b == file[txn[s].target].base
<1>1. /\ t \in Txn /\ t.op \in Op /\ t.sha \in Sha /\ t.date \in Date /\ t.dept \in Dept
      /\ RequestOK(s) /\ CheckedOK(s) /\ pc[s] = "commit"
  BY DEF CycleInv, SessionInv, LockOK, Commit, Busy, Txn
<1>2. t.op # "withdraw" => /\ t.new \in File /\ file[t.new].life = "free"
  BY <1>1 DEF CheckedOK, Inserted, Wrote
<1>3. t.op # "add" => /\ t.target \in File /\ InSlot(t.target, t.date, t.dept)
                      /\ file[t.target].life = "active" /\ file[t.target] \in FileRow
  <2>1. ASSUME t.op # "add"
        PROVE  /\ t.target \in File /\ InSlot(t.target, t.date, t.dept)
               /\ ActiveIn(t.date, t.dept) = {t.target}
    BY <1>1, <2>1 DEF RequestOK, CheckedOK, Busy
  <2> QED
    BY <2>1, UsedRow DEF ActiveIn, InSlot
<1>4. t.op = "add" => t.target = NoFile
  BY <1>1 DEF RequestOK, Busy
<1>5. t.op = "withdraw" /\ b # NoFile =>
        b \in File /\ b # t.target /\ file[b].life # "free" /\ file[b] \in FileRow
  <2>1. ASSUME t.op = "withdraw", b # NoFile
        PROVE  b \in File /\ b # t.target /\ file[b].life # "free"
    BY <1>3, <2>1 DEF CycleInv, SlotInv, FileRow, InSlot
  <2> QED
    BY <2>1, UsedRow
<1>6. file' = CommittedFile(s)
  BY DEF Commit
<1>7. ASSUME NEW f \in File
      PROVE  /\ t.op # "withdraw" /\ f = t.new =>
                  file'[f] = [life |-> "active", date |-> t.date, dept |-> t.dept,
                              sha |-> t.sha, base |-> t.target]
             /\ t.op = "replace" /\ f = t.target => file'[f] = [file[f] EXCEPT !.life = "superseded"]
             /\ t.op = "withdraw" /\ f = t.target => file'[f] = [file[f] EXCEPT !.life = "revoked"]
             /\ t.op = "withdraw" /\ f = b /\ f # t.target =>
                  file'[f] = [file[f] EXCEPT !.life = "active"]
             /\ ~(t.op # "withdraw" /\ f = t.new) /\ ~(t.op # "add" /\ f = t.target)
                /\ ~(t.op = "withdraw" /\ f = b) => file'[f] = file[f]
  <2>1. t.op # "add" /\ f = t.target => f # t.new \/ t.op = "withdraw"
    BY <1>2, <1>3
  <2>2. t.op \in {"add", "replace", "withdraw"}
    BY <1>1 DEF Op
  <2> QED
    BY <1>6, <2>1, <2>2 DEF CommittedFile
<1> HIDE DEF t, b
<1>8. \A f \in File :
        \/ file'[f] = file[f]
        \/ t.op # "withdraw" /\ f = t.new
        \/ t.op # "add" /\ f = t.target
        \/ t.op = "withdraw" /\ f = b
  BY <1>7
<1>9. t.op # "withdraw" => /\ file'[t.new].life = "active" /\ file'[t.new].sha = t.sha
                           /\ file'[t.new].base = t.target
  <2>1. ASSUME t.op # "withdraw"
        PROVE  file'[t.new] = [life |-> "active", date |-> t.date, dept |-> t.dept,
                               sha |-> t.sha, base |-> t.target]
    BY <1>2, <1>7, <2>1
  <2> QED
    BY <2>1
<1>s. {"active", "superseded", "revoked"} = Life
  BY DEF Life
<1>10. t.op = "replace" => file'[t.target].life = "superseded" /\ file'[t.target].sha = file[t.target].sha
  <2>1. ASSUME t.op = "replace"  PROVE file'[t.target] = [file[t.target] EXCEPT !.life = "superseded"]
    BY <1>3, <1>7, <2>1
  <2>2. ASSUME file[t.target] \in FileRow
        PROVE  /\ [file[t.target] EXCEPT !.life = "superseded"].life = "superseded"
               /\ [file[t.target] EXCEPT !.life = "superseded"].sha = file[t.target].sha
    BY <1>s, <2>2, LifeType
  <2> QED
    BY <1>3, <2>1, <2>2
<1>11. t.op = "withdraw" => file'[t.target].life = "revoked" /\ file'[t.target].sha = file[t.target].sha
  <2>1. ASSUME t.op = "withdraw"  PROVE file'[t.target] = [file[t.target] EXCEPT !.life = "revoked"]
    BY <1>3, <1>7, <2>1
  <2>2. ASSUME file[t.target] \in FileRow
        PROVE  /\ [file[t.target] EXCEPT !.life = "revoked"].life = "revoked"
               /\ [file[t.target] EXCEPT !.life = "revoked"].sha = file[t.target].sha
    BY <1>s, <2>2, LifeType
  <2> QED
    BY <1>3, <2>1, <2>2
<1>12. t.op = "withdraw" /\ b # NoFile => file'[b].life = "active" /\ file'[b].sha = file[b].sha
  <2>1. ASSUME t.op = "withdraw", b # NoFile  PROVE file'[b] = [file[b] EXCEPT !.life = "active"]
    BY <1>5, <1>7, <2>1
  <2>2. ASSUME file[b] \in FileRow
        PROVE  /\ [file[b] EXCEPT !.life = "active"].life = "active"
               /\ [file[b] EXCEPT !.life = "active"].sha = file[b].sha
    BY <1>s, <2>2, LifeType
  <2> QED
    BY <1>5, <2>1, <2>2
<1>13. \A f \in File : file[f].life # "free" => file'[f].sha = file[f].sha
  <2>1. t.op \in {"add", "replace", "withdraw"}
    BY <1>1 DEF Op
  <2> QED
    BY <1>2, <1>8, <1>10, <1>11, <1>12, <2>1, NoFileNotFile
<1> QED
  BY <1>1, <1>2, <1>3, <1>4, <1>5, <1>8, <1>9, <1>10, <1>11, <1>12, <1>13 DEF t, b

-----------------------------------------------------------------------------
(* The stack of replacements *)

Kept(f) == file[f].life \in {"active", "superseded"}
Above(f) == {g \in File : Kept(g) /\ file[g].base = f}

\* "Exactly one file is above it", without counting.
LEMMA OneAbove ==
  ASSUME NEW S \in SUBSET File
  PROVE  Cardinality(S) = 1 <=> \E x \in File : S = {x}
<1>1. IsFiniteSet(File)
  BY CycleAssumption, FS_Interval DEF File
<1>2. IsFiniteSet(S)
  BY <1>1, FS_Subset
<1> QED
  BY <1>2, FS_Singleton

\* What a commit does to the stack: the new file comes, the withdrawn one goes,
\* the replaced one is covered and the one below a withdrawn file uncovered.
LEMMA CommitStack ==
  ASSUME CycleInv, ReplacedCanBeRestored, NEW s \in Session, Commit(s), NEW f \in File
  PROVE  /\ Kept(f)' <=> \/ txn[s].op # "withdraw" /\ f = txn[s].new
                         \/ Kept(f) /\ ~(txn[s].op = "withdraw" /\ f = txn[s].target)
         /\ file'[f].life = "superseded" <=>
              \/ txn[s].op = "replace" /\ f = txn[s].target
              \/ /\ file[f].life = "superseded"
                 /\ ~(txn[s].op = "withdraw" /\ f = file[txn[s].target].base)
<1> DEFINE t == txn[s]  b == file[txn[s].target].base
<1>1. /\ t.op \in {"add", "replace", "withdraw"}
      /\ t.op # "withdraw" => t.new \in File /\ file[t.new].life = "free"
                              /\ file'[t.new].life = "active"
      /\ t.op # "add" => t.target \in File /\ file[t.target].life = "active"
      /\ t.op = "replace" => file'[t.target].life = "superseded"
      /\ t.op = "withdraw" => file'[t.target].life = "revoked"
  BY CommitEffect DEF Op
<1>2. t.op = "withdraw" /\ b # NoFile =>
        /\ b \in File /\ b # t.target /\ file[b].life = "superseded" /\ file'[b].life = "active"
  BY <1>1, CommitEffect DEF ReplacedCanBeRestored
<1>3. \/ file'[f] = file[f]
      \/ t.op # "withdraw" /\ f = t.new
      \/ t.op # "add" /\ f = t.target
      \/ t.op = "withdraw" /\ f = b
  BY CommitEffect
<1>4. t.op = "withdraw" /\ f = b => b # NoFile
  BY NoFileNotFile
<1> HIDE DEF t, b
<1>5. CASE t.op # "withdraw" /\ f = t.new
  BY <1>1, <1>5 DEF Kept, t, b
<1>6. CASE t.op # "add" /\ f = t.target
  BY <1>1, <1>2, <1>4, <1>6 DEF Kept, t, b
<1>7. CASE t.op = "withdraw" /\ f = b
  BY <1>1, <1>2, <1>4, <1>7 DEF Kept, t, b
<1>8. CASE file'[f] = file[f]
  BY <1>1, <1>2, <1>4, <1>8 DEF Kept, t, b
<1> QED
  BY <1>3, <1>5, <1>6, <1>7, <1>8

\* A commit keeps the stacks: only the top of one is replaced or withdrawn.
LEMMA StackInv ==
  ASSUME CycleInv, ReplacedCanBeRestored, NEW s \in Session, Commit(s)
  PROVE  ReplacedCanBeRestored'
<1> DEFINE t == txn[s]
<1>1. CycleInv'
  BY CommitInv
<1>2. /\ t.op \in {"add", "replace", "withdraw"}
      /\ t.op # "withdraw" => t.new \in File /\ file[t.new].life = "free" /\ file'[t.new].base = t.target
      /\ t.op = "add" => t.target = NoFile
      /\ t.op # "add" => t.target \in File /\ file[t.target].life = "active"
  BY CommitEffect DEF Op
<1>3. \A f \in File : file[f].life # "free" => file'[f].base = file[f].base /\ file'[f].life # "free"
  BY CommitRows
<1>4. \A f \in File : /\ Kept(f) /\ file[f].base # NoFile => file[file[f].base].life = "superseded"
                      /\ file[f].life = "superseded" => \E x \in File : Above(f) = {x}
  <2>1. ASSUME NEW f \in File, file[f].life = "superseded"
        PROVE  \E x \in File : Above(f) = {x}
    BY <2>1, OneAbove DEF ReplacedCanBeRestored, Above, Kept
  <2> QED
    BY <2>1 DEF ReplacedCanBeRestored, Kept
<1>5. \A f \in File : Kept(f) => file[f].life # "free"
  BY DEF Kept
<1> HIDE DEF t
<1>6. ASSUME NEW f \in File, Kept(f)', file'[f].base # NoFile
      PROVE  /\ file'[file'[f].base].life = "superseded"
             /\ InSlot(file[f].base, file[f].date, file[f].dept)'
  <2>1. Kept(f)' /\ file'[f].life # "free" /\ file'[f] \in FileRow
    <3>1. file' \in [File -> FileRow \cup {FreeFile}]
      BY CommitRows
    <3> QED
      BY <1>6, <3>1 DEF Kept, FreeFile
  <2>2. InSlot(file[f].base, file[f].date, file[f].dept)' /\ file'[f].base \in File
    BY <1>1, <1>6, <2>1 DEF CycleInv, SlotInv, FileRow
  <2>3. CASE t.op # "withdraw" /\ f = t.new
    <3>1. t.op = "replace" /\ file'[f].base = t.target
      BY <1>2, <1>6, <2>3
    <3> QED
      BY <1>2, <2>2, <3>1, CommitStack DEF t
  <2>4. CASE ~(t.op # "withdraw" /\ f = t.new)
    <3>1. Kept(f) /\ ~(t.op = "withdraw" /\ f = t.target)
      BY <1>6, <2>4, CommitStack DEF t
    <3>2. PICK g \in File : g = file[f].base /\ g = file'[f].base
      BY <1>3, <1>5, <2>2, <3>1
    <3>3. file[g].life = "superseded"
      BY <1>4, <1>6, <3>1, <3>2
    <3>4. ~(t.op = "withdraw" /\ g = file[t.target].base)
      <4>1. SUFFICES ASSUME t.op = "withdraw", g = file[t.target].base  PROVE FALSE
        OBVIOUS
      <4>2. f \in Above(g) /\ t.target \in Above(g)
        BY <1>2, <3>1, <3>2, <4>1 DEF Above, Kept
      <4> QED
        BY <1>4, <3>1, <3>3, <4>1, <4>2
    <3> QED
      BY <2>2, <3>2, <3>3, <3>4, CommitStack DEF t
  <2> QED
    BY <2>3, <2>4
<1>7. ASSUME NEW f \in File, file'[f].life = "superseded"
      PROVE  \E x \in File : Above(f)' = {x}
  <2>1. \A g \in File : g \in Above(f)' <=> Kept(g)' /\ file'[g].base = f
    BY DEF Above
  <2>2. Above(f)' \subseteq File /\ Above(f) \subseteq File
    BY DEF Above
  <2>3. CASE t.op = "replace" /\ f = t.target
    <3>1. ASSUME NEW g \in File  PROVE g \in Above(f)' <=> g = t.new
      <4>1. Kept(g)' <=> g = t.new \/ Kept(g)
        BY <2>3, CommitStack DEF t
      <4>2. ~(Kept(g) /\ file[g].base = f)
        BY <1>2, <1>4, <2>3, NoFileNotFile
      <4> QED
        BY <1>2, <1>3, <1>5, <2>1, <2>3, <4>1, <4>2
    <3> QED
      BY <1>2, <2>2, <2>3, <3>1
  <2>4. CASE ~(t.op = "replace" /\ f = t.target)
    <3>1. file[f].life = "superseded" /\ ~(t.op = "withdraw" /\ f = file[t.target].base)
      BY <1>7, <2>4, CommitStack DEF t
    <3>2. ASSUME NEW g \in File  PROVE g \in Above(f)' <=> g \in Above(f)
      <4>1. Kept(g)' <=> \/ t.op # "withdraw" /\ g = t.new
                         \/ Kept(g) /\ ~(t.op = "withdraw" /\ g = t.target)
        BY CommitStack DEF t
      <4>2. g \in Above(f) <=> Kept(g) /\ file[g].base = f
        BY DEF Above
      <4>3. CASE t.op # "withdraw" /\ g = t.new
        BY <1>2, <1>5, <2>1, <2>4, <4>2, <4>3, NoFileNotFile
      <4>4. CASE ~(t.op # "withdraw" /\ g = t.new)
        BY <1>3, <1>5, <2>1, <3>1, <4>1, <4>2, <4>4
      <4> QED
        BY <4>3, <4>4
    <3> QED
      BY <1>4, <2>2, <3>1, <3>2
  <2> QED
    BY <2>3, <2>4
<1>8. ASSUME NEW f \in File, file'[f].life = "superseded"
      PROVE  Cardinality({g \in File : /\ file'[g].life \in {"active", "superseded"}
                                       /\ file'[g].base = f}) = 1
  <2> DEFINE S == {g \in File : /\ file'[g].life \in {"active", "superseded"}
                                /\ file'[g].base = f}
  <2>1. S = Above(f)'
    BY DEF Above, Kept
  <2>2. S \in SUBSET File /\ \E x \in File : S = {x}
    BY <1>7, <1>8, <2>1
  <2> HIDE DEF S
  <2>3. Cardinality(S) = 1
    BY <2>2, OneAbove
  <2> QED
    BY <2>3 DEF S
<1> QED
  BY <1>6, <1>8 DEF ReplacedCanBeRestored, Kept

-----------------------------------------------------------------------------
(* Contents *)

\* One session takes a step that commits nothing; what it is then about to
\* commit or to release is what no other session has inserted.
LEMMA ContentFrame ==
  ASSUME FilesInv, NEW s \in Session, file' = file,
         \A q \in Session \ {s} : pc'[q] = pc[q] /\ txn'[q] = txn[q],
         ContentOK(s)',
         Wrote(s)' => \A q \in Session \ {s} : Inserted(q) => txn[q].sha # txn'[s].sha
  PROVE  ContentInv'
<1>1. \A c : Held(c)' <=> Held(c)
  BY DEF Held
<1>2. ASSUME NEW q \in Session \ {s}  PROVE ContentOK(q)'
  <2>1. ContentOK(q) /\ pc'[q] = pc[q] /\ txn'[q] = txn[q]
    BY DEF FilesInv, ContentInv
  <2>2. Busy(q)' /\ txn'[q].op = "withdraw" => txn'[q].sha = file'[txn'[q].target].sha
    BY <2>1 DEF ContentOK, Busy
  <2>3. ASSUME Inserted(q)'
        PROVE  /\ ~Held(txn[q].sha)
               /\ \A x \in Session \ {q} : Wrote(x)' => txn'[x].sha # txn[q].sha
    <3>1. Inserted(q)
      BY <2>1, <2>3 DEF Inserted, Wrote
    <3>2. \A x \in Session \ {q, s} : Wrote(x)' => Wrote(x) /\ txn'[x] = txn[x]
      BY DEF Wrote
    <3> QED
      BY <2>1, <3>1, <3>2 DEF ContentOK
  <2>4. Inserted(q)' => ~Held(txn[q].sha)'
    BY <2>1, <2>3 DEF Held
  <2> QED
    BY <2>1, <2>2, <2>3, <2>4 DEF ContentOK
<1> QED
  BY <1>2 DEF ContentInv

\* A step that commits nothing leaves the rows, and so the stacks and the contents
\* of the rows, as they are.
LEMMA FilesStill ==
  ASSUME FilesInv, CycleInv', file' = file, ContentInv'
  PROVE  FilesInv'
<1>1. FilesUnique'
  BY DEF FilesInv, FilesUnique
<1>2. ReplacedCanBeRestored'
  BY DEF FilesInv, ReplacedCanBeRestored, InSlot
<1> QED
  BY <1>1, <1>2 DEF FilesInv

\* A request, and the end of a transaction without an effect, keep the contents apart.
LEMMA RequestContent ==
  ASSUME FilesInv, NEW s \in Session, Ask(s) \/ Drop(s)
  PROVE  ContentInv' /\ file' = file
<1>1. pc \in [Session -> PC] /\ txn \in [Session -> Txn \cup {NoTxn}]
  BY DEF FilesInv, CycleInv, TypeOK
<1>2. CASE Drop(s)
  <2>1. /\ pc'[s] = "idle" /\ file' = file
        /\ \A q \in Session \ {s} : pc'[q] = pc[q] /\ txn'[q] = txn[q]
    BY <1>1, <1>2 DEF Drop
  <2>2. ContentOK(s)' /\ ~Wrote(s)'
    BY <2>1 DEF ContentOK, Busy, Inserted, Wrote
  <2> QED
    BY <2>1, <2>2, ContentFrame
<1>3. ASSUME NEW op, NEW d, NEW p, NEW c, NEW f, Request(s, op, d, p, c, f),
             op = "withdraw" => c = file[f].sha
      PROVE  ContentInv' /\ file' = file
  <2>1. /\ pc'[s] = "lock" /\ file' = file
        /\ \A q \in Session \ {s} : pc'[q] = pc[q] /\ txn'[q] = txn[q]
        /\ txn'[s].op = op /\ txn'[s].sha = c /\ txn'[s].target = f
    BY <1>1, <1>3 DEF Request
  <2>2. ContentOK(s)' /\ ~Wrote(s)'
    BY <1>3, <2>1 DEF ContentOK, Busy, Inserted, Wrote
  <2> QED
    BY <2>1, <2>2, ContentFrame
<1>4. CASE AskAdd(s)
  BY <1>3, <1>4 DEF AskAdd
<1>5. CASE AskReplace(s)
  BY <1>3, <1>5 DEF AskReplace
<1>6. CASE AskWithdraw(s)
  BY <1>3, <1>6 DEF AskWithdraw
<1> QED
  BY <1>2, <1>4, <1>5, <1>6 DEF Ask

\* The statements before the commit keep the contents apart: an insert waits for the
\* sessions that are about to commit or to release its content.
LEMMA StatementContent ==
  ASSUME FilesInv, NEW s \in Session,
         LockCycle(s) \/ CreateCycle(s) \/ Check(s) \/ Write(s) \/ Finalize(s)
  PROVE  ContentInv' /\ file' = file
<1>1. /\ pc \in [Session -> PC] /\ txn \in [Session -> Txn \cup {NoTxn}]
      /\ LockOK(s) /\ RequestOK(s) /\ CheckedOK(s) /\ ContentOK(s)
  BY DEF FilesInv, CycleInv, TypeOK, SessionInv, ContentInv
<1>2. Busy(s) /\ txn[s] \in Txn
  BY <1>1 DEF LockCycle, CreateCycle, Check, Write, Finalize, Busy, LockOK
<1>3. CASE Drop(s)
  BY <1>3, RequestContent
<1>4. ASSUME NEW to \in {"create", "check", "write", "lock"}, Go(s, to), file' = file,
             txn' = txn \/ txn' = [txn EXCEPT ![s].attempt = 2]
      PROVE  ContentInv' /\ file' = file
  <2>1. /\ pc'[s] = to /\ \A q \in Session \ {s} : pc'[q] = pc[q] /\ txn'[q] = txn[q]
        /\ txn'[s].op = txn[s].op /\ txn'[s].sha = txn[s].sha /\ txn'[s].target = txn[s].target
    <3>1. /\ txn'[s].op = txn[s].op /\ txn'[s].sha = txn[s].sha /\ txn'[s].target = txn[s].target
          /\ \A q \in Session \ {s} : txn'[q] = txn[q]
      BY <1>1, <1>2, <1>4 DEF Txn
    <3> QED
      BY <1>1, <1>4, <3>1 DEF Go
  <2>2. ContentOK(s)' /\ ~Wrote(s)'
    BY <1>1, <1>2, <1>4, <2>1 DEF ContentOK, Busy, Inserted, Wrote
  <2> QED
    BY <1>4, <2>1, <2>2, ContentFrame
<1>5. CASE LockCycle(s)
  BY <1>3, <1>4, <1>5 DEF LockCycle
<1>6. CASE CreateCycle(s)
  BY <1>3, <1>4, <1>6 DEF CreateCycle
<1>7. CASE Check(s)
  BY <1>3, <1>4, <1>7 DEF Check
<1>8. CASE Write(s)
  <2>1. CASE txn[s].op = "withdraw" /\ Go(s, "commit") /\ UNCHANGED <<cycle, report, file, lock, txn>>
    <3>1. pc'[s] = "commit" /\ \A q \in Session \ {s} : pc'[q] = pc[q] /\ txn'[q] = txn[q]
      BY <1>1, <2>1 DEF Go
    <3>2. Held(txn[s].sha)
      <4>1. ActiveIn(txn[s].date, txn[s].dept) = {txn[s].target}
        BY <1>1, <1>8, <2>1 DEF CheckedOK, Write
      <4>2. txn[s].target \in File /\ file[txn[s].target].life = "active"
        BY <4>1 DEF ActiveIn
      <4>3. txn[s].sha = file[txn[s].target].sha
        BY <1>1, <1>2, <2>1 DEF ContentOK
      <4> QED
        BY <4>2, <4>3 DEF Held
    <3>3. \A q \in Session \ {s} : Inserted(q) => txn[q].sha # txn[s].sha
      BY <3>2 DEF FilesInv, ContentInv, ContentOK
    <3>4. ContentOK(s)'
      BY <1>1, <1>2, <2>1, <3>1 DEF ContentOK, Busy, Inserted, Wrote
    <3> QED
      BY <2>1, <3>1, <3>3, <3>4, ContentFrame
  <2>2. ASSUME NEW f \in File, txn[s].op # "withdraw", ~ShaContended(s, txn[s].sha),
               ~Held(txn[s].sha), txn' = [txn EXCEPT ![s].new = f], Go(s, "finalize"),
               file' = file
        PROVE  ContentInv' /\ file' = file
    <3>1. /\ txn'[s].op = txn[s].op /\ txn'[s].sha = txn[s].sha
          /\ \A q \in Session \ {s} : txn'[q] = txn[q]
      BY <1>1, <1>2, <2>2 DEF Txn
    <3>2. pc'[s] = "finalize" /\ \A q \in Session \ {s} : pc'[q] = pc[q]
      BY <1>1, <2>2 DEF Go
    <3>3. \A q \in Session \ {s} : Wrote(q) => txn[q].sha # txn[s].sha
      BY <2>2 DEF ShaContended
    <3>4. \A q \in Session \ {s} : Wrote(q)' => Wrote(q) /\ txn'[q].sha = txn[q].sha
      BY <3>1, <3>2 DEF Wrote
    <3>5. ~Held(txn[s].sha)'
      BY <2>2, <3>1 DEF Held
    <3>6. ContentOK(s)'
      BY <2>2, <3>1, <3>3, <3>4, <3>5 DEF ContentOK
    <3> QED
      BY <2>2, <3>1, <3>2, <3>3, <3>6, ContentFrame DEF Inserted
  <2> QED
    BY <1>3, <1>8, <2>1, <2>2 DEF Write, Unused
<1>9. CASE Finalize(s)
  <2>1. \E b : txn' = [txn EXCEPT ![s].full = b]
    BY <1>9 DEF Finalize
  <2>2. /\ txn'[s].op = txn[s].op /\ txn'[s].sha = txn[s].sha
        /\ \A q \in Session \ {s} : txn'[q] = txn[q]
    BY <1>1, <1>2, <2>1 DEF Txn
  <2>3. pc[s] = "finalize" /\ pc'[s] = "commit" /\ file' = file
        /\ \A q \in Session \ {s} : pc'[q] = pc[q]
    BY <1>1, <1>9 DEF Finalize, Go
  <2>4. Inserted(s) /\ txn'[s].op # "withdraw"
    BY <1>1, <2>2, <2>3 DEF RequestOK, Inserted, Wrote, Busy
  <2>5. ~Held(txn[s].sha) /\ \A q \in Session \ {s} : Wrote(q) => txn[q].sha # txn[s].sha
    BY <1>1, <2>4 DEF ContentOK
  <2>6. \A q \in Session \ {s} : Wrote(q)' => Wrote(q) /\ txn'[q].sha = txn[q].sha
    BY <2>2, <2>3 DEF Wrote
  <2>7. ~Held(txn[s].sha)'
    BY <2>2, <2>3, <2>5 DEF Held
  <2>8. ContentOK(s)'
    BY <2>2, <2>4, <2>5, <2>6, <2>7 DEF ContentOK
  <2> QED
    BY <2>2, <2>3, <2>5, <2>8, ContentFrame DEF Inserted
<1> QED
  BY <1>5, <1>6, <1>7, <1>8, <1>9

\* A commit keeps the contents apart: the content it brings is held by no row, and
\* the file it restores was holding its own all the time.
LEMMA CommitContent ==
  ASSUME FilesInv, NEW s \in Session, Commit(s)
  PROVE  FilesInv'
<1> DEFINE t == txn[s]
<1>1. CycleInv' /\ ReplacedCanBeRestored'
  BY CommitInv, StackInv DEF FilesInv
<1>2. /\ pc \in [Session -> PC] /\ txn \in [Session -> Txn \cup {NoTxn}]
      /\ pc[s] = "commit" /\ pc'[s] = "idle"
      /\ \A q \in Session \ {s} : pc'[q] = pc[q] /\ txn'[q] = txn[q]
  BY DEF FilesInv, CycleInv, TypeOK, Commit, Go
<1>3. /\ t.op # "withdraw" => t.new \in File /\ file'[t.new].sha = t.sha /\ ~Held(t.sha)
      /\ \A q \in Session \ {s} : Inserted(q) => txn[q].sha # t.sha
  <2>1. t.op # "withdraw" => t.new \in File /\ file'[t.new].sha = t.sha
    BY CommitEffect DEF FilesInv
  <2>2. t.op # "withdraw" => ~Held(t.sha)
    BY <1>2 DEF FilesInv, ContentInv, ContentOK, Inserted, Wrote
  <2>3. \A q \in Session \ {s} : Inserted(q) => txn[q].sha # t.sha
    BY <1>2 DEF FilesInv, ContentInv, ContentOK, Wrote
  <2> QED
    BY <2>1, <2>2, <2>3
<1> HIDE DEF t
\* Afterwards a file is kept that was kept before with the same content, or is new.
<1>4. ASSUME NEW f \in File, Kept(f)'
      PROVE  \/ Kept(f) /\ file'[f].sha = file[f].sha
             \/ t.op # "withdraw" /\ f = t.new /\ file'[f].sha = t.sha
  <2>1. Kept(f) => file'[f].sha = file[f].sha
    BY CommitEffect DEF FilesInv, Kept
  <2> QED
    BY <1>3, <1>4, <2>1, CommitStack DEF FilesInv, t
<1>5. \A f \in File : Kept(f) => Held(file[f].sha)
  BY DEF Kept, Held
<1>6. ASSUME NEW f \in File, NEW g \in File, f # g, Kept(f)', Kept(g)'
      PROVE  file'[f].sha # file'[g].sha
  <2>1. Kept(f) /\ Kept(g) => file[f].sha # file[g].sha
    BY <1>6 DEF FilesInv, FilesUnique, Kept
  <2> QED
    BY <1>3, <1>4, <1>5, <1>6, <2>1
<1>7. ASSUME NEW f \in File, NEW g \in File, f # g,
             file'[f].life = "active", file'[g].life = "active",
             file'[f].date = file'[g].date, file'[f].dept = file'[g].dept
      PROVE  FALSE
  <2>1. file'[f].date \in Date /\ file'[f].dept \in Dept
    <3>1. file' \in [File -> FileRow \cup {FreeFile}]
      BY <1>1 DEF CycleInv, TypeOK
    <3> QED
      BY <1>7, <3>1 DEF FreeFile, FileRow
  <2>2. PICK d \in Date, p \in Dept : d = file'[f].date /\ p = file'[f].dept
    BY <2>1
  <2>3. f \in ActiveIn(d, p)' /\ g \in ActiveIn(d, p)'
    BY <1>7, <2>2 DEF ActiveIn, InSlot
  <2> QED
    BY <1>1, <1>7, <2>3 DEF CycleInv, SlotInv
<1>8. FilesUnique'
  BY <1>6, <1>7 DEF FilesUnique, Kept
<1>9. ASSUME NEW q \in Session  PROVE ContentOK(q)'
  <2>1. CASE q = s
    BY <1>2, <2>1 DEF ContentOK, Busy, Inserted, Wrote
  <2>2. CASE q # s
    <3>1. ContentOK(q) /\ RequestOK(q) /\ pc'[q] = pc[q] /\ txn'[q] = txn[q]
      BY <1>2, <2>2 DEF FilesInv, ContentInv, CycleInv, SessionInv
    <3>2. ASSUME Busy(q), txn[q].op = "withdraw"
          PROVE  txn[q].sha = file'[txn[q].target].sha
      <4>1. txn[q].target \in File /\ file[txn[q].target].life # "free"
        BY <3>1, <3>2 DEF RequestOK, InSlot
      <4>2. file'[txn[q].target].sha = file[txn[q].target].sha
        BY <4>1, CommitEffect DEF FilesInv
      <4> QED
        BY <3>1, <3>2, <4>2 DEF ContentOK
    <3>3. ASSUME Inserted(q)  PROVE ~Held(txn[q].sha)'
      <4>1. ~Held(txn[q].sha) /\ txn[q].sha # t.sha
        BY <1>3, <2>2, <3>1, <3>3 DEF ContentOK
      <4>2. ASSUME NEW f \in File, Kept(f)'  PROVE file'[f].sha # txn[q].sha
        BY <1>4, <1>5, <4>1, <4>2
      <4> QED
        BY <3>1, <4>2 DEF Held, Kept
    <3>4. \A x \in Session : Wrote(x)' => Wrote(x) /\ txn'[x] = txn[x]
      BY <1>2 DEF Wrote
    <3>5. Inserted(q)' <=> Inserted(q)
      BY <3>1 DEF Inserted, Wrote
    <3>6. Inserted(q) => \A x \in Session \ {q} : Wrote(x)' => txn'[x].sha # txn'[q].sha
      BY <3>1, <3>4 DEF ContentOK
    <3>7. Inserted(q) => ~Held(txn[q].sha)'
      BY <3>1, <3>3 DEF Held
    <3> QED
      BY <3>1, <3>2, <3>5, <3>6, <3>7 DEF ContentOK, Busy
  <2> QED
    BY <2>1, <2>2
<1> QED
  BY <1>1, <1>8, <1>9 DEF FilesInv, ContentInv

\* Before the first upload there is nothing to keep apart.
LEMMA FilesInit == Init => FilesInv
<1> SUFFICES ASSUME Init  PROVE FilesInv
  OBVIOUS
<1>1. \A f \in File : file[f].life = "free"
  BY DEF Init, FreeFile
<1>2. CycleInv
  BY CycleInit
<1>3. ContentInv
  BY DEF Init, ContentInv, ContentOK, Busy, Inserted, Wrote
<1>4. FilesUnique /\ ReplacedCanBeRestored
  BY <1>1 DEF FilesUnique, ReplacedCanBeRestored
<1> QED
  BY <1>2, <1>3, <1>4 DEF FilesInv

\* The invariant of files and contents is inductive.
LEMMA FilesStep ==
  ASSUME FilesInv, [Next]_vars
  PROVE  FilesInv'
<1>1. CycleInv'
  BY CycleStep DEF FilesInv
<1>2. ASSUME NEW s \in Session, Ask(s) \/ Statement(s) \/ Abort(s)  PROVE FilesInv'
  <2>1. CASE Commit(s)
    BY <2>1, CommitContent
  <2>2. CASE Ask(s) \/ Drop(s)
    BY <1>1, <2>2, RequestContent, FilesStill
  <2>3. CASE LockCycle(s) \/ CreateCycle(s) \/ Check(s) \/ Write(s) \/ Finalize(s)
    BY <1>1, <2>3, StatementContent, FilesStill
  <2> QED
    BY <1>2, <2>1, <2>2, <2>3 DEF Statement, Abort
<1>3. ASSUME UNCHANGED <<file, pc, txn>>  PROVE FilesInv'
  <2>1. ContentInv'
    BY <1>3 DEF FilesInv, ContentInv, ContentOK, Busy, Inserted, Wrote, Held
  <2> QED
    BY <1>1, <1>3, <2>1, FilesStill
<1>4. ASSUME NEW d \in Date, Expire(d)  PROVE FilesInv'
  BY <1>3, <1>4 DEF Expire
<1>5. CASE UNCHANGED vars
  BY <1>3, <1>5 DEF vars
<1> QED
  BY <1>2, <1>4, <1>5 DEF Next, OutOfIds

\* In every reachable state the content that a session has inserted belongs to it
\* alone until it commits, and every stack of replacements is whole.
THEOREM FilesInvariant == Spec => []FilesInv
<1> QED
  BY FilesInit, FilesStep, PTL DEF Spec

\* A department has one ACTIVE file in a cycle at most and no content is held twice,
\* whichever sessions of however many cycles add, replace and restore at once.
THEOREM ContentsAreUnique == Spec => []FilesUnique
BY FilesInvariant, PTL DEF FilesInv

\* The file below an ACTIVE or SUPERSEDED one is SUPERSEDED and in its slot, and
\* exactly one is above it: withdraw_source_file_atomic can always restore it.
THEOREM UndoRestores == Spec => []ReplacedCanBeRestored
BY FilesInvariant, PTL DEF FilesInv

-----------------------------------------------------------------------------
(* Closed cycles *)

\* A step changes neither a closed cycle, nor its report, nor any of its files.
LEMMA FrozenStep ==
  ASSUME CycleInv, [Next]_vars, NEW d \in Date, cycle[d] \in {"completed", "expired"}
  PROVE  /\ cycle'[d] = cycle[d] /\ report'[d] = report[d]
         /\ \A p \in Dept : {f \in File : InSlot(f, d, p)}' = {f \in File : InSlot(f, d, p)}
         /\ \A f \in File : file[f].life # "free" /\ file[f].date = d => file'[f] = file[f]
<1> DEFINE Frozen == /\ cycle'[d] = cycle[d] /\ report'[d] = report[d]
                     /\ \A p \in Dept : {f \in File : InSlot(f, d, p)}' = {f \in File : InSlot(f, d, p)}
                     /\ \A f \in File : file[f].life # "free" /\ file[f].date = d => file'[f] = file[f]
<1>1. cycle \in [Date -> Status] /\ report \in [Date -> BOOLEAN]
  BY DEF CycleInv, TypeOK
<1>2. CASE UNCHANGED <<cycle, report, file>>
  BY <1>2 DEF InSlot
<1>3. ASSUME NEW e \in Date, Expire(e)  PROVE Frozen
  <2>1. e # d
    BY <1>3 DEF Expire
  <2> QED
    BY <1>1, <1>3, <2>1 DEF Expire, InSlot
<1>4. ASSUME NEW s \in Session, Commit(s)  PROVE Frozen
  <2>1. txn[s].date # d /\ txn[s].date \in Date
    BY <1>4 DEF CycleInv, SessionInv, LockOK, Holds, Busy, Commit, Txn
  <2>2. cycle'[d] = cycle[d] /\ report'[d] = report[d]
    BY <1>1, <1>4, <2>1 DEF Commit
  <2>3. ASSUME NEW f \in File, file[f].life # "free", file[f].date = d
        PROVE  file'[f] = file[f]
    <3>1. ~(txn[s].op # "withdraw" /\ f = txn[s].new)
      BY <1>4, <2>3, CommitEffect
    <3>2. ~(txn[s].op # "add" /\ f = txn[s].target)
      BY <1>4, <2>1, <2>3, CommitEffect DEF InSlot
    <3>3. ~(txn[s].op = "withdraw" /\ f = file[txn[s].target].base)
      <4>1. SUFFICES ASSUME txn[s].op = "withdraw", f = file[txn[s].target].base  PROVE FALSE
        OBVIOUS
      <4>2. /\ txn[s].target \in File /\ file[txn[s].target].life = "active"
            /\ file[txn[s].target].date = txn[s].date
        BY <1>4, <4>1, CommitEffect DEF InSlot
      <4>3. InSlot(f, file[txn[s].target].date, file[txn[s].target].dept)
        BY <4>1, <4>2, NoFileNotFile DEF CycleInv, SlotInv
      <4> QED
        BY <2>1, <2>3, <4>2, <4>3 DEF InSlot
    <3> QED
      BY <1>4, <3>1, <3>2, <3>3, CommitEffect
  <2>4. ASSUME NEW p \in Dept, NEW f \in File  PROVE InSlot(f, d, p)' <=> InSlot(f, d, p)
    BY <1>4, <2>1, CommitRows DEF InSlot
  <2>5. \A p \in Dept : {f \in File : InSlot(f, d, p)}' = {f \in File : InSlot(f, d, p)}
    BY <2>4
  <2> QED
    BY <2>2, <2>3, <2>5
<1>5. ASSUME NEW s \in Session, Ask(s) \/ Statement(s) \/ Abort(s)  PROVE Frozen
  <2>1. Commit(s) \/ UNCHANGED <<cycle, report, file>>
    BY <1>5 DEF Ask, AskAdd, AskReplace, AskWithdraw, Request, Statement, LockCycle, CreateCycle,
                Check, Write, Finalize, Abort, Drop
  <2> QED
    BY <1>2, <1>4, <2>1
<1> QED
  BY <1>2, <1>3, <1>5 DEF Next, OutOfIds, vars

\* A completed or expired cycle stays as it is, with its report and its files: an
\* undo or a replacement that comes after the transition finds it closed.
THEOREM ClosedCyclesStayClosed == Spec => TerminalFrozen
<1>1. CycleInv /\ [Next]_vars => [\A d \in Date : cycle[d] \in {"completed", "expired"} =>
       /\ cycle'[d] = cycle[d] /\ report'[d] = report[d]
       /\ \A p \in Dept : {f \in File : InSlot(f, d, p)}' = {f \in File : InSlot(f, d, p)}
       /\ \A f \in File : file[f].life # "free" /\ file[f].date = d => file'[f] = file[f]]_vars
  BY FrozenStep
<1> QED
  BY <1>1, CycleInvariant, PTL DEF Spec, TerminalFrozen

-----------------------------------------------------------------------------
(* The book of CycleBook *)

\* Before the first upload the book is empty.
LEMMA BookInit == Init => Book!Init
<1> SUFFICES ASSUME Init  PROVE Book!Init
  OBVIOUS
<1>1. \A d \in Date, p \in Dept : ActiveIn(d, p) = {}
  BY DEF Init, ActiveIn, FreeFile
<1> QED
  BY <1>1 DEF Init, Book!Init, slots

\* A commit is one change of the book: the department's file becomes another one,
\* and the cycle is complete if and only if every department then has one.
LEMMA CommitIsChange ==
  ASSUME CycleInv, NEW s \in Session, Commit(s)
  PROVE  \E d \in Date, p \in Dept : \E S \in SUBSET File : Book!Change(d, p, S)
<1>1. PICK d \in Date, p \in Dept : d = txn[s].date /\ p = txn[s].dept
  BY DEF CycleInv, SessionInv, LockOK, Commit, Busy, Txn
<1>2. /\ cycle[d] \in {"absent", "collecting"} /\ CheckedOK(s) /\ pc[s] = "commit"
      /\ cycle \in [Date -> Status]
  BY <1>1 DEF CycleInv, TypeOK, SessionInv, LockOK, Commit, Busy, Holds
<1>3. PICK S \in SUBSET File : S = ActiveIn(d, p)'
  BY DEF ActiveIn
<1>4. \A f, g \in S : f = g
  BY <1>3, CommitInv DEF CycleInv, SlotInv
<1>5. slots' = [slots EXCEPT ![d] = [slots[d] EXCEPT ![p] = S]]
  <2>1. \A e \in Date, q \in Dept : ~(e = d /\ q = p) => ActiveIn(e, q)' = ActiveIn(e, q)
    BY <1>1, CommitRows
  <2> DEFINE new == [slots EXCEPT ![d] = [slots[d] EXCEPT ![p] = S]]
  <2>2. ASSUME NEW e \in Date, NEW q \in Dept  PROVE slots'[e][q] = new[e][q]
    BY <1>3, <2>1 DEF slots
  <2>3. ASSUME NEW e \in Date  PROVE slots'[e] = new[e]
    <3>1. slots'[e] = [q \in Dept |-> slots'[e][q]]
      BY DEF slots
    <3>2. new[e] = [q \in Dept |-> new[e][q]]
      BY DEF slots
    <3> QED
      BY <2>2, <3>1, <3>2
  <2>4. slots' = [e \in Date |-> slots'[e]] /\ new = [e \in Date |-> new[e]]
    BY DEF slots
  <2> QED
    BY <2>3, <2>4
<1>6. txn[s].full <=> S # {} /\ \A q \in Dept \ {p} : slots[d][q] # {}
  <2>1. txn[s].full <=> txn[s].op # "withdraw" /\ Present(d) \cup {p} = Dept
    BY <1>1, <1>2 DEF CheckedOK
  <2>2. \A q \in Dept : q \in Present(d) <=> slots[d][q] # {}
    BY DEF Present, slots
  <2>3. Present(d) \subseteq Dept
    BY DEF Present
  <2>4. CASE txn[s].op # "withdraw"
    <3>1. ActiveIn(d, p)' = {txn[s].new}
      BY <1>1, <2>4, CommitRows
    <3>2. S # {}
      BY <1>3, <3>1
    <3> QED
      BY <2>1, <2>2, <2>3, <2>4, <3>2
  <2>5. CASE txn[s].op = "withdraw"
    <3>1. p \in Present(d)
      BY <1>1, <1>2, <2>5 DEF CheckedOK, Present
    <3>2. Present(d) # Dept
      BY <1>2, CycleAssumption DEF CycleInv, CompleteIffFull
    <3> QED
      BY <2>1, <2>2, <2>3, <2>5, <3>1, <3>2
  <2> QED
    BY <2>4, <2>5
<1>7. cycle' = [cycle EXCEPT ![d] =
        IF S # {} /\ \A q \in Dept \ {p} : slots[d][q] # {} THEN "completed" ELSE "collecting"]
  <2>1. cycle' = [cycle EXCEPT ![d] = IF txn[s].full THEN "completed"
                                      ELSE IF cycle[d] = "absent" THEN "collecting" ELSE cycle[d]]
    BY <1>1 DEF Commit
  <2> QED
    BY <1>2, <1>6, <2>1
<1>8. Book!Change(d, p, S)
  BY <1>2, <1>4, <1>5, <1>7 DEF Book!Change
<1> QED
  BY <1>8

\* Every step changes the book at once or not at all.
LEMMA BookStep ==
  ASSUME CycleInv, [Next]_vars
  PROVE  [Book!Next]_(Book!vars)
<1>1. CASE UNCHANGED <<cycle, report, file>>
  <2>1. slots' = slots
    BY <1>1, RowsStill DEF slots
  <2> QED
    BY <1>1, <2>1 DEF Book!vars
<1>2. ASSUME NEW s \in Session, Commit(s)  PROVE Book!Next
  BY <1>2, CommitIsChange DEF Book!Next
<1>3. ASSUME NEW d \in Date, Expire(d)  PROVE Book!Next
  <2>1. \E p \in Dept : slots[d][p] = {}
    BY <1>3 DEF Expire, Present, slots
  <2>2. slots' = slots
    BY <1>3 DEF Expire, slots, ActiveIn, InSlot
  <2>3. Book!Expire(d)
    BY <1>3, <2>1, <2>2 DEF Expire, Book!Expire
  <2> QED
    BY <2>3 DEF Book!Next
<1>4. ASSUME NEW s \in Session, Ask(s) \/ Statement(s) \/ Abort(s)
      PROVE  Commit(s) \/ UNCHANGED <<cycle, report, file>>
  BY <1>4 DEF Ask, AskAdd, AskReplace, AskWithdraw, Request, Statement, LockCycle, CreateCycle,
              Check, Write, Finalize, Abort, Drop
<1> QED
  BY <1>1, <1>2, <1>3, <1>4 DEF Next, OutOfIds, vars

\* The transactions of audit_service, interleaved statement by statement, implement
\* the book in which a department's file changes at once and the cycle with it.
THEOREM TransactionsKeepTheBook == Spec => BookKept
<1> QED
  BY BookInit, BookStep, CycleInvariant, PTL DEF Spec, BookKept, Book!Spec

-----------------------------------------------------------------------------
(* Waiting *)

\* The sets that Room compares are counted.
LEMMA Counted ==
  ASSUME IsFiniteSet(Uploading)
  PROVE  /\ Cardinality(Uploading) \in Nat
         /\ IsFiniteSet(Free) /\ Cardinality(Free) \in Nat
<1>1. IsFiniteSet(File)
  BY CycleAssumption, FS_Interval DEF File
<1>2. Free \subseteq File
  BY DEF Free
<1> QED
  BY <1>1, <1>2, FS_Subset, FS_CardinalityType

\* A lock that was there before stays with its transaction when another session
\* takes a step.
LEMMA HolderStays ==
  ASSUME CycleInv, WaitInv, NEW s \in Session, NEW d \in Date,
         \A q \in Session \ {s} : pc'[q] = pc[q] /\ txn'[q] = txn[q],
         lock'[d] = lock[d], lock[d] # s
  PROVE  (lock[d] # NoSession => Holds(lock[d]) /\ txn[lock[d]].date = d)'
<1> SUFFICES ASSUME lock[d] # NoSession
             PROVE  (Holds(lock[d]) /\ txn[lock[d]].date = d)'
  OBVIOUS
<1>1. PICK q \in Session \ {s} : q = lock[d]
  BY DEF CycleInv, TypeOK
<1>2. Holds(q) /\ txn[q].date = d
  BY <1>1 DEF WaitInv
<1>3. pc'[q] = pc[q] /\ txn'[q] = txn[q] /\ lock'[d] = q
  BY <1>1
<1> QED
  BY <1>2, <1>3 DEF Holds

\* The locks after a step of s: those of others stay, and its own is behind it.
LEMMA LocksAfter ==
  ASSUME CycleInv, WaitInv, NEW s \in Session,
         \A q \in Session \ {s} : pc'[q] = pc[q] /\ txn'[q] = txn[q],
         \A d \in Date : lock'[d] \in {lock[d], s, NoSession},
         \A d \in Date : lock'[d] = s => Holds(s)' /\ txn'[s].date = d
  PROVE  \A d \in Date : (lock[d] # NoSession => Holds(lock[d]) /\ txn[lock[d]].date = d)'
<1> SUFFICES ASSUME NEW d \in Date, lock'[d] # NoSession
             PROVE  (Holds(lock[d]) /\ txn[lock[d]].date = d)'
  OBVIOUS
<1>1. CASE lock'[d] = s
  <2>1. Holds(s)' /\ txn'[s].date = d
    BY <1>1
  <2> QED
    BY <1>1, <2>1 DEF Holds
<1>2. CASE lock'[d] # s
  <2>1. lock'[d] = lock[d] /\ lock[d] # s
    BY <1>2
  <2> QED
    BY <2>1, HolderStays
<1> QED
  BY <1>1, <1>2

\* A step of s that starts no upload and commits nothing leaves enough ids.
LEMMA RoomStays ==
  ASSUME WaitInv, NEW s \in Session, file' = file,
         \A q \in Session \ {s} : pc'[q] = pc[q] /\ txn'[q] = txn[q],
         Busy(s)' /\ txn'[s].op # "withdraw" => Busy(s) /\ txn[s].op # "withdraw"
  PROVE  IsFiniteSet(Uploading') /\ Cardinality(Uploading') <= Cardinality(Free')
<1>1. Uploading' \subseteq Uploading
  BY DEF Uploading, Busy
<1>2. Free' = Free
  BY DEF Free
<1>3. IsFiniteSet(Uploading') /\ Cardinality(Uploading') <= Cardinality(Uploading)
  BY <1>1, FS_Subset DEF WaitInv
<1>4. Cardinality(Uploading') \in Nat
  BY <1>3, FS_CardinalityType
<1> QED
  BY <1>2, <1>3, <1>4, Counted DEF WaitInv

\* A request keeps the invariant; an upload is let in only if an id is left.
LEMMA RequestWait ==
  ASSUME CycleInv, WaitInv, NEW s \in Session, NEW op \in Op, NEW d, NEW p, NEW c, NEW f,
         Request(s, op, d, p, c, f), op = "withdraw" \/ Room
  PROVE  WaitInv'
<1>1. /\ pc[s] = "idle" /\ pc'[s] = "lock" /\ txn'[s].op = op
      /\ UNCHANGED <<cycle, report, file, lock>>
      /\ \A q \in Session \ {s} : pc'[q] = pc[q] /\ txn'[q] = txn[q]
  BY DEF Request, CycleInv, TypeOK
<1>2. \A e \in Date : lock[e] # s
  <2>1. \A e \in Date : lock[e] = s /\ s # NoSession => Holds(s)
    BY DEF WaitInv
  <2> QED
    BY <1>1, <2>1, CycleAssumption DEF Holds
<1>3. \A e \in Date : (lock[e] # NoSession => Holds(lock[e]) /\ txn[lock[e]].date = e)'
  BY <1>1, <1>2, HolderStays
<1>4. \A g \in File : file'[g].life # "free" => cycle'[file'[g].date] # "absent"
  BY <1>1 DEF WaitInv
<1>5. IsFiniteSet(Uploading') /\ Cardinality(Uploading') <= Cardinality(Free')
  <2>1. CASE op = "withdraw"
    BY <1>1, <2>1, RoomStays
  <2>2. CASE Room
    <3>1. Uploading' \subseteq Uploading \cup {s}
      BY <1>1 DEF Uploading, Busy
    <3>2. /\ IsFiniteSet(Uploading \cup {s})
          /\ Cardinality(Uploading \cup {s}) \in {Cardinality(Uploading), Cardinality(Uploading) + 1}
      BY FS_AddElement DEF WaitInv
    <3>3. /\ IsFiniteSet(Uploading')
          /\ Cardinality(Uploading') <= Cardinality(Uploading \cup {s})
      BY <3>1, <3>2, FS_Subset
    <3>4. Cardinality(Uploading') \in Nat /\ Free' = Free
      BY <1>1, <3>3, FS_CardinalityType DEF Free
    <3> QED
      BY <2>2, <3>2, <3>3, <3>4, Counted DEF Room, WaitInv
  <2> QED
    BY <2>1, <2>2
<1> QED
  BY <1>3, <1>4, <1>5 DEF WaitInv

\* A step of s that commits nothing keeps the invariant if its locks are behind it.
LEMMA QuietWait ==
  ASSUME CycleInv, WaitInv, NEW s \in Session, UNCHANGED <<cycle, file>>,
         \A q \in Session \ {s} : pc'[q] = pc[q] /\ txn'[q] = txn[q],
         Busy(s)' /\ txn'[s].op # "withdraw" => Busy(s) /\ txn[s].op # "withdraw",
         \A d \in Date : lock'[d] \in {lock[d], s, NoSession},
         \A d \in Date : lock'[d] = s => Holds(s)' /\ txn'[s].date = d
  PROVE  WaitInv'
<1>1. \A d \in Date : (lock[d] # NoSession => Holds(lock[d]) /\ txn[lock[d]].date = d)'
  BY LocksAfter
<1>2. \A f \in File : file'[f].life # "free" => cycle'[file'[f].date] # "absent"
  BY DEF WaitInv
<1>3. IsFiniteSet(Uploading') /\ Cardinality(Uploading') <= Cardinality(Free')
  BY RoomStays
<1> QED
  BY <1>1, <1>2, <1>3 DEF WaitInv

\* A transaction that ends without an effect gives its lock back.
LEMMA DropWait ==
  ASSUME CycleInv, WaitInv, NEW s \in Session, Drop(s)
  PROVE  WaitInv'
<1>1. /\ pc'[s] = "idle" /\ UNCHANGED <<cycle, file>>
      /\ \A q \in Session \ {s} : pc'[q] = pc[q] /\ txn'[q] = txn[q]
  BY DEF Drop, CycleInv, TypeOK
<1>2. \A d \in Date : lock'[d] \in {lock[d], s, NoSession} /\ lock'[d] # s
  BY CycleAssumption DEF Drop
<1>3. ~Busy(s)'
  BY <1>1 DEF Busy
<1> QED
  BY <1>1, <1>2, <1>3, QuietWait

\* A statement that takes no lock keeps the invariant: who holds one goes on
\* with the same cycle.
LEMMA GoWait ==
  ASSUME CycleInv, WaitInv, NEW s \in Session, NEW to, Busy(s), Go(s, to),
         UNCHANGED <<cycle, file, lock>>,
         \A q \in Session \ {s} : txn'[q] = txn[q],
         txn'[s].op = txn[s].op, txn'[s].date = txn[s].date,
         Holds(s) => to \in {"check", "write", "finalize", "commit"}
  PROVE  WaitInv'
<1>1. pc'[s] = to /\ \A q \in Session \ {s} : pc'[q] = pc[q]
  BY DEF Go, CycleInv, TypeOK
<1>2. \A d \in Date : lock'[d] = s => Holds(s)' /\ txn'[s].date = d
  <2>1. \A d \in Date : lock[d] = s /\ s # NoSession => Holds(s) /\ txn[s].date = d
    BY DEF WaitInv
  <2> QED
    BY <1>1, <2>1, CycleAssumption DEF Holds
<1> QED
  BY <1>1, <1>2, QuietWait

\* Every statement before the commit keeps the invariant.
LEMMA StatementWait ==
  ASSUME CycleInv, WaitInv, NEW s \in Session,
         LockCycle(s) \/ CreateCycle(s) \/ Check(s) \/ Write(s) \/ Finalize(s)
  PROVE  WaitInv'
<1>1. /\ pc \in [Session -> PC] /\ txn \in [Session -> Txn \cup {NoTxn}]
      /\ lock \in [Date -> Session \cup {NoSession}] /\ LockOK(s)
  BY DEF CycleInv, TypeOK, SessionInv
<1>2. Busy(s) /\ txn[s] \in Txn /\ txn[s].date \in Date
  BY <1>1 DEF LockCycle, CreateCycle, Check, Write, Finalize, Busy, LockOK, Txn
<1>3. CASE Drop(s)
  BY <1>3, DropWait
<1>4. ASSUME pc[s] \in {"lock", "create"}, lock' = [lock EXCEPT ![txn[s].date] = s],
             Go(s, "check"), UNCHANGED <<cycle, file, txn>>
      PROVE  WaitInv'
  <2>1. \A d \in Date : lock[d] # s
    <3>1. \A d \in Date : lock[d] = s /\ s # NoSession => Holds(s)
      BY DEF WaitInv
    <3> QED
      BY <1>4, <3>1, CycleAssumption DEF Holds
  <2>2. pc'[s] = "check" /\ \A q \in Session \ {s} : pc'[q] = pc[q] /\ txn'[q] = txn[q]
    BY <1>1, <1>4 DEF Go
  <2>3. \A d \in Date : lock'[d] \in {lock[d], s, NoSession}
                        /\ (lock'[d] = s => d = txn[s].date)
    BY <1>1, <1>2, <1>4, <2>1
  <2>4. Holds(s)' /\ txn'[s].date = txn[s].date /\ txn'[s].op = txn[s].op
    BY <1>4, <2>2 DEF Holds
  <2> QED
    BY <1>2, <1>4, <2>2, <2>3, <2>4, QuietWait
<1>5. ASSUME NEW to, Go(s, to), UNCHANGED <<cycle, file, lock, txn>>,
             Holds(s) => to \in {"check", "write", "finalize", "commit"}
      PROVE  WaitInv'
  BY <1>2, <1>5, GoWait
<1>6. ASSUME NEW to, NEW t \in Txn, Go(s, to), UNCHANGED <<cycle, file, lock>>,
             txn' = [txn EXCEPT ![s] = t], t.op = txn[s].op, t.date = txn[s].date,
             Holds(s) => to \in {"check", "write", "finalize", "commit"}
      PROVE  WaitInv'
  <2>1. txn'[s] = t /\ \A q \in Session \ {s} : txn'[q] = txn[q]
    BY <1>1, <1>6
  <2> QED
    BY <1>2, <1>6, <2>1, GoWait
<1>7. CASE LockCycle(s)
  <2>1. CASE lock' = [lock EXCEPT ![txn[s].date] = s] /\ Go(s, "check")
             /\ UNCHANGED <<cycle, report, file, txn>>
    BY <1>4, <1>7, <2>1 DEF LockCycle
  <2>2. CASE Go(s, "create") /\ UNCHANGED <<cycle, report, file, lock, txn>>
    BY <1>5, <1>7, <2>2 DEF LockCycle, Holds
  <2> QED
    BY <1>3, <1>7, <2>1, <2>2 DEF LockCycle
<1>8. CASE CreateCycle(s)
  <2>1. CASE lock' = [lock EXCEPT ![txn[s].date] = s] /\ Go(s, "check")
             /\ UNCHANGED <<cycle, report, file, txn>>
    BY <1>4, <1>8, <2>1 DEF CreateCycle
  <2>2. CASE /\ txn' = [txn EXCEPT ![s].attempt = 2] /\ Go(s, "lock")
             /\ UNCHANGED <<cycle, report, file, lock>>
    <3>1. PICK t \in Txn : /\ t = [txn[s] EXCEPT !.attempt = 2]
                           /\ t.op = txn[s].op /\ t.date = txn[s].date
      BY <1>2, AttemptType
    <3>2. txn' = [txn EXCEPT ![s] = t]
      BY <2>2, <3>1
    <3> QED
      BY <1>6, <1>8, <2>2, <3>1, <3>2 DEF CreateCycle, Holds
  <2> QED
    BY <1>3, <1>8, <2>1, <2>2 DEF CreateCycle
<1>9. CASE Check(s)
  BY <1>3, <1>5, <1>9 DEF Check
<1>10. CASE Write(s)
  <2>1. CASE Go(s, "commit") /\ UNCHANGED <<cycle, report, file, lock, txn>>
    BY <1>5, <2>1
  <2>2. CASE /\ \E f \in Unused : txn' = [txn EXCEPT ![s].new = f]
             /\ Go(s, "finalize") /\ UNCHANGED <<cycle, report, file, lock>>
    <3>1. PICK f \in File : txn' = [txn EXCEPT ![s].new = f]
      BY <2>2 DEF Unused
    <3>2. PICK t : t = [txn[s] EXCEPT !.new = f]
      OBVIOUS
    <3>3. t \in Txn /\ t.op = txn[s].op /\ t.date = txn[s].date
      BY <1>2, <3>2, NewType
    <3>4. txn' = [txn EXCEPT ![s] = t]
      BY <3>1, <3>2
    <3> QED
      BY <1>6, <2>2, <3>3, <3>4
  <2> QED
    BY <1>3, <1>10, <2>1, <2>2 DEF Write
<1>11. CASE Finalize(s)
  <2>1. PICK b \in BOOLEAN : txn' = [txn EXCEPT ![s].full = b]
    BY <1>11 DEF Finalize
  <2>2. PICK t \in Txn : /\ t = [txn[s] EXCEPT !.full = b]
                         /\ t.op = txn[s].op /\ t.date = txn[s].date
    BY <1>2, FullType
  <2>3. txn' = [txn EXCEPT ![s] = t]
    BY <2>1, <2>2
  <2> QED
    BY <1>6, <1>11, <2>2, <2>3 DEF Finalize
<1> QED
  BY <1>7, <1>8, <1>9, <1>10, <1>11

\* A commit gives the lock back, and its upload takes one id with it.
LEMMA CommitWait ==
  ASSUME CycleInv, WaitInv, NEW s \in Session, Commit(s)
  PROVE  WaitInv'
<1>1. /\ pc \in [Session -> PC] /\ txn \in [Session -> Txn \cup {NoTxn}]
      /\ lock \in [Date -> Session \cup {NoSession}] /\ cycle \in [Date -> Status]
      /\ txn[s] \in Txn /\ pc[s] = "commit" /\ Busy(s)
      /\ \A f \in File : file[f].life # "free" => file[f].date \in Date
  BY UsedRow DEF CycleInv, TypeOK, SessionInv, LockOK, Commit, Busy, FileRow
<1>2. PICK d \in Date : d = txn[s].date
  BY <1>1 DEF Txn
<1>3. /\ pc'[s] = "idle" /\ \A q \in Session \ {s} : pc'[q] = pc[q] /\ txn'[q] = txn[q]
      /\ lock'[d] = NoSession /\ \A e \in Date \ {d} : lock'[e] = lock[e]
      /\ cycle'[d] # "absent" /\ \A e \in Date \ {d} : cycle'[e] = cycle[e]
  BY <1>1, <1>2 DEF Commit, Go
<1>4. \A e \in Date : (lock[e] # NoSession => Holds(lock[e]) /\ txn[lock[e]].date = e)'
  <2>1. \A e \in Date \ {d} : lock[e] # s
    <3>1. \A e \in Date : lock[e] = s /\ s # NoSession => txn[s].date = e
      BY DEF WaitInv
    <3> QED
      BY <1>2, <3>1, CycleAssumption
  <2> QED
    BY <1>3, <2>1, LocksAfter, CycleAssumption
<1>5. /\ \A f \in File : file[f].life # "free" =>
           file'[f].life # "free" /\ file'[f].date = file[f].date
      /\ \A f \in File : file[f].life = "free" => file'[f] = file[f] \/
           (txn[s].op # "withdraw" /\ f = txn[s].new /\ file'[f].life = "active")
  BY CommitRows
<1>6. txn[s].op # "withdraw" =>
        /\ txn[s].new \in File /\ file[txn[s].new].life = "free"
        /\ file'[txn[s].new].date = d /\ file'[txn[s].new].life = "active"
  <2>1. CheckedOK(s)
    BY DEF CycleInv, SessionInv
  <2>2. txn[s].op # "withdraw" => txn[s].new \in File /\ file[txn[s].new].life = "free"
    BY <1>1, <2>1 DEF CheckedOK, Inserted, Wrote
  <2> QED
    BY <1>2, <2>2 DEF Commit, CommittedFile
<1>7. \A f \in File : file'[f].life # "free" => cycle'[file'[f].date] # "absent"
  <2> SUFFICES ASSUME NEW f \in File, file'[f].life # "free"
               PROVE  cycle'[file'[f].date] # "absent"
    OBVIOUS
  <2>1. CASE file[f].life # "free"
    <3>1. file'[f].date = file[f].date /\ file[f].date \in Date
          /\ cycle[file[f].date] # "absent"
      BY <1>1, <1>5, <2>1 DEF WaitInv
    <3> QED
      BY <1>3, <3>1
  <2>2. CASE file[f].life = "free"
    BY <1>3, <1>5, <1>6, <2>2
  <2> QED
    BY <2>1, <2>2
<1>8. IsFiniteSet(Uploading') /\ Cardinality(Uploading') <= Cardinality(Free')
  <2>1. Uploading' = Uploading \ {s}
    BY <1>1, <1>3 DEF Uploading, Busy
  <2>2. /\ IsFiniteSet(Uploading')
        /\ Cardinality(Uploading') = IF s \in Uploading THEN Cardinality(Uploading) - 1
                                     ELSE Cardinality(Uploading)
    BY <2>1, FS_RemoveElement DEF WaitInv
  <2>3. CASE txn[s].op = "withdraw"
    <3>1. Free' = Free
      BY <1>5, <2>3 DEF Free
    <3>2. s \notin Uploading
      BY <2>3 DEF Uploading
    <3> QED
      BY <2>2, <3>1, <3>2 DEF WaitInv
  <2>4. CASE txn[s].op # "withdraw"
    <3>1. Free' = Free \ {txn[s].new} /\ txn[s].new \in Free
      BY <1>5, <1>6, <2>4 DEF Free
    <3>2. Cardinality(Free') = Cardinality(Free) - 1
      BY <3>1, Counted, FS_RemoveElement DEF WaitInv
    <3>3. s \in Uploading
      BY <1>1, <2>4 DEF Uploading
    <3> QED
      BY <2>2, <3>2, <3>3, Counted DEF WaitInv
  <2> QED
    BY <2>3, <2>4
<1> QED
  BY <1>4, <1>7, <1>8 DEF WaitInv

\* The strengthening holds at first.
LEMMA WaitInit == Init => WaitInv
<1> SUFFICES ASSUME Init  PROVE WaitInv
  OBVIOUS
<1>1. Uploading = {}
  BY DEF Init, Uploading, Busy
<1>2. IsFiniteSet(Uploading) /\ Cardinality(Uploading) = 0
  BY <1>1, FS_EmptySet
<1>3. \A f \in File : file[f].life = "free"
  BY DEF Init, FreeFile
<1>4. \A d \in Date : lock[d] = NoSession
  BY DEF Init
<1> QED
  BY <1>2, <1>3, <1>4, Counted DEF WaitInv

\* The strengthening is inductive.
LEMMA WaitStep ==
  ASSUME CycleInv, WaitInv, [Next]_vars
  PROVE  WaitInv'
<1>1. ASSUME NEW s \in Session, Ask(s)  PROVE WaitInv'
  <2>1. CASE AskAdd(s)
    BY <2>1, RequestWait DEF AskAdd, Op
  <2>2. CASE AskReplace(s)
    BY <2>2, RequestWait DEF AskReplace, Op
  <2>3. CASE AskWithdraw(s)
    BY <2>3, RequestWait DEF AskWithdraw, Op
  <2> QED
    BY <1>1, <2>1, <2>2, <2>3 DEF Ask
<1>2. ASSUME NEW s \in Session, Statement(s)  PROVE WaitInv'
  BY <1>2, StatementWait, CommitWait DEF Statement
<1>3. ASSUME NEW s \in Session, Abort(s)  PROVE WaitInv'
  BY <1>3, DropWait DEF Abort
<1>4. ASSUME UNCHANGED <<file, lock, pc, txn>>,
             \A d \in Date : cycle[d] # "absent" => cycle'[d] # "absent"
      PROVE  WaitInv'
  <2>1. Uploading' = Uploading /\ Free' = Free
    BY <1>4 DEF Uploading, Free, Busy
  <2>2. \A f \in File : file[f].life # "free" => file[f].date \in Date
    BY UsedRow DEF FileRow
  <2>3. \A f \in File : file'[f].life # "free" => cycle'[file'[f].date] # "absent"
    BY <1>4, <2>2 DEF WaitInv
  <2> QED
    BY <1>4, <2>1, <2>3 DEF WaitInv, Holds
<1>5. ASSUME NEW d \in Date, Expire(d)  PROVE WaitInv'
  <2>1. \A e \in Date : cycle[e] # "absent" => cycle'[e] # "absent"
    BY <1>5 DEF Expire, CycleInv, TypeOK
  <2> QED
    BY <1>4, <1>5, <2>1 DEF Expire
<1>6. CASE UNCHANGED vars
  BY <1>4, <1>6 DEF vars
<1> QED
  BY <1>1, <1>2, <1>3, <1>5, <1>6 DEF Next, OutOfIds

\* Some open transaction can go on: one that has inserted never waits; without
\* one, an insert waits for nobody; and without either, no row is locked.
LEMMA SomeCanGo ==
  ASSUME CycleInv, WaitInv
  PROVE  NotAllWaiting
<1> SUFFICES ASSUME NEW s \in Session, Busy(s)  PROVE \E q \in Session : CanGo(q)
  BY DEF NotAllWaiting
<1>1. pc \in [Session -> PC] /\ lock \in [Date -> Session \cup {NoSession}]
  BY DEF CycleInv, TypeOK
<1>2. CASE \E q \in Session : pc[q] \in {"check", "finalize", "commit"}
  BY <1>2 DEF CanGo
<1>3. ASSUME \A q \in Session : pc[q] \notin {"check", "finalize", "commit"},
             NEW q \in Session, pc[q] = "write"
      PROVE  CanGo(q)
  <2>1. \A r \in Session : ~Wrote(r) /\ ~Inserted(r)
    BY <1>3 DEF Wrote, Inserted
  <2>2. ~ShaContended(q, txn[q].sha)
    BY <2>1 DEF ShaContended
  <2>3. txn[q].op # "withdraw" => Unused # {}
    <3> SUFFICES ASSUME txn[q].op # "withdraw", Unused = {}  PROVE FALSE
      OBVIOUS
    <3>1. q \in Uploading
      BY <1>3 DEF Uploading, Busy
    <3>2. Free = {}
      BY <2>1 DEF Free, Unused
    <3>3. Cardinality(Free) = 0
      BY <3>2, FS_EmptySet
    <3>4. Cardinality(Uploading) = 0
      BY <3>3, Counted DEF WaitInv
    <3> QED
      BY <3>1, <3>4, FS_EmptySet DEF WaitInv
  <2> QED
    BY <1>3, <2>2, <2>3 DEF CanGo
<1>4. ASSUME \A q \in Session : ~Holds(q)  PROVE CanGo(s)
  <2>1. \A d \in Date : Unlocked(d)
    BY <1>1, <1>4 DEF WaitInv, Unlocked
  <2>2. pc[s] \in {"lock", "create"} /\ txn[s] \in Txn /\ txn[s].date \in Date /\ RequestOK(s)
    BY <1>1, <1>4 DEF CycleInv, SessionInv, LockOK, Busy, Holds, PC, Txn
  <2>3. cycle[txn[s].date] = "absent" => txn[s].op = "add"
    BY <2>2 DEF RequestOK, InSlot, WaitInv
  <2> QED
    BY <2>1, <2>2, <2>3 DEF CanGo
<1> QED
  BY <1>1, <1>2, <1>3, <1>4 DEF Holds

\* However many sessions work on however many cycles, they never all wait for
\* each other's rows, cycles and contents: CanGo is the guard of a statement.
THEOREM NeverAllWaiting == Spec => []NotAllWaiting
<1>1. Init => CycleInv /\ WaitInv
  BY CycleInit, WaitInit
<1>2. CycleInv /\ WaitInv /\ [Next]_vars => (CycleInv /\ WaitInv)'
  BY CycleStep, WaitStep
<1>3. CycleInv /\ WaitInv => NotAllWaiting
  BY SomeCanGo
<1> QED
  BY <1>1, <1>2, <1>3, PTL DEF Spec
=============================================================================
