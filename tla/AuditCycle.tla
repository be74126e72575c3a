----------------------------- MODULE AuditCycle -----------------------------
(***************************************************************************)
(* Audit cycles and their source files: the transactions of audit_service  *)
(* (add, replace, withdraw) on PostgreSQL, READ COMMITTED, and the expiry  *)
(* of the idle scheduler.                                                  *)
(*                                                                         *)
(* A cycle collects one ACTIVE file of each department.  A transaction     *)
(* locks the row of its cycle, checks, writes, counts the departments and  *)
(* commits; each of these is a step, so that two sessions interleave       *)
(* between any two statements.  What a session has written and not yet     *)
(* committed is held in txn and is invisible to the others, except that    *)
(* the unique indexes make them wait for it.                               *)
(***************************************************************************)
EXTENDS Integers, FiniteSets

CONSTANTS
  Date,         \* report dates, one cycle each
  Dept,         \* the departments that complete a cycle
  Sha,          \* contents of files (sha256)
  MaxFile,      \* bound: how many source_files rows are ever inserted
  Session,      \* database sessions that serve upload requests
  NoSession     \* "unlocked"

ASSUME CycleAssumption ==
  /\ Date \subseteq Nat /\ IsFiniteSet(Date)
  /\ Dept # {} /\ NoSession \notin Session /\ MaxFile \in Nat

File == 1..MaxFile     \* ids of source_files rows
NoFile == 0

VARIABLES
  cycle,      \* audit_cycles.status, "absent" while the row does not exist
  report,     \* whether the cycle has its audit_reports row
  file,       \* source_files
  lock,       \* holder of the row lock, or of the uncommitted row, of a cycle
  pc, txn     \* each session's next statement, and its request with its writes

vars == <<cycle, report, file, lock, pc, txn>>

Status == {"absent", "collecting", "completed", "expired"}
Life == {"active", "superseded", "revoked"}
Op == {"add", "replace", "withdraw"}
PC == {"idle", "lock", "create", "check", "write", "finalize", "commit"}

\* base is the file that this one replaced: the uploader's AddResult has it.
FileRow == [life: Life, date: Date, dept: Dept, sha: Sha, base: File \cup {NoFile}]
FreeFile == [life |-> "free"]

\* A request: its date, department and content; the ACTIVE file it was made
\* for (expected_active_source_file_id or the file to withdraw); the id of the
\* inserted row; whether finalize_if_complete found the cycle complete.
NoTxn == [op |-> "add"]
Txn == [op: Op, date: Date, dept: Dept, sha: Sha, target: File \cup {NoFile},
        attempt: 1..2, new: File \cup {NoFile}, full: BOOLEAN]

TypeOK ==
  /\ cycle \in [Date -> Status]
  /\ report \in [Date -> BOOLEAN]
  /\ file \in [File -> FileRow \cup {FreeFile}]
  /\ lock \in [Date -> Session \cup {NoSession}]
  /\ pc \in [Session -> PC]
  /\ txn \in [Session -> Txn \cup {NoTxn}]

Init ==
  /\ cycle = [d \in Date |-> "absent"]
  /\ report = [d \in Date |-> FALSE]
  /\ file = [f \in File |-> FreeFile]
  /\ lock = [d \in Date |-> NoSession]
  /\ pc = [s \in Session |-> "idle"]
  /\ txn = [s \in Session |-> NoTxn]

-----------------------------------------------------------------------------
(* Reading *)

InSlot(f, d, p) == file[f].life # "free" /\ file[f].date = d /\ file[f].dept = p
ActiveIn(d, p) == {f \in File : InSlot(f, d, p) /\ file[f].life = "active"}
Present(d) == {p \in Dept : ActiveIn(d, p) # {}}

\* _assert_sha256_available: ACTIVE and SUPERSEDED files hold their content.
Held(c) == \E f \in File : file[f].life \in {"active", "superseded"} /\ file[f].sha = c

Busy(s) == pc[s] # "idle"
Wrote(s) == pc[s] \in {"finalize", "commit"}
Inserted(s) == Wrote(s) /\ txn[s].op # "withdraw"

\* Another session is about to commit a row with content c, or to revoke one:
\* the unique index makes an insert of c wait for it.
ShaContended(s, c) ==
  \E q \in Session \ {s} : Wrote(q) /\ txn[q].sha = c

\* Ids that no row has, committed or not: the next one is the least.
Unused == {f \in File : file[f].life = "free" /\ \A q \in Session : Inserted(q) => txn[q].new # f}

-----------------------------------------------------------------------------
(* Requests *)

Request(s, op, d, p, c, f) ==
  /\ pc[s] = "idle"
  /\ txn' = [txn EXCEPT ![s] = [op |-> op, date |-> d, dept |-> p, sha |-> c, target |-> f,
                                attempt |-> 1, new |-> NoFile, full |-> FALSE]]
  /\ pc' = [pc EXCEPT ![s] = "lock"]
  /\ UNCHANGED <<cycle, report, file, lock>>

Uploading == {q \in Session : Busy(q) /\ txn[q].op # "withdraw"}
Free == {f \in File : file[f].life = "free"}

\* Bound: an upload starts only if there is an id left for it.
Room == Cardinality(Uploading) < Cardinality(Free)

AskAdd(s) == Room /\ \E d \in Date, p \in Dept, c \in Sha : Request(s, "add", d, p, c, NoFile)

\* The user confirmed the replacement of a file that was ACTIVE at some time.
AskReplace(s) ==
  /\ Room
  /\ \E f \in File, c \in Sha :
       file[f].life # "free" /\ Request(s, "replace", file[f].date, file[f].dept, c, f)

\* The unlocked probe of withdraw_source_file_atomic finds the file ACTIVE.
AskWithdraw(s) ==
  \E f \in File : /\ file[f].life = "active"
                  /\ Request(s, "withdraw", file[f].date, file[f].dept, file[f].sha, f)

\* Mutant: the lock outlives its transaction.
DropLeakingLock(s) ==
  /\ pc' = [pc EXCEPT ![s] = "idle"]
  /\ txn' = [txn EXCEPT ![s] = NoTxn]
  /\ UNCHANGED <<cycle, report, file, lock>>

\* The transaction ends without an effect.
Drop(s) ==
  /\ pc' = [pc EXCEPT ![s] = "idle"]
  /\ txn' = [txn EXCEPT ![s] = NoTxn]
  /\ lock' = [d \in Date |-> IF lock[d] = s THEN NoSession ELSE lock[d]]
  /\ UNCHANGED <<cycle, report, file>>

\* A lost connection, or the death of the process.
Abort(s) == Busy(s) /\ Drop(s)

-----------------------------------------------------------------------------
(* The statements of a transaction *)

Go(s, to) == pc' = [pc EXCEPT ![s] = to]

\* Mutant: the cycle is selected without FOR UPDATE.
UnlockedAnyway(d) == TRUE

Unlocked(d) == lock[d] = NoSession

\* Mutant: assert_cycle_mutable lets every existing cycle pass.
MutableIfExists(d) == cycle[d] # "absent"

\* assert_cycle_mutable
Mutable(d) == cycle[d] = "collecting"

\* SELECT ... FOR UPDATE of the cycle, then assert_cycle_mutable.  An
\* uncommitted row is not seen; a locked one is waited for.
LockCycle(s) ==
  LET d == txn[s].date IN
  /\ pc[s] = "lock"
  /\ \/ /\ Mutable(d) /\ Unlocked(d)
        /\ lock' = [lock EXCEPT ![d] = s]
        /\ Go(s, "check")
        /\ UNCHANGED <<cycle, report, file, txn>>
     \/ /\ cycle[d] = "absent" /\ txn[s].op = "add"
        /\ Go(s, "create")
        /\ UNCHANGED <<cycle, report, file, lock, txn>>
     \/ cycle[d] # "absent" /\ ~Mutable(d) /\ Unlocked(d) /\ Drop(s)

\* INSERT of the cycle: waits for another uncommitted one.  If that one commits,
\* uq_audit_cycle_report_date fails the transaction, which is retried once.
CreateCycle(s) ==
  LET d == txn[s].date IN
  /\ pc[s] = "create"
  /\ \/ /\ cycle[d] = "absent" /\ lock[d] = NoSession
        /\ lock' = [lock EXCEPT ![d] = s]
        /\ Go(s, "check")
        /\ UNCHANGED <<cycle, report, file, txn>>
     \/ /\ cycle[d] # "absent" /\ txn[s].attempt = 1
        /\ txn' = [txn EXCEPT ![s].attempt = 2]
        /\ Go(s, "lock")
        /\ UNCHANGED <<cycle, report, file, lock>>
     \/ cycle[d] # "absent" /\ txn[s].attempt = 2 /\ Drop(s)

\* The checks of each operation, made on committed rows.
Allowed(s) ==
  LET t == txn[s] IN
  \/ t.op = "add" /\ ~Held(t.sha) /\ t.dept \notin Present(t.date)
  \/ t.op = "replace" /\ ~Held(t.sha) /\ ActiveIn(t.date, t.dept) = {t.target}
  \/ /\ t.op = "withdraw" /\ file[t.target].life = "active"
     /\ \A b \in File : file[t.target].base = b => file[b].life = "superseded"

Check(s) ==
  /\ pc[s] = "check"
  /\ \/ Allowed(s) /\ Go(s, "write") /\ UNCHANGED <<cycle, report, file, lock, txn>>
     \/ ~Allowed(s) /\ Drop(s)

\* Mutant: no unique index on the content.
WriteUnchecked(s) ==
  /\ pc[s] = "write"
  /\ \/ txn[s].op = "withdraw" /\ Go(s, "commit") /\ UNCHANGED txn
     \/ /\ txn[s].op # "withdraw"
        /\ \E f \in Unused : /\ \A g \in Unused : f <= g
                            /\ txn' = [txn EXCEPT ![s].new = f]
        /\ Go(s, "finalize")
  /\ UNCHANGED <<cycle, report, file, lock>>

\* The rows are flushed.  A content that has been committed since the check is
\* refused by uq_source_file_sha256_active_or_superseded.
Write(s) ==
  LET t == txn[s] IN
  /\ pc[s] = "write"
  /\ \/ /\ t.op = "withdraw"
        /\ Go(s, "commit")
        /\ UNCHANGED <<cycle, report, file, lock, txn>>
     \/ /\ t.op # "withdraw" /\ ~ShaContended(s, t.sha) /\ ~Held(t.sha)
        /\ \E f \in Unused : /\ \A g \in Unused : f <= g
                            /\ txn' = [txn EXCEPT ![s].new = f]
        /\ Go(s, "finalize")
        /\ UNCHANGED <<cycle, report, file, lock>>
     \/ t.op # "withdraw" /\ ~ShaContended(s, t.sha) /\ Held(t.sha) /\ Drop(s)

\* Mutant: the departments are counted before the file is flushed.
FinalizeEarly(s) ==
  /\ pc[s] = "finalize"
  /\ txn' = [txn EXCEPT ![s].full = (Present(txn[s].date) = Dept)]
  /\ Go(s, "commit")
  /\ UNCHANGED <<cycle, report, file, lock>>

\* finalize_if_complete: cycle_status_summary sees committed rows and its own.
Finalize(s) ==
  /\ pc[s] = "finalize"
  /\ txn' = [txn EXCEPT ![s].full = (Present(txn[s].date) \cup {txn[s].dept} = Dept)]
  /\ Go(s, "commit")
  /\ UNCHANGED <<cycle, report, file, lock>>

\* Mutant: an undo does not restore the replaced file.
CommittedFileNotRestored(s) ==
  LET t == txn[s] IN
  [f \in File |->
     IF t.op # "withdraw" /\ f = t.new
       THEN [life |-> "active", date |-> t.date, dept |-> t.dept, sha |-> t.sha,
             base |-> t.target]
     ELSE IF t.op = "replace" /\ f = t.target THEN [file[f] EXCEPT !.life = "superseded"]
     ELSE IF t.op = "withdraw" /\ f = t.target THEN [file[f] EXCEPT !.life = "revoked"]
     ELSE file[f]]

\* Mutant: a withdrawn file gets a lifecycle the table does not know.
CommittedFileWithdrawn(s) ==
  [f \in File |->
     IF txn[s].op # "withdraw" /\ f = txn[s].new
       THEN [life |-> "active", date |-> txn[s].date, dept |-> txn[s].dept,
             sha |-> txn[s].sha, base |-> txn[s].target]
     ELSE IF txn[s].op = "withdraw" /\ f = txn[s].target
       THEN [file[f] EXCEPT !.life = "withdrawn"]
     ELSE file[f]]

\* The writes of s become visible at once.
CommittedFile(s) ==
  LET t == txn[s] IN
  [f \in File |->
     IF t.op # "withdraw" /\ f = t.new
       THEN [life |-> "active", date |-> t.date, dept |-> t.dept, sha |-> t.sha,
             base |-> t.target]
     ELSE IF t.op = "replace" /\ f = t.target THEN [file[f] EXCEPT !.life = "superseded"]
     ELSE IF t.op = "withdraw" /\ f = t.target THEN [file[f] EXCEPT !.life = "revoked"]
     ELSE IF t.op = "withdraw" /\ f = file[t.target].base THEN [file[f] EXCEPT !.life = "active"]
     ELSE file[f]]

\* A complete cycle gets its report in the same transaction.  The columns of the
\* reminder series, which every change resets, are in IdleReminders.
Commit(s) ==
  LET d == txn[s].date IN
  /\ pc[s] = "commit"
  /\ file' = CommittedFile(s)
  /\ cycle' = [cycle EXCEPT ![d] = IF txn[s].full THEN "completed"
                                   ELSE IF cycle[d] = "absent" THEN "collecting" ELSE cycle[d]]
  /\ report' = [report EXCEPT ![d] = report[d] \/ txn[s].full]
  /\ lock' = [lock EXCEPT ![d] = NoSession]
  /\ Go(s, "idle")
  /\ txn' = [txn EXCEPT ![s] = NoTxn]

-----------------------------------------------------------------------------
(* The idle scheduler: when it decides to expire is in IdleReminders *)

\* expire_cycle_if_due
Expire(d) ==
  /\ cycle[d] = "collecting" /\ lock[d] = NoSession
  /\ Present(d) # Dept
  /\ cycle' = [cycle EXCEPT ![d] = "expired"]
  /\ UNCHANGED <<report, file, lock, pc, txn>>

-----------------------------------------------------------------------------
\* Bound: what happens after the last id is not explored.
OutOfIds == (\A s \in Session : ~Busy(s)) /\ ~Room /\ UNCHANGED vars

Ask(s) == AskAdd(s) \/ AskReplace(s) \/ AskWithdraw(s)

Statement(s) ==
  LockCycle(s) \/ CreateCycle(s) \/ Check(s) \/ Write(s) \/ Finalize(s) \/ Commit(s)

Next ==
  \/ \E s \in Session : Ask(s) \/ Statement(s) \/ Abort(s)
  \/ \E d \in Date : Expire(d)
  \/ OutOfIds

Spec == Init /\ [][Next]_vars

-----------------------------------------------------------------------------
(* Safety *)

\* A cycle collects while a department is missing, and not a moment longer: the
\* transaction that brings the last one completes it and enqueues its report.
\* Two sessions that bring the last two departments must not both miss it.
CompleteIffFull ==
  \A d \in Date :
    /\ cycle[d] = "collecting" => Present(d) # Dept /\ ~report[d]
    /\ cycle[d] = "completed" => Present(d) = Dept /\ report[d]
    /\ cycle[d] = "expired" => Present(d) # Dept /\ ~report[d]
    /\ cycle[d] = "absent" => Present(d) = {} /\ ~report[d]

\* A department has at most one ACTIVE file in a cycle, and no content is held
\* twice, in one cycle or in two, whichever sessions insert it at once.
FilesUnique ==
  \A f, g \in File : f # g /\ file[f].life \in {"active", "superseded"}
                         /\ file[g].life \in {"active", "superseded"} =>
    /\ file[f].sha # file[g].sha
    /\ ~(file[f].life = "active" /\ file[g].life = "active"
         /\ file[f].date = file[g].date /\ file[f].dept = file[g].dept)

\* The replacements of a department form a stack: the file below an ACTIVE or
\* SUPERSEDED one is SUPERSEDED, so an undo can always restore it, and every
\* SUPERSEDED file is below one, so its content is not held for ever.
ReplacedCanBeRestored ==
  \A f \in File :
    /\ file[f].life \in {"active", "superseded"} /\ file[f].base # NoFile =>
         /\ file[file[f].base].life = "superseded"
         /\ InSlot(file[f].base, file[f].date, file[f].dept)
    /\ file[f].life = "superseded" =>
         Cardinality({g \in File : /\ file[g].life \in {"active", "superseded"}
                                  /\ file[g].base = f}) = 1

\* A completed or expired cycle never changes again, nor do its files or its
\* report: not by an undo that was probed before, nor by a late replacement.
TerminalFrozen ==
  [][\A d \in Date : cycle[d] \in {"completed", "expired"} =>
       /\ cycle'[d] = cycle[d] /\ report'[d] = report[d]
       /\ \A p \in Dept : {f \in File : InSlot(f, d, p)}' = {f \in File : InSlot(f, d, p)}
       /\ \A f \in File : file[f].life # "free" /\ file[f].date = d => file'[f] = file[f]]_vars

\* A transaction that waits neither for the row lock of its cycle, nor for an
\* uncommitted row of it, nor for an uncommitted content, and has an id to insert.
CanGo(s) ==
  LET d == txn[s].date IN
  \/ pc[s] = "lock" /\ (IF cycle[d] = "absent" THEN txn[s].op = "add" ELSE Unlocked(d))
  \/ pc[s] = "create" /\ (cycle[d] = "absent" => Unlocked(d))
  \/ pc[s] = "write" /\ (txn[s].op # "withdraw" =>
       ~ShaContended(s, txn[s].sha) /\ (Held(txn[s].sha) \/ Unused # {}))
  \/ pc[s] \in {"check", "finalize", "commit"}

NotAllWaiting == (\E s \in Session : Busy(s)) => \E s \in Session : CanGo(s)

\* Sessions never all wait for each other: whatever they hold of row locks,
\* uncommitted cycle rows and uncommitted contents, in one cycle or in two, one
\* of the open transactions can go on.
Unblocked == NotAllWaiting /\ \A s \in Session : CanGo(s) <=> ENABLED Statement(s)

\* The inductive strengthening of CompleteIffFull: a session past its lock is
\* the only one on its cycle, and what it has checked stays true until it commits.
Holds(s) == pc[s] \in {"check", "write", "finalize", "commit"}

LockOK(s) ==
  /\ Busy(s) => txn[s] \in Txn
  /\ Holds(s) => lock[txn[s].date] = s /\ cycle[txn[s].date] \in {"absent", "collecting"}

RequestOK(s) ==
  Busy(s) =>
    /\ pc[s] # "commit" => ~txn[s].full
    /\ pc[s] = "finalize" => txn[s].op # "withdraw"
    /\ IF txn[s].op = "add" THEN txn[s].target = NoFile
       ELSE txn[s].target \in File /\ InSlot(txn[s].target, txn[s].date, txn[s].dept)

CheckedOK(s) ==
  /\ pc[s] \in {"write", "finalize", "commit"} =>
       IF txn[s].op = "add" THEN txn[s].dept \notin Present(txn[s].date)
       ELSE ActiveIn(txn[s].date, txn[s].dept) = {txn[s].target}
  /\ Inserted(s) =>
       /\ txn[s].new \in File /\ file[txn[s].new].life = "free"
       /\ \A q \in Session \ {s} : Inserted(q) => txn[q].new # txn[s].new
  /\ pc[s] = "commit" =>
       (txn[s].full <=> /\ txn[s].op # "withdraw"
                        /\ Present(txn[s].date) \cup {txn[s].dept} = Dept)

SessionInv == \A s \in Session : LockOK(s) /\ RequestOK(s) /\ CheckedOK(s)

SlotInv ==
  /\ \A d \in Date, p \in Dept : \A f, g \in ActiveIn(d, p) : f = g
  /\ \A f \in File : file[f].life # "free" /\ file[f].base # NoFile =>
       file[f].base # f /\ InSlot(file[f].base, file[f].date, file[f].dept)

CycleInv == TypeOK /\ SessionInv /\ SlotInv /\ CompleteIffFull

\* The inductive strengthening of FilesUnique and ReplacedCanBeRestored: the content
\* that a session inserted is held by no committed file, and no other session
\* is about to commit or to release it.
ContentOK(s) ==
  /\ Busy(s) /\ txn[s].op = "withdraw" => txn[s].sha = file[txn[s].target].sha
  /\ Inserted(s) => /\ ~Held(txn[s].sha)
                    /\ \A q \in Session \ {s} : Wrote(q) => txn[q].sha # txn[s].sha

ContentInv == \A s \in Session : ContentOK(s)

FilesInv == CycleInv /\ ContentInv /\ FilesUnique /\ ReplacedCanBeRestored

\* The inductive strengthening of NotAllWaiting: a lock is held for a transaction
\* that has got past it, a file has a cycle, and no upload is without an id.
WaitInv ==
  /\ \A d \in Date : lock[d] # NoSession => Holds(lock[d]) /\ txn[lock[d]].date = d
  /\ \A f \in File : file[f].life # "free" => cycle[file[f].date] # "absent"
  /\ IsFiniteSet(Uploading) /\ Cardinality(Uploading) <= Cardinality(Free)

\* Transactions on a cycle look atomic: the book of CycleBook.
slots == [d \in Date |-> [p \in Dept |-> ActiveIn(d, p)]]
Book == INSTANCE CycleBook WITH status <- cycle, slot <- slots
BookKept == Book!Spec

=============================================================================
