--------------------------- MODULE UploadDialogue ---------------------------
(***************************************************************************)
(* The upload dialogue of handlers/upload.py: the FSM of each user, the    *)
(* keyboards left in the chat, and the handlers, over the tables of        *)
(* AuditCycle.                                                             *)
(*                                                                         *)
(* A handler runs from await to await.  SimpleEventIsolation lets one      *)
(* handler of a user run at a time; handlers of different users interleave *)
(* at every query.  Each transaction is one step here: AuditCycle shows    *)
(* that they implement the atomic CycleBook.                               *)
(*                                                                         *)
(* The keyboards that confirm something stay in the chat and can be        *)
(* pressed at any time, until clear() ends the dialogue: its token (uuid4) *)
(* is never drawn again, so that they are then dead, and only then does    *)
(* the model forget them and number the tokens anew.  The keyboards that   *)
(* choose a department or undo a file show nothing that a later one of     *)
(* the same token does not; a press of one is a matter of the state.       *)
(***************************************************************************)
EXTENDS Integers, FiniteSets

CONSTANTS
  User,        \* allowed users, each in a private chat with the bot
  Others,      \* the allowed users whose dialogues are left out
  Date, Dept,  \* report dates and departments
  Sha,         \* contents of files
  DateOf,      \* the report date in each content
  MaxFile,     \* bound: how many source_files rows are ever inserted
  Nothing      \* no content, no department

ASSUME DialogueAssumption ==
  /\ Date \subseteq Nat /\ IsFiniteSet(Date) /\ Dept # {} /\ DateOf \in [Sha -> Date]
  /\ MaxFile \in Nat
  /\ Others \notin User /\ Nothing \notin Sha \cup Dept \cup User \cup (User \X {1, 2})

VARIABLES
  cycle, report, file,  \* the tables, as in AuditCycle, and who uploaded a file
  fsm,                  \* state and data of each user (MemoryStorage)
  buttons,              \* confirmation keyboards in the chats
  task,                 \* handlers that are waiting for a query or a download
  uploads               \* upload tokens drawn in the dialogue of each user

bookVars == <<cycle, report, file>>
chatVars == <<buttons, uploads>>
vars == <<bookVars, fsm, task, chatVars>>

Task == User \X {1, 2}
UserOf(t) == t[1]

Book == INSTANCE AuditCycle WITH
  Session <- Task, NoSession <- Nothing, lock <- [d \in Date |-> Nothing],
  pc <- [t \in Task |-> "idle"], txn <- [t \in Task |-> [op |-> "add"]]

File == 1 .. MaxFile
NoFile == 0

\* UploadStates; "none" is the state after clear().
State == {"none", "choosing_department", "confirming_department", "confirming_new_cycle",
          "confirming_replace", "can_undo", "confirming_undo"}

Cleared == [state |-> "none", token |-> 0, sha |-> Nothing, dept |-> Nothing,
            expected |-> NoFile, saved |-> NoFile, previous |-> NoFile]

Fsm == [state: State, token: Nat, sha: Sha \cup {Nothing}, dept: Dept \cup {Nothing},
        expected: File \cup {NoFile}, saved: File \cup {NoFile},
        previous: File \cup {NoFile}]

\* A keyboard: its prefix and token, with the upload the token stands for, and the
\* department and the file that the message above it names, if it names one.
Kind == {"deptconfirm", "newcycle", "replace"}
Button == [user: User, kind: Kind, token: Nat, sha: Sha, dept: Dept \cup {Nothing},
           file: File \cup {NoFile}]

\* A handler at its next await, with what it keeps in local variables: the
\* document or the department, and the keyboard that was pressed.
At == {"download", "cycle", "count", "slot", "add", "replace", "withdraw"}
NoTask == [at |-> "idle"]
Running == [at: At, sha: Sha, dept: Dept \cup {Nothing}, button: Button \cup {Nothing}]

FileRow == [life: Book!Life, date: Date, dept: Dept, sha: Sha, base: File \cup {NoFile},
            by: User \cup {Others}]

\* The data of the FSM fits its state.
Fits(d) ==
  /\ d.state = "none" <=> d.sha = Nothing
  /\ d.state \in {"confirming_department", "confirming_new_cycle", "confirming_replace"}
       <=> d.dept # Nothing
  /\ d.state = "confirming_replace" => d.expected # NoFile
  /\ d.state \in {"can_undo", "confirming_undo"} <=> d.saved # NoFile

TypeOK ==
  /\ cycle \in [Date -> Book!Status] /\ report \in [Date -> BOOLEAN]
  /\ file \in [File -> FileRow \cup {Book!FreeFile}]
  /\ fsm \in [User -> Fsm] /\ \A u \in User : Fits(fsm[u])
  /\ buttons \subseteq Button
  /\ task \in [Task -> Running \cup {NoTask}]
  /\ uploads \in [User -> Nat]

Init ==
  /\ cycle = [d \in Date |-> "absent"] /\ report = [d \in Date |-> FALSE]
  /\ file = [f \in File |-> Book!FreeFile]
  /\ fsm = [u \in User |-> Cleared] /\ buttons = {}
  /\ task = [t \in Task |-> NoTask]
  /\ uploads = [u \in User |-> 0]

-----------------------------------------------------------------------------
(* Events of a user *)

\* Mutant: a dispatcher without SimpleEventIsolation.
AlwaysFree(u) == TRUE

\* SimpleEventIsolation: the handlers of a user run one after the other.
Free(u) == \A t \in Task : UserOf(t) = u => task[t] = NoTask

\* The handler gets a place of its own.
Starts(t) ==
  /\ t[2] = 2 => task[<<UserOf(t), 1>>] # NoTask
  /\ Free(UserOf(t)) /\ task[t] = NoTask

Go(t, running) == task' = [task EXCEPT ![t] = running]
Ends(t) == task' = [task EXCEPT ![t] = NoTask]
Put(u, data) == fsm' = [fsm EXCEPT ![u] = data]

\* state.clear()
Clear(u) ==
  /\ Put(u, Cleared)
  /\ buttons' = {b \in buttons : b.user # u}
  /\ uploads' = [uploads EXCEPT ![u] = 0]

\* A message with a confirmation keyboard.  That of a department names it, that of a
\* new cycle only dates, and that of a replacement the department and its file.
Show(u, kind, sha, dept, f) ==
  buttons' = buttons \cup
    {[user |-> u, kind |-> kind, token |-> fsm[u].token, sha |-> sha, dept |-> dept, file |-> f]}

\* Mutant: the token of the button is not compared.
AnyToken(b) == TRUE

TokenMatches(b) == b.token = fsm[b.user].token

\* A press that gets past the checks of state and token; any other one is
\* answered with "the button is out of date" and changes nothing.
Press(t, kind, state, b) ==
  /\ Starts(t) /\ b.user = UserOf(t)
  /\ b.kind = kind /\ fsm[b.user].state = state /\ TokenMatches(b)

\* /cancel, and the "cancel" of each keyboard.
Cancel(t) ==
  /\ Starts(t)
  /\ fsm[UserOf(t)] # Cleared
  /\ Clear(UserOf(t))
  /\ UNCHANGED <<bookVars, task>>

\* handle_document up to the download: a new upload abandons the undo, and an
\* upload that is not finished refuses it.
Document(t, c) ==
  LET u == UserOf(t) IN
  /\ Starts(t)
  /\ fsm[u].state \in {"none", "can_undo"}
  /\ Clear(u)
  /\ Go(t, [at |-> "download", sha |-> c, dept |-> Nothing, button |-> Nothing])
  /\ UNCHANGED bookVars

\* A valid file whose content no row holds comes to the choice of a department.
Offer(t) ==
  LET u == UserOf(t)
      c == task[t].sha
      token == uploads[u] + 1
  IN /\ task[t].at = "download"
     /\ Ends(t)
     /\ IF Book!Held(c)
          THEN UNCHANGED <<fsm, chatVars>>
          ELSE /\ uploads' = [uploads EXCEPT ![u] = token]
               /\ Put(u, [Cleared EXCEPT !.state = "choosing_department", !.token = token, !.sha = c])
               /\ UNCHANGED buttons
     /\ UNCHANGED bookVars

\* The file is rejected: a message, and the state stays as it is.
Reject(t) ==
  /\ task[t].at = "download"
  /\ Ends(t)
  /\ UNCHANGED <<bookVars, fsm, chatVars>>

Terminal(d) == cycle[d] \notin {"absent", "collecting"}

\* handle_department_callback: its only query is made in the same step.
ChooseDepartment(t, p) ==
  LET u == UserOf(t) IN
  /\ Starts(t) /\ fsm[u].state = "choosing_department"
  /\ IF Terminal(DateOf[fsm[u].sha])
       THEN Clear(u)
       ELSE /\ Put(u, [fsm[u] EXCEPT !.state = "confirming_department", !.dept = p])
            /\ Show(u, "deptconfirm", fsm[u].sha, p, NoFile)
            /\ UNCHANGED uploads
  /\ UNCHANGED <<bookVars, task>>

\* Mutant: the state is not set back.
OtherKeepsState(t, b) ==
  LET u == UserOf(t) IN
  /\ Press(t, "deptconfirm", "confirming_department", b)
  /\ Put(u, [fsm[u] EXCEPT !.dept = Nothing])
  /\ UNCHANGED <<bookVars, task, chatVars>>

\* "other department": the choice starts again under the same token.
OtherDepartment(t, b) ==
  LET u == UserOf(t) IN
  /\ Press(t, "deptconfirm", "confirming_department", b)
  /\ Put(u, [fsm[u] EXCEPT !.state = "choosing_department", !.dept = Nothing])
  /\ UNCHANGED <<bookVars, task, chatVars>>

-----------------------------------------------------------------------------
(* Confirming a department, a new cycle, a replacement *)

Confirm(t, b, kind, state, to) ==
  /\ Press(t, kind, state, b)
  /\ Go(t, [at |-> to, sha |-> fsm[b.user].sha, dept |-> fsm[b.user].dept, button |-> b])
  /\ UNCHANGED <<bookVars, fsm, chatVars>>

\* handle_department_confirm_callback looks for the cycle, ...
LookUpCycle(t) ==
  LET d == DateOf[task[t].sha] IN
  /\ task[t].at = "cycle"
  /\ \/ Terminal(d) /\ Clear(UserOf(t)) /\ Ends(t)
     \/ /\ ~Terminal(d)
        /\ Go(t, [task[t] EXCEPT !.at = IF cycle[d] = "absent" THEN "count" ELSE "slot"])
        /\ UNCHANGED <<fsm, chatVars>>
  /\ UNCHANGED bookVars

\* ... if there is none, asks before it opens one beside another, ...
CountCollecting(t) ==
  LET u == UserOf(t) IN
  /\ task[t].at = "count"
  /\ IF \E d \in Date : cycle[d] = "collecting"
       THEN /\ Put(u, [fsm[u] EXCEPT !.state = "confirming_new_cycle"])
            /\ Show(u, "newcycle", task[t].sha, Nothing, NoFile)
            /\ Ends(t)
       ELSE Go(t, [task[t] EXCEPT !.at = "add", !.sha = fsm[u].sha]) /\ UNCHANGED <<fsm, buttons>>
  /\ UNCHANGED <<bookVars, uploads>>

\* ... and asks before it replaces a file (_save_or_prompt_replacement, which
\* reads the data of the FSM anew).
LookUpSlot(t) ==
  LET u == UserOf(t)
      active == Book!ActiveIn(DateOf[task[t].sha], task[t].dept)
  IN /\ task[t].at = "slot"
     /\ \/ /\ active = {}
           /\ Go(t, [task[t] EXCEPT !.at = "add", !.sha = fsm[u].sha])
           /\ UNCHANGED <<fsm, buttons>>
        \/ \E f \in active :
             /\ Put(u, [fsm[u] EXCEPT !.state = "confirming_replace", !.expected = f])
             /\ Show(u, "replace", task[t].sha, task[t].dept, f)
             /\ Ends(t)
     /\ UNCHANGED <<bookVars, uploads>>

Room == \E f \in File : file[f].life = "free"
NextFile == CHOOSE f \in File : file[f].life = "free" /\ \A g \in 1 .. f - 1 : file[g].life # "free"

\* What add_source_file_atomic and replace_source_file_atomic check.
CanAdd(p, c) ==
  ~Terminal(DateOf[c]) /\ ~Book!Held(c) /\ Book!ActiveIn(DateOf[c], p) = {}

CanReplace(p, c, f) ==
  Book!Mutable(DateOf[c]) /\ ~Book!Held(c) /\ Book!ActiveIn(DateOf[c], p) = {f}

Completes(p, c) == Book!Present(DateOf[c]) \cup {p} = Dept

\* The transaction of either: a row, the end of the one below it, and with the last
\* department the end of the cycle and its report.
Insert(p, c, base, who) ==
  LET d == DateOf[c] IN
  /\ Room
  /\ file' = [f \in File |->
       IF f = NextFile THEN [life |-> "active", date |-> d, dept |-> p, sha |-> c, base |-> base,
                             by |-> who]
       ELSE IF f = base THEN [file[f] EXCEPT !.life = "superseded"] ELSE file[f]]
  /\ cycle' = [cycle EXCEPT ![d] = IF Completes(p, c) THEN "completed" ELSE "collecting"]
  /\ report' = [report EXCEPT ![d] = Completes(p, c)]

\* Mutant: the id of the replaced file is not kept.
FinalizeForgetful(t, base) ==
  IF Completes(task[t].dept, task[t].sha)
    THEN Clear(UserOf(t))
    ELSE /\ Put(UserOf(t), [Cleared EXCEPT !.state = "can_undo", !.sha = task[t].sha,
                                           !.saved = NextFile])
         /\ UNCHANGED chatVars

\* _finalize_save: the undo of a saved file, while its cycle collects.  The upload
\* token, which is kept, is not compared any more.
Finalize(t, base) ==
  IF Completes(task[t].dept, task[t].sha)
    THEN Clear(UserOf(t))
    ELSE /\ Put(UserOf(t), [Cleared EXCEPT !.state = "can_undo", !.sha = task[t].sha,
                                           !.saved = NextFile, !.previous = base])
         /\ UNCHANGED chatVars

Save(t, base) == Insert(task[t].dept, task[t].sha, base, UserOf(t)) /\ Finalize(t, base)

\* A business error is told to the user.
Refused(t) == Clear(UserOf(t)) /\ UNCHANGED bookVars

\* _persist_add
Add(t) ==
  /\ task[t].at = "add"
  /\ IF CanAdd(task[t].dept, task[t].sha) THEN Save(t, NoFile) ELSE Refused(t)
  /\ Ends(t)

\* handle_replace_callback: the file of the prompt must still be there.
Replace(t) ==
  LET f == fsm[UserOf(t)].expected IN
  /\ task[t].at = "replace"
  /\ IF CanReplace(task[t].dept, task[t].sha, f) THEN Save(t, f) ELSE Refused(t)
  /\ Ends(t)

-----------------------------------------------------------------------------
(* Undo *)

\* /undo or the button under a saved file: _prompt_undo_confirmation.  The repeated
\* /undo of a user who is already asked only draws a new token.
Undo(t) ==
  LET u == UserOf(t) IN
  /\ Starts(t) /\ fsm[u].state = "can_undo"
  /\ Put(u, [fsm[u] EXCEPT !.state = "confirming_undo"])
  /\ UNCHANGED <<bookVars, task, chatVars>>

\* "keep": the undo stays possible.
Keep(t) ==
  LET u == UserOf(t) IN
  /\ Starts(t) /\ fsm[u].state = "confirming_undo"
  /\ Put(u, [fsm[u] EXCEPT !.state = "can_undo"])
  /\ UNCHANGED <<bookVars, task, chatVars>>

ConfirmUndo(t) ==
  LET u == UserOf(t) IN
  /\ Starts(t) /\ fsm[u].state = "confirming_undo"
  /\ Go(t, [at |-> "withdraw", sha |-> fsm[u].sha, dept |-> Nothing, button |-> Nothing])
  /\ UNCHANGED <<bookVars, fsm, chatVars>>

\* What withdraw_source_file_atomic checks of the file and of the one below it.
CanWithdraw(f, previous) ==
  /\ file[f].life = "active" /\ Book!Mutable(file[f].date)
  /\ previous # NoFile => /\ file[previous].life = "superseded"
                          /\ Book!InSlot(previous, file[f].date, file[f].dept)

Revoke(f, previous) ==
  /\ file' = [g \in File |->
       IF g = f THEN [file[g] EXCEPT !.life = "revoked"]
       ELSE IF g = previous THEN [file[g] EXCEPT !.life = "active"] ELSE file[g]]
  /\ UNCHANGED <<cycle, report>>

\* The file comes back to the choice of a department, under a new token.
Withdraw(t) ==
  LET u == UserOf(t)
      d == fsm[u]
      token == uploads[u] + 1
  IN /\ task[t].at = "withdraw"
     /\ IF CanWithdraw(d.saved, d.previous)
          THEN /\ Revoke(d.saved, d.previous)
               /\ uploads' = [uploads EXCEPT ![u] = token]
               /\ Put(u, [Cleared EXCEPT !.state = "choosing_department", !.token = token,
                                         !.sha = task[t].sha])
               /\ UNCHANGED buttons
          ELSE Refused(t)
     /\ Ends(t)

-----------------------------------------------------------------------------
(* Failures, other users, the scheduler *)

\* A download, a query or a transaction fails: the dialogue is cleared.  If only
\* the answer to the user fails after a commit, it is cleared as by Cancel.
Fails(t) ==
  /\ task[t] # NoTask
  /\ Clear(UserOf(t)) /\ Ends(t)
  /\ UNCHANGED bookVars

\* The process restarts: MemoryStorage is empty.
Restart ==
  /\ fsm' = [u \in User |-> Cleared]
  /\ task' = [t \in Task |-> NoTask]
  /\ buttons' = {}
  /\ uploads' = [u \in User |-> 0]
  /\ UNCHANGED bookVars

\* The transactions of all other users, whatever their dialogues are.
OthersSave ==
  /\ Room
  /\ \E p \in Dept, c \in Sha :
       \/ CanAdd(p, c) /\ Insert(p, c, NoFile, Others)
       \/ \E f \in File : CanReplace(p, c, f) /\ Insert(p, c, f, Others)
  /\ UNCHANGED <<fsm, task, chatVars>>

OthersWithdraw ==
  /\ \E f \in File : /\ file[f].life = "active" /\ file[f].by = Others
                     /\ CanWithdraw(f, file[f].base) /\ Revoke(f, file[f].base)
  /\ UNCHANGED <<fsm, task, chatVars>>

\* expire_cycle_if_due of the idle scheduler.
Expire(d) == Book!Expire(d) /\ UNCHANGED <<fsm, task, chatVars>>

-----------------------------------------------------------------------------
Message(t) ==
  \/ Cancel(t) \/ Undo(t) \/ Keep(t) \/ ConfirmUndo(t)
  \/ \E c \in Sha : Document(t, c)
  \/ \E p \in Dept : ChooseDepartment(t, p)

Callback(t, b) ==
  \/ OtherDepartment(t, b)
  \/ Confirm(t, b, "deptconfirm", "confirming_department", "cycle")
  \/ Confirm(t, b, "newcycle", "confirming_new_cycle", "add")
  \/ Confirm(t, b, "replace", "confirming_replace", "replace")

Resume(t) ==
  \/ Offer(t) \/ Reject(t) \/ LookUpCycle(t) \/ CountCollecting(t) \/ LookUpSlot(t)
  \/ Add(t) \/ Replace(t) \/ Withdraw(t) \/ Fails(t)

Next ==
  \/ \E t \in Task : Message(t) \/ Resume(t) \/ \E b \in buttons : Callback(t, b)
  \/ \E d \in Date : Expire(d)
  \/ OthersSave \/ OthersWithdraw \/ Restart

Spec == Init /\ [][Next]_vars

-----------------------------------------------------------------------------
(* Properties *)

\* An upload that waits for its department or its confirmation is not overwritten
\* by another document of the same user, however the two arrive (main.py).
UploadNotOverwritten ==
  [][\A u \in User :
       fsm[u].state \notin {"none", "can_undo"} /\ fsm'[u].sha # Nothing =>
         fsm'[u].sha = fsm[u].sha]_vars

\* The handler t ends with a new row f.
Saves(t, f) ==
  task[t] # NoTask /\ task'[t] = NoTask /\ file[f].life = "free" /\ file'[f].life # "free"

\* The new row f is the upload of keyboard b, for the department its user chose last and
\* was asked about, perhaps by another keyboard of that upload.
Chosen(b, f) ==
  /\ file'[f].sha = b.sha /\ file'[f].by = b.user
  /\ file'[f].dept = fsm[b.user].dept
  /\ \E k \in buttons : /\ k.kind = "deptconfirm" /\ k.user = b.user /\ k.token = b.token
                        /\ k.sha = b.sha /\ k.dept = file'[f].dept
  /\ file'[f].base = b.file
  /\ b.file # NoFile => b.dept = file'[f].dept /\ file[b.file].life = "active"

\* What is saved is the upload that the pressed keyboard belongs to, under the
\* department chosen last for it.  A replacement takes the place of the very file
\* that the pressed prompt named, and nothing is replaced without a prompt.  Only for
\* a replacement need the pressed keyboard name that department: see SavedUnderShown.
SavedAsChosen ==
  [][\A t \in Task, f \in File : Saves(t, f) => Chosen(task[t].button, f)]_vars

\* A file is saved under the department that the pressed keyboard asks about
\* (docs/ASSUMPTIONS.md, 2.4).  The code does not keep to it: after "other department"
\* and a second choice, "confirm" of the first question saves under the second.
SavedUnderShown ==
  [][\A t \in Task, f \in File :
       Saves(t, f) /\ task[t].button.dept # Nothing => task[t].button.dept = file'[f].dept]_vars

\* An undo takes back a file of the user who confirms it, and the department has
\* again the file it had before, whatever other users have replaced since.
UndoRestores ==
  [][\A f \in File :
       file[f].life = "active" /\ file'[f].life = "revoked" =>
         /\ file[f].by # Others => \E t \in Task :
              /\ task[t] # NoTask /\ task'[t] = NoTask /\ task[t].at = "withdraw"
              /\ file[f].by = UserOf(t) /\ file[f].sha = task[t].sha
         /\ {g \in File : file'[g].life = "active" /\ file'[g].date = file[f].date
                          /\ file'[g].dept = file[f].dept} = {file[f].base} \ {NoFile}]_vars

\* The dialogues keep the book that the transactions of AuditCycle keep: whoever saves
\* and undoes what, a department's file changes at once and the cycle with it.
slots == [d \in Date |-> [p \in Dept |-> Book!ActiveIn(d, p)]]
Cycles == INSTANCE CycleBook WITH status <- cycle, slot <- slots
BookKept == Cycles!Spec

-----------------------------------------------------------------------------
(* The inductive invariant *)

\* At most one handler of a user runs.
AloneInv ==
  \A s, t \in Task :
    task[s] # NoTask /\ task[t] # NoTask /\ UserOf(s) = UserOf(t) => s = t

\* Only a department with no ACTIVE file gets one, and an undo restores one only in
\* the place of another.
RowsInv ==
  \A f, g \in File :
    file[f].life = "active" /\ file[g].life = "active"
      /\ file[f].date = file[g].date /\ file[f].dept = file[g].dept => f = g

\* The user was asked to confirm the department that the upload has.
Asked(u) ==
  \E k \in buttons : /\ k.kind = "deptconfirm" /\ k.user = u /\ k.token = fsm[u].token
                     /\ k.sha = fsm[u].sha /\ k.dept = fsm[u].dept

\* The row whose undo is offered is the one that the user saved.
OwnsSaved(u) ==
  LET row == file[fsm[u].saved] IN
  /\ row.life # "free" /\ row.by = u /\ row.sha = fsm[u].sha /\ row.base = fsm[u].previous

\* An upload asks its questions under the last token of its user.
Asking == {"choosing_department", "confirming_department", "confirming_new_cycle",
           "confirming_replace"}

UserOK(u) ==
  /\ fsm[u].token = IF fsm[u].state \in Asking THEN uploads[u] ELSE 0
  /\ fsm[u].state \in Asking => uploads[u] # 0
  /\ fsm[u].dept # Nothing => Asked(u)
  /\ fsm[u].saved # NoFile => OwnsSaved(u)

\* A keyboard of the present upload shows its content; those of the later questions
\* are there only while the question is open, and show what it is about.
ButtonOK(b) ==
  LET d == fsm[b.user] IN
  /\ b.token # 0 /\ b.token <= uploads[b.user]
  /\ b.kind # "replace" => b.file = NoFile
  /\ b.token = d.token =>
       /\ b.sha = d.sha
       /\ b.kind = "newcycle" => d.state = "confirming_new_cycle"
       /\ b.kind = "replace" =>
            d.state = "confirming_replace" /\ b.dept = d.dept /\ b.file = d.expected

\* What a waiting handler keeps is still what the FSM of its user says.
TaskOK(t) ==
  LET k == task[t]
      d == fsm[UserOf(t)]
  IN /\ k.at = "download" => d = Cleared
     /\ k.at # "download" => k.sha = d.sha
     /\ k.at \in {"cycle", "count", "slot"} => d.state = "confirming_department"
     /\ k.at = "add" => d.state \in {"confirming_department", "confirming_new_cycle"}
     /\ k.at = "replace" => d.state = "confirming_replace"
     /\ k.at = "withdraw" => d.state = "confirming_undo"
     /\ k.at \notin {"download", "withdraw"} =>
          /\ k.dept = d.dept
          /\ k.button \in buttons /\ k.button.user = UserOf(t) /\ k.button.token = d.token
          /\ k.button.kind = "replace" <=> k.at = "replace"

UserInv == \A u \in User : UserOK(u)
ButtonInv == \A b \in buttons : ButtonOK(b)
TaskInv == \A t \in Task : task[t] # NoTask => TaskOK(t)

DialogueInv == TypeOK /\ AloneInv /\ RowsInv /\ UserInv /\ ButtonInv /\ TaskInv

\* A cycle that collects misses a department.
CollectingInv == \A d \in Date : cycle[d] = "collecting" => Book!Present(d) # Dept
=============================================================================
