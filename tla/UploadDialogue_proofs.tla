------------------------ MODULE UploadDialogue_proofs ------------------------
(***************************************************************************)
(* Proofs about UploadDialogue, for any number of users, departments,      *)
(* dates and contents, and whatever the other users do.                    *)
(***************************************************************************)
EXTENDS UploadDialogue, SetFacts, TLAPS

-----------------------------------------------------------------------------
(* The rows of the book *)

\* No row disappears, and only its life ever changes.
RowsKept ==
  \A f \in File : file[f].life # "free" =>
    /\ file'[f].life # "free" /\ file'[f].date = file[f].date /\ file'[f].dept = file[f].dept
    /\ file'[f].sha = file[f].sha /\ file'[f].base = file[f].base /\ file'[f].by = file[f].by

\* What the three tables may hold.
BookTypeOK ==
  /\ cycle \in [Date -> Book!Status] /\ report \in [Date -> BOOLEAN]
  /\ file \in [File -> FileRow \cup {Book!FreeFile}]

\* A content has one of the report dates.
LEMMA DateType ==
  ASSUME NEW c \in Sha
  PROVE  DateOf[c] \in Date
BY DialogueAssumption

\* A row that is not free has all its columns.
LEMMA RowType ==
  ASSUME TypeOK, NEW f \in File
  PROVE  /\ file[f].life # "free" => file[f] \in FileRow
         /\ file[f].life = "free" => file[f] = Book!FreeFile
BY DEF TypeOK, FileRow, Book!FreeFile, Book!Life

\* The ACTIVE files of a department, in the terms of this module.
LEMMA ActiveFiles ==
  ASSUME NEW d, NEW p
  PROVE  Book!ActiveIn(d, p) = {f \in File : /\ file[f].life # "free" /\ file[f].date = d
                                             /\ file[f].dept = p /\ file[f].life = "active"}
BY DEF Book!ActiveIn, Book!InSlot, Book!File, File

\* The next id is one of a row that does not exist.
LEMMA NextFileIsFree ==
  ASSUME Room
  PROVE  NextFile \in File /\ file[NextFile].life = "free"
<1> DEFINE Free0 == {f \in File : file[f].life = "free"}
<1>1. Free0 \in SUBSET Nat /\ Free0 # {}
  BY DialogueAssumption DEF Room, File
<1>2. PICK x \in Free0 : \A y \in Free0 : x <= y
  BY <1>1, LeastNatural
<1>3. ASSUME NEW g \in 1 .. x - 1  PROVE file[g].life # "free"
  <2>1. x \in 1 .. MaxFile /\ g \in Int /\ 1 <= g /\ g <= x - 1 /\ MaxFile \in Nat
    BY <1>2, <1>3, DialogueAssumption DEF File
  <2>2. g \in File /\ ~ (x <= g)
    BY <2>1 DEF File
  <2> QED
    BY <1>2, <2>2
<1>4. \E f \in File : file[f].life = "free" /\ \A g \in 1 .. f - 1 : file[g].life # "free"
  BY <1>2, <1>3
<1> QED
  BY <1>4 DEF NextFile

\* An insertion writes one new row, which is ACTIVE, and ends the one below it.
LEMMA InsertRows ==
  ASSUME TypeOK, NEW p \in Dept, NEW c \in Sha, NEW base \in File \cup {NoFile},
         NEW who \in User \cup {Others}, base # NoFile => file[base].life = "active",
         Insert(p, c, base, who)
  PROVE  /\ BookTypeOK' /\ RowsKept
         /\ NextFile \in File /\ file[NextFile].life = "free"
         /\ file'[NextFile] = [life |-> "active", date |-> DateOf[c], dept |-> p, sha |-> c,
                               base |-> base, by |-> who]
         /\ \A f \in File \ {NextFile} :
              /\ file'[f].life = "active" => file[f].life = "active" /\ f # base
              /\ file[f].life = "free" => file'[f].life = "free"
         /\ \A f \in File : file[f].life = "active" => file'[f].life # "revoked"
<1> DEFINE row == [life |-> "active", date |-> DateOf[c], dept |-> p, sha |-> c,
                   base |-> base, by |-> who]
<1>1. NextFile \in File /\ file[NextFile].life = "free"
  BY NextFileIsFree DEF Insert
<1>2. DateOf[c] \in Date
  BY DateType
<1>3. row \in FileRow
  BY <1>2 DEF FileRow, Book!Life
<1>4. file' = [f \in File |-> IF f = NextFile THEN row
                              ELSE IF f = base THEN [file[f] EXCEPT !.life = "superseded"]
                              ELSE file[f]]
  BY DEF Insert
<1>5. file'[NextFile] = row /\ NextFile # base
  BY <1>1, <1>4 DEF File, NoFile
<1>6. ASSUME base # NoFile
      PROVE  /\ base \in File /\ file[base] \in FileRow
             /\ file'[base] = [file[base] EXCEPT !.life = "superseded"]
             /\ file'[base] \in FileRow /\ file'[base].life = "superseded"
  <2>1. base \in File /\ file[base] \in FileRow
    BY <1>6, RowType
  <2>2. file'[base] = [file[base] EXCEPT !.life = "superseded"]
    BY <2>1, <1>4, <1>5
  <2> QED
    BY <2>1, <2>2 DEF FileRow, Book!Life
<1>7. \A f \in File \ {NextFile, base} : file'[f] = file[f]
  BY <1>4
<1>8. file' \in [File -> FileRow \cup {Book!FreeFile}]
  <2>1. \A f \in File : file'[f] \in FileRow \cup {Book!FreeFile}
    BY <1>3, <1>5, <1>6, <1>7 DEF TypeOK, NoFile, File
  <2> QED
    BY <2>1, <1>4
<1>9. BookTypeOK'
  <2>1. cycle' \in [Date -> Book!Status]
    BY <1>2 DEF Insert, TypeOK, Book!Status
  <2>2. report' \in [Date -> BOOLEAN]
    <3>1. Completes(p, c) \in BOOLEAN
      BY DEF Completes
    <3> QED
      BY <1>2, <3>1 DEF Insert, TypeOK
  <2> QED
    BY <1>8, <2>1, <2>2 DEF BookTypeOK
<1>10. RowsKept
  <2> SUFFICES ASSUME NEW f \in File, file[f].life # "free"
               PROVE  /\ file'[f].life # "free" /\ file'[f].date = file[f].date
                      /\ file'[f].dept = file[f].dept /\ file'[f].sha = file[f].sha
                      /\ file'[f].base = file[f].base /\ file'[f].by = file[f].by
    BY DEF RowsKept
  <2>1. CASE f = base
    <3>1. base # NoFile
      BY <2>1 DEF File, NoFile
    <3> QED
      BY <2>1, <3>1, <1>6 DEF FileRow
  <2>2. CASE f # base
    BY <2>2, <1>1, <1>7
  <2> QED
    BY <2>1, <2>2
<1>11. ASSUME NEW f \in File \ {NextFile}
       PROVE  /\ file'[f].life = "active" => file[f].life = "active" /\ f # base
              /\ file[f].life = "free" => file'[f].life = "free"
  <2>1. CASE f = base
    BY <2>1, <1>6 DEF File, NoFile
  <2>2. CASE f # base
    BY <2>2, <1>7
  <2> QED
    BY <2>1, <2>2
<1>12. ASSUME NEW f \in File, file[f].life = "active"  PROVE file'[f].life # "revoked"
  <2>1. CASE f = base
    BY <2>1, <1>6 DEF File, NoFile
  <2>2. CASE f # base
    BY <2>2, <1>1, <1>12, <1>7
  <2> QED
    BY <2>1, <2>2
<1> QED
  BY <1>1, <1>5, <1>9, <1>10, <1>11, <1>12

\* A department with no file, or with the one that is replaced, has one file after.
LEMMA InsertUnique ==
  ASSUME TypeOK, RowsInv, NEW p \in Dept, NEW c \in Sha, NEW base \in File \cup {NoFile},
         NEW who \in User \cup {Others}, base # NoFile => file[base].life = "active",
         Book!ActiveIn(DateOf[c], p) = {base} \ {NoFile},
         Insert(p, c, base, who)
  PROVE  RowsInv'
<1>1. \A f \in File \ {NextFile} :
        file'[f].life = "active" => file[f].life = "active" /\ f # base
  BY InsertRows
<1>2. /\ file'[NextFile].date = DateOf[c] /\ file'[NextFile].dept = p
      /\ RowsKept /\ NextFile \in File
  <2>1. /\ file'[NextFile] = [life |-> "active", date |-> DateOf[c], dept |-> p, sha |-> c,
                              base |-> base, by |-> who]
        /\ RowsKept /\ NextFile \in File
    BY InsertRows
  <2> QED
    BY <2>1
<1>3. ASSUME NEW f \in File \ {NextFile}, file'[f].life = "active"
      PROVE  ~ (file'[f].date = DateOf[c] /\ file'[f].dept = p)
  <2>1. file[f].life = "active" /\ f # base
    BY <1>1, <1>3
  <2>2. file'[f].date = file[f].date /\ file'[f].dept = file[f].dept
    BY <1>2, <2>1 DEF RowsKept
  <2>3. f \notin Book!ActiveIn(DateOf[c], p)
    BY <2>1
  <2> QED
    BY <2>1, <2>2, <2>3, ActiveFiles
<1>4. ASSUME NEW f \in File \ {NextFile}, NEW g \in File \ {NextFile},
             file'[f].life = "active", file'[g].life = "active",
             file'[f].date = file'[g].date, file'[f].dept = file'[g].dept
      PROVE  f = g
  <2>1. file[f].life = "active" /\ file[g].life = "active"
    BY <1>1, <1>4
  <2>2. file[f].date = file[g].date /\ file[f].dept = file[g].dept
    BY <1>2, <1>4, <2>1 DEF RowsKept
  <2> QED
    BY <2>1, <2>2 DEF RowsInv
<1> QED
  BY <1>2, <1>3, <1>4 DEF RowsInv

\* A withdrawal ends one row and restores the one below it, in the same place.
LEMMA RevokeRows ==
  ASSUME TypeOK, RowsInv, NEW f \in File, NEW previous \in File \cup {NoFile},
         CanWithdraw(f, previous), Revoke(f, previous)
  PROVE  /\ BookTypeOK' /\ RowsKept /\ RowsInv'
         /\ \A g \in File : file[g].life = "free" => file'[g].life = "free"
         /\ \A g \in File : file[g].life = "active" /\ file'[g].life = "revoked" => g = f
         /\ {g \in File : file'[g].life = "active" /\ file'[g].date = file[f].date
                          /\ file'[g].dept = file[f].dept} = {previous} \ {NoFile}
<1>1. file[f].life = "active" /\ file[f] \in FileRow
  BY RowType DEF CanWithdraw
<1>2. ASSUME previous # NoFile
      PROVE  /\ previous \in File /\ file[previous].life = "superseded"
             /\ file[previous] \in FileRow /\ previous # f
             /\ file[previous].date = file[f].date /\ file[previous].dept = file[f].dept
  BY <1>1, <1>2, RowType DEF CanWithdraw, Book!InSlot
<1>3. file' = [g \in File |->
                 IF g = f THEN [file[g] EXCEPT !.life = "revoked"]
                 ELSE IF g = previous THEN [file[g] EXCEPT !.life = "active"] ELSE file[g]]
  BY DEF Revoke
<1>4. file'[f] = [file[f] EXCEPT !.life = "revoked"]
  BY <1>3
<1>5. file'[f] \in FileRow /\ file'[f].life = "revoked"
      /\ \A k \in {"date", "dept", "sha", "base", "by"} : file'[f][k] = file[f][k]
  BY <1>1, <1>4 DEF FileRow, Book!Life
<1>6. ASSUME previous # NoFile
      PROVE  /\ file'[previous] \in FileRow /\ file'[previous].life = "active"
             /\ \A k \in {"date", "dept", "sha", "base", "by"} :
                  file'[previous][k] = file[previous][k]
  <2>1. file'[previous] = [file[previous] EXCEPT !.life = "active"]
    BY <1>2, <1>3, <1>6
  <2> QED
    BY <1>2, <1>6, <2>1 DEF FileRow, Book!Life
<1>7. \A g \in File \ {f, previous} : file'[g] = file[g]
  BY <1>3
<1>8. BookTypeOK'
  <2>1. ASSUME NEW g \in File  PROVE file'[g] \in FileRow \cup {Book!FreeFile}
    <3>1. CASE g = f
      BY <3>1, <1>5
    <3>2. CASE g = previous
      <4>1. previous # NoFile
        BY <3>2, <2>1 DEF NoFile, File
      <4> QED
        BY <3>2, <4>1, <1>6
    <3>3. CASE g \notin {f, previous}
      <4>1. file'[g] = file[g]
        BY <3>3, <1>7
      <4> QED
        BY <4>1 DEF TypeOK, BookTypeOK
    <3> QED
      BY <3>1, <3>2, <3>3
  <2>2. file' \in [File -> FileRow \cup {Book!FreeFile}]
    BY <2>1, <1>3
  <2> QED
    BY <2>2 DEF BookTypeOK, Revoke, TypeOK
<1>9. RowsKept
  <2> SUFFICES ASSUME NEW g \in File, file[g].life # "free"
               PROVE  /\ file'[g].life # "free" /\ file'[g].date = file[g].date
                      /\ file'[g].dept = file[g].dept /\ file'[g].sha = file[g].sha
                      /\ file'[g].base = file[g].base /\ file'[g].by = file[g].by
    BY DEF RowsKept
  <2>1. CASE g = f
    BY <2>1, <1>5
  <2>2. CASE g = previous
    <3>1. previous # NoFile
      BY <2>2 DEF File, NoFile
    <3> QED
      BY <2>2, <3>1, <1>6
  <2>3. CASE g \notin {f, previous}
    BY <2>3, <1>7
  <2> QED
    BY <2>1, <2>2, <2>3
<1>10. ASSUME NEW g \in File
       PROVE  /\ file[g].life = "free" => file'[g].life = "free"
              /\ file[g].life = "active" /\ file'[g].life = "revoked" => g = f
              /\ file'[g].life = "active" => g = previous \/ (file[g].life = "active" /\ g # f)
  <2>1. CASE g = f
    BY <2>1, <1>1, <1>5
  <2>2. CASE g = previous
    <3>1. previous # NoFile
      BY <2>2 DEF File, NoFile
    <3> QED
      BY <2>2, <3>1, <1>2, <1>6
  <2>3. CASE g \notin {f, previous}
    BY <2>3, <1>7
  <2> QED
    BY <2>1, <2>2, <2>3
<1>11. ASSUME NEW g \in File, file'[g].life = "active",
              file'[g].date = file[f].date, file'[g].dept = file[f].dept
       PROVE  g = previous
  <2>1. SUFFICES ASSUME file[g].life = "active", g # f  PROVE FALSE
    BY <1>10, <1>11
  <2>2. file[g].date = file[f].date /\ file[g].dept = file[f].dept
    BY <1>9, <1>11, <2>1 DEF RowsKept
  <2> QED
    BY <1>1, <2>1, <2>2 DEF RowsInv
<1>12. RowsInv'
  <2> SUFFICES ASSUME NEW g \in File, NEW h \in File, file'[g].life = "active",
                      file'[h].life = "active", file'[g].date = file'[h].date,
                      file'[g].dept = file'[h].dept
               PROVE  g = h
    BY DEF RowsInv
  <2>1. CASE g = previous \/ h = previous
    <3>1. previous # NoFile
      BY <2>1 DEF File, NoFile
    <3>2. file'[previous].date = file[f].date /\ file'[previous].dept = file[f].dept
      BY <3>1, <1>2, <1>6
    <3> QED
      BY <2>1, <3>2, <1>11
  <2>2. CASE g # previous /\ h # previous
    <3>1. file[g].life = "active" /\ file[h].life = "active"
      BY <2>2, <1>10
    <3>2. file[g].date = file[h].date /\ file[g].dept = file[h].dept
      BY <3>1, <1>9 DEF RowsKept
    <3> QED
      BY <3>1, <3>2 DEF RowsInv
  <2> QED
    BY <2>1, <2>2
<1>13. {g \in File : file'[g].life = "active" /\ file'[g].date = file[f].date
                     /\ file'[g].dept = file[f].dept} = {previous} \ {NoFile}
  <2>1. \A g \in File : file'[g].life = "active" /\ file'[g].date = file[f].date
                        /\ file'[g].dept = file[f].dept => g = previous /\ g # NoFile
    BY <1>11 DEF File, NoFile
  <2>2. previous # NoFile => /\ previous \in File /\ file'[previous].life = "active"
                             /\ file'[previous].date = file[f].date
                             /\ file'[previous].dept = file[f].dept
    BY <1>2, <1>6
  <2> QED
    BY <2>1, <2>2
<1> QED
  BY <1>8, <1>9, <1>10, <1>12, <1>13

-----------------------------------------------------------------------------
(* What a handler leaves alone *)

\* No other handler of the user of t runs.
OnlyOne(t) == \A s \in Task \ {t} : UserOf(s) = UserOf(t) => task[s] = NoTask

\* A handler belongs to an allowed user.
LEMMA TaskUser ==
  ASSUME NEW t \in Task
  PROVE  UserOf(t) \in User
BY DEF Task, UserOf

\* A handler that waits for something is a running one.
LEMMA RunningTask ==
  ASSUME TypeOK, NEW t \in Task, task[t].at # "idle" \/ task[t] # NoTask
  PROVE  task[t] # NoTask /\ task[t] \in Running
BY DEF TypeOK, NoTask

\* While a handler of a user runs, it is the only one.
LEMMA RunsAlone ==
  ASSUME AloneInv, NEW t \in Task, task[t] # NoTask
  PROVE  OnlyOne(t)
BY DEF AloneInv, OnlyOne

\* A handler starts only when none of its user runs.
LEMMA StartsAlone ==
  ASSUME NEW t \in Task, Starts(t)
  PROVE  OnlyOne(t) /\ task[t] = NoTask
BY DEF Starts, Free, OnlyOne

\* A step that leaves the tables alone keeps what is known of them.
LEMMA BookStays ==
  ASSUME DialogueInv, UNCHANGED bookVars
  PROVE  BookTypeOK' /\ RowsKept /\ RowsInv'
BY DEF DialogueInv, TypeOK, BookTypeOK, RowsKept, RowsInv, bookVars

\* What a step does to the dialogue of one user disturbs no other user, so that the
\* invariant is a matter of that user's FSM, keyboards and handler.
LEMMA StepFrame ==
  ASSUME DialogueInv, NEW t \in Task, NEW d \in Fsm, NEW n \in Nat,
         NEW k \in Running \cup {NoTask}, Fits(d), OnlyOne(t),
         fsm' = [fsm EXCEPT ![UserOf(t)] = d],
         uploads' = [uploads EXCEPT ![UserOf(t)] = n],
         task' = [task EXCEPT ![t] = k],
         buttons' \subseteq Button,
         {b \in buttons' : b.user # UserOf(t)} = {b \in buttons : b.user # UserOf(t)},
         BookTypeOK', RowsKept, RowsInv',
         UserOK(UserOf(t))',
         \A b \in buttons' : b.user = UserOf(t) => ButtonOK(b)',
         k # NoTask => TaskOK(t)'
  PROVE  DialogueInv'
<1> DEFINE u == UserOf(t)
<1>1. u \in User
  BY TaskUser
<1>2. TypeOK /\ AloneInv /\ UserInv /\ ButtonInv /\ TaskInv
  BY DEF DialogueInv
<1>3. /\ fsm'[u] = d /\ uploads'[u] = n /\ task'[t] = k
      /\ \A v \in User \ {u} : fsm'[v] = fsm[v] /\ uploads'[v] = uploads[v]
      /\ \A s \in Task \ {t} : task'[s] = task[s]
  BY <1>1, <1>2 DEF TypeOK
<1>4. \A b \in Button : b.user # u => (b \in buttons' <=> b \in buttons)
  OBVIOUS
<1>5. TypeOK'
  <2>1. fsm' \in [User -> Fsm] /\ uploads' \in [User -> Nat]
    BY <1>2 DEF TypeOK
  <2>2. task' \in [Task -> Running \cup {NoTask}]
    BY <1>2 DEF TypeOK
  <2>3. \A v \in User : Fits(fsm'[v])
    BY <1>2, <1>3 DEF TypeOK
  <2> QED
    BY <2>1, <2>2, <2>3 DEF TypeOK, BookTypeOK
<1>6. AloneInv'
  <2> SUFFICES ASSUME NEW r \in Task, NEW s \in Task, task'[r] # NoTask, task'[s] # NoTask,
                      UserOf(r) = UserOf(s)
               PROVE  r = s
    BY DEF AloneInv
  <2>1. CASE r = t \/ s = t
    BY <2>1, <1>3 DEF OnlyOne
  <2>2. CASE r # t /\ s # t
    BY <2>2, <1>2, <1>3 DEF AloneInv
  <2> QED
    BY <2>1, <2>2
<1>7. ASSUME NEW v \in User, v # u  PROVE UserOK(v)'
  <2>1. UserOK(v)
    BY <1>2 DEF UserInv
  <2>2. fsm'[v] = fsm[v] /\ uploads'[v] = uploads[v]
    BY <1>3, <1>7
  <2>3. Asked(v) => Asked(v)'
    <3>1. SUFFICES ASSUME NEW b \in buttons, b.user = v
                   PROVE  b \in buttons'
      BY <2>2 DEF Asked
    <3>2. b \in Button
      BY <1>2 DEF TypeOK
    <3> QED
      BY <3>1, <3>2, <1>4, <1>7
  <2>4. fsm[v].saved # NoFile => fsm[v].saved \in File
    BY <1>2 DEF TypeOK, Fsm
  <2>5. fsm[v].saved # NoFile /\ OwnsSaved(v) => OwnsSaved(v)'
    BY <2>2, <2>4 DEF OwnsSaved, RowsKept
  <2> QED
    BY <2>1, <2>2, <2>3, <2>5 DEF UserOK
<1>8. ASSUME NEW b \in buttons', b.user # u  PROVE ButtonOK(b)'
  <2>1. b \in Button /\ b \in buttons /\ b.user \in User
    BY <1>4, <1>8 DEF Button
  <2>2. ButtonOK(b)
    BY <1>2, <2>1 DEF ButtonInv
  <2>3. fsm'[b.user] = fsm[b.user] /\ uploads'[b.user] = uploads[b.user]
    BY <1>3, <1>8, <2>1
  <2> QED
    BY <2>2, <2>3 DEF ButtonOK
<1>9. ASSUME NEW s \in Task, s # t, task'[s] # NoTask  PROVE TaskOK(s)'
  <2>1. task'[s] = task[s] /\ TaskOK(s)
    BY <1>2, <1>3, <1>9 DEF TaskInv
  <2>2. UserOf(s) \in User /\ UserOf(s) # u
    BY <1>9, <2>1, TaskUser DEF OnlyOne
  <2>3. fsm'[UserOf(s)] = fsm[UserOf(s)]
    BY <1>3, <2>2
  <2>4. task[s].button \in buttons /\ task[s].button.user = UserOf(s)
          => task[s].button \in buttons'
    BY <1>2, <1>4, <2>2 DEF TypeOK
  <2> QED
    BY <2>1, <2>3, <2>4 DEF TaskOK
<1>10. UserInv' /\ ButtonInv' /\ TaskInv'
  BY <1>3, <1>7, <1>8, <1>9 DEF UserInv, ButtonInv, TaskInv
<1> QED
  BY <1>5, <1>6, <1>10 DEF DialogueInv

-----------------------------------------------------------------------------
(* The ways a step changes the dialogue of its user *)

\* The cleared FSM is one of its values.
LEMMA ClearedType == Cleared \in Fsm /\ Fits(Cleared)
BY DEF Cleared, Fsm, State, Fits, NoFile

\* A dialogue that ends leaves nothing to be right about.
LEMMA ClearStep ==
  ASSUME DialogueInv, NEW t \in Task, NEW k \in Running \cup {NoTask},
         OnlyOne(t), Clear(UserOf(t)), task' = [task EXCEPT ![t] = k],
         k # NoTask => k.at = "download",
         BookTypeOK', RowsKept, RowsInv'
  PROVE  DialogueInv'
<1> DEFINE u == UserOf(t)
<1>1. u \in User /\ TypeOK
  BY TaskUser DEF DialogueInv
<1>2. fsm' = [fsm EXCEPT ![u] = Cleared] /\ uploads' = [uploads EXCEPT ![u] = 0]
      /\ buttons' = {b \in buttons : b.user # u}
  BY DEF Clear, Put
<1>3. fsm'[u] = Cleared /\ uploads'[u] = 0
  BY <1>1, <1>2 DEF TypeOK
<1>4. UserOK(u)'
  BY <1>3 DEF UserOK, Cleared, Asking
<1>5. k # NoTask => TaskOK(t)'
  <2>1. task'[t] = k
    BY <1>1 DEF TypeOK
  <2> QED
    BY <1>3, <2>1 DEF TaskOK
<1>6. buttons' \subseteq Button /\ \A b \in buttons' : b.user # u
  BY <1>1, <1>2 DEF TypeOK
<1>7. {b \in buttons' : b.user # u} = {b \in buttons : b.user # u}
  BY <1>2
<1> QED
  BY <1>2, <1>4, <1>5, <1>6, <1>7, ClearedType, StepFrame

\* Nothing of the dialogue changes but where the handler waits.
LEMMA StayStep ==
  ASSUME DialogueInv, NEW t \in Task, NEW k \in Running \cup {NoTask},
         OnlyOne(t), UNCHANGED <<fsm, chatVars>>, task' = [task EXCEPT ![t] = k],
         BookTypeOK', RowsKept, RowsInv', k # NoTask => TaskOK(t)'
  PROVE  DialogueInv'
<1> DEFINE u == UserOf(t)
<1>1. u \in User /\ TypeOK /\ UserOK(u) /\ ButtonInv
  BY TaskUser DEF DialogueInv, UserInv
<1>2. fsm' = fsm /\ uploads' = uploads /\ buttons' = buttons
  BY DEF chatVars
<1>3. /\ fsm' = [fsm EXCEPT ![u] = fsm[u]] /\ uploads' = [uploads EXCEPT ![u] = uploads[u]]
      /\ fsm[u] \in Fsm /\ uploads[u] \in Nat /\ Fits(fsm[u]) /\ buttons' \subseteq Button
  BY <1>1, <1>2 DEF TypeOK
<1>4. UserOK(u)'
  <2>1. fsm[u].saved # NoFile => fsm[u].saved \in File
    BY <1>3 DEF Fsm
  <2>2. fsm[u].saved # NoFile /\ OwnsSaved(u) => OwnsSaved(u)'
    BY <1>2, <2>1 DEF OwnsSaved, RowsKept
  <2>3. Asked(u) => Asked(u)'
    BY <1>2 DEF Asked
  <2> QED
    BY <1>1, <1>2, <2>2, <2>3 DEF UserOK
<1>5. \A b \in buttons' : ButtonOK(b)'
  BY <1>1, <1>2 DEF ButtonInv, ButtonOK
<1> QED
  BY <1>2, <1>3, <1>4, <1>5, StepFrame

\* A content comes to the choice of its department under a token never used before.
LEMMA UploadStep ==
  ASSUME DialogueInv, NEW t \in Task, NEW c \in Sha, OnlyOne(t),
         Put(UserOf(t), [Cleared EXCEPT !.state = "choosing_department",
                                        !.token = uploads[UserOf(t)] + 1, !.sha = c]),
         uploads' = [uploads EXCEPT ![UserOf(t)] = uploads[UserOf(t)] + 1],
         UNCHANGED buttons, Ends(t), BookTypeOK', RowsKept, RowsInv'
  PROVE  DialogueInv'
<1> DEFINE u == UserOf(t)
           n == uploads[u] + 1
           d == [Cleared EXCEPT !.state = "choosing_department", !.token = n, !.sha = c]
<1>1. u \in User /\ TypeOK /\ ButtonInv
  BY TaskUser DEF DialogueInv
<1>2. uploads[u] \in Nat /\ n \in Nat /\ n # 0
  BY <1>1 DEF TypeOK
<1>3. /\ d.state = "choosing_department" /\ d.token = n /\ d.sha = c /\ d.dept = Nothing
      /\ d.expected = NoFile /\ d.saved = NoFile
  BY DEF Cleared
<1>4. d \in Fsm /\ Fits(d)
  <2>1. c # Nothing
    BY DialogueAssumption
  <2>2. d \in Fsm
    BY <1>2 DEF Cleared, Fsm, State, NoFile
  <2> QED
    BY <2>1, <2>2, <1>3 DEF Fits
<1>5. fsm'[u] = d /\ uploads'[u] = n
  BY <1>1 DEF Put, TypeOK
<1>6. UserOK(u)'
  BY <1>2, <1>3, <1>5 DEF UserOK, Asking
<1>7. ASSUME NEW b \in buttons', b.user = u  PROVE ButtonOK(b)'
  <2>1. ButtonOK(b) /\ b.token \in Nat
    BY <1>1, <1>7 DEF ButtonInv, TypeOK, Button
  <2>2. b.token # 0 /\ b.token <= n /\ b.token # n
    BY <1>2, <1>7, <2>1 DEF ButtonOK
  <2> QED
    BY <1>3, <1>5, <1>7, <2>1, <2>2, ZenonT(30) DEF ButtonOK
<1>8. buttons' \subseteq Button
  BY <1>1 DEF TypeOK
<1> QED
  BY <1>2, <1>4, <1>6, <1>7, <1>8, StepFrame DEF Put, Ends

\* A question is put under the token of the upload.
LEMMA ShowStep ==
  ASSUME DialogueInv, NEW t \in Task, NEW kind \in Kind, NEW d \in Fsm,
         NEW f \in File \cup {NoFile}, NEW shown \in Dept \cup {Nothing}, OnlyOne(t), Fits(d),
         fsm[UserOf(t)].state \in {"choosing_department", "confirming_department"},
         d.token = fsm[UserOf(t)].token, d.sha = fsm[UserOf(t)].sha,
         d.state \in Asking, d.dept \in Dept, d.sha \in Sha, d.saved = NoFile,
         kind = "deptconfirm" \/ d.dept = fsm[UserOf(t)].dept,
         kind = "newcycle" \/ shown = d.dept,
         kind # "replace" => f = NoFile,
         kind = "newcycle" => d.state = "confirming_new_cycle",
         kind = "replace" => d.state = "confirming_replace" /\ f = d.expected,
         Put(UserOf(t), d), Show(UserOf(t), kind, d.sha, shown, f),
         UNCHANGED <<bookVars, uploads>>, Ends(t)
  PROVE  DialogueInv'
<1> DEFINE u == UserOf(t)
           new == [user |-> u, kind |-> kind, token |-> fsm[u].token, sha |-> d.sha,
                   dept |-> shown, file |-> f]
<1>1. u \in User /\ TypeOK /\ ButtonInv /\ UserOK(u)
  BY TaskUser DEF DialogueInv, UserInv
<1>2. buttons' = buttons \cup {new}
  BY DEF Show
<1>3. fsm[u].token \in Nat /\ uploads[u] \in Nat
  BY <1>1 DEF TypeOK, Fsm
<1>4. new \in Button
  BY <1>1, <1>3 DEF Button
<1>5. /\ fsm'[u] = d /\ uploads'[u] = uploads[u]
      /\ uploads' = [uploads EXCEPT ![u] = uploads[u]]
  BY <1>1 DEF Put, TypeOK
<1>6. fsm[u].token = uploads[u] /\ uploads[u] # 0
  BY <1>1 DEF UserOK, Asking
<1>7. Asked(u)'
  <2>1. CASE kind = "deptconfirm"
    <3>1. /\ new \in buttons' /\ new.kind = "deptconfirm" /\ new.user = u
          /\ new.token = fsm'[u].token /\ new.sha = fsm'[u].sha /\ new.dept = fsm'[u].dept
      BY <1>2, <1>5, <2>1
    <3> QED
      BY <3>1 DEF Asked
  <2>2. CASE kind # "deptconfirm"
    <3>1. d.dept = fsm[u].dept /\ fsm[u].dept # Nothing
      BY <2>2, DialogueAssumption
    <3>2. Asked(u)
      BY <1>1, <3>1 DEF UserOK
    <3> QED
      BY <1>2, <1>5, <3>1, <3>2 DEF Asked
  <2> QED
    BY <2>1, <2>2
<1>8. UserOK(u)'
  BY <1>5, <1>6, <1>7 DEF UserOK
<1>9. ASSUME NEW b \in buttons', b.user = u  PROVE ButtonOK(b)'
  <2>1. CASE b = new
    <3>1. /\ b.token = fsm[u].token /\ b.sha = d.sha /\ b.file = f
          /\ b.kind = kind /\ (b.kind = "replace" => b.dept = d.dept)
      BY <2>1
    <3> QED
      BY <1>3, <1>5, <1>6, <1>9, <3>1 DEF ButtonOK
  <2>2. CASE b # new
    <3>1. ButtonOK(b)
      BY <1>1, <1>2, <2>2 DEF ButtonInv
    <3>2. b.token = fsm[u].token => b.kind # "newcycle" /\ b.kind # "replace"
      BY <1>9, <3>1 DEF ButtonOK
    <3> QED
      BY <1>5, <1>9, <3>1, <3>2 DEF ButtonOK
  <2> QED
    BY <2>1, <2>2
<1>10. /\ buttons' \subseteq Button
       /\ {b \in buttons' : b.user # u} = {b \in buttons : b.user # u}
  BY <1>1, <1>2, <1>4 DEF TypeOK
<1>11. BookTypeOK' /\ RowsKept /\ RowsInv'
  BY BookStays
<1> QED
  BY <1>3, <1>5, <1>8, <1>9, <1>10, <1>11, StepFrame DEF Put, Ends

\* The state changes, and what the keyboards of the dialogue say stays true.
LEMMA SwitchStep ==
  ASSUME DialogueInv, NEW t \in Task, NEW d \in Fsm, OnlyOne(t), Fits(d),
         fsm[UserOf(t)].state \notin {"confirming_new_cycle", "confirming_replace"},
         d.state \in Asking <=> fsm[UserOf(t)].state \in Asking,
         d.token = fsm[UserOf(t)].token, d.sha = fsm[UserOf(t)].sha, d.dept = Nothing,
         d.saved = fsm[UserOf(t)].saved, d.previous = fsm[UserOf(t)].previous,
         Put(UserOf(t), d), UNCHANGED <<bookVars, chatVars>>, Ends(t)
  PROVE  DialogueInv'
<1> DEFINE u == UserOf(t)
<1>1. u \in User /\ TypeOK /\ ButtonInv /\ UserOK(u)
  BY TaskUser DEF DialogueInv, UserInv
<1>2. /\ fsm'[u] = d /\ uploads' = uploads /\ buttons' = buttons /\ file' = file
      /\ uploads[u] \in Nat /\ uploads' = [uploads EXCEPT ![u] = uploads[u]]
      /\ buttons' \subseteq Button
  BY <1>1 DEF Put, TypeOK, chatVars, bookVars
<1>3. UserOK(u)'
  <2>1. OwnsSaved(u) => OwnsSaved(u)'
    BY <1>2 DEF OwnsSaved
  <2> QED
    BY <1>1, <1>2, <2>1 DEF UserOK
<1>4. ASSUME NEW b \in buttons', b.user = u  PROVE ButtonOK(b)'
  <2>1. ButtonOK(b)
    BY <1>1, <1>2 DEF ButtonInv
  <2> QED
    BY <1>2, <1>4, <2>1 DEF ButtonOK
<1>5. BookTypeOK' /\ RowsKept /\ RowsInv'
  BY BookStays
<1> QED
  BY <1>2, <1>3, <1>4, <1>5, StepFrame DEF Put, Ends

-----------------------------------------------------------------------------
(* The actions of a user *)

\* What is known of the FSM of the user of a handler.
LEMMA UserFacts ==
  ASSUME DialogueInv, NEW t \in Task
  PROVE  /\ UserOf(t) \in User /\ TypeOK /\ UserOK(UserOf(t))
         /\ fsm[UserOf(t)] \in Fsm /\ Fits(fsm[UserOf(t)])
BY TaskUser DEF DialogueInv, UserInv, TypeOK

\* A handler that makes its queries in one step ends where it started.
LEMMA NoWait ==
  ASSUME TypeOK, NEW t \in Task, Starts(t), UNCHANGED task
  PROVE  Ends(t)
<1>1. task[t] = NoTask /\ task \in [Task -> Running \cup {NoTask}]
  BY DEF Starts, TypeOK
<1>2. [task EXCEPT ![t] = NoTask] = task
  BY <1>1
<1> QED
  BY <1>2 DEF Ends

\* Cancel keeps the invariant.
LEMMA CancelStep ==
  ASSUME DialogueInv, NEW t \in Task, Cancel(t)
  PROVE  DialogueInv'
<1>1. OnlyOne(t) /\ Clear(UserOf(t)) /\ UNCHANGED bookVars
  BY StartsAlone DEF Cancel
<1>2. Ends(t)
  BY NoWait, UserFacts DEF Cancel
<1> QED
  BY <1>1, <1>2, ClearStep, BookStays DEF Ends

\* Undo and its refusal keep the invariant.
LEMMA UndoSteps ==
  ASSUME DialogueInv, NEW t \in Task, Undo(t) \/ Keep(t)
  PROVE  DialogueInv'
<1> DEFINE u == UserOf(t)
<1>1. PICK to \in {"confirming_undo", "can_undo"} :
        /\ fsm[u].state \in {"confirming_undo", "can_undo"}
        /\ Put(u, [fsm[u] EXCEPT !.state = to])
  BY DEF Undo, Keep
<1>2. OnlyOne(t) /\ Ends(t) /\ UNCHANGED <<bookVars, chatVars>>
  BY StartsAlone, NoWait, UserFacts DEF Undo, Keep
<1> DEFINE d == [fsm[u] EXCEPT !.state = to]
<1>3. fsm[u] \in Fsm /\ Fits(fsm[u])
  BY UserFacts
<1>4. /\ d \in Fsm /\ d.state = to /\ d.token = fsm[u].token /\ d.sha = fsm[u].sha
      /\ d.dept = fsm[u].dept /\ d.expected = fsm[u].expected
      /\ d.saved = fsm[u].saved /\ d.previous = fsm[u].previous
  BY <1>3 DEF Fsm, State
<1>5. fsm[u].dept = Nothing /\ Fits(d)
  BY <1>1, <1>3, <1>4 DEF Fits
<1>6. fsm[u].state \notin Asking /\ d.state \notin Asking
  BY <1>1, <1>4 DEF Asking
<1> QED
  BY <1>1, <1>2, <1>4, <1>5, <1>6, SwitchStep

\* A confirmed undo waits for its transaction with the content of the saved file.
LEMMA ConfirmUndoStep ==
  ASSUME DialogueInv, NEW t \in Task, ConfirmUndo(t)
  PROVE  DialogueInv'
<1> DEFINE u == UserOf(t)
           k == [at |-> "withdraw", sha |-> fsm[u].sha, dept |-> Nothing, button |-> Nothing]
<1>1. /\ OnlyOne(t) /\ fsm[u].state = "confirming_undo" /\ task' = [task EXCEPT ![t] = k]
      /\ UNCHANGED <<bookVars, fsm, chatVars>>
  BY StartsAlone DEF ConfirmUndo, Go
<1>2. fsm[u].sha \in Sha
  BY <1>1, UserFacts DEF Fsm, Fits
<1>3. k \in Running
  BY <1>2 DEF Running, At
<1>4. task'[t] = k
  BY <1>1, UserFacts DEF TypeOK
<1>5. TaskOK(t)'
  BY <1>1, <1>4 DEF TaskOK
<1> QED
  BY <1>1, <1>3, <1>5, StayStep, BookStays

\* A document waits for its download in a dialogue without anything else.
LEMMA DocumentStep ==
  ASSUME DialogueInv, NEW t \in Task, NEW c \in Sha, Document(t, c)
  PROVE  DialogueInv'
<1> DEFINE k == [at |-> "download", sha |-> c, dept |-> Nothing, button |-> Nothing]
<1>1. OnlyOne(t) /\ Clear(UserOf(t)) /\ task' = [task EXCEPT ![t] = k] /\ UNCHANGED bookVars
  BY StartsAlone DEF Document, Go
<1>2. k \in Running
  BY DEF Running, At
<1> QED
  BY <1>1, <1>2, ClearStep, BookStays

\* The choice of a department asks for it, or ends the dialogue.
LEMMA ChooseStep ==
  ASSUME DialogueInv, NEW t \in Task, NEW p \in Dept, ChooseDepartment(t, p)
  PROVE  DialogueInv'
<1> DEFINE u == UserOf(t)
           d == [fsm[u] EXCEPT !.state = "confirming_department", !.dept = p]
<1>1. OnlyOne(t) /\ Ends(t) /\ UNCHANGED bookVars /\ fsm[u].state = "choosing_department"
  BY StartsAlone, NoWait, UserFacts DEF ChooseDepartment
<1>2. CASE Clear(u)
  BY <1>1, <1>2, ClearStep, BookStays DEF Ends
<1>3. CASE ~ Clear(u)
  <2>1. Put(u, d) /\ Show(u, "deptconfirm", fsm[u].sha, p, NoFile) /\ UNCHANGED uploads
    BY <1>3 DEF ChooseDepartment
  <2>2. fsm[u] \in Fsm /\ Fits(fsm[u]) /\ p # Nothing
    BY UserFacts, DialogueAssumption
  <2>3. /\ d \in Fsm /\ d.state = "confirming_department" /\ d.token = fsm[u].token
        /\ d.sha = fsm[u].sha /\ d.dept = p /\ d.saved = fsm[u].saved
    BY <2>2 DEF Fsm, State
  <2>4. fsm[u].sha \in Sha /\ fsm[u].saved = NoFile
    BY <1>1, <2>2 DEF Fits, Fsm
  <2>5. Fits(d)
    BY <2>2, <2>3, <2>4, DialogueAssumption DEF Fits
  <2>6. "deptconfirm" \in Kind /\ d.state \in Asking
    BY <2>3 DEF Kind, Asking
  <2> QED
    BY <1>1, <2>1, <2>3, <2>4, <2>5, <2>6, ShowStep
<1> QED
  BY <1>2, <1>3

\* Another department is asked for.
LEMMA OtherDepartmentStep ==
  ASSUME DialogueInv, NEW t \in Task, NEW b \in buttons, OtherDepartment(t, b)
  PROVE  DialogueInv'
<1> DEFINE u == UserOf(t)
           d == [fsm[u] EXCEPT !.state = "choosing_department", !.dept = Nothing]
<1>1. /\ OnlyOne(t) /\ fsm[u].state = "confirming_department" /\ Put(u, d)
      /\ Ends(t) /\ UNCHANGED <<bookVars, chatVars>>
  BY StartsAlone, NoWait, UserFacts DEF OtherDepartment, Press
<1>2. fsm[u] \in Fsm /\ Fits(fsm[u])
  BY UserFacts
<1>3. /\ d \in Fsm /\ d.state = "choosing_department" /\ d.token = fsm[u].token
      /\ d.sha = fsm[u].sha /\ d.dept = Nothing /\ d.saved = fsm[u].saved
      /\ d.previous = fsm[u].previous /\ d.expected = fsm[u].expected
  BY <1>2 DEF Fsm, State
<1>4. Fits(d)
  BY <1>1, <1>2, <1>3 DEF Fits
<1>5. fsm[u].state \in Asking /\ d.state \in Asking
  BY <1>1, <1>3 DEF Asking
<1> QED
  BY <1>1, <1>3, <1>4, <1>5, SwitchStep

\* A confirmed question goes on with what the FSM says, and remembers its keyboard.
LEMMA ConfirmStep ==
  ASSUME DialogueInv, NEW t \in Task, NEW b \in buttons, NEW kind, NEW state, NEW to,
         <<kind, state, to>> \in {<<"deptconfirm", "confirming_department", "cycle">>,
                                  <<"newcycle", "confirming_new_cycle", "add">>,
                                  <<"replace", "confirming_replace", "replace">>},
         Confirm(t, b, kind, state, to)
  PROVE  DialogueInv'
<1> DEFINE u == UserOf(t)
           k == [at |-> to, sha |-> fsm[u].sha, dept |-> fsm[u].dept, button |-> b]
<1>1. /\ OnlyOne(t) /\ b.user = u /\ b.kind = kind /\ b.token = fsm[u].token
      /\ fsm[u].state = state /\ task' = [task EXCEPT ![t] = k]
      /\ UNCHANGED <<bookVars, fsm, chatVars>>
  BY StartsAlone DEF Confirm, Press, Go, TokenMatches
<1>2. fsm[u] \in Fsm /\ Fits(fsm[u]) /\ b \in Button
  BY UserFacts DEF TypeOK
<1>3. fsm[u].sha \in Sha /\ fsm[u].dept \in Dept \cup {Nothing}
  BY <1>1, <1>2 DEF Fits, Fsm
<1>4. k \in Running
  BY <1>2, <1>3 DEF Running, At
<1>5. task'[t] = k
  BY <1>1, UserFacts DEF TypeOK
<1>6. TaskOK(t)'
  BY <1>1, <1>5 DEF TaskOK, chatVars
<1> QED
  BY <1>1, <1>4, <1>6, StayStep, BookStays

-----------------------------------------------------------------------------
(* The steps of a waiting handler *)

\* What is known of a handler that waits.
LEMMA TaskFacts ==
  ASSUME DialogueInv, NEW t \in Task, task[t] # NoTask \/ task[t].at # "idle"
  PROVE  /\ task[t] # NoTask /\ task[t] \in Running /\ OnlyOne(t) /\ TaskOK(t)
         /\ task[t].sha \in Sha
BY RunningTask, RunsAlone DEF DialogueInv, TaskInv, Running

\* The file that is offered, or is already there.
LEMMA OfferStep ==
  ASSUME DialogueInv, NEW t \in Task, Offer(t)
  PROVE  DialogueInv'
<1>1. /\ OnlyOne(t) /\ task[t].sha \in Sha /\ Ends(t) /\ UNCHANGED bookVars
      /\ BookTypeOK' /\ RowsKept /\ RowsInv'
  BY TaskFacts, BookStays DEF Offer
<1>2. CASE UNCHANGED <<fsm, chatVars>>
  BY <1>1, <1>2, StayStep DEF Ends
<1>3. CASE ~ UNCHANGED <<fsm, chatVars>>
  <2>1. /\ Put(UserOf(t), [Cleared EXCEPT !.state = "choosing_department",
                                          !.token = uploads[UserOf(t)] + 1,
                                          !.sha = task[t].sha])
        /\ uploads' = [uploads EXCEPT ![UserOf(t)] = uploads[UserOf(t)] + 1]
        /\ UNCHANGED buttons
    BY <1>3 DEF Offer
  <2> QED
    BY <1>1, <2>1, UploadStep
<1> QED
  BY <1>2, <1>3

\* A file that is rejected changes nothing.
LEMMA RejectStep ==
  ASSUME DialogueInv, NEW t \in Task, Reject(t)
  PROVE  DialogueInv'
<1>1. OnlyOne(t) /\ Ends(t) /\ UNCHANGED <<bookVars, fsm, chatVars>>
  BY TaskFacts DEF Reject
<1> QED
  BY <1>1, StayStep, BookStays DEF Ends

\* A failure ends the dialogue.
LEMMA FailsStep ==
  ASSUME DialogueInv, NEW t \in Task, Fails(t)
  PROVE  DialogueInv'
<1>1. OnlyOne(t) /\ Clear(UserOf(t)) /\ Ends(t) /\ UNCHANGED bookVars
  BY TaskFacts DEF Fails
<1> QED
  BY <1>1, ClearStep, BookStays DEF Ends

\* A handler that goes on to its next query about a department keeps what it knows.
LEMMA GoOn ==
  ASSUME DialogueInv, NEW t \in Task, NEW at \in {"count", "slot", "add"},
         task[t].at \in {"cycle", "count", "slot"},
         task' = [task EXCEPT ![t] = [task[t] EXCEPT !.at = at]],
         UNCHANGED <<bookVars, fsm, chatVars>>
  PROVE  DialogueInv'
<1> DEFINE k == [task[t] EXCEPT !.at = at]
<1>1. /\ OnlyOne(t) /\ task[t] \in Running /\ TaskOK(t) /\ TypeOK
      /\ BookTypeOK' /\ RowsKept /\ RowsInv'
  BY TaskFacts, BookStays DEF DialogueInv
<1>2. /\ k \in Running /\ k.at = at /\ k.sha = task[t].sha /\ k.dept = task[t].dept
      /\ k.button = task[t].button
  BY <1>1 DEF Running, At
<1>3. task'[t] = k
  BY <1>1 DEF TypeOK
<1>4. TaskOK(t)'
  BY <1>1, <1>2, <1>3 DEF TaskOK, chatVars
<1> QED
  BY <1>1, <1>2, <1>4, StayStep

\* The cycle is terminal, missing or there.
LEMMA LookUpCycleStep ==
  ASSUME DialogueInv, NEW t \in Task, LookUpCycle(t)
  PROVE  DialogueInv'
<1>1. OnlyOne(t) /\ UNCHANGED bookVars
  BY TaskFacts DEF LookUpCycle
<1>2. CASE Clear(UserOf(t)) /\ Ends(t)
  BY <1>1, <1>2, ClearStep, BookStays DEF Ends
<1>3. CASE ~ (Clear(UserOf(t)) /\ Ends(t))
  <2>1. PICK at \in {"count", "slot"} :
          /\ task' = [task EXCEPT ![t] = [task[t] EXCEPT !.at = at]]
          /\ UNCHANGED <<fsm, chatVars>>
    BY <1>3 DEF LookUpCycle, Go
  <2> QED
    BY <1>1, <2>1, GoOn DEF LookUpCycle
<1> QED
  BY <1>2, <1>3

\* Before the answer to the questions about the cycle and the slot, the upload waits
\* for the confirmation of its department.
LEMMA BeforeQuestion ==
  ASSUME DialogueInv, NEW t \in Task, task[t].at \in {"cycle", "count", "slot"}
  PROVE  /\ fsm[UserOf(t)].state = "confirming_department"
         /\ task[t].sha = fsm[UserOf(t)].sha /\ task[t].sha \in Sha
         /\ task[t].dept = fsm[UserOf(t)].dept /\ task[t].dept \in Dept
         /\ fsm[UserOf(t)].saved = NoFile
<1>1. TaskOK(t) /\ task[t].sha \in Sha /\ task[t] \in Running
  BY TaskFacts
<1>2. /\ fsm[UserOf(t)].state = "confirming_department"
      /\ task[t].sha = fsm[UserOf(t)].sha /\ task[t].dept = fsm[UserOf(t)].dept
  BY <1>1 DEF TaskOK
<1>3. fsm[UserOf(t)].dept \in Dept /\ fsm[UserOf(t)].saved = NoFile
  BY <1>2, UserFacts DEF Fits, Fsm
<1> QED
  BY <1>1, <1>2, <1>3

\* A content that is read anew from the FSM is the one the handler has.
LEMMA ReadAnew ==
  ASSUME DialogueInv, NEW t \in Task, task[t].at \in {"count", "slot"},
         Go(t, [task[t] EXCEPT !.at = "add", !.sha = fsm[UserOf(t)].sha])
  PROVE  task' = [task EXCEPT ![t] = [task[t] EXCEPT !.at = "add"]]
<1>1. task[t] \in Running /\ task[t].sha = fsm[UserOf(t)].sha
  BY TaskFacts, BeforeQuestion
<1>2. [task[t] EXCEPT !.at = "add", !.sha = fsm[UserOf(t)].sha] = [task[t] EXCEPT !.at = "add"]
  BY <1>1 DEF Running
<1> QED
  BY <1>2 DEF Go

\* The user is asked before a cycle is opened beside another one.
LEMMA CountStep ==
  ASSUME DialogueInv, NEW t \in Task, CountCollecting(t)
  PROVE  DialogueInv'
<1> DEFINE u == UserOf(t)
           d == [fsm[u] EXCEPT !.state = "confirming_new_cycle"]
<1>1. /\ OnlyOne(t) /\ task[t].at = "count" /\ UNCHANGED <<bookVars, uploads>>
      /\ fsm[u].state = "confirming_department" /\ task[t].sha = fsm[u].sha
      /\ task[t].sha \in Sha /\ task[t].dept = fsm[u].dept /\ task[t].dept \in Dept
      /\ fsm[u].saved = NoFile
  BY TaskFacts, BeforeQuestion DEF CountCollecting
<1>2. CASE /\ Go(t, [task[t] EXCEPT !.at = "add", !.sha = fsm[u].sha])
           /\ UNCHANGED <<fsm, buttons>>
  BY <1>1, <1>2, ReadAnew, GoOn DEF chatVars
<1>3. CASE /\ Put(u, d) /\ Show(u, "newcycle", task[t].sha, Nothing, NoFile) /\ Ends(t)
  <2>1. fsm[u] \in Fsm /\ Fits(fsm[u])
    BY UserFacts
  <2>2. /\ d \in Fsm /\ d.state = "confirming_new_cycle" /\ d.token = fsm[u].token
        /\ d.sha = fsm[u].sha /\ d.dept = fsm[u].dept /\ d.saved = fsm[u].saved
    BY <2>1 DEF Fsm, State
  <2>3. Fits(d)
    BY <1>1, <2>1, <2>2 DEF Fits
  <2>4. "newcycle" \in Kind /\ d.state \in Asking
    BY <2>2 DEF Kind, Asking
  <2> QED
    BY <1>1, <1>3, <2>2, <2>3, <2>4, ShowStep
<1> QED
  BY <1>2, <1>3 DEF CountCollecting

\* The user is asked before a file is replaced, and shown which one.
LEMMA SlotStep ==
  ASSUME DialogueInv, NEW t \in Task, LookUpSlot(t)
  PROVE  DialogueInv'
<1> DEFINE u == UserOf(t)
<1>1. /\ OnlyOne(t) /\ task[t].at = "slot" /\ UNCHANGED <<bookVars, uploads>>
      /\ fsm[u].state = "confirming_department" /\ task[t].sha = fsm[u].sha
      /\ task[t].sha \in Sha /\ task[t].dept = fsm[u].dept /\ task[t].dept \in Dept
      /\ fsm[u].saved = NoFile
  BY TaskFacts, BeforeQuestion DEF LookUpSlot
<1>2. CASE /\ Go(t, [task[t] EXCEPT !.at = "add", !.sha = fsm[u].sha])
           /\ UNCHANGED <<fsm, buttons>>
  BY <1>1, <1>2, ReadAnew, GoOn DEF chatVars
<1>3. CASE \E f \in Book!ActiveIn(DateOf[task[t].sha], task[t].dept) :
             /\ Put(u, [fsm[u] EXCEPT !.state = "confirming_replace", !.expected = f])
             /\ Show(u, "replace", task[t].sha, task[t].dept, f)
             /\ Ends(t)
  <2>1. PICK f \in File :
          /\ Put(u, [fsm[u] EXCEPT !.state = "confirming_replace", !.expected = f])
          /\ Show(u, "replace", task[t].sha, task[t].dept, f)
          /\ Ends(t)
    BY <1>3, ActiveFiles
  <2> DEFINE d == [fsm[u] EXCEPT !.state = "confirming_replace", !.expected = f]
  <2>2. fsm[u] \in Fsm /\ Fits(fsm[u])
    BY UserFacts
  <2>3. /\ d \in Fsm /\ d.state = "confirming_replace" /\ d.token = fsm[u].token
        /\ d.sha = fsm[u].sha /\ d.dept = fsm[u].dept /\ d.saved = fsm[u].saved
        /\ d.expected = f
    BY <2>2 DEF Fsm, State
  <2>4. f # NoFile
    BY DEF File, NoFile
  <2>5. Fits(d)
    BY <1>1, <2>2, <2>3, <2>4 DEF Fits
  <2>6. "replace" \in Kind /\ d.state \in Asking
    BY <2>3 DEF Kind, Asking
  <2> QED
    BY <1>1, <2>1, <2>3, <2>5, <2>6, ShowStep
<1> QED
  BY <1>2, <1>3 DEF LookUpSlot

\* An upload that may be saved has a content, a department that was asked for, and the
\* keyboard that was pressed.
LEMMA BeforeSave ==
  ASSUME DialogueInv, NEW t \in Task, task[t].at \in {"add", "replace"}
  PROVE  /\ task[t].sha = fsm[UserOf(t)].sha /\ task[t].sha \in Sha
         /\ task[t].dept = fsm[UserOf(t)].dept /\ task[t].dept \in Dept
         /\ Asked(UserOf(t))
         /\ task[t].button \in buttons /\ task[t].button.user = UserOf(t)
         /\ task[t].button.token = fsm[UserOf(t)].token
         /\ task[t].button.sha = fsm[UserOf(t)].sha
         /\ task[t].at = "add" => task[t].button.file = NoFile
         /\ task[t].at = "replace" =>
              /\ task[t].button.file = fsm[UserOf(t)].expected
              /\ task[t].button.dept = fsm[UserOf(t)].dept
              /\ fsm[UserOf(t)].expected \in File
<1> DEFINE u == UserOf(t)
           b == task[t].button
<1>1. TaskOK(t) /\ task[t].sha \in Sha /\ UserOK(u) /\ fsm[u] \in Fsm /\ Fits(fsm[u])
  BY TaskFacts, UserFacts
<1>2. /\ task[t].sha = fsm[u].sha /\ task[t].dept = fsm[u].dept
      /\ b \in buttons /\ b.user = u /\ b.token = fsm[u].token
      /\ b.kind = "replace" <=> task[t].at = "replace"
  BY <1>1 DEF TaskOK
<1>3. fsm[u].dept # Nothing /\ fsm[u].dept \in Dept
  BY <1>1 DEF TaskOK, Fits, Fsm
<1>4. Asked(u)
  BY <1>1, <1>3 DEF UserOK
<1>5. ButtonOK(b)
  BY <1>2 DEF DialogueInv, ButtonInv
<1>6. /\ b.sha = fsm[u].sha
      /\ b.kind # "replace" => b.file = NoFile
      /\ b.kind = "replace" => /\ b.dept = fsm[u].dept /\ b.file = fsm[u].expected
                               /\ fsm[u].state = "confirming_replace"
  BY <1>2, <1>5 DEF ButtonOK
<1>7. fsm[u].state = "confirming_replace" => fsm[u].expected \in File
  BY <1>1 DEF Fits, Fsm
<1> QED
  BY <1>1, <1>2, <1>3, <1>4, <1>6, <1>7

\* A saved file is offered for undo, under no token, or the dialogue ends.
LEMMA SaveStep ==
  ASSUME DialogueInv, NEW t \in Task, task[t].at \in {"add", "replace"},
         NEW base \in File \cup {NoFile}, base # NoFile => file[base].life = "active",
         Book!ActiveIn(DateOf[task[t].sha], task[t].dept) = {base} \ {NoFile},
         Save(t, base), Ends(t)
  PROVE  DialogueInv'
<1> DEFINE u == UserOf(t)
           d == [Cleared EXCEPT !.state = "can_undo", !.sha = task[t].sha,
                                !.saved = NextFile, !.previous = base]
<1>1. /\ OnlyOne(t) /\ u \in User /\ TypeOK /\ RowsInv
      /\ task[t].sha \in Sha /\ task[t].dept \in Dept
  BY TaskFacts, UserFacts, BeforeSave DEF DialogueInv
<1>2. Insert(task[t].dept, task[t].sha, base, u)
  BY DEF Save
<1>3. /\ BookTypeOK' /\ RowsKept /\ NextFile \in File
      /\ file'[NextFile] = [life |-> "active", date |-> DateOf[task[t].sha],
                            dept |-> task[t].dept, sha |-> task[t].sha, base |-> base,
                            by |-> u]
  BY <1>1, <1>2, InsertRows
<1>4. RowsInv'
  BY <1>1, <1>2, InsertUnique
<1>5. CASE Clear(u)
  BY <1>1, <1>3, <1>4, <1>5, ClearStep DEF Ends
<1>6. CASE ~ Clear(u)
  <2>1. Put(u, d) /\ UNCHANGED chatVars
    BY <1>6 DEF Save, Finalize
  <2>2. /\ d.state = "can_undo" /\ d.token = 0 /\ d.sha = task[t].sha /\ d.dept = Nothing
        /\ d.expected = NoFile /\ d.saved = NextFile /\ d.previous = base
    BY DEF Cleared
  <2>3. d \in Fsm
    BY <1>1, <1>3 DEF Cleared, Fsm, State, NoFile
  <2>4. Fits(d)
    BY <1>1, <1>3, <2>2, DialogueAssumption DEF Fits, File, NoFile
  <2>5. /\ fsm'[u] = d /\ uploads' = uploads /\ buttons' = buttons /\ uploads[u] \in Nat
        /\ uploads' = [uploads EXCEPT ![u] = uploads[u]] /\ buttons' \subseteq Button
    BY <1>1, <2>1 DEF Put, TypeOK, chatVars
  <2>6. OwnsSaved(u)'
    BY <1>3, <2>2, <2>5 DEF OwnsSaved
  <2>7. UserOK(u)'
    BY <2>2, <2>5, <2>6 DEF UserOK, Asking
  <2>8. ASSUME NEW b \in buttons', b.user = u  PROVE ButtonOK(b)'
    <3>1. ButtonOK(b)
      BY <2>5 DEF DialogueInv, ButtonInv
    <3> QED
      BY <2>2, <2>5, <2>8, <3>1 DEF ButtonOK
  <2> QED
    BY <1>1, <1>3, <1>4, <2>1, <2>3, <2>4, <2>5, <2>7, <2>8, StepFrame DEF Put, Ends
<1> QED
  BY <1>5, <1>6

\* A department without a file gets one.
LEMMA AddStep ==
  ASSUME DialogueInv, NEW t \in Task, Add(t)
  PROVE  DialogueInv'
<1>1. OnlyOne(t) /\ task[t].at = "add" /\ Ends(t)
  BY TaskFacts DEF Add
<1>2. CASE CanAdd(task[t].dept, task[t].sha)
  <2>1. Save(t, NoFile) /\ Book!ActiveIn(DateOf[task[t].sha], task[t].dept) = {NoFile} \ {NoFile}
    BY <1>2 DEF Add, CanAdd
  <2> QED
    BY <1>1, <2>1, SaveStep
<1>3. CASE ~ CanAdd(task[t].dept, task[t].sha)
  <2>1. Clear(UserOf(t)) /\ UNCHANGED bookVars
    BY <1>3 DEF Add, Refused
  <2> QED
    BY <1>1, <2>1, ClearStep, BookStays DEF Ends
<1> QED
  BY <1>2, <1>3

\* The file of the prompt is replaced.
LEMMA ReplaceStep ==
  ASSUME DialogueInv, NEW t \in Task, Replace(t)
  PROVE  DialogueInv'
<1> DEFINE f == fsm[UserOf(t)].expected
<1>1. OnlyOne(t) /\ task[t].at = "replace" /\ Ends(t) /\ f \in File
  BY TaskFacts, BeforeSave DEF Replace
<1>2. CASE CanReplace(task[t].dept, task[t].sha, f)
  <2>1. Save(t, f) /\ Book!ActiveIn(DateOf[task[t].sha], task[t].dept) = {f}
    BY <1>2 DEF Replace, CanReplace
  <2>2. f # NoFile /\ file[f].life = "active"
    BY <1>1, <2>1, ActiveFiles DEF File, NoFile
  <2> QED
    BY <1>1, <2>1, <2>2, SaveStep
<1>3. CASE ~ CanReplace(task[t].dept, task[t].sha, f)
  <2>1. Clear(UserOf(t)) /\ UNCHANGED bookVars
    BY <1>3 DEF Replace, Refused
  <2> QED
    BY <1>1, <2>1, ClearStep, BookStays DEF Ends
<1> QED
  BY <1>2, <1>3

\* What an undo that waits for its transaction is about.
LEMMA BeforeWithdraw ==
  ASSUME DialogueInv, NEW t \in Task, task[t].at = "withdraw"
  PROVE  /\ task[t].sha = fsm[UserOf(t)].sha /\ task[t].sha \in Sha
         /\ fsm[UserOf(t)].saved \in File /\ fsm[UserOf(t)].previous \in File \cup {NoFile}
         /\ OwnsSaved(UserOf(t))
<1> DEFINE u == UserOf(t)
<1>1. TaskOK(t) /\ task[t].sha \in Sha /\ UserOK(u) /\ fsm[u] \in Fsm /\ Fits(fsm[u])
  BY TaskFacts, UserFacts
<1>2. fsm[u].state = "confirming_undo" /\ task[t].sha = fsm[u].sha
  BY <1>1 DEF TaskOK
<1>3. fsm[u].saved # NoFile
  BY <1>1, <1>2 DEF Fits
<1> QED
  BY <1>1, <1>2, <1>3 DEF UserOK, Fsm

\* An undone file comes back to the choice of its department.
LEMMA WithdrawStep ==
  ASSUME DialogueInv, NEW t \in Task, Withdraw(t)
  PROVE  DialogueInv'
<1> DEFINE d == fsm[UserOf(t)]
<1>1. OnlyOne(t) /\ task[t].at = "withdraw" /\ Ends(t)
  BY TaskFacts DEF Withdraw
<1>2. d.saved \in File /\ d.previous \in File \cup {NoFile} /\ task[t].sha \in Sha
  BY <1>1, BeforeWithdraw
<1>3. CASE CanWithdraw(d.saved, d.previous)
  <2>1. /\ Revoke(d.saved, d.previous)
        /\ Put(UserOf(t), [Cleared EXCEPT !.state = "choosing_department",
                                          !.token = uploads[UserOf(t)] + 1,
                                          !.sha = task[t].sha])
        /\ uploads' = [uploads EXCEPT ![UserOf(t)] = uploads[UserOf(t)] + 1]
        /\ UNCHANGED buttons
    BY <1>3 DEF Withdraw
  <2>2. BookTypeOK' /\ RowsKept /\ RowsInv'
    BY <1>2, <1>3, <2>1, RevokeRows DEF DialogueInv
  <2> QED
    BY <1>1, <1>2, <2>1, <2>2, UploadStep
<1>4. CASE ~ CanWithdraw(d.saved, d.previous)
  <2>1. Clear(UserOf(t)) /\ UNCHANGED bookVars
    BY <1>4 DEF Withdraw, Refused
  <2> QED
    BY <1>1, <2>1, ClearStep, BookStays DEF Ends
<1> QED
  BY <1>3, <1>4

-----------------------------------------------------------------------------
(* The other users, the scheduler, a restart *)

\* The tables change under the dialogues, which stay as they are.
LEMMA BookOnly ==
  ASSUME DialogueInv, UNCHANGED <<fsm, task, chatVars>>, BookTypeOK', RowsKept, RowsInv'
  PROVE  DialogueInv'
<1>1. TypeOK /\ AloneInv /\ UserInv /\ ButtonInv /\ TaskInv
  BY DEF DialogueInv
<1>2. fsm' = fsm /\ task' = task /\ buttons' = buttons /\ uploads' = uploads
  BY DEF chatVars
<1>3. TypeOK'
  BY <1>1, <1>2 DEF TypeOK, BookTypeOK
<1>4. AloneInv'
  BY <1>1, <1>2 DEF AloneInv
<1>5. ASSUME NEW u \in User  PROVE UserOK(u)'
  <2>1. UserOK(u) /\ fsm[u] \in Fsm
    BY <1>1 DEF UserInv, TypeOK
  <2>2. fsm[u].saved # NoFile => fsm[u].saved \in File
    BY <2>1 DEF Fsm
  <2>3. fsm[u].saved # NoFile /\ OwnsSaved(u) => OwnsSaved(u)'
    BY <1>2, <2>2 DEF OwnsSaved, RowsKept
  <2>4. Asked(u) => Asked(u)'
    BY <1>2 DEF Asked
  <2> QED
    BY <1>2, <2>1, <2>3, <2>4 DEF UserOK
<1>6. ButtonInv'
  BY <1>1, <1>2 DEF ButtonInv, ButtonOK
<1>7. TaskInv'
  BY <1>1, <1>2 DEF TaskInv, TaskOK
<1> QED
  BY <1>3, <1>4, <1>5, <1>6, <1>7 DEF DialogueInv, UserInv

\* A withdrawal by another user takes back the row above its base.
LEMMA BaseType ==
  ASSUME TypeOK, NEW f \in File, file[f].life = "active"
  PROVE  file[f].base \in File \cup {NoFile}
BY RowType DEF FileRow

\* The transactions of the other users.
LEMMA OthersSteps ==
  ASSUME DialogueInv, OthersSave \/ OthersWithdraw
  PROVE  DialogueInv'
<1>1. TypeOK /\ RowsInv
  BY DEF DialogueInv
<1>2. CASE OthersSave
  <2>1. PICK p \in Dept, c \in Sha :
          \/ CanAdd(p, c) /\ Insert(p, c, NoFile, Others)
          \/ \E f \in File : CanReplace(p, c, f) /\ Insert(p, c, f, Others)
    BY <1>2 DEF OthersSave
  <2>2. PICK base \in File \cup {NoFile} :
          /\ Insert(p, c, base, Others)
          /\ base # NoFile => file[base].life = "active"
          /\ Book!ActiveIn(DateOf[c], p) = {base} \ {NoFile}
    <3>1. CASE CanAdd(p, c) /\ Insert(p, c, NoFile, Others)
      BY <3>1 DEF CanAdd
    <3>2. CASE \E f \in File : CanReplace(p, c, f) /\ Insert(p, c, f, Others)
      <4>1. PICK f \in File : CanReplace(p, c, f) /\ Insert(p, c, f, Others)
        BY <3>2
      <4>2. Book!ActiveIn(DateOf[c], p) = {f} /\ f # NoFile
        BY <4>1 DEF CanReplace, File, NoFile
      <4>3. file[f].life = "active"
        BY <4>2, ActiveFiles
      <4> QED
        BY <4>1, <4>2, <4>3
    <3> QED
      BY <2>1, <3>1, <3>2
  <2>3. BookTypeOK' /\ RowsKept
    BY <1>1, <2>2, InsertRows
  <2>4. RowsInv'
    BY <1>1, <2>2, InsertUnique
  <2> QED
    BY <1>2, <2>3, <2>4, BookOnly DEF OthersSave
<1>3. CASE OthersWithdraw
  <2>1. PICK f \in File : /\ file[f].life = "active"
                          /\ CanWithdraw(f, file[f].base) /\ Revoke(f, file[f].base)
    BY <1>3 DEF OthersWithdraw
  <2>2. BookTypeOK' /\ RowsKept /\ RowsInv'
    BY <1>1, <2>1, BaseType, RevokeRows
  <2> QED
    BY <1>3, <2>2, BookOnly DEF OthersWithdraw
<1> QED
  BY <1>2, <1>3

\* The expiry of a cycle changes no file.
LEMMA ExpireStep ==
  ASSUME DialogueInv, NEW d \in Date, Expire(d)
  PROVE  DialogueInv'
<1>1. /\ cycle' = [cycle EXCEPT ![d] = "expired"] /\ report' = report /\ file' = file
      /\ UNCHANGED <<fsm, task, chatVars>>
  BY DEF Expire, Book!Expire
<1>2. BookTypeOK' /\ RowsKept /\ RowsInv'
  BY <1>1 DEF DialogueInv, TypeOK, BookTypeOK, RowsKept, RowsInv, Book!Status
<1> QED
  BY <1>1, <1>2, BookOnly

\* After a restart there is no dialogue.
LEMMA RestartStep ==
  ASSUME DialogueInv, Restart
  PROVE  DialogueInv'
<1>1. BookTypeOK' /\ RowsInv'
  BY BookStays DEF Restart
<1>2. /\ fsm' = [u \in User |-> Cleared] /\ task' = [t \in Task |-> NoTask] /\ buttons' = {}
      /\ uploads' = [u \in User |-> 0]
  BY DEF Restart
<1>3. TypeOK'
  <2>1. \A u \in User : fsm'[u] = Cleared
    BY <1>2
  <2>2. fsm' \in [User -> Fsm] /\ \A u \in User : Fits(fsm'[u])
    BY <1>2, <2>1, ClearedType
  <2> QED
    BY <1>1, <1>2, <2>2 DEF TypeOK, BookTypeOK
<1>4. AloneInv' /\ TaskInv' /\ ButtonInv'
  BY <1>2 DEF AloneInv, TaskInv, ButtonInv
<1>5. UserInv'
  BY <1>2 DEF UserInv, UserOK, Cleared, Asking
<1> QED
  BY <1>1, <1>3, <1>4, <1>5 DEF DialogueInv

-----------------------------------------------------------------------------
(* The invariant *)

\* The invariant holds before anything is uploaded.
LEMMA DialogueInit == Init => DialogueInv
<1> SUFFICES ASSUME Init  PROVE DialogueInv
  OBVIOUS
<1>1. TypeOK
  <2>1. fsm \in [User -> Fsm] /\ \A u \in User : Fits(fsm[u])
    BY ClearedType DEF Init
  <2> QED
    BY <2>1 DEF Init, TypeOK, Book!Status
<1>2. AloneInv /\ TaskInv /\ ButtonInv
  BY DEF Init, AloneInv, TaskInv, ButtonInv
<1>3. RowsInv
  BY DEF Init, RowsInv, Book!FreeFile
<1>4. UserInv
  BY DEF Init, UserInv, UserOK, Cleared, Asking
<1> QED
  BY <1>1, <1>2, <1>3, <1>4 DEF DialogueInv

\* Every step keeps it.
LEMMA DialogueStep == DialogueInv /\ [Next]_vars => DialogueInv'
<1> SUFFICES ASSUME DialogueInv, [Next]_vars  PROVE DialogueInv'
  OBVIOUS
<1>1. ASSUME NEW t \in Task, Message(t)  PROVE DialogueInv'
  BY <1>1, CancelStep, UndoSteps, ConfirmUndoStep, DocumentStep, ChooseStep DEF Message
<1>2. ASSUME NEW t \in Task, NEW b \in buttons, Callback(t, b)  PROVE DialogueInv'
  BY <1>2, OtherDepartmentStep, ConfirmStep DEF Callback
<1>3. ASSUME NEW t \in Task, Resume(t)  PROVE DialogueInv'
  BY <1>3, OfferStep, RejectStep, LookUpCycleStep, CountStep, SlotStep, AddStep, ReplaceStep,
     WithdrawStep, FailsStep DEF Resume
<1>4. CASE UNCHANGED vars
  BY <1>4, BookStays, BookOnly DEF vars
<1> QED
  BY <1>1, <1>2, <1>3, <1>4, OthersSteps, ExpireStep, RestartStep DEF Next

\* The state of each user's FSM, the keyboards in the chats, the handlers that wait and
\* the rows they are about fit together, whatever is pressed and whenever.
THEOREM DialogueInvariant == Spec => []DialogueInv
<1>1. Init => DialogueInv
  BY DialogueInit
<1>2. DialogueInv /\ [Next]_vars => DialogueInv'
  BY DialogueStep
<1> QED
  BY <1>1, <1>2, PTL DEF Spec

\* The data of the FSM always fits its state: a state that reads a department, an expected
\* file or a saved file finds one (UploadStates and the data of handlers/upload.py).
THEOREM DialogueTypeCorrect == Spec => []TypeOK
<1>1. DialogueInv => TypeOK
  BY DEF DialogueInv
<1> QED
  BY <1>1, DialogueInvariant, PTL

-----------------------------------------------------------------------------
(* What a step may not do *)

\* What a step of a handler does to the FSM of a user.
LEMMA FsmStep ==
  ASSUME DialogueInv, [Next]_vars, NEW u \in User,
         fsm[u].state \notin {"none", "can_undo"}, fsm'[u].sha # Nothing
  PROVE  fsm'[u].sha = fsm[u].sha
<1>1. TypeOK /\ fsm[u] \in Fsm /\ fsm \in [User -> Fsm]
  BY DEF DialogueInv, TypeOK
<1>2. ASSUME NEW v \in User, Clear(v)  PROVE fsm'[u].sha = fsm[u].sha
  BY <1>1, <1>2 DEF Clear, Put, Cleared
<1>3. ASSUME NEW v \in User, NEW d, Put(v, d), d.sha = fsm[v].sha
      PROVE  fsm'[u].sha = fsm[u].sha
  BY <1>1, <1>3 DEF Put
<1>4. ASSUME UNCHANGED fsm  PROVE fsm'[u].sha = fsm[u].sha
  BY <1>4
<1>5. ASSUME NEW t \in Task, Message(t)  PROVE fsm'[u].sha = fsm[u].sha
  <2>1. UserOf(t) \in User /\ fsm[UserOf(t)] \in Fsm
    BY TaskUser, <1>1 DEF TypeOK
  <2>2. ASSUME NEW s \in State, NEW p \in Dept \cup {Nothing}
        PROVE  /\ [fsm[UserOf(t)] EXCEPT !.state = s].sha = fsm[UserOf(t)].sha
               /\ [fsm[UserOf(t)] EXCEPT !.state = s, !.dept = p].sha = fsm[UserOf(t)].sha
    BY <2>1 DEF Fsm
  <2>3. CASE Cancel(t) \/ \E c \in Sha : Document(t, c)
    BY <2>1, <2>3, <1>2 DEF Cancel, Document
  <2>4. CASE Undo(t) \/ Keep(t)
    BY <2>1, <2>2, <2>4, <1>3 DEF Undo, Keep, State
  <2>5. CASE ConfirmUndo(t)
    BY <2>5 DEF ConfirmUndo
  <2>6. ASSUME NEW p \in Dept, ChooseDepartment(t, p)  PROVE fsm'[u].sha = fsm[u].sha
    BY <2>1, <2>2, <2>6, <1>2, <1>3 DEF ChooseDepartment, State
  <2> QED
    BY <1>5, <2>3, <2>4, <2>5, <2>6 DEF Message
<1>6. ASSUME NEW t \in Task, NEW b \in buttons, Callback(t, b)
      PROVE  fsm'[u].sha = fsm[u].sha
  <2>1. UserOf(t) \in User /\ fsm[UserOf(t)] \in Fsm
    BY TaskUser, <1>1 DEF TypeOK
  <2>2. [fsm[UserOf(t)] EXCEPT !.state = "choosing_department", !.dept = Nothing].sha
          = fsm[UserOf(t)].sha
    BY <2>1 DEF Fsm
  <2>3. CASE OtherDepartment(t, b)
    BY <2>1, <2>2, <2>3, <1>3 DEF OtherDepartment
  <2>4. CASE ~ OtherDepartment(t, b)
    BY <1>6, <2>4 DEF Callback, Confirm
  <2> QED
    BY <2>3, <2>4
<1>7. ASSUME NEW t \in Task, Resume(t)  PROVE fsm'[u].sha = fsm[u].sha
  <2> DEFINE v == UserOf(t)
  <2>1. v \in User /\ fsm[v] \in Fsm
    BY TaskUser, <1>1 DEF TypeOK
  <2>2. CASE Offer(t)
    <3>1. fsm[v] = Cleared
      BY <2>2, TaskFacts DEF Offer, TaskOK
    <3>2. u # v
      BY <3>1 DEF Cleared
    <3>3. fsm'[u] = fsm[u]
      BY <1>1, <2>1, <2>2, <3>2 DEF Offer, Put
    <3> QED
      BY <3>3
  <2>3. CASE Reject(t) \/ Fails(t) \/ LookUpCycle(t)
    BY <2>1, <2>3, <1>2 DEF Reject, Fails, LookUpCycle
  <2>4. CASE CountCollecting(t)
    <3>1. [fsm[v] EXCEPT !.state = "confirming_new_cycle"].sha = fsm[v].sha
      BY <2>1 DEF Fsm
    <3> QED
      BY <2>1, <2>4, <3>1, <1>3 DEF CountCollecting
  <2>5. CASE LookUpSlot(t)
    <3>1. CASE UNCHANGED fsm
      BY <3>1
    <3>2. CASE ~ UNCHANGED fsm
      <4>1. PICK f : Put(v, [fsm[v] EXCEPT !.state = "confirming_replace", !.expected = f])
        BY <2>5, <3>2 DEF LookUpSlot
      <4>2. [fsm[v] EXCEPT !.state = "confirming_replace", !.expected = f].sha = fsm[v].sha
        BY <2>1 DEF Fsm
      <4> QED
        BY <2>1, <4>1, <4>2, <1>3
    <3> QED
      BY <3>1, <3>2
  <2>6. CASE Add(t) \/ Replace(t)
    <3>1. task[t].at \in {"add", "replace"}
      BY <2>6 DEF Add, Replace
    <3>2. task[t].sha = fsm[v].sha
      BY <3>1, BeforeSave
    <3>3. ASSUME NEW base, Finalize(t, base)  PROVE fsm'[u].sha = fsm[u].sha
      <4>1. [Cleared EXCEPT !.state = "can_undo", !.sha = task[t].sha,
                            !.saved = NextFile, !.previous = base].sha = fsm[v].sha
        BY <3>2 DEF Cleared
      <4> QED
        BY <2>1, <3>3, <4>1, <1>2, <1>3 DEF Finalize
    <3> QED
      BY <2>1, <2>6, <3>3, <1>2 DEF Add, Replace, Save, Refused
  <2>7. CASE Withdraw(t)
    <3>1. task[t].sha = fsm[v].sha
      BY <2>7, BeforeWithdraw DEF Withdraw
    <3>2. [Cleared EXCEPT !.state = "choosing_department", !.token = uploads[v] + 1,
                          !.sha = task[t].sha].sha = fsm[v].sha
      BY <3>1 DEF Cleared
    <3> QED
      BY <2>1, <2>7, <3>2, <1>2, <1>3 DEF Withdraw, Refused
  <2> QED
    BY <1>7, <2>2, <2>3, <2>4, <2>5, <2>6, <2>7 DEF Resume
<1>8. CASE Restart
  BY <1>8 DEF Restart, Cleared
<1>9. CASE UNCHANGED vars \/ OthersSave \/ OthersWithdraw \/ \E d \in Date : Expire(d)
  BY <1>4, <1>9 DEF vars, OthersSave, OthersWithdraw, Expire
<1> QED
  BY <1>5, <1>6, <1>7, <1>8, <1>9 DEF Next

\* An upload that asks something, or an undo that does, is never overwritten by another
\* document of the same user, however the two arrive (SimpleEventIsolation in main.py).
THEOREM UploadsAreNotOverwritten == Spec => UploadNotOverwritten
<1>1. DialogueInv /\ [Next]_vars =>
        [\A u \in User :
           fsm[u].state \notin {"none", "can_undo"} /\ fsm'[u].sha # Nothing =>
             fsm'[u].sha = fsm[u].sha]_vars
  BY FsmStep
<1> QED
  BY <1>1, DialogueInvariant, PTL DEF Spec, UploadNotOverwritten

\* A handler that ends with a new row was waiting to save it.
LEMMA SavingStep ==
  ASSUME DialogueInv, [Next]_vars, NEW t \in Task, NEW f \in File,
         task[t] # NoTask, task'[t] = NoTask,
         file[f].life = "free", file'[f].life # "free"
  PROVE  \E base \in File \cup {NoFile} :
           /\ task[t].at \in {"add", "replace"}
           /\ Book!ActiveIn(DateOf[task[t].sha], task[t].dept) = {base} \ {NoFile}
           /\ Insert(task[t].dept, task[t].sha, base, UserOf(t))
           /\ base = IF task[t].at = "add" THEN NoFile ELSE fsm[UserOf(t)].expected
<1>1. TypeOK /\ RowsInv
  BY DEF DialogueInv
<1>2. file' # file /\ task' # task
  OBVIOUS
<1>3. \E s \in Task : Resume(s)
  <2>1. ASSUME NEW s \in Task, Message(s)  PROVE file' = file
    BY <2>1 DEF Message, Cancel, Undo, Keep, ConfirmUndo, Document, ChooseDepartment, bookVars
  <2>2. ASSUME NEW s \in Task, NEW b \in buttons, Callback(s, b)  PROVE file' = file
    BY <2>2 DEF Callback, OtherDepartment, Confirm, bookVars
  <2>3. OthersSave \/ OthersWithdraw \/ (\E d \in Date : Expire(d)) => task' = task
    BY DEF OthersSave, OthersWithdraw, Expire
  <2>4. Restart => file' = file
    BY DEF Restart, bookVars
  <2>5. UNCHANGED vars => file' = file
    BY DEF vars, bookVars
  <2> QED
    BY <1>2, <2>1, <2>2, <2>3, <2>4, <2>5 DEF Next
<1>4. PICK s \in Task : Resume(s)
  BY <1>3
<1>5. ASSUME Offer(s) \/ Reject(s) \/ LookUpCycle(s) \/ CountCollecting(s) \/ LookUpSlot(s)
             \/ Fails(s)
      PROVE  file' = file
  BY <1>5 DEF Offer, Reject, LookUpCycle, CountCollecting, LookUpSlot, Fails, bookVars
<1>6. ASSUME Withdraw(s)  PROVE file'[f].life = "free"
  <2>1. CASE file' = file
    BY <2>1
  <2>2. CASE file' # file
    <3>1. /\ CanWithdraw(fsm[UserOf(s)].saved, fsm[UserOf(s)].previous)
          /\ Revoke(fsm[UserOf(s)].saved, fsm[UserOf(s)].previous)
      BY <1>6, <2>2 DEF Withdraw, Refused, bookVars
    <3>2. /\ fsm[UserOf(s)].saved \in File
          /\ fsm[UserOf(s)].previous \in File \cup {NoFile}
      BY <1>6, BeforeWithdraw DEF Withdraw
    <3> QED
      BY <1>1, <3>1, <3>2, RevokeRows
  <2> QED
    BY <2>1, <2>2
<1>7. Add(s) \/ Replace(s)
  BY <1>2, <1>4, <1>5, <1>6 DEF Resume
<1>8. s = t
  BY <1>1, <1>7 DEF Add, Replace, Ends, TypeOK
<1>9. task[t].at \in {"add", "replace"} /\ ~ UNCHANGED bookVars
  BY <1>2, <1>7, <1>8 DEF Add, Replace, bookVars
<1>10. CASE Add(s)
  <2>1. /\ task[t].at = "add" /\ CanAdd(task[t].dept, task[t].sha)
        /\ Insert(task[t].dept, task[t].sha, NoFile, UserOf(t))
    BY <1>8, <1>9, <1>10 DEF Add, Refused, Save
  <2>2. Book!ActiveIn(DateOf[task[t].sha], task[t].dept) = {NoFile} \ {NoFile}
    BY <2>1 DEF CanAdd
  <2> QED
    BY <2>1, <2>2
<1>11. CASE Replace(s)
  <2> DEFINE base == fsm[UserOf(t)].expected
  <2>1. /\ task[t].at = "replace" /\ CanReplace(task[t].dept, task[t].sha, base)
        /\ Insert(task[t].dept, task[t].sha, base, UserOf(t))
    BY <1>8, <1>9, <1>11 DEF Replace, Refused, Save
  <2>2. base \in File /\ base # NoFile
    BY <2>1, BeforeSave DEF File, NoFile
  <2>3. Book!ActiveIn(DateOf[task[t].sha], task[t].dept) = {base} \ {NoFile}
    BY <2>1, <2>2 DEF CanReplace
  <2> QED
    BY <2>1, <2>2, <2>3
<1> QED
  BY <1>7, <1>10, <1>11

\* What a step saves was chosen.
LEMMA ChosenStep ==
  ASSUME DialogueInv, [Next]_vars, NEW t \in Task, NEW f \in File,
         task[t] # NoTask, task'[t] = NoTask,
         file[f].life = "free", file'[f].life # "free"
  PROVE  Chosen(task[t].button, f)
<1> DEFINE u == UserOf(t)
           b == task[t].button
<1>1. PICK base \in File \cup {NoFile} :
        /\ task[t].at \in {"add", "replace"}
        /\ Book!ActiveIn(DateOf[task[t].sha], task[t].dept) = {base} \ {NoFile}
        /\ Insert(task[t].dept, task[t].sha, base, u)
        /\ base = IF task[t].at = "add" THEN NoFile ELSE fsm[u].expected
  BY SavingStep
<1>2. /\ task[t].sha = fsm[u].sha /\ task[t].sha \in Sha
      /\ task[t].dept = fsm[u].dept /\ task[t].dept \in Dept
      /\ b.user = u /\ b.token = fsm[u].token /\ b.sha = fsm[u].sha /\ Asked(u)
      /\ b.file = base
      /\ base # NoFile => b.dept = fsm[u].dept
  BY <1>1, BeforeSave
<1>3. base # NoFile => file[base].life = "active"
  BY <1>1, ActiveFiles
<1>4. /\ file'[NextFile] = [life |-> "active", date |-> DateOf[task[t].sha],
                            dept |-> task[t].dept, sha |-> task[t].sha, base |-> base,
                            by |-> u]
      /\ \A g \in File \ {NextFile} : file[g].life = "free" => file'[g].life = "free"
  <2>1. TypeOK /\ u \in User \cup {Others}
    BY UserFacts
  <2>2. /\ task[t].sha \in Sha /\ task[t].dept \in Dept
        /\ Insert(task[t].dept, task[t].sha, base, u)
    BY <1>1, <1>2
  <2> QED
    BY <2>1, <2>2, <1>3, InsertRows, SMTT(20)
<1>5. f = NextFile
  BY <1>4
<1>6. /\ file'[f].sha = fsm[u].sha /\ file'[f].dept = fsm[u].dept /\ file'[f].base = base
      /\ file'[f].by = u
  BY <1>2, <1>4, <1>5
<1>7. \E k \in buttons : /\ k.kind = "deptconfirm" /\ k.user = b.user /\ k.token = b.token
                         /\ k.sha = b.sha /\ k.dept = file'[f].dept
  BY <1>2, <1>6 DEF Asked
<1> QED
  BY <1>2, <1>3, <1>6, <1>7 DEF Chosen

\* Whatever old keyboards are pressed, and whatever other users do meanwhile, a file is
\* saved as its user chose: the upload of the pressed keyboard, under the department
\* chosen last for it and asked about, and in the place of the file that the pressed
\* prompt named (the token checks of handlers/upload.py and
\* expected_active_source_file_id).  The theorem does not say that a pressed question
\* about a department names the one that is saved: SavedUnderShown does not hold.
THEOREM SavedAsLastChosen == Spec => SavedAsChosen
<1>1. DialogueInv /\ [Next]_vars =>
        [\A t \in Task, f \in File : Saves(t, f) => Chosen(task[t].button, f)]_vars
  BY ChosenStep DEF Saves
<1> QED
  BY <1>1, DialogueInvariant, PTL DEF Spec, SavedAsChosen

\* A step that takes back a file is an undo of its user, or one of another user.
LEMMA RestoringStep ==
  ASSUME DialogueInv, [Next]_vars, NEW f \in File,
         file[f].life = "active", file'[f].life = "revoked"
  PROVE  /\ file[f].by # Others => \E t \in Task :
              /\ task[t] # NoTask /\ task'[t] = NoTask /\ task[t].at = "withdraw"
              /\ file[f].by = UserOf(t) /\ file[f].sha = task[t].sha
         /\ {g \in File : file'[g].life = "active" /\ file'[g].date = file[f].date
                          /\ file'[g].dept = file[f].dept} = {file[f].base} \ {NoFile}
<1>1. TypeOK /\ RowsInv /\ file' # file
  BY DEF DialogueInv
<1>2. ASSUME NEW p \in Dept, NEW c \in Sha, NEW base \in File \cup {NoFile},
             NEW who \in User \cup {Others}, base # NoFile => file[base].life = "active",
             Insert(p, c, base, who)
      PROVE  FALSE
  BY <1>1, <1>2, InsertRows
<1>3. ASSUME OthersSave  PROVE FALSE
  <2>1. PICK p \in Dept, c \in Sha :
          \/ CanAdd(p, c) /\ Insert(p, c, NoFile, Others)
          \/ \E g \in File : CanReplace(p, c, g) /\ Insert(p, c, g, Others)
    BY <1>3 DEF OthersSave
  <2>2. ASSUME NEW g \in File, CanReplace(p, c, g), Insert(p, c, g, Others)  PROVE FALSE
    <3>1. file[g].life = "active"
      BY <2>2, ActiveFiles DEF CanReplace
    <3> QED
      BY <1>2, <2>2, <3>1
  <2> QED
    BY <2>1, <2>2, <1>2
<1>4. ASSUME OthersWithdraw
      PROVE  /\ file[f].by = Others
             /\ {g \in File : file'[g].life = "active" /\ file'[g].date = file[f].date
                              /\ file'[g].dept = file[f].dept} = {file[f].base} \ {NoFile}
  <2>1. PICK g \in File : /\ file[g].life = "active" /\ file[g].by = Others
                          /\ CanWithdraw(g, file[g].base) /\ Revoke(g, file[g].base)
    BY <1>4 DEF OthersWithdraw
  <2>2. file[g].base \in File \cup {NoFile}
    BY <1>1, <2>1, BaseType
  <2>3. f = g
    BY <1>1, <2>1, <2>2, RevokeRows
  <2> QED
    BY <1>1, <2>1, <2>2, <2>3, RevokeRows
<1>5. ASSUME NEW t \in Task, Add(t) \/ Replace(t)  PROVE FALSE
  <2>1. task[t].at \in {"add", "replace"} /\ ~ UNCHANGED bookVars
    BY <1>1, <1>5 DEF Add, Replace, bookVars
  <2>2. task[t].sha \in Sha /\ task[t].dept \in Dept /\ UserOf(t) \in User
    BY <2>1, BeforeSave, TaskUser
  <2>3. CASE Add(t)
    <3>1. Insert(task[t].dept, task[t].sha, NoFile, UserOf(t))
      BY <2>1, <2>3 DEF Add, Refused, Save
    <3> QED
      BY <1>2, <2>2, <3>1
  <2>4. CASE Replace(t)
    <3> DEFINE base == fsm[UserOf(t)].expected
    <3>1. /\ task[t].at = "replace" /\ CanReplace(task[t].dept, task[t].sha, base)
          /\ Insert(task[t].dept, task[t].sha, base, UserOf(t))
      BY <2>1, <2>4 DEF Replace, Refused, Save
    <3>2. base \in File /\ file[base].life = "active"
      BY <3>1, BeforeSave, ActiveFiles DEF CanReplace
    <3> QED
      BY <1>2, <2>2, <3>1, <3>2
  <2> QED
    BY <1>5, <2>3, <2>4
<1>6. ASSUME NEW t \in Task, Withdraw(t)
      PROVE  /\ task[t] # NoTask /\ task'[t] = NoTask /\ task[t].at = "withdraw"
             /\ file[f].by = UserOf(t) /\ file[f].sha = task[t].sha
             /\ {g \in File : file'[g].life = "active" /\ file'[g].date = file[f].date
                              /\ file'[g].dept = file[f].dept} = {file[f].base} \ {NoFile}
  <2> DEFINE d == fsm[UserOf(t)]
  <2>1. task[t].at = "withdraw" /\ Ends(t)
    BY <1>6 DEF Withdraw
  <2>2. /\ task[t].sha = d.sha /\ d.saved \in File /\ d.previous \in File \cup {NoFile}
        /\ OwnsSaved(UserOf(t))
    BY <2>1, BeforeWithdraw
  <2>3. CanWithdraw(d.saved, d.previous) /\ Revoke(d.saved, d.previous)
    BY <1>1, <1>6 DEF Withdraw, Refused, bookVars
  <2>4. f = d.saved
    BY <1>1, <2>2, <2>3, RevokeRows
  <2>5. file[f].by = UserOf(t) /\ file[f].sha = task[t].sha /\ file[f].base = d.previous
    BY <2>2, <2>4 DEF OwnsSaved
  <2>6. {g \in File : file'[g].life = "active" /\ file'[g].date = file[f].date
                      /\ file'[g].dept = file[f].dept} = {file[f].base} \ {NoFile}
    BY <1>1, <2>2, <2>3, <2>4, <2>5, RevokeRows
  <2>7. task[t] # NoTask /\ task'[t] = NoTask
    BY <1>1, <2>1, TaskFacts DEF Ends, TypeOK
  <2> QED
    BY <2>1, <2>5, <2>6, <2>7
<1>7. ASSUME NEW t \in Task, Resume(t), ~ Withdraw(t)  PROVE FALSE
  BY <1>1, <1>5, <1>7 DEF Resume, Offer, Reject, LookUpCycle, CountCollecting, LookUpSlot,
     Fails, bookVars
<1>8. ASSUME NEW t \in Task, Message(t)  PROVE FALSE
  BY <1>1, <1>8 DEF Message, Cancel, Undo, Keep, ConfirmUndo, Document, ChooseDepartment,
     bookVars
<1>9. ASSUME NEW t \in Task, NEW b \in buttons, Callback(t, b)  PROVE FALSE
  BY <1>1, <1>9 DEF Callback, OtherDepartment, Confirm, bookVars
<1>10. ~ (Restart \/ UNCHANGED vars \/ \E d \in Date : Expire(d))
  BY <1>1 DEF Restart, vars, bookVars, Expire, Book!Expire
<1> QED
  BY <1>3, <1>4, <1>6, <1>7, <1>8, <1>9, <1>10 DEF Next

\* A confirmed undo takes back the file its user saved, never one that somebody else has
\* put in its place since, and the department has again the file it had before it
\* (withdraw_source_file_atomic with the ids that the FSM kept).
THEOREM UndoRestoresFile == Spec => UndoRestores
<1>1. DialogueInv /\ [Next]_vars =>
        [\A f \in File :
           file[f].life = "active" /\ file'[f].life = "revoked" =>
             /\ file[f].by # Others => \E t \in Task :
                  /\ task[t] # NoTask /\ task'[t] = NoTask /\ task[t].at = "withdraw"
                  /\ file[f].by = UserOf(t) /\ file[f].sha = task[t].sha
             /\ {g \in File : file'[g].life = "active" /\ file'[g].date = file[f].date
                              /\ file'[g].dept = file[f].dept} = {file[f].base} \ {NoFile}]_vars
  BY RestoringStep
<1> QED
  BY <1>1, DialogueInvariant, PTL DEF Spec, UndoRestores

-----------------------------------------------------------------------------
(* The book of CycleBook *)

\* Whether a department has a file.
LEMMA PresentFiles ==
  ASSUME NEW d, NEW p \in Dept
  PROVE  p \in Book!Present(d) <=> Book!ActiveIn(d, p) # {}
BY DEF Book!Present

\* An insertion makes its row the only file of its department and touches no other.
LEMMA InsertSlots ==
  ASSUME TypeOK, NEW p \in Dept, NEW c \in Sha, NEW base \in File \cup {NoFile},
         NEW who \in User \cup {Others}, base # NoFile => file[base].life = "active",
         Book!ActiveIn(DateOf[c], p) = {base} \ {NoFile},
         Insert(p, c, base, who)
  PROVE  /\ Book!ActiveIn(DateOf[c], p)' = {NextFile} /\ NextFile \in File
         /\ \A e \in Date, q \in Dept : ~ (e = DateOf[c] /\ q = p) =>
              Book!ActiveIn(e, q)' = Book!ActiveIn(e, q)
<1>1. /\ RowsKept /\ NextFile \in File /\ file[NextFile].life = "free"
      /\ \A f \in File \ {NextFile} : file'[f].life = "active" =>
           file[f].life = "active" /\ f # base
      /\ \A f \in File \ {NextFile} : file[f].life = "free" => file'[f].life = "free"
  BY InsertRows
<1>2. file'[NextFile].date = DateOf[c] /\ file'[NextFile].dept = p
      /\ file'[NextFile].life = "active"
  <2>1. file'[NextFile] = [life |-> "active", date |-> DateOf[c], dept |-> p, sha |-> c,
                           base |-> base, by |-> who]
    BY InsertRows
  <2> QED
    BY <2>1
<1>3. \A f \in File \ {NextFile, base} : file'[f] = file[f]
  BY DEF Insert
<1>4. base # NoFile => file[base].date = DateOf[c] /\ file[base].dept = p
  BY ActiveFiles
<1>5. ASSUME NEW f \in File, f # NextFile
      PROVE  ~ (/\ file'[f].life = "active" /\ file'[f].date = DateOf[c] /\ file'[f].dept = p)
  <2>1. SUFFICES ASSUME file'[f].life = "active", file'[f].date = DateOf[c], file'[f].dept = p
                 PROVE  FALSE
    OBVIOUS
  <2>2. file[f].life = "active" /\ f # base
    BY <1>1, <1>5, <2>1
  <2>3. file[f].date = DateOf[c] /\ file[f].dept = p
    BY <1>1, <2>1, <2>2 DEF RowsKept
  <2>4. f \in Book!ActiveIn(DateOf[c], p)
    BY <2>2, <2>3, ActiveFiles
  <2> QED
    BY <2>2, <2>4
<1>6. \A d, q : Book!ActiveIn(d, q)' = {f \in File : /\ file'[f].life # "free"
                                                     /\ file'[f].date = d /\ file'[f].dept = q
                                                     /\ file'[f].life = "active"}
  BY DEF Book!ActiveIn, Book!InSlot, Book!File, File
<1>7. Book!ActiveIn(DateOf[c], p)' = {NextFile}
  BY <1>1, <1>2, <1>5, <1>6
<1>8. ASSUME NEW e \in Date, NEW q \in Dept, ~ (e = DateOf[c] /\ q = p)
      PROVE  Book!ActiveIn(e, q)' = Book!ActiveIn(e, q)
  <2>1. ASSUME NEW f \in File
        PROVE  (file'[f].life = "active" /\ file'[f].date = e /\ file'[f].dept = q)
                 <=> (file[f].life = "active" /\ file[f].date = e /\ file[f].dept = q)
    <3>1. CASE f = NextFile
      BY <1>1, <1>2, <1>8, <3>1
    <3>2. CASE f = base /\ f # NextFile
      <4>1. base # NoFile
        BY <3>2 DEF File, NoFile
      <4>2. ~ (file'[f].life = "active") /\ ~ (file[f].date = e /\ file[f].dept = q)
        BY <1>1, <1>4, <1>8, <3>2, <4>1
      <4> QED
        BY <4>2
    <3>3. CASE f \notin {base, NextFile}
      BY <1>3, <3>3
    <3> QED
      BY <3>1, <3>2, <3>3
  <2> QED
    BY <2>1, <1>6, ActiveFiles
<1> QED
  BY <1>1, <1>7, <1>8

\* A withdrawal leaves the file below as the only one of the department, or none.
LEMMA RevokeSlots ==
  ASSUME TypeOK, RowsInv, NEW f \in File, NEW previous \in File \cup {NoFile},
         NEW d \in Date, NEW p \in Dept, d = file[f].date, p = file[f].dept,
         CanWithdraw(f, previous), Revoke(f, previous)
  PROVE  /\ f \in Book!ActiveIn(d, p)
         /\ Book!ActiveIn(d, p)' = {previous} \ {NoFile}
         /\ \A e \in Date, q \in Dept : ~ (e = d /\ q = p) =>
              Book!ActiveIn(e, q)' = Book!ActiveIn(e, q)
<1>1. /\ RowsKept
      /\ \A g \in File : file[g].life = "free" => file'[g].life = "free"
      /\ {g \in File : file'[g].life = "active" /\ file'[g].date = file[f].date
                         /\ file'[g].dept = file[f].dept} = {previous} \ {NoFile}
  BY RevokeRows
<1>2. file[f].life = "active" /\ file[f] \in FileRow
  BY RowType DEF CanWithdraw
<1>3. previous # NoFile => /\ file[previous].date = file[f].date /\ file[previous].life # "free"
                           /\ file[previous].dept = file[f].dept /\ previous \in File
  BY DEF CanWithdraw, Book!InSlot
<1>4. \A g \in File \ {f, previous} : file'[g] = file[g]
  BY DEF Revoke
<1>5. \A e, q : Book!ActiveIn(e, q)' = {g \in File : /\ file'[g].life # "free"
                                                     /\ file'[g].date = e /\ file'[g].dept = q
                                                     /\ file'[g].life = "active"}
  BY DEF Book!ActiveIn, Book!InSlot, Book!File, File
<1>6. Book!ActiveIn(d, p)' = {previous} \ {NoFile}
  <2>1. Book!ActiveIn(d, p)' = {g \in File : /\ file'[g].life # "free"
                                             /\ file'[g].date = d /\ file'[g].dept = p
                                             /\ file'[g].life = "active"}
    BY <1>5
  <2>2. {g \in File : file'[g].life = "active" /\ file'[g].date = d /\ file'[g].dept = p}
          = {previous} \ {NoFile}
    BY <1>1
  <2> QED
    BY <2>1, <2>2
<1>7. ASSUME NEW e \in Date, NEW q \in Dept, ~ (e = d /\ q = p)
      PROVE  Book!ActiveIn(e, q)' = Book!ActiveIn(e, q)
  <2>1. ASSUME NEW g \in File
        PROVE  (file'[g].life = "active" /\ file'[g].date = e /\ file'[g].dept = q)
                 <=> (file[g].life = "active" /\ file[g].date = e /\ file[g].dept = q)
    <3>1. CASE g = f \/ g = previous
      <4>1. file[g].date = file[f].date /\ file[g].dept = file[f].dept /\ file[g].life # "free"
        BY <1>2, <1>3, <3>1 DEF File, NoFile
      <4>2. file'[g].date = file[f].date /\ file'[g].dept = file[f].dept
        BY <1>1, <4>1 DEF RowsKept
      <4> QED
        BY <1>7, <4>1, <4>2
    <3>2. CASE g \notin {f, previous}
      BY <1>4, <3>2
    <3> QED
      BY <3>1, <3>2
  <2> QED
    BY <2>1, <1>5, ActiveFiles
<1>8. f \in Book!ActiveIn(d, p)
  BY <1>2, ActiveFiles
<1> QED
  BY <1>6, <1>7, <1>8

\* One department's file changes in the book.
LEMMA OneSlot ==
  ASSUME NEW d \in Date, NEW p \in Dept, NEW S \in SUBSET File,
         Book!ActiveIn(d, p)' = S,
         \A e \in Date, q \in Dept : ~ (e = d /\ q = p) =>
           Book!ActiveIn(e, q)' = Book!ActiveIn(e, q)
  PROVE  slots' = [slots EXCEPT ![d] = [slots[d] EXCEPT ![p] = S]]
<1> DEFINE new == [slots EXCEPT ![d] = [slots[d] EXCEPT ![p] = S]]
<1>1. ASSUME NEW e \in Date, NEW q \in Dept  PROVE slots'[e][q] = new[e][q]
  BY DEF slots
<1>2. ASSUME NEW e \in Date  PROVE slots'[e] = new[e]
  <2>1. slots'[e] = [q \in Dept |-> slots'[e][q]]
    BY DEF slots
  <2>2. new[e] = [q \in Dept |-> new[e][q]]
    BY DEF slots
  <2> QED
    BY <1>1, <2>1, <2>2
<1>3. slots' = [e \in Date |-> slots'[e]] /\ new = [e \in Date |-> new[e]]
  BY DEF slots
<1> QED
  BY <1>2, <1>3

\* An insertion into an open cycle is a change of the book.
LEMMA InsertIsChange ==
  ASSUME TypeOK, NEW p \in Dept, NEW c \in Sha, NEW base \in File \cup {NoFile},
         NEW who \in User \cup {Others}, base # NoFile => file[base].life = "active",
         Book!ActiveIn(DateOf[c], p) = {base} \ {NoFile}, ~ Terminal(DateOf[c]),
         Insert(p, c, base, who), CollectingInv
  PROVE  Cycles!Next /\ CollectingInv'
<1> DEFINE d == DateOf[c]
           S == {NextFile}
<1>1. /\ Book!ActiveIn(d, p)' = S /\ S \in SUBSET File /\ d \in Date
      /\ \A e \in Date, q \in Dept : ~ (e = d /\ q = p) =>
           Book!ActiveIn(e, q)' = Book!ActiveIn(e, q)
  BY InsertSlots, DateType
<1>2. slots' = [slots EXCEPT ![d] = [slots[d] EXCEPT ![p] = S]]
  BY <1>1, OneSlot, ZenonT(30)
<1>3. cycle' = [cycle EXCEPT ![d] = IF Completes(p, c) THEN "completed" ELSE "collecting"]
      /\ cycle[d] \in {"absent", "collecting"} /\ cycle \in [Date -> Book!Status]
  BY <1>1 DEF Insert, Terminal, TypeOK
<1>4. Completes(p, c) <=> \A q \in Dept \ {p} : slots[d][q] # {}
  <2>1. Book!Present(d) \subseteq Dept
    BY DEF Book!Present
  <2>2. \A q \in Dept : q \in Book!Present(d) <=> slots[d][q] # {}
    BY <1>1, PresentFiles DEF slots
  <2> QED
    BY <2>1, <2>2 DEF Completes
<1>5. Cycles!Change(d, p, S)
  BY <1>2, <1>3, <1>4 DEF Cycles!Change
<1>6. ASSUME NEW e \in Date, cycle'[e] = "collecting"
      PROVE  Book!Present(e)' # Dept
  <2>1. CASE e = d
    <3>1. ~ Completes(p, c)
      BY <1>1, <1>3, <1>6, <2>1
    <3>2. PICK q \in Dept \ {p} : slots[d][q] = {}
      BY <1>4, <3>1
    <3>3. Book!ActiveIn(d, q)' = {}
      BY <1>1, <3>2 DEF slots
    <3> QED
      BY <2>1, <3>2, <3>3 DEF Book!Present
  <2>2. CASE e # d
    <3>1. cycle[e] = "collecting"
      BY <1>3, <1>6, <2>2
    <3>2. Book!Present(e)' = Book!Present(e)
      BY <1>1, <2>2 DEF Book!Present
    <3> QED
      BY <3>1, <3>2 DEF CollectingInv
  <2> QED
    BY <2>1, <2>2
<1> QED
  BY <1>1, <1>5, <1>6 DEF Cycles!Next, CollectingInv

\* A withdrawal from an open cycle is a change of the book.
LEMMA RevokeIsChange ==
  ASSUME TypeOK, RowsInv, NEW f \in File, NEW previous \in File \cup {NoFile},
         CanWithdraw(f, previous), Revoke(f, previous), CollectingInv
  PROVE  Cycles!Next /\ CollectingInv'
<1> DEFINE S == {previous} \ {NoFile}
<1>0. PICK d \in Date, p \in Dept : d = file[f].date /\ p = file[f].dept
  BY RowType DEF CanWithdraw, FileRow
<1>1. /\ f \in Book!ActiveIn(d, p) /\ Book!ActiveIn(d, p)' = S
      /\ \A e \in Date, q \in Dept : ~ (e = d /\ q = p) =>
           Book!ActiveIn(e, q)' = Book!ActiveIn(e, q)
      /\ S \in SUBSET File
  BY <1>0, RevokeSlots
<1>2. slots' = [slots EXCEPT ![d] = [slots[d] EXCEPT ![p] = S]]
  BY <1>1, OneSlot
<1>3. cycle' = cycle /\ cycle[d] = "collecting" /\ cycle \in [Date -> Book!Status]
  BY <1>0 DEF Revoke, CanWithdraw, Book!Mutable, TypeOK
<1>4. Book!Present(d) # Dept /\ p \in Book!Present(d)
  BY <1>1, <1>3, PresentFiles DEF CollectingInv
<1>5. PICK q \in Dept \ {p} : slots[d][q] = {}
  <2>1. PICK q \in Dept : q \notin Book!Present(d)
    BY <1>4 DEF Book!Present
  <2> QED
    BY <1>1, <1>4, <2>1, PresentFiles DEF slots
<1>6. Cycles!Change(d, p, S)
  BY <1>2, <1>3, <1>5 DEF Cycles!Change
<1>7. ASSUME NEW e \in Date, cycle'[e] = "collecting"
      PROVE  Book!Present(e)' # Dept
  <2>1. CASE e = d
    <3>1. Book!ActiveIn(d, q)' = {}
      BY <1>1, <1>5 DEF slots
    <3> QED
      BY <1>5, <2>1, <3>1 DEF Book!Present
  <2>2. CASE e # d
    <3>1. Book!Present(e)' = Book!Present(e)
      BY <1>1, <2>2 DEF Book!Present
    <3> QED
      BY <1>3, <1>7, <3>1 DEF CollectingInv
  <2> QED
    BY <2>1, <2>2
<1> QED
  BY <1>1, <1>6, <1>7 DEF Cycles!Next, CollectingInv

\* A step that leaves the tables alone is none of the book.
LEMMA BookStill ==
  ASSUME UNCHANGED bookVars, CollectingInv
  PROVE  UNCHANGED Cycles!vars /\ CollectingInv'
<1>1. /\ cycle' = cycle /\ \A d, p : Book!ActiveIn(d, p)' = Book!ActiveIn(d, p)
  BY DEF bookVars, Book!ActiveIn, Book!InSlot, Book!File
<1> QED
  BY <1>1 DEF Cycles!vars, slots, CollectingInv, Book!Present

\* Every step of the dialogues changes the book at once or not at all.
LEMMA DialogueBookStep ==
  ASSUME DialogueInv, CollectingInv, [Next]_vars
  PROVE  [Cycles!Next]_(Cycles!vars) /\ CollectingInv'
<1>1. TypeOK /\ RowsInv
  BY DEF DialogueInv
<1>2. CASE UNCHANGED bookVars
  BY <1>2, BookStill
<1>3. CASE ~ UNCHANGED bookVars
  <2>1. ASSUME NEW t \in Task, Message(t)  PROVE FALSE
    BY <1>3, <2>1 DEF Message, Cancel, Undo, Keep, ConfirmUndo, Document, ChooseDepartment
  <2>2. ASSUME NEW t \in Task, NEW b \in buttons, Callback(t, b)  PROVE FALSE
    BY <1>3, <2>2 DEF Callback, OtherDepartment, Confirm
  <2>3. ASSUME NEW t \in Task, Resume(t)  PROVE Add(t) \/ Replace(t) \/ Withdraw(t)
    BY <1>3, <2>3 DEF Resume, Offer, Reject, LookUpCycle, CountCollecting, LookUpSlot, Fails
  <2>4. ASSUME NEW t \in Task, Add(t)  PROVE Cycles!Next /\ CollectingInv'
    <3>1. task[t].at = "add" /\ CanAdd(task[t].dept, task[t].sha)
          /\ Insert(task[t].dept, task[t].sha, NoFile, UserOf(t))
      BY <1>3, <2>4 DEF Add, Refused, Save
    <3>2. task[t].sha \in Sha /\ task[t].dept \in Dept /\ UserOf(t) \in User
      BY <3>1, BeforeSave, TaskUser
    <3>3. /\ Book!ActiveIn(DateOf[task[t].sha], task[t].dept) = {NoFile} \ {NoFile}
          /\ ~ Terminal(DateOf[task[t].sha])
      BY <3>1 DEF CanAdd
    <3> QED
      BY <1>1, <3>1, <3>2, <3>3, InsertIsChange
  <2>5. ASSUME NEW t \in Task, Replace(t)  PROVE Cycles!Next /\ CollectingInv'
    <3> DEFINE base == fsm[UserOf(t)].expected
    <3>1. task[t].at = "replace" /\ CanReplace(task[t].dept, task[t].sha, base)
          /\ Insert(task[t].dept, task[t].sha, base, UserOf(t))
      BY <1>3, <2>5 DEF Replace, Refused, Save
    <3>2. task[t].sha \in Sha /\ task[t].dept \in Dept /\ UserOf(t) \in User /\ base \in File
      BY <3>1, BeforeSave, TaskUser
    <3>3. /\ Book!ActiveIn(DateOf[task[t].sha], task[t].dept) = {base} \ {NoFile}
          /\ file[base].life = "active" /\ ~ Terminal(DateOf[task[t].sha])
      BY <3>1, <3>2, ActiveFiles DEF CanReplace, Terminal, Book!Mutable, File, NoFile
    <3> QED
      BY <1>1, <3>1, <3>2, <3>3, InsertIsChange
  <2>6. ASSUME NEW t \in Task, Withdraw(t)  PROVE Cycles!Next /\ CollectingInv'
    <3> DEFINE e == fsm[UserOf(t)]
    <3>1. CanWithdraw(e.saved, e.previous) /\ Revoke(e.saved, e.previous)
      BY <1>3, <2>6 DEF Withdraw, Refused
    <3>2. e.saved \in File /\ e.previous \in File \cup {NoFile}
      BY <2>6, BeforeWithdraw DEF Withdraw
    <3> QED
      BY <1>1, <3>1, <3>2, RevokeIsChange
  <2>7. ASSUME OthersSave  PROVE Cycles!Next /\ CollectingInv'
    <3>1. PICK p \in Dept, c \in Sha :
            \/ CanAdd(p, c) /\ Insert(p, c, NoFile, Others)
            \/ \E f \in File : CanReplace(p, c, f) /\ Insert(p, c, f, Others)
      BY <2>7 DEF OthersSave
    <3>2. CASE CanAdd(p, c) /\ Insert(p, c, NoFile, Others)
      <4>1. /\ Book!ActiveIn(DateOf[c], p) = {NoFile} \ {NoFile} /\ ~ Terminal(DateOf[c])
        BY <3>2 DEF CanAdd
      <4> QED
        BY <1>1, <3>2, <4>1, InsertIsChange
    <3>3. CASE \E f \in File : CanReplace(p, c, f) /\ Insert(p, c, f, Others)
      <4>1. PICK f \in File : CanReplace(p, c, f) /\ Insert(p, c, f, Others)
        BY <3>3
      <4>2. /\ Book!ActiveIn(DateOf[c], p) = {f} \ {NoFile}
            /\ file[f].life = "active" /\ ~ Terminal(DateOf[c])
        BY <4>1, ActiveFiles DEF CanReplace, Terminal, Book!Mutable, File, NoFile
      <4> QED
        BY <1>1, <4>1, <4>2, InsertIsChange
    <3> QED
      BY <3>1, <3>2, <3>3
  <2>8. ASSUME OthersWithdraw  PROVE Cycles!Next /\ CollectingInv'
    <3>1. PICK f \in File : /\ file[f].life = "active"
                            /\ CanWithdraw(f, file[f].base) /\ Revoke(f, file[f].base)
      BY <2>8 DEF OthersWithdraw
    <3> QED
      BY <1>1, <3>1, BaseType, RevokeIsChange
  <2>9. ASSUME NEW d \in Date, Expire(d)  PROVE Cycles!Next /\ CollectingInv'
    <3>1. /\ cycle' = [cycle EXCEPT ![d] = "expired"] /\ file' = file
          /\ cycle[d] = "collecting" /\ Book!Present(d) # Dept /\ cycle \in [Date -> Book!Status]
      BY <1>1, <2>9 DEF Expire, Book!Expire, TypeOK
    <3>2. \A e, p : Book!ActiveIn(e, p)' = Book!ActiveIn(e, p)
      BY <3>1 DEF Book!ActiveIn, Book!InSlot, Book!File
    <3>3. slots' = slots /\ \E p \in Dept : slots[d][p] = {}
      BY <3>1, <3>2 DEF slots, Book!Present
    <3>4. Cycles!Expire(d)
      BY <3>1, <3>3 DEF Cycles!Expire
    <3>5. CollectingInv'
      BY <3>1, <3>2 DEF CollectingInv, Book!Present
    <3> QED
      BY <3>4, <3>5 DEF Cycles!Next
  <2>10. ~ Restart /\ ~ UNCHANGED vars
    BY <1>3 DEF Restart, vars
  <2> QED
    BY <2>1, <2>2, <2>3, <2>4, <2>5, <2>6, <2>7, <2>8, <2>9, <2>10 DEF Next
<1> QED
  BY <1>2, <1>3

\* The transactions of the dialogues, which are single steps here, keep the same book as
\* the transactions of AuditCycle, which are many: a department's file changes at once, a
\* cycle is complete exactly when it has one of every department, and then closed.
THEOREM DialoguesKeepTheBook == Spec => BookKept
<1>1. Init => Cycles!Init /\ CollectingInv
  <2> SUFFICES ASSUME Init  PROVE Cycles!Init /\ CollectingInv
    OBVIOUS
  <2>1. \A d \in Date, p \in Dept : Book!ActiveIn(d, p) = {}
    BY ActiveFiles DEF Init, Book!FreeFile
  <2> QED
    BY <2>1 DEF Init, Cycles!Init, slots, CollectingInv
<1>2. DialogueInv /\ CollectingInv /\ [Next]_vars
        => [Cycles!Next]_(Cycles!vars) /\ CollectingInv'
  BY DialogueBookStep
<1> QED
  BY <1>1, <1>2, DialogueInvariant, PTL DEF Spec, BookKept, Cycles!Spec
=============================================================================
