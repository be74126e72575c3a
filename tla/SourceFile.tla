------------------------------- MODULE SourceFile -------------------------------
(***************************************************************************)
(* From a debt sheet to saved positions: row_classifier.py builds the      *)
(* hierarchy of the rows, reconciliation.py checks it against the row      *)
(* "total", and persistence.py saves it, one transaction per file.         *)
(* Uploads run side by side: two transactions of different cycles meet on  *)
(* the identities (manager groups and counterparties) they both insert.    *)
(*                                                                         *)
(* A sheet is [template, rows, closed, total]: whether the 17 columns, the *)
(* header and the report date are those of the template, the rows of data, *)
(* whether the last row is a total of outline level 0, and its cells.      *)
(* Amounts are hundredths. A name is looked up under its normal form       *)
(* Normal[name], a sequence of words: the marks that build_match_key puts  *)
(* between two names are words a name may contain as well.                 *)
(***************************************************************************)
EXTENDS Integers, Sequences, FiniteSets, FiniteSetsExt, SequencesExt

CONSTANTS
  Session,     \* concurrent uploads
  Department,
  Date,        \* report dates, numbers
  Metric,      \* the additive metrics
  Normal,      \* normalize_name: the normal form of every name
  Sheet,       \* the sheets that users may send
  MaxUpload,   \* transactions begun: a user may send a refused file again
  Null, BadCell

Mark == <<"|1:", "|2:", "|3:", "|4:">>

Word == STRING \cup Range(Mark)

Cells == [Metric -> Int \cup {Null}]

Row == [level : Nat, name : DOMAIN Normal, cell : Cells \cup {BadCell}]

Position == [dept : Department, row : Nat, level : 1 .. 4, cell : Cells,
             group : Nat, partner : Nat, key : Nat \X Seq(Word)]

\* Nothing is its own placeholder, nor an amount, and a department is not the id of a group.
ASSUME SourceAssumption ==
  /\ Date \subseteq Nat /\ MaxUpload \in Nat
  /\ \A n \in DOMAIN Normal : Normal[n] \in Seq(STRING)
  /\ \A s \in Sheet : s.rows \in Seq(Row) /\ s.total \in Cells \cup {BadCell}
  /\ Null \notin Session /\ Null \notin Position /\ Null \notin Int
  /\ Department \cap Nat = {}

VARIABLES
  identity,    \* rows of manager_groups and counterparties, by the transaction that wrote them
  lastId,      \* the sequence behind their ids
  files,       \* ACTIVE source files with their positions
  upload,      \* the transaction of every session, Null between two
  begun        \* uploads so far, up to MaxUpload

fileVars == <<identity, lastId, files, upload, begun>>

Tolerance == 1
NoParent == [l \in 1 .. 4 |-> 0]

Init ==
  /\ identity = {} /\ lastId = 0 /\ files = {}
  /\ upload = [u \in Session |-> Null] /\ begun = 0

-----------------------------------------------------------------------------
(* Reading a sheet                                                          *)

\* A row may stand where it is: its parents have been seen, its cells are numbers.
Fits(s, r) ==
  /\ r.level \in 1 .. 4
  /\ s.group # 0
  /\ r.level > 1 => s.parent[r.level - 1] # 0
  /\ r.cell # BadCell

ParentsAfter(s, level, i) ==
  [l \in 1 .. 4 |-> CASE l < level -> s.parent[l] [] l = level -> i [] OTHER -> 0]

ReadRow(s, r, i) ==
  IF r.level = 0
    THEN [s EXCEPT !.group = i, !.parent = NoParent]
  ELSE IF Fits(s, r)
    THEN LET after == ParentsAfter(s, r.level, i)
         IN [s EXCEPT !.parent = after,
                      !.lines = @ \cup {[row |-> i, level |-> r.level, name |-> r.name,
                                         cell |-> r.cell, group |-> s.group,
                                         partner |-> after[1],
                                         parent |-> IF r.level = 1 THEN 0 ELSE after[r.level - 1]]}]
  ELSE [s EXCEPT !.ok = FALSE]

Unread == [ok |-> TRUE, group |-> 0, parent |-> NoParent, lines |-> {}]

\* What is known after each row; the first row out of place ends the reading.
Reading(rows) ==
  LET read[i \in 0 .. Len(rows)] ==
        IF i = 0 THEN Unread
        ELSE IF read[i - 1].ok THEN ReadRow(read[i - 1], rows[i], i) ELSE read[i - 1]
  IN read

Classify(rows) == Reading(rows)[Len(rows)]

Zero(amount) == IF amount = Null THEN 0 ELSE amount

SumLevel1(lines, m) == MapThenSumSet(LAMBDA x : Zero(x.cell[m]), {x \in lines : x.level = 1})

Reconciled(lines, total) ==
  \A m \in Metric : SumLevel1(lines, m) - Zero(total[m]) \in -Tolerance .. Tolerance

Valid(sheet) ==
  LET c == Classify(sheet.rows)
  IN /\ sheet.template /\ sheet.closed /\ sheet.total # BadCell
     /\ c.ok /\ c.group # 0
     /\ Reconciled(c.lines, sheet.total)

ValidSheet == {sheet \in Sheet : Valid(sheet)}

-----------------------------------------------------------------------------
(* Saving a file                                                            *)

OfLevel(rows, l) == {i \in DOMAIN rows : rows[i].level = l}

\* add_source_file_atomic locks the cycle, then looks for the department's file.
Begin(u, dept, d, sheet) ==
  /\ upload[u] = Null /\ begun < MaxUpload
  /\ begun' = begun + 1
  /\ \A v \in Session : upload[v] # Null => upload[v].date # d
  /\ ~ \E f \in files : f.dept = dept /\ f.date = d
  /\ upload' = [upload EXCEPT ![u] =
       [dept |-> dept, date |-> d, sheet |-> sheet, lines |-> Classify(sheet.rows).lines,
        todo |-> OfLevel(sheet.rows, 0) \cup OfLevel(sheet.rows, 1),
        id |-> [i \in DOMAIN sheet.rows |-> 0]]]
  /\ UNCHANGED <<identity, lastId, files>>

LineOf(t, i) == CHOOSE x \in t.lines : x.row = i

\* The identity that row i names: a group of the department, a counterparty of the group.
Wanted(t, i) ==
  LET r == t.sheet.rows[i]
  IN [owner |-> IF r.level = 0 THEN t.dept ELSE t.id[LineOf(t, i).group], name |-> Normal[r.name]]

\* The groups come first, then the counterparties, both in the order of the rows.
NextRow(t) ==
  LET groups == t.todo \cap OfLevel(t.sheet.rows, 0)
  IN Min(IF groups # {} THEN groups ELSE t.todo)

Rows(w) == {x \in identity : x.owner = w.owner /\ x.name = w.name}

\* Mutant: without the unique constraint a session sees the committed rows and its own.
VisibleRows(u, w) == {x \in Rows(w) : x.by \in {Null, u}}

\* INSERT ... ON CONFLICT DO NOTHING meets the rows of every transaction.
Conflicting(u, w) == Rows(w)

Took(u, id) ==
  LET i == NextRow(upload[u])
  IN upload' = [upload EXCEPT ![u].id[i] = id, ![u].todo = @ \ {i}]

NextName(u) == Wanted(upload[u], NextRow(upload[u]))

Working(u) == upload[u] # Null /\ upload[u].todo # {}

Insert(u) ==
  /\ Working(u)
  /\ Conflicting(u, NextName(u)) = {}
  /\ lastId' = lastId + 1
  /\ identity' = identity \cup
       {[owner |-> NextName(u).owner, name |-> NextName(u).name, id |-> lastId + 1, by |-> u]}
  /\ Took(u, lastId + 1)
  /\ UNCHANGED <<files, begun>>

\* A row that is committed, or this transaction's own, is read back.
Reuse(u) ==
  /\ Working(u)
  /\ \E x \in Conflicting(u, NextName(u)) : x.by \in {Null, u} /\ Took(u, x.id)
  /\ UNCHANGED <<identity, lastId, files, begun>>

\* The insert waits for the transaction that wrote the row.
WaitsFor(u, v) ==
  /\ Working(u)
  /\ \E x \in Conflicting(u, NextName(u)) : x.by = v /\ v # u

\* build_match_key: the counterparty's id, then the names below it after their marks.
Keys(t) ==
  LET path[i \in {x.row : x \in t.lines}] ==
        LET x == LineOf(t, i)
        IN IF x.level = 1 THEN <<>>
           ELSE path[x.parent] \o <<Mark[x.level]>> \o Normal[x.name]
  IN [i \in {x.row : x \in t.lines} |-> <<t.id[LineOf(t, i).partner], path[i]>>]

Saved(t) ==
  [dept |-> t.dept, date |-> t.date, total |-> t.sheet.total, rows |-> t.sheet.rows,
   positions |-> {[dept |-> t.dept, row |-> x.row, level |-> x.level, cell |-> x.cell,
                   group |-> t.id[x.group], partner |-> t.id[x.partner], key |-> Keys(t)[x.row]]
                  : x \in t.lines}]

Commit(u) ==
  /\ upload[u] # Null /\ upload[u].todo = {}
  /\ files' = files \cup {Saved(upload[u])}
  /\ identity' = {IF x.by = u THEN [x EXCEPT !.by = Null] ELSE x : x \in identity}
  /\ upload' = [upload EXCEPT ![u] = Null]
  /\ UNCHANGED <<lastId, begun>>

Rollback(u) ==
  /\ identity' = {x \in identity : x.by # u}
  /\ upload' = [upload EXCEPT ![u] = Null]
  /\ UNCHANGED <<lastId, files, begun>>

\* Two files that name the same new rows in another order: the database aborts one.
Deadlock(u) ==
  /\ \E v \in Session : WaitsFor(u, v) /\ WaitsFor(v, u)
  /\ Rollback(u)

Fail(u) ==
  /\ upload[u] # Null
  /\ Rollback(u)

Next ==
  \E u \in Session :
    \/ \E dept \in Department, d \in Date, sheet \in ValidSheet : Begin(u, dept, d, sheet)
    \/ Insert(u)
    \/ Reuse(u)
    \/ Commit(u)
    \/ Deadlock(u)
    \/ Fail(u)
=============================================================================
