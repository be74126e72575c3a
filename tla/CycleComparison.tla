---------------------------- MODULE CycleComparison -----------------------------
(***************************************************************************)
(* The comparison of a completed cycle with the completed cycle before it  *)
(* (comparison_service.py) and the rows that the CORE workbook makes of it *)
(* (report_workbook.py), over the files that SourceFile saves.             *)
(***************************************************************************)
EXTENDS SourceFile

CONSTANTS
  Debt,      \* the metric total_debt
  Overdue    \* OVERDUE_BUCKETS: the metrics of the overdue profile

ASSUME ComparisonAssumption == Debt \in Metric /\ Overdue \subseteq Metric \ {Debt}

VARIABLE report        \* what every date was compared with and what came out, Null before

vars == <<fileVars, report>>

CInit == Init /\ report = [d \in Date |-> Null]

-----------------------------------------------------------------------------
(* Sums in which a blank cell is not a zero                                 *)

\* The sum of a metric over positions: blank when every cell is.
SumMetric(S, m) ==
  IF \A p \in S : p.cell[m] = Null THEN Null
  ELSE MapThenSumSet(LAMBDA p : Zero(p.cell[m]), S)

\* The sum of the sums of parts, blank when every part is.
SumParts(parts, m) ==
  IF \A S \in parts : SumMetric(S, m) = Null THEN Null
  ELSE MapThenSumSet(LAMBDA S : Zero(SumMetric(S, m)), parts)

\* A side that is absent counts as nothing; one that is present and blank is unknown.
AbsDelta(hasCurrent, hasPrevious, c, p) ==
  CASE ~hasCurrent /\ ~hasPrevious -> Null
    [] hasCurrent /\ ~hasPrevious -> c
    [] ~hasCurrent /\ hasPrevious -> IF p = Null THEN Null ELSE 0 - p
    [] OTHER -> IF c = Null \/ p = Null THEN Null ELSE c - p

Level1(S) == {p \in S : p.level = 1}

\* aggregate_metric_deltas and _company_metric_deltas: both sides summed over level 1.
SumDelta(C, P, m) ==
  LET c == SumMetric(Level1(C), m)
      p == SumMetric(Level1(P), m)
  IN [current |-> c, previous |-> p,
      abs |-> AbsDelta(Level1(C) # {}, Level1(P) # {}, c, p)]

-----------------------------------------------------------------------------
(* Matching positions                                                       *)

Cell(p, m) == IF p = Null THEN Null ELSE p.cell[m]

MetricDelta(c, p, m) ==
  [current |-> Cell(c, m), previous |-> Cell(p, m),
   abs |-> AbsDelta(c # Null, p # Null, Cell(c, m), Cell(p, m))]

NoDelta == [current |-> Null, previous |-> Null, abs |-> Null]

Several(S) == \E p, q \in S : p # q

Only(S) == IF S # {} /\ ~Several(S) THEN CHOOSE p \in S : TRUE ELSE Null

\* The first position of a side stands for an ambiguous key: ids follow the rows of a file.
First(S) == CHOOSE p \in S : \A q \in S : p.row <= q.row

\* overdue_profile_changed: of the other metrics only the overdue buckets count.
ProfileChanged(c, p) ==
  c # Null /\ p # Null /\ \E m \in Overdue : c.cell[m] # p.cell[m]

Entity(key, C, P) ==
  LET c == Only(C)
      p == Only(P)
      ambiguous == Several(C) \/ Several(P)
  IN [key |-> key, ambiguous |-> ambiguous,
      level |-> IF c # Null THEN c.level
                ELSE IF p # Null THEN p.level
                ELSE IF C # {} THEN First(C).level ELSE First(P).level,
      current |-> IF ambiguous THEN Null ELSE c,
      previous |-> IF ambiguous THEN Null ELSE p,
      deltas |-> [m \in Metric |-> IF ambiguous THEN NoDelta ELSE MetricDelta(c, p, m)],
      profile |-> ~ambiguous /\ ProfileChanged(c, p)]

OfKey(S, key) == {p \in S : p.key = key}

\* compare_position_sets: one entity per key of either side.
Entities(C, P) == {Entity(key, OfKey(C, key), OfKey(P, key)) : key \in {p.key : p \in C \cup P}}

Class(e) ==
  IF e.ambiguous THEN "ambiguous"
  ELSE IF e.previous = Null THEN "new"
  ELSE IF e.current = Null THEN "closed"
  ELSE IF e.deltas[Debt].abs \in {Null, 0} THEN "unchanged"
  ELSE IF e.deltas[Debt].abs > 0 THEN "growth"
  ELSE "decline"

\* Mutant: the overdue profile puts no row on the sheet.
ListedByClass(e) == Class(e) # "unchanged"

\* The rows of the sheet "Changes".
Listed(e) == Class(e) # "unchanged" \/ e.profile

-----------------------------------------------------------------------------
(* Controls                                                                 *)

Near(l, r) ==
  \/ l = Null /\ r = Null
  \/ l # Null /\ r # Null /\ l - r \in -Tolerance .. Tolerance

Control(scope, of, m, l, r) == [scope |-> scope, of |-> of, metric |-> m, ok |-> Near(l, r)]

Split(S, column) == {{p \in S : p[column] = x} : x \in {p[column] : p \in S}}

\* build_l1_control_equalities: the company, its departments, their groups, level by level.
Rollups(C) ==
  UNION {
    {Control("company", Null, m, SumMetric(C, m), SumParts(Split(C, "dept"), m))}
    \cup {Control("department", S, m, SumMetric(S, m), SumParts(Split(S, "group"), m))
            : S \in Split(C, "dept")}
    \cup {Control("group", S, m, SumMetric(S, m), SumParts(Split(S, "partner"), m))
            : S \in Split(C, "group")}
    : m \in Metric}

\* build_source_file_grand_total_equalities: level 1 of a file against its own total.
FileControl(f, m) == Control("file", f.dept, m, SumMetric(Level1(f.positions), m), f.total[m])

FilesOf(d) == {f \in files : f.date = d}

Positions(d) == UNION {f.positions : f \in FilesOf(d)}

Failures(d) ==
  {c \in Rollups(Level1(Positions(d)))
         \cup {FileControl(f, m) : f \in FilesOf(d), m \in Metric} : ~c.ok}

-----------------------------------------------------------------------------
(* The report of a cycle                                                    *)

\* A cycle is completed when every department's file is in it.
Completed(d) == {f.dept : f \in FilesOf(d)} = Department

Earlier(d) == {e \in Date : e < d /\ Completed(e)}

\* _company_metric_deltas
Company(C, P) == [m \in Metric |-> SumDelta(C, P, m)]

\* build_manager_group_rows: the groups with a counterparty on either side.
Groups(C, P) ==
  [g \in {p.group : p \in Level1(C \cup P)} |->
     Company({p \in C : p.group = g}, {p \in P : p.group = g})]

ReportOf(d, before) ==
  LET C == Positions(d)
      P == IF before = Null THEN {} ELSE Positions(before)
  IN [previous |-> before, entities |-> Entities(C, P), failures |-> Failures(d),
      company |-> Company(C, P), groups |-> Groups(C, P)]

Compare(d) ==
  /\ Completed(d) /\ report[d] = Null
  /\ LET before == IF Earlier(d) = {} THEN Null ELSE Max(Earlier(d))
     IN report' = [report EXCEPT ![d] = ReportOf(d, before)]
  /\ UNCHANGED fileVars

CNext == (Next /\ UNCHANGED report) \/ \E d \in Date : Compare(d)

Spec == CInit /\ [][CNext]_vars

-----------------------------------------------------------------------------
(* Properties                                                               *)

\* Every cell of level 1 is blank.
AllBlank(f, m) == \A p \in Level1(f.positions) : p.cell[m] = Null

\* The row above row i on level l, read off the sheet.
Above(rows, i, l) ==
  Max({0} \cup {j \in 1 .. i : rows[j].level = l})

\* The names from the manager group down to a position, read off the sheet.
PathOf(f, p) ==
  <<f.dept>> \o [l \in 1 .. p.level + 1 |-> Normal[f.rows[Above(f.rows, p.row, l - 1)].name]]

Line(d) == UNION {{[path |-> PathOf(f, p), at |-> p] : p \in f.positions} : f \in FilesOf(d)}

\* No name of the file holds a mark that build_match_key puts between names.
Plain(f) == \A i \in DOMAIN f.rows : Range(Normal[f.rows[i].name]) \cap Range(Mark) = {}

Twice(L, x) == \E y \in L : y.at # x.at /\ y.path = x.path

(* The entities pair two positions exactly when the sheets put the same    *)
(* names, from the department down, above and on both, and neither sheet   *)
(* repeats them: build_match_key, the hierarchy of classify_rows and the   *)
(* identities that concurrent uploads share agree. Below level 1 this      *)
(* needs names without the marks of match_key.py:33.                       *)
PairedIffSameNames ==
  \A d \in Date : report[d] # Null /\ report[d].previous # Null =>
    LET C == Line(d)
        P == Line(report[d].previous)
        plain == \A f \in FilesOf(d) \cup FilesOf(report[d].previous) : Plain(f)
    IN \A x \in C, y \in P : plain \/ {x.at.level, y.at.level} = {1} =>
         ((\E e \in report[d].entities : e.current = x.at /\ e.previous = y.at)
            <=> x.path = y.path /\ ~Twice(C, x) /\ ~Twice(P, y))

\* The deltas that a sheet lists for these counterparties, added up.
Explained(E, m) == MapThenSumSet(LAMBDA e : Zero(e.deltas[m].abs), E)

OneSideBlank(e, m) ==
  /\ e.current # Null /\ e.previous # Null
  /\ (e.current.cell[m] = Null) # (e.previous.cell[m] = Null)

\* A stated change of a metric is the sum of the sheet of counterparties, which lists
\* all of E, and of the debt and the overdue buckets also of the sheet "Changes".
Adds(E, total, m) ==
  \/ total.abs = Null
  \/ \E e \in E : e.ambiguous \/ OneSideBlank(e, m)
  \/ /\ Explained(E, m) = total.abs
     /\ m \in {Debt} \cup Overdue => Explained({e \in E : Listed(e)}, m) = total.abs

(* What the report says adds up. A control fails only for a file in which  *)
(* the total is blank and the counterparties are not, or the reverse: the  *)
(* file was accepted with blanks as zeros and is checked again with blanks *)
(* as unknown. And a change of the company or of a manager group that the  *)
(* workbook states is the sum of the changes of its counterparties, unless *)
(* one of them is repeated in a sheet or blank on one side: of all of them *)
(* for every metric, and already of those on the sheet "Changes" for the   *)
(* debt and the overdue buckets, but not for the other metrics, of which   *)
(* that sheet leaves out a counterparty that changed in nothing else.      *)
ReportAddsUp ==
  \A d \in Date : report[d] # Null =>
    LET E == {e \in report[d].entities : e.level = 1}
        Side(e) == IF e.current = Null THEN e.previous ELSE e.current
    IN /\ {[scope |-> c.scope, of |-> c.of, metric |-> c.metric] : c \in report[d].failures} =
          UNION {{[scope |-> "file", of |-> f.dept, metric |-> m]
                    : m \in {n \in Metric : AllBlank(f, n) # (f.total[n] = Null)}}
                  : f \in FilesOf(d)}
       /\ \A m \in Metric :
            /\ Adds(E, report[d].company[m], m)
            /\ \A g \in DOMAIN report[d].groups :
                 \/ \E e \in E : e.ambiguous
                 \/ Adds({e \in E : Side(e).group = g}, report[d].groups[g][m], m)

-----------------------------------------------------------------------------
(* An inductive invariant for PairedIffSameNames and ReportAddsUp           *)

Named(rows) == OfLevel(rows, 0) \cup OfLevel(rows, 1)

\* Two sessions never create one group or counterparty twice, whatever they wait for.
IdentityInv ==
  /\ lastId \in Nat
  /\ identity \subseteq [owner : Department \cup Nat, name : Seq(STRING), id : 1 .. lastId,
                         by : Session \cup {Null}]
  /\ \A x, y \in identity : (x.owner = y.owner /\ x.name = y.name) \/ x.id = y.id => x = y

Is(x, w, id) == x.owner = w.owner /\ x.name = w.name /\ x.id = id

\* Nobody else saves the file of this department and date. The rows an upload
\* has been through have an identity that no other upload can take back.
UploadOK(u, t) ==
  /\ t \in [dept : Department, date : Date, sheet : ValidSheet,
            lines : {Classify(t.sheet.rows).lines}, todo : SUBSET Named(t.sheet.rows),
            id : [DOMAIN t.sheet.rows -> Nat]]
  /\ \A f \in files : f.dept # t.dept \/ f.date # t.date
  /\ \A v \in Session : upload[v] # Null /\ upload[v].date = t.date => v = u
  /\ OfLevel(t.sheet.rows, 1) \subseteq t.todo \/ OfLevel(t.sheet.rows, 0) \cap t.todo = {}
  /\ \A i \in Named(t.sheet.rows) \ t.todo :
       \E x \in identity : x.by \in {Null, u} /\ Is(x, Wanted(t, i), t.id[i])

UploadInv ==
  /\ DOMAIN upload = Session
  /\ \A u \in Session : upload[u] # Null => UploadOK(u, upload[u])

NameAbove(f, p, l) == Normal[f.rows[Above(f.rows, p.row, l)].name]

\* A counterparty is filed under the identities of its group and its name,
\* a row below it under its parent and its own name.
Filed(f, p) ==
  /\ p \in Position /\ p.dept = f.dept
  /\ p.row \in DOMAIN f.rows /\ p.level = f.rows[p.row].level
  /\ IF p.level = 1
       THEN /\ p.key = <<p.partner, <<>>>>
            /\ Above(f.rows, p.row, 0) # 0
            /\ \E x, y \in identity :
                 /\ x.by = Null /\ y.by = Null
                 /\ Is(x, [owner |-> f.dept, name |-> NameAbove(f, p, 0)], p.group)
                 /\ Is(y, [owner |-> p.group, name |-> NameAbove(f, p, 1)], p.partner)
       ELSE \E q \in f.positions :
              /\ q.level = p.level - 1 /\ q.group = p.group /\ q.partner = p.partner
              /\ \A l \in 0 .. q.level : Above(f.rows, q.row, l) = Above(f.rows, p.row, l)
              /\ p.key = <<p.partner,
                           q.key[2] \o <<Mark[p.level]>> \o Normal[f.rows[p.row].name]>>

FileInv ==
  /\ \A f \in files :
       /\ f.dept \in Department /\ f.date \in Date /\ f.rows \in Seq(Row)
       /\ \A p \in f.positions : Filed(f, p)
       /\ \A p, q \in f.positions : p.row = q.row => p = q
  /\ \A f, g \in files : f.dept = g.dept /\ f.date = g.date => f = g

\* A file was saved with the total that its counterparties were reconciled with.
TotalInv ==
  /\ IsFiniteSet(files)
  /\ \A f \in files : f.total \in Cells /\ Reconciled(f.positions, f.total)

\* A report says what the files say: none is added to a completed cycle.
ReportInv ==
  /\ DOMAIN report = Date
  /\ \A d \in Date : report[d] # Null =>
       LET before == report[d].previous
       IN /\ Completed(d)
          /\ before # Null => before \in Earlier(d)
          /\ report[d] = ReportOf(d, before)

ComparisonInv == IdentityInv /\ UploadInv /\ FileInv /\ TotalInv /\ ReportInv
=============================================================================
