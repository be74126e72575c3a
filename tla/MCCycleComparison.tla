--------------------------- MODULE MCCycleComparison ----------------------------
EXTENDS CycleComparison, TLC

NewRow(l, n, x, y, z) ==
  [level |-> l, name |-> n, cell |-> [debt |-> x, late |-> y, advance |-> z]]
MCMetric == {"debt", "late", "advance"}
MCNormal == [n \in {"G", "A", "a", "B", "x", "y", "x|3:y"} |->
  CASE n = "A" -> <<"a">> [] n = "x|3:y" -> <<"x", "|3:", "y">> [] OTHER -> <<n>>]
G == NewRow(0, "G", Null, Null, Null)  H == NewRow(0, "A", Null, Null, Null)
A == NewRow(1, "A", 3, 3, 1)      a0 == NewRow(1, "a", Null, 0, 1)   a2 == NewRow(1, "a", 3, 3, 2)
B == NewRow(1, "B", 5, Null, 0)   b1 == NewRow(1, "B", 4, 4, 0)
x == NewRow(2, "x", 3, 3, 1)      xy == NewRow(2, "x|3:y", 3, 3, 1)  y == NewRow(3, "y", 3, 0, 0)
MCBody == {<<G, A>>, <<G, a0>>, <<G, a2>>, <<H>>, <<G, B, A>>, <<G, A, H, A>>, <<H, A>>, <<G, A, b1>>, <<G, A, a0>>, <<G, A, x, y>>, <<G, A, xy>>,
           <<G, a0, x, B, x>>, <<G, B, x, A, y>>, <<H, b1, G, A>>, <<G, B, H, A, x>>}
Closing(b) ==
  LET Sum(m) == SumLevel1(Classify(b).lines, m)
  IN {[debt |-> Sum("debt") + n, late |-> l, advance |-> Sum("advance")] :
        n \in {-2, 1}, l \in {Sum("late"), Null}}
MCSymmetry == Permutations(Session)
MCSheet == UNION {{[template |-> TRUE, rows |-> b, closed |-> TRUE, total |-> t]
                     : t \in Closing(b)} : b \in MCBody}
=============================================================================
