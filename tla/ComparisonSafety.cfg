SPECIFICATION Spec
CONSTANTS
  Session = {u1, u2}
  Department = {d1}
  Date = {1, 2}
  Metric <- MCMetric
  Debt = "debt"
  Overdue = {"late"}
  Normal <- MCNormal
  Sheet <- MCSheet
  MaxUpload = 3
  Null = Null
  BadCell = BadCell
INVARIANTS PairedIffSameNames ReportAddsUp
CHECK_DEADLOCK FALSE
SYMMETRY MCSymmetry
