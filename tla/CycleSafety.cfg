SPECIFICATION Spec
CONSTANTS
  Date = {1, 2}
  Dept = {p1, p2}
  Sha = {a, b, c}
  MaxFile = 3
  Session = {s1, s2}
  NoSession = NoSession
SYMMETRY Interchangeable
INVARIANTS TypeOK CompleteIffFull FilesUnique ReplacedCanBeRestored Unblocked
PROPERTIES BookKept TerminalFrozen
