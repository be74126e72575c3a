SPECIFICATION Spec
CONSTANTS
  x = x
  y = y
  z = z
  User = {u1}
  Date = {1, 2}
  Dept = {d1, d2}
  Sha = {x, y, z}
  DateOf <- MCDateOf
  MaxFile = 3
  Others = Others
  Nothing = Nothing
SYMMETRY Interchangeable
PROPERTIES SavedUnderShown
