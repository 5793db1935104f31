CONSTANTS
  Proc = {p1, p2, p3}
  Alias = {a1, a2}
  Key = {k1, k2}
  Null = Null
SPECIFICATION Spec
SYMMETRY Symmetry
INVARIANTS OneKey FileReadable PinKept FirstUseBinds
CHECK_DEADLOCK FALSE
