SPECIFICATION Spec
CONSTANTS
  p1 = p1
  p2 = p2
  p3 = p3
  s1 = s1
  s2 = s2
  Paths = {p1, p2, p3}
  Slots = {s1, s2}
  Loads <- MCLoads
  MaxBytes = 1
INVARIANTS   AtomicInvisible
CHECK_DEADLOCK FALSE
