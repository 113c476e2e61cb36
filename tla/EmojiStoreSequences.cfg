CONSTANTS
  n1 = n1
  n2 = n2
  n3 = n3
  u1 = u1
  u2 = u2
  p1 = p1
  p2 = p2
  Names = {n1, n2}
  Urls = {u1, u2}
  None = None
  Procs = {p1}
  Free = Free
  Kinds = {"lookup", "startup", "unknown", "pack"}
  MaxChanges = 4
  MaxFaults = 1
SYMMETRY Symmetry
SPECIFICATION Spec
INVARIANTS
  Mirrors
PROPERTY
  SyncRepairs
