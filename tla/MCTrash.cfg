SPECIFICATION Spec
CONSTANTS
  n1 = n1  n2 = n2  d = d  e = e  fa = fa  f = f  a = a
  Names = {n1, n2}
  Folders = {d, e}
  Files = {fa, f}
  Outside = {g}
  Leaves = {a}
  Uuids = {u1, u2}
  Whole = Whole
  Free = Free
  Stub = Stub
  InitialTree <- Tree
  Kernels = {"noreplace", "plain"}
INVARIANTS
  RecordBesidePayload
PROPERTIES
  NothingDestroyed
  ImplementsTrashBin
SYMMETRY Perms
CHECK_DEADLOCK FALSE
