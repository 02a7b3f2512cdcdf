SPECIFICATION Spec
CONSTANTS
  Uuid = {u1, u2}
  Nil = Nil
  Absent = Absent
  Empty = Empty
  Env = {"crash"}
INVARIANTS OperationalOwned
SYMMETRY Identities
