SPECIFICATION Spec
CONSTANTS
  Uuid = {u1, u2}
  Nil = Nil
  Absent = Absent
  Empty = Empty
  Env = {"restart", "reject"}
INVARIANTS TypeOK OperationalOwned Durable
SYMMETRY Identities
