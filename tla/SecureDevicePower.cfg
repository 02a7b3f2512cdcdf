SPECIFICATION Spec
CONSTANTS
  Uuid = {u1, u2}
  Nil = Nil
  Absent = Absent
  Empty = Empty
  Env = {"restart", "crash", "torn", "reject"}
INVARIANTS OwnedNamesOwner
PROPERTIES OwnerKeptUntilReset AcceptedKeepsReachable
SYMMETRY Identities
