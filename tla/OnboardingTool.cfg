SPECIFICATION Spec
CONSTANTS
  Ctx = {c1, c2}
  Device = {d1, d2}
  Handle = {h1, h2}
  Uuid = {u1, u2, u3, u4}
  Nil = Nil
  Kinds = {"jw", "pin", "rdp", "reset", "pair", "getcred"}
  Earlier = {d2}
  MaxStarts = 2
  MaxAsked = 2
  Guarded = TRUE
  c1 = c1 c2 = c2 d1 = d1 d2 = d2 h1 = h1 h2 = h2
  u1 = u1 u2 = u2 u3 = u3 u4 = u4
INVARIANTS TypeOK OwnedHaveCreds TransferFits TransferTrue
PROPERTY EndsUnlessUnheard
CHECK_DEADLOCK FALSE
