SPECIFICATION Spec
CONSTANTS
  r1 = r1
  r2 = r2
  r3 = r3
  s1 = s1
  s2 = s2
  Request <- Requests
  Con = {r1, r2, r3}
  Endpoint = {s1, s2}
  Secured = {s1}
  To <- Destination
  Nil = Nil
  MaxRetransmit = 1
  CounterSize = 3
  Does503 = {"start", "close"}
INVARIANTS TypeOK TeardownComplete ToldOnce LifetimeMatches
PROPERTIES RequestsEnd TransactionsEnd
