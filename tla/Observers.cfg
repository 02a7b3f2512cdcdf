SPECIFICATION Spec
CONSTANTS
  a = a
  b = b
  door = door
  lamp = lamp
  Endpoint = {a, b}
  Secured = {a}
  Resource = {door, lamp}
  Public = {lamp}
  Discoverable = {door, lamp}
  Periodic = {door}
  Large = {door, lamp}
  Slow = {lamp}
  Role = {"user"}
  OwnerRole = "oic.role.owner"
  Acls <- MCAcls
  Requests <- MCRequests
  MaxToken = 2
  RefreshInterval = 2
  CountSize = 2
  MaxInbox = 1
  MaxCounter = 4
  MaxDelayed = 1
INVARIANTS TypeOK CountsMatch ObserversAuthorised NumbersFresh SeparateOwed
