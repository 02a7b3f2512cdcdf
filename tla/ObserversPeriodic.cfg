SPECIFICATION Spec
CONSTANTS
  a = a
  b = b
  door = door
  lamp = lamp
  Endpoint = {a, b}
  Secured = {a}
  Resource = {door, lamp}
  Public = {door, lamp}
  Discoverable = {door, lamp}
  Periodic = {door}
  Large = {door}
  Slow = {lamp}
  Role = {"user"}
  OwnerRole = "oic.role.owner"
  Acls <- MCAcls
  Requests <- MCPeriodicRequests
  MaxToken = 2
  RefreshInterval = 2
  CountSize = 2
  MaxInbox = 1
  MaxCounter = 4
  MaxDelayed = 1
INVARIANT ObservedPolled
