SPECIFICATION Spec
CONSTANTS
  Event = {e1, e2}
  NoEvent = NoEvent
  Dynamic = TRUE
  NumEvents = 2
  MaxNum = 8
INVARIANTS TypeOK SlotsInUseFilled
PROPERTY ImplementsFifo
