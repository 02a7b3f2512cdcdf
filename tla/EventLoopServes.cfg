SPECIFICATION Spec
CONSTANTS
  t1 = t1
  t2 = t2
  Thread = {n1, n2}
  Timer <- Callbacks
  Interval <- Intervals
  Wrap = 16
  MaxTime = 4
  MaxMessages = 2
  Interrupts = TRUE
INVARIANTS TypeOK MessagePolled NeverOversleeps
PROPERTY TimersServed
CHECK_DEADLOCK FALSE
