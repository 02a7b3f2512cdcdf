SPECIFICATION Spec
CONSTANTS
  t1 = t1
  t2 = t2
  Thread = {n1}
  Timer = {t1}
  Interval <- OneInterval
  Wrap = 16
  MaxTime = 3
  MaxMessages = 2
  Interrupts = FALSE
PROPERTY MessageTaken
