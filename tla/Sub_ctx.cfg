SPECIFICATION Spec
CONSTANTS
  s1 = s1
  s2 = s2
  s3 = s3
  u1 = u1
  u2 = u2
  NoSub = NoSub
  Subs = {s1, s2, s3}
  Unsubscribers <- ManyUnsub
  MaxNotes <- ManyNotes
  MaxDials = 1
  MaxBuffer = 2
  BadNotes <- ManyBad
INVARIANTS
  FailedSubscribeLeavesNothing
CHECK_DEADLOCK FALSE
