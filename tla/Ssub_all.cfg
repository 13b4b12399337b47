SPECIFICATION MCSpec
CONSTANTS
  s1 = s1
  s2 = s2
  s3 = s3
  Subs = {s1, s2, s3}
  Limited = {s2}
  MaxNotes = 3
  Unfit <- MCUnfit
INVARIANTS
  TypeOK
  IdFirst
  NotesInOrder
  SubErrSafe
  AllReleased
  UnsubscribeDeletes
CHECK_DEADLOCK FALSE
