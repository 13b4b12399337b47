SPECIFICATION MethodsReturn
CONSTANTS
  c1 = c1
  c2 = c2
  t1 = t1
  t2 = t2
  Nobody = Nobody
  Conns = {c1, c2}
  Stoppers = {t1, t2}
INVARIANTS
  TypeOK
  StopClosesAll
  TrackedWhileServed
PROPERTIES
  StopEndsServing
