\* What a restart of the lock server breaks.
SPECIFICATION SpecR
CONSTANTS
  t1 = t1
  t2 = t2
  t3 = t3
  p1 = p1
  p2 = p2
  a1 = a1
  a2 = a2
  a3 = a3
  Threads = {t1, t2, t3}
  Paths = {p1, p2}
  None = None
  Addrs = {a1, a2, a3}
SYMMETRY Symmetry
INVARIANT MutualExclusion
