CONSTANTS
  t1 = t1
  t2 = t2
  h1 = h1
  h2 = h2
  f1 = f1
  f2 = f2
  s1 = s1
  s2 = s2
  Threads = {t1, t2}
  Handles = {h1, h2}
  Files = {f1, f2}
  MaxEpolls = 2
  Settings = {s1, s2}
  NoFile = NoFile
  Overlap = TRUE
SPECIFICATION Spec
SYMMETRY Perms
INVARIANT OneEpollPerHandle
