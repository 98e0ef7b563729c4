\* Two tasks, two inodes on disk, two values, three table slots.
CONSTANTS
  p1 = p1  p2 = p2  x1 = x1  x2 = x2  v1 = v1  v2 = v2
  Procs = {p1, p2}
  Ids = {x1, x2}
  NoId = NoId
  Vals = {v1, v2}
  NR_INODE = 3
SPECIFICATION Spec
SYMMETRY MCSymmetry
INVARIANTS TypeOK UniqueIdentity CountExact IgetFresh FreeInodeClean
