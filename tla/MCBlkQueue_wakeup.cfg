\* Two tasks and three buffers: two writes fill the write slots.
CONSTANTS
  p1 = p1  p2 = p2  b1 = b1  b2 = b2  b3 = b3
  Procs = {p1, p2}
  Bufs = {b1, b2, b3}
  BlockOf <- MCBlockOf
  NR_REQUEST = 3
  MAX_ERRORS = 7
  NR_SECTS = 8
  NoReq = NoReq
  WaitForRequest = WaitForRequest
SPECIFICATION Spec
SYMMETRY MCSymmetry
INVARIANT NoLostWakeup
