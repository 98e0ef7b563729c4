\* Two tasks, two buffers, two slots (one for writes): lock contention, a
\* write waiting for the write slot, every interrupt outcome.  Liveness
\* needs no symmetry.
CONSTANTS
  p1 = p1  p2 = p2  b1 = b1  b2 = b2  b3 = b3
  Procs = {p1, p2}
  Bufs = {b1, b2}
  BlockOf <- MCBlockOf
  NR_REQUEST = 2
  MAX_ERRORS = 7
  NR_SECTS = 6
  NoReq = NoReq
  WaitForRequest = WaitForRequest
SPECIFICATION Spec
INVARIANTS TypeOK LockAccounted DriverNeverIdle ElevatorSound
PROPERTY AbsSpec
