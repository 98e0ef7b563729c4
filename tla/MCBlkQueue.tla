----------------------------- MODULE MCBlkQueue -----------------------------
EXTENDS BlkQueue, TLC

CONSTANTS p1, p2, b1, b2, b3

\* three buffers on consecutive blocks
MCBlockOf == [b \in Bufs |-> CASE b = b1 -> 1 [] b = b2 -> 2 [] b = b3 -> 3]

MCSymmetry == Permutations(Procs)
====
