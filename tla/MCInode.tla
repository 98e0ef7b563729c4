------------------------------ MODULE MCInode -------------------------------
EXTENDS Inode, TLC

CONSTANTS p1, p2, x1, x2, v1, v2

MCSymmetry == Permutations(Procs) \cup Permutations(Ids)
====
