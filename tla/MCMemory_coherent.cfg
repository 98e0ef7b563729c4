\* Memory coherence with user writes only: can a task ever see, at one of
\* its pages, a value another task wrote?  The one-table layout with seven
\* frames leaves room for a copied-on-write page to be shared again.
CONSTANTS
  Slots = {1, 2}
  NFrames = 7
  Pages = {1, 2}
  NDirs = 1
  DirOf <- MCDirOfOne
  Exes = {e1}
  InitExe = e1
  NoExe = NoExe
  ExeData <- MCExeData
  StackPage = 2
  Vals = {v1}
  KernelWrites = FALSE

SPECIFICATION Spec
VIEW StateView

INVARIANT MemoryCoherent

CHECK_DEADLOCK FALSE
