\* Memory manager with user writes only, two tasks sharing one page table
\* layout and enough frames for a demand-loaded page to be shared: exact
\* reference counts and copy-on-write isolation.
CONSTANTS
  Slots = {1, 2}
  NFrames = 7
  Pages = {1, 2}
  NDirs = 1
  DirOf <- MCDirOfOne
  Exes = {e1}
  InitExe = e1
  NoExe = NoExe
  ExeData <- MCExeData
  StackPage = 2
  Vals = {v1}
  KernelWrites = FALSE

SPECIFICATION Spec
VIEW ControlView

INVARIANT TypeOK
INVARIANT RefCountExact
INVARIANT WritableExclusive

\* Every task may exit and be reaped; task 0 (not modelled) then idles.
CHECK_DEADLOCK FALSE
