\* Memory manager with system calls that write user memory (verify_area,
\* then put_fs_long), two task slots, two page tables per task and two
\* executables, the second with no demand-loaded data: reference counts
\* and copy-on-write stay exact through kernel writes, partial fork
\* failures, execve and out-of-memory deaths.
CONSTANTS
  Slots = {1, 2}
  NFrames = 7
  Pages = {1, 2}
  NDirs = 2
  DirOf <- MCDirOf
  Exes = {e1, e2}
  InitExe = e1
  NoExe = NoExe
  ExeData <- MCExeData
  StackPage = 2
  Vals = {v1}
  KernelWrites = TRUE

SPECIFICATION Spec
VIEW ControlView

INVARIANT RefCountExact
INVARIANT WritableExclusive

\* Every task may exit and be reaped; task 0 (not modelled) then idles.
CHECK_DEADLOCK FALSE
