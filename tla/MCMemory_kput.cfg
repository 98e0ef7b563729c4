\* Write isolation with system calls that write user memory: can
\* put_fs_long write into a frame another task holds?
CONSTANTS
  Slots = {1, 2}
  NFrames = 7
  Pages = {1, 2}
  NDirs = 1
  DirOf <- MCDirOfOne
  Exes = {e1}
  InitExe = e1
  NoExe = NoExe
  ExeData <- MCExeData
  StackPage = 2
  Vals = {v1}
  KernelWrites = TRUE

SPECIFICATION Spec
VIEW ControlView

PROPERTY WriteIsolation

CHECK_DEADLOCK FALSE
