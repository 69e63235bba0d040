SPECIFICATION Spec
CONSTANTS
  Units <- MCUnits
  Kernels <- MCKernels
  Inode <- MCInode
  Files = {"tty"}
  Refusals = {"last", "parent", "signals", "newnet", "newns", "cpu", "sched", "nice", "oom", "raise", "private", "brick", "store", "overlay", "binds", "pivot", "landlock", "capabilities", "lower", "seccomp", "exec"}
  OpenAtStart = 5
  Gens = 2
INVARIANTS
  AsDeclared
  RightOrder
  NothingLeaks
CHECK_DEADLOCK FALSE
