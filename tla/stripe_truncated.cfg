SPECIFICATION Spec
CONSTANTS
  K = 2
  FrameLen = 2
  Cap = 2
  Queue = 1
  Chunks = {"a"}
  MaxFrames = 2
  Faults = {"eof"}
CHECK_DEADLOCK FALSE
INVARIANTS CleanEndIsComplete
