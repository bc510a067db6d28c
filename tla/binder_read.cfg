CONSTANTS
  Bytes = {"a", "b", "c"}
  Contents <- SomeContents
  Offsets <- SomeOffsets
  Lengths <- SomeLengths
  MaxInt = 3
  IoErrors = {"malloc", "fopen", "fseek", "fread"}
  Elsewhere <- OtherFiles
  MaxTime = 4
  MaxCalls = 2
SPECIFICATION Spec
INVARIANTS UnchangedMeansSame ExactPart
PROPERTY LeakOnlyIfShrunk
CHECK_DEADLOCK FALSE
