\* Two clients while the file comes, goes, grows and shrinks and the looper's
\* calls fail; the child may die, and then the system may stop.
SPECIFICATION Spec
CONSTANTS
  Zygote = Zygote
  Forked = {Logcat}
  Server = Server
  NoOne = NoOne
  Files = {log}
  LongPaths = {}
  Contents <- Growing
  ChunkSize = 2
  Ops = {"ACCESS_FILE", "STAT_FILE", "READ_FILE"}
  Mortal = {Logcat}
  IoErrors = {"fseek", "fread"}
  MaxCalls = 1
  MaxWrites = 2
  MaxSpurious = 0
INVARIANTS ReturnsOwnAnswer OnlyFirstChunkUnchecked
PROPERTY ImplementsFileService
CHECK_DEADLOCK FALSE
