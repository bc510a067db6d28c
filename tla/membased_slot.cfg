\* The zygote and a child share the slot; nothing changes on disk, but processes
\* may be killed anywhere, and then the system may stop.
SPECIFICATION FairSpec
CONSTANTS
  Zygote = Zygote
  Forked = {Logcat}
  Server = Server
  NoOne = NoOne
  Files = {flag, toolong}
  LongPaths = {toolong}
  Contents <- SomeSizes
  ChunkSize = 2
  Ops = {"ACCESS_FILE", "STAT_FILE", "READ_FILE"}
  Mortal = {Zygote, Logcat, Server}
  IoErrors = {}
  MaxCalls = 1
  MaxWrites = 0
  MaxSpurious = 1
INVARIANTS TypeOK SlotExclusive SlotHoldsRequest NoLostWakeup MappedWhenTouched LockedAnswerTrue
PROPERTIES EveryCallReturns StartupDecided
CHECK_DEADLOCK FALSE
