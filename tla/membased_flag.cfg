\* Two clients ask about two files that do not change.
SPECIFICATION Spec
CONSTANTS
  Zygote = Zygote
  Forked = {Logcat}
  Server = Server
  NoOne = NoOne
  Files = {blocker, logall}
  LongPaths = {}
  Contents <- PresentOrNot
  ChunkSize = 2
  Ops = {"ACCESS_FILE"}
  Mortal = {}
  IoErrors = {}
  MaxCalls = 1
  MaxWrites = 0
  MaxSpurious = 0
INVARIANT AccessAnswersTrue
