CONSTANTS
  Zygote = Zygote
  Child = Child
  DevNull = DevNull
  Dex = Dex
  AppSocket = AppSocket
  SystemFile = SystemFile
  Fds = {1, 2, 3}
  Whitelisted <- AppFiles
  Sockets = {AppSocket}
  Opened <- AllOpened
  MaxOffset = 2
  MaxForks = 2
SPECIFICATION Spec
INVARIANTS PositionsArePrivate NoAppFileShared OthersUntouched
CHECK_DEADLOCK FALSE
