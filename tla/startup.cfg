CONSTANTS
  Zygote = Zygote
  Zygote32 = Zygote32
  Primary = Zygote
  Secondary <- OneSecondary
  MayDie = TRUE
  MaxRetries = 2
SPECIFICATION FairSpec
INVARIANTS TypeOK ServesConfined AppAfterSystem WaitsForLivedService StoppedNotLoaded LoadedForksUnmapped
PROPERTY InitializeReturns
CHECK_DEADLOCK FALSE
