CONSTANTS
  Zygote = Zygote
  Zygote32 = Zygote32
  Primary = Zygote
  Secondary <- OneSecondary
  MayDie = TRUE
  MaxRetries = 2
SPECIFICATION Spec
INVARIANT FurtherForksUnmapped
CHECK_DEADLOCK FALSE
