CONSTANTS
  Threads = {t1, t2, t3}
  Wide = Wide
  Foreign = Foreign
  Methods = {Wide, Foreign}
  Native = {Foreign}
  Static = {Foreign}
  Args <- ArgsOf
  Locals <- LocalsOf
  JitOffsetOk = TRUE
  MaxHooks = 2
  MaxCalls = 1
  NiceNames <- NamesGiven
  OtherLong = {"--other"}
  OtherShort = {"-X"}
  None = None
  MinAppId = 14
  SignBit = 16
  Throws = Throws
  CommandLines <- CommandLinesTried
  Documents <- DocumentsTried
  Translations <- TranslationsTried
SPECIFICATION ProcessSpec
SYMMETRY ThreadSymmetry
INVARIANTS
  OriginalsAreOlder CallsAreWhole ArgumentsArrive NoStaleTranslation
  ArgumentsGoWhereDescribed NativesFindWhatTheyNeed ReferencesAreTranslated
CHECK_DEADLOCK FALSE
