CONSTANTS
  NoFile = NoFile
  Shapes <- ShortAndLong
  PipeSize = 2
  MaxSize = 2
  MaxBoots = 3
  MaxEntries = 5
SPECIFICATION FairSpec
INVARIANTS LogIsAfterMarker LastLogKept
PROPERTY EntryArrives
CHECK_DEADLOCK FALSE
