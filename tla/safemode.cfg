CONSTANTS
  Buttons = Buttons
  Headset = Headset
  Sensor = Sensor
  VolumeUp = VolumeUp
  VolumeDown = VolumeDown
  NoKey = NoKey
  Several = Several
  Devices <- AllDevices
  Keys <- AllKeys
  Reports <- ReportedByAll
  MaxDevices = 2
  Presses = 3
  Delay = 2
  MaxQueue = 1
SPECIFICATION FairSpec
INVARIANTS ReadsNeverBlock TriggerIsEnoughPresses OtherKeyAborts NothingToWaitFor SeveralHeldIsNone
PROPERTY DetectionEnds
CHECK_DEADLOCK FALSE
