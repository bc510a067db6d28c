CONSTANTS
  Buttons = Buttons
  Headset = Headset
  Sensor = Sensor
  VolumeUp = VolumeUp
  VolumeDown = VolumeDown
  NoKey = NoKey
  Several = Several
  Devices <- TwoDevices
  Keys <- AllKeys
  Reports <- ReportedByTwo
  MaxDevices = 2
  Presses = 3
  Delay = 2
  MaxQueue = 1
SPECIFICATION Spec
INVARIANT ExactlyOneKeyFirst
CHECK_DEADLOCK FALSE
