----------------------------- MODULE MCSafemode ----------------------------
(* Two devices that share a key, and one that has none of the keys. *)
EXTENDS SafemodeProperties, TLC

CONSTANTS Buttons, Headset, Sensor, VolumeUp, VolumeDown

AllDevices == {Buttons, Headset, Sensor}
TwoDevices == {Buttons, Headset}
AllKeys == {VolumeUp, VolumeDown}
ReportedByAll ==
  (Buttons :> {VolumeUp}) @@ (Headset :> {VolumeUp, VolumeDown}) @@ (Sensor :> {})
ReportedByTwo == (Buttons :> {VolumeUp}) @@ (Headset :> {VolumeUp, VolumeDown})
=============================================================================
