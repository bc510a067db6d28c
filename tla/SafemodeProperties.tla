------------------------- MODULE SafemodeProperties ------------------------
(***************************************************************************)
(* What the safemode trigger promises: SafemodeTrigger.                    *)
(***************************************************************************)
EXTENDS SafemodeTrigger

(* Every variable has its type. *)
TypeOK ==
  /\ skip \in BOOLEAN /\ result \in BOOLEAN
  /\ phase \in {"scan", "initial", "detect", "done"}
  /\ unscanned \subseteq Devices
  /\ fds \subseteq Devices /\ Cardinality(fds) <= MaxDevices
  /\ asking \subseteq fds /\ Cardinality(asking) <= 1
  /\ pressedKey \in Keys \cup {NoKey, Several}
  /\ triggerPresses \in 0..(Presses + Cardinality(fds))
  /\ left \in 0..Delay
  /\ batch \subseteq fds
  /\ held \in [Devices -> SUBSET Keys]
  /\ \A d \in Devices : Len(queue[d]) <= MaxQueue /\ (d \notin fds => queue[d] = <<>>)
  /\ made \in [Keys -> 0..Presses]
  /\ first \subseteq Keys /\ later \subseteq Keys /\ twice \subseteq Keys

(* Every device whose turn it is in a batch still has the event epoll_wait() has *)
(* announced: no read blocks.                                                    *)
ReadsNeverBlock == \A d \in batch : queue[d] # <<>>

(* Safemode is triggered only if the user has really pressed the key as often as  *)
(* it takes, or once less where the press that was found held (xposed_safemode.cpp: *)
(* 140) was also kept for the program, having come after the device was opened      *)
(* (line 113), where line 5 says "a total of 5 consecutive presses": no other press *)
(* is counted twice, none is made up of a release, and the presses lost in a full   *)
(* queue only make it harder.                                                       *)
TriggerIsEnoughPresses ==
  result => made[pressedKey] + (IF pressedKey \in twice THEN 1 ELSE 0) >= Presses

(* Safemode is triggered only if the presses read after the first one were all of *)
(* the same key, in whatever order the devices were read.                         *)
OtherKeyAborts == result => later \subseteq {pressedKey}

(* With several keys held down at the start the answer is no, and no time passes   *)
(* in a loop; nor does it in the first loop when the delay is to be skipped.       *)
NothingToWaitFor ==
  /\ pressedKey = Several => phase \in {"scan", "done"} /\ ~result
  /\ skip => ~(phase = "initial" /\ WantsMore)

(* Several keys found held at the start are never taken for one.                   *)
SeveralHeldIsNone == Cardinality(first) > 1 /\ phase = "scan" => pressedKey = Several

(* xposed_safemode.cpp:4, "exactly one of the physical keys is pressed in the first *)
(* 2 seconds after detection startup (or already held down)".                      *)
ExactlyOneKeyFirst == result => first = {pressedKey}

(* The detection ends, whatever the user does with the keys.                       *)
DetectionEnds == <>(phase = "done")
=============================================================================
