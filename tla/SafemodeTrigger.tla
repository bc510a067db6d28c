-------------------------- MODULE SafemodeTrigger --------------------------
(***************************************************************************)
(* detectSafemodeTrigger() of xposed_safemode.cpp: the user stops a boot   *)
(* by holding or pressing one key and pressing it again until it has been  *)
(* pressed DETECTION_PRESSES times, while the kernel queues the events of  *)
(* several input devices and the time for each phase runs out.             *)
(*                                                                         *)
(* Events go on while the function works, and their order across devices  *)
(* is lost: epoll_wait() returns the set of devices with an event, and one *)
(* event of each is read before the loop's condition is looked at again.   *)
(***************************************************************************)
EXTENDS Naturals, Sequences, FiniteSets

CONSTANTS
  Devices,      \* the files of /dev/input
  Keys,         \* physical_keycodes
  NoKey,        \* 0 in pressedKey; the code of an event that is ignored
  Several,      \* -1 in pressedKey
  Reports,      \* Reports[d]: the keys device d has
  MaxDevices,   \* MAX_DEVICES
  Presses,      \* DETECTION_PRESSES
  Delay,        \* INITIAL_DELAY and DETECTION_TIMEOUT, in ticks
  MaxQueue      \* bound: events a device keeps for its reader

ASSUME DeviceAssumption ==
  /\ IsFiniteSet(Keys)
  /\ NoKey \notin Keys /\ Several \notin Keys /\ NoKey # Several
  /\ Reports \in [Devices -> SUBSET Keys]
  /\ MaxDevices \in Nat \ {0} /\ Presses \in Nat \ {0}
  /\ Delay \in Nat \ {0} /\ MaxQueue \in Nat \ {0}

VARIABLES
  skip,         \* the argument skipInitialDelay
  phase,        \* "scan", "initial", "detect", "done"
  unscanned,    \* the devices openKeyDevices() has not come to
  fds,          \* the devices it has opened
  asking,       \* the one of them whose held keys it has not asked for yet
  pressedKey, triggerPresses,
  left,         \* getRemainingTime(expiration)
  batch,        \* the devices of the last epoll_wait() still to be read
  result,
  held,         \* the keys held down, per device
  queue,        \* the events a device has kept for its reader
  made,         \* history: presses of each key, up to Presses
  first,        \* history: the keys found held or read before the detection phase
  later,        \* history: the keys whose presses were read in the detection phase
  twice         \* history: the keys found held while a press of them was in the queue

program == <<skip, phase, unscanned, fds, asking, pressedKey, triggerPresses, left, batch, result>>
user == <<held, queue, made>>
history == <<first, later, twice>>
vars == <<program, user, history>>

Init ==
  /\ skip \in BOOLEAN
  /\ phase = "scan"
  /\ unscanned = Devices
  /\ fds = {} /\ asking = {}
  /\ pressedKey = NoKey
  /\ triggerPresses = 0
  /\ left = 0
  /\ batch = {}
  /\ result = FALSE
  /\ held \in [Devices -> SUBSET Keys] /\ \A d \in Devices : held[d] \subseteq Reports[d]
  /\ queue = [d \in Devices |-> <<>>]
  /\ made = [k \in Keys |-> IF \E d \in Devices : k \in held[d] THEN 1 ELSE 0]
  /\ first = {} /\ later = {} /\ twice = {}

----------------------------------------------------------------------------
(* The user, and time *)

\* A device keeps what happens for whoever has it open, up to its limit.
Kept(d, event) ==
  IF d \in fds /\ Len(queue[d]) < MaxQueue
    THEN [queue EXCEPT ![d] = Append(@, event)] ELSE queue

Press(d, k) ==
  /\ phase # "done"
  /\ k \in Reports[d] \ held[d]
  /\ held' = [held EXCEPT ![d] = @ \cup {k}]
  /\ queue' = Kept(d, k)
  /\ made' = [made EXCEPT ![k] = IF @ < Presses THEN @ + 1 ELSE @]
  /\ UNCHANGED <<program, history>>

\* The event of a release is one the program ignores.
Release(d, k) ==
  /\ phase # "done"
  /\ k \in held[d]
  /\ held' = [held EXCEPT ![d] = @ \ {k}]
  /\ queue' = Kept(d, NoKey)
  /\ UNCHANGED <<program, made, history>>

Tick ==
  /\ left > 0
  /\ left' = left - 1
  /\ UNCHANGED <<skip, phase, unscanned, fds, asking, pressedKey, triggerPresses, batch, result,
                 user, history>>

----------------------------------------------------------------------------
(* openKeyDevices() *)

\* Mutant: the keys held on the last device count.
FoundHeldLast(key, found) ==
  IF found = {} THEN key
  ELSE IF Cardinality(found) = 1 THEN CHOOSE k \in found : TRUE
  ELSE Several

\* What pressedKey becomes as the keys held on one more device are found.
FoundHeld(key, found) ==
  IF found = {} THEN key
  ELSE IF key = NoKey /\ Cardinality(found) = 1 THEN CHOOSE k \in found : TRUE
  ELSE Several

Scanning ==
  phase = "scan" /\ asking = {} /\ unscanned # {} /\ Cardinality(fds) < MaxDevices

\* A device that cannot be opened or has none of the keys is passed over.
SkipDevice(d) ==
  /\ Scanning
  /\ d \in unscanned
  /\ unscanned' = unscanned \ {d}
  /\ UNCHANGED <<skip, phase, fds, asking, pressedKey, triggerPresses, left, batch, result,
                 user, history>>

\* From now on the device keeps events for the program.
OpenDevice(d) ==
  /\ Scanning
  /\ d \in unscanned
  /\ Reports[d] # {}
  /\ unscanned' = unscanned \ {d}
  /\ fds' = fds \cup {d}
  /\ asking' = {d}
  /\ UNCHANGED <<skip, phase, pressedKey, triggerPresses, left, batch, result, user, history>>

\* The keys held by now are read; what was pressed since the device was opened is in
\* its queue as well.
AskHeld(d) ==
  /\ d \in asking
  /\ asking' = {}
  /\ pressedKey' = FoundHeld(pressedKey, held[d])
  /\ first' = first \cup held[d]
  /\ twice' = twice \cup {k \in held[d] : \E i \in 1..Len(queue[d]) : queue[d][i] = k}
  /\ UNCHANGED <<skip, phase, unscanned, fds, triggerPresses, left, batch, result, user, later>>

----------------------------------------------------------------------------
(* detectSafemodeTrigger() *)

Leave(r) ==
  /\ phase' = "done"
  /\ result' = r
  /\ left' = 0
  /\ batch' = {}

ScanDone ==
  phase = "scan" /\ asking = {} /\ (unscanned = {} \/ Cardinality(fds) >= MaxDevices)

\* Mutant: the initial delay cannot be skipped.
HopelessNeverSkipped == fds = {} \/ pressedKey = Several

\* The conditions under which nothing is waited for.
Hopeless == fds = {} \/ pressedKey = Several \/ (pressedKey = NoKey /\ skip)

GiveUp ==
  /\ ScanDone
  /\ Hopeless
  /\ Leave(FALSE)
  /\ UNCHANGED <<skip, unscanned, fds, asking, pressedKey, triggerPresses, user, history>>

StartWaiting ==
  /\ ScanDone
  /\ ~Hopeless
  /\ phase' = "initial"
  /\ left' = Delay
  /\ UNCHANGED <<skip, unscanned, fds, asking, pressedKey, triggerPresses, batch, result,
                 user, history>>

\* The conditions of the two loops, looked at between batches.
WantsMore ==
  \/ phase = "initial" /\ pressedKey = NoKey
  \/ phase = "detect" /\ triggerPresses < Presses

\* A failure of one of the epoll functions, where they are called, ends the
\* detection.
EpollFails ==
  /\ \/ ScanDone /\ ~Hopeless
     \/ WantsMore /\ batch = {} /\ left > 0
  /\ Leave(FALSE)
  /\ UNCHANGED <<skip, unscanned, fds, asking, pressedKey, triggerPresses, user, history>>

\* Mutant: whenever one device is ready, all of them are read.
WaitForOne ==
  /\ WantsMore /\ batch = {} /\ left > 0
  /\ \E d \in fds : queue[d] # <<>>
  /\ batch' = fds
  /\ UNCHANGED <<skip, phase, unscanned, fds, asking, pressedKey, triggerPresses, left, result,
                 user, history>>

Wait ==
  /\ WantsMore /\ batch = {} /\ left > 0
  /\ batch' = {d \in fds : queue[d] # <<>>}
  /\ batch' # {}
  /\ UNCHANGED <<skip, phase, unscanned, fds, asking, pressedKey, triggerPresses, left, result,
                 user, history>>

\* A key was found: from now on only presses of that key are wanted.
StartDetection ==
  /\ phase = "initial" /\ batch = {} /\ pressedKey # NoKey
  /\ phase' = "detect"
  /\ left' = Delay
  /\ triggerPresses' = 1
  /\ UNCHANGED <<skip, unscanned, fds, asking, pressedKey, batch, result, user, history>>

\* Mutant: only the first loop has an end.
TimeOutInitially ==
  /\ phase = "initial" /\ WantsMore /\ batch = {} /\ left = 0
  /\ Leave(FALSE)
  /\ UNCHANGED <<skip, unscanned, fds, asking, pressedKey, triggerPresses, user, history>>

TimeOut ==
  /\ WantsMore /\ batch = {} /\ left = 0
  /\ Leave(FALSE)
  /\ UNCHANGED <<skip, unscanned, fds, asking, pressedKey, triggerPresses, user, history>>

Triggered ==
  /\ phase = "detect" /\ batch = {} /\ triggerPresses >= Presses
  /\ Leave(TRUE)
  /\ UNCHANGED <<skip, unscanned, fds, asking, pressedKey, triggerPresses, user, history>>

\* One event of one device of the batch is read.
Reads(d, event) ==
  /\ d \in batch
  /\ event = Head(queue[d])
  /\ queue' = [queue EXCEPT ![d] = Tail(@)]
  /\ UNCHANGED <<skip, unscanned, fds, asking, held, made, twice>>

Ignore(d) ==
  /\ phase \in {"initial", "detect"}
  /\ Reads(d, NoKey)
  /\ batch' = batch \ {d}
  /\ UNCHANGED <<phase, pressedKey, triggerPresses, left, result, first, later>>

\* In the first loop each press in the batch replaces the key.
FirstPress(d) ==
  /\ phase = "initial"
  /\ pressedKey' \in Keys
  /\ Reads(d, pressedKey')
  /\ batch' = batch \ {d}
  /\ first' = first \cup {pressedKey'}
  /\ UNCHANGED <<phase, triggerPresses, left, result, later>>

\* Mutant: a release counts as a press.
SameKeyAnyEvent(d) ==
  /\ phase = "detect"
  /\ \E e \in {pressedKey, NoKey} : Reads(d, e)
  /\ batch' = batch \ {d}
  /\ triggerPresses' = triggerPresses + 1
  /\ later' = later \cup {pressedKey}
  /\ UNCHANGED <<phase, pressedKey, left, result, first>>

SameKey(d) ==
  /\ phase = "detect"
  /\ Reads(d, pressedKey)
  /\ batch' = batch \ {d}
  /\ triggerPresses' = triggerPresses + 1
  /\ later' = later \cup {pressedKey}
  /\ UNCHANGED <<phase, pressedKey, left, result, first>>

\* Mutant: another key is ignored.
OtherKeyIgnored(d) ==
  /\ phase = "detect"
  /\ \E k \in Keys \ {pressedKey} : Reads(d, k) /\ later' = later \cup {k}
  /\ batch' = batch \ {d}
  /\ UNCHANGED <<phase, pressedKey, triggerPresses, left, result, first>>

OtherKey(d) ==
  /\ phase = "detect"
  /\ \E k \in Keys \ {pressedKey} : Reads(d, k) /\ later' = later \cup {k}
  /\ Leave(FALSE)
  /\ UNCHANGED <<pressedKey, triggerPresses, first>>

Program ==
  \/ GiveUp \/ StartWaiting \/ Wait \/ StartDetection \/ TimeOut \/ Triggered
  \/ \E d \in Devices : SkipDevice(d) \/ OpenDevice(d) \/ AskHeld(d) \/ Ignore(d) \/ FirstPress(d)
                          \/ SameKey(d) \/ OtherKey(d)

Next ==
  \/ Program \/ EpollFails
  \/ Tick
  \/ \E d \in Devices, k \in Keys : Press(d, k) \/ Release(d, k)

Spec == Init /\ [][Next]_vars

\* The zygote runs and time passes, whatever the user does; no failure is counted on.
FairSpec == Spec /\ WF_vars(Program) /\ WF_vars(Tick)
=============================================================================
