--------------------------- MODULE SafemodeProofs ---------------------------
(***************************************************************************)
(* The safemode trigger for any devices, keys, presses and events, in      *)
(* whatever order the devices are read.                                    *)
(***************************************************************************)
EXTENDS SafemodeProperties, FiniteSetTheorems, TLAPS

USE DeviceAssumption DEF DeviceAssumption

Event == Keys \cup {NoKey}

\* Events stay in a queue until the program reads them; in a batch it reads one of
\* each device.
QueueInv ==
  /\ held \in [Devices -> SUBSET Keys]
  /\ queue \in [Devices -> Seq(Event)]
  /\ fds \subseteq Devices /\ batch \subseteq Devices
  /\ \A d \in batch : queue[d] # <<>>
  /\ asking \subseteq fds /\ (asking # {} => phase = "scan")

(* Only the program takes events out of a queue, and it takes a device out of the batch  *)
(* as it does.                                                                          *)
LEMMA QueueInvariant == Spec => []QueueInv
<1>1. ASSUME Init PROVE QueueInv
  BY <1>1 DEF Init, QueueInv, Event
<1>2. ASSUME QueueInv, [Next]_vars PROVE QueueInv'
  <2> USE <1>2 DEF QueueInv, program, user
  <2>0. \A q \in Seq(Event), e \in Event : Append(q, e) \in Seq(Event) /\ Append(q, e) # <<>>
    OBVIOUS
  <2>1. ASSUME NEW d \in Devices, NEW e \in Event, queue' = Kept(d, e), UNCHANGED program,
               held' \in [Devices -> SUBSET Keys]
        PROVE  QueueInv'
    <3>1. fds' \subseteq Devices
      BY <2>1
    <3>2. queue' = queue \/ queue' = [queue EXCEPT ![d] = Append(@, e)]
      BY <2>1 DEF Kept
    <3>3. Append(queue[d], e) \in Seq(Event) /\ Append(queue[d], e) # <<>>
      BY <2>0, <2>1
    <3>4. queue' \in [Devices -> Seq(Event)] /\ (\A c \in batch : queue'[c] # <<>>)
      BY <2>1, <3>2, <3>3
    <3> QED BY <2>1, <3>1, <3>4
  <2>2. ASSUME NEW d \in Devices, NEW k \in Keys, Press(d, k) \/ Release(d, k) PROVE QueueInv'
    <3>1. UNCHANGED program
      BY <2>2 DEF Press, Release
    <3>2. held' \in [Devices -> SUBSET Keys]
      BY <2>2 DEF Press, Release
    <3>3. queue' = Kept(d, k) \/ queue' = Kept(d, NoKey)
      BY <2>2 DEF Press, Release
    <3>4. k \in Event /\ NoKey \in Event
      BY DEF Event
    <3> QED BY <2>1, <3>1, <3>2, <3>3, <3>4
  <2>3. ASSUME NEW d \in Devices, NEW e, Reads(d, e), batch' \in {batch \ {d}, {}},
               phase \in {"initial", "detect"}
        PROVE  QueueInv'
    <3>1. /\ queue' = [queue EXCEPT ![d] = Tail(@)] /\ queue[d] # <<>>
          /\ queue[d] \in Seq(Event) /\ held' = held
      BY <2>3 DEF Reads
    <3>2. Tail(queue[d]) \in Seq(Event)
      BY <3>1
    <3>3. queue' \in [Devices -> Seq(Event)] /\ fds' = fds /\ asking' = {}
      BY <2>3, <3>1, <3>2 DEF Reads
    <3>4. \A c \in Devices \ {d} : queue'[c] = queue[c]
      BY <3>1
    <3> QED BY <2>3, <3>1, <3>3, <3>4
  <2>4. ASSUME NEW d \in Devices, Ignore(d) \/ FirstPress(d) \/ SameKey(d) \/ OtherKey(d)
        PROVE  QueueInv'
    <3>1. /\ \E e : Reads(d, e) /\ batch' \in {batch \ {d}, {}}
          /\ phase \in {"initial", "detect"}
      BY <2>4 DEF Ignore, FirstPress, SameKey, OtherKey, Leave
    <3> QED BY <2>3, <3>1
  <2>5. ASSUME NEW d \in Devices, SkipDevice(d) \/ OpenDevice(d) \/ AskHeld(d)
        PROVE  QueueInv'
    BY <2>5 DEF SkipDevice, OpenDevice, AskHeld, Scanning
  <2>6. CASE GiveUp \/ StartWaiting \/ StartDetection \/ TimeOut \/ Triggered \/ EpollFails \/ Tick
    BY <2>6 DEF GiveUp, StartWaiting, StartDetection, TimeOut, Triggered, EpollFails, Tick, Leave,
                ScanDone, WantsMore
  <2>7. CASE Wait
    BY <2>7 DEF Wait, WantsMore
  <2>8. CASE UNCHANGED vars
    BY <2>8 DEF vars
  <2> QED BY <1>2, <2>2, <2>4, <2>5, <2>6, <2>7, <2>8 DEF Next, Program
<1> QED BY <1>1, <1>2, PTL DEF Spec

(* What epoll_wait() has announced is still there when its turn comes.                   *)
THEOREM NoReadBlocks == Spec => []ReadsNeverBlock
<1>1. QueueInv => ReadsNeverBlock
  BY DEF QueueInv, ReadsNeverBlock
<1> QED BY <1>1, QueueInvariant, PTL

----------------------------------------------------------------------------

\* What each phase knows of the keys.
KeyInv ==
  /\ phase \in {"scan", "initial", "detect", "done"}
  /\ phase = "scan" => \/ first = {} /\ pressedKey = NoKey
                       \/ \E k \in Keys : first = {k} /\ pressedKey = k
                       \/ pressedKey = Several
  /\ phase \in {"initial", "detect"} => pressedKey # Several
  /\ skip /\ phase = "initial" => pressedKey # NoKey
  /\ phase \in {"scan", "initial"} => later = {}
  /\ phase = "detect" => later \subseteq {pressedKey}
  /\ result => phase = "done" /\ later \subseteq {pressedKey} /\ pressedKey # Several

LEMMA KeyInvariant == Spec => []KeyInv
<1>1. ASSUME Init PROVE KeyInv
  BY <1>1 DEF Init, KeyInv
<1>2. ASSUME KeyInv, [Next]_vars, QueueInv PROVE KeyInv'
  <2> USE <1>2 DEF KeyInv, program, user, history
  <2>1. ASSUME NEW d \in Devices, AskHeld(d) PROVE KeyInv'
    <3>1. /\ phase = "scan" /\ phase' = "scan" /\ held[d] \subseteq Keys
          /\ pressedKey' = FoundHeld(pressedKey, held[d]) /\ first' = first \cup held[d]
          /\ UNCHANGED <<skip, later, result>>
      BY <2>1 DEF AskHeld, QueueInv
    <3>2. CASE held[d] = {}
      BY <3>1, <3>2 DEF FoundHeld
    <3>3. CASE pressedKey = NoKey /\ Cardinality(held[d]) = 1 /\ held[d] # {}
      <4>1. IsFiniteSet(held[d])
        BY <3>1, FS_Subset
      <4>2. PICK k : held[d] = {k}
        BY <3>3, <4>1, FS_Singleton
      <4>3. pressedKey' = k /\ k \in Keys
        BY <3>1, <3>3, <4>2 DEF FoundHeld
      <4>4. first = {}
        BY <3>1, <3>3
      <4> QED BY <3>1, <4>2, <4>3, <4>4
    <3>4. CASE held[d] # {} /\ ~(pressedKey = NoKey /\ Cardinality(held[d]) = 1)
      BY <3>1, <3>4 DEF FoundHeld
    <3> QED BY <3>2, <3>3, <3>4
  <2>2. ASSUME NEW d \in Devices, SkipDevice(d) \/ OpenDevice(d) \/ Ignore(d)
        PROVE  KeyInv'
    BY <2>2 DEF SkipDevice, OpenDevice, Ignore, Reads
  <2>3. ASSUME NEW d \in Devices, FirstPress(d) PROVE KeyInv'
    BY <2>3 DEF FirstPress, Reads
  <2>4. ASSUME NEW d \in Devices, SameKey(d) PROVE KeyInv'
    BY <2>4 DEF SameKey, Reads
  <2>5. ASSUME NEW d \in Devices, OtherKey(d) PROVE KeyInv'
    BY <2>5 DEF OtherKey, Reads, Leave
  <2>6. CASE GiveUp \/ TimeOut \/ EpollFails
    BY <2>6 DEF GiveUp, TimeOut, EpollFails, Leave
  <2>7. CASE StartWaiting
    BY <2>7 DEF StartWaiting, ScanDone, Hopeless
  <2>8. CASE StartDetection \/ Triggered \/ Wait \/ Tick
    BY <2>8 DEF StartDetection, Triggered, Wait, Tick, Leave
  <2>9. ASSUME NEW d \in Devices, NEW k \in Keys, Press(d, k) \/ Release(d, k) PROVE KeyInv'
    BY <2>9 DEF Press, Release
  <2>10. CASE UNCHANGED vars
    BY <2>10 DEF vars
  <2> QED
    BY <1>2, <2>1, <2>2, <2>3, <2>4, <2>5, <2>6, <2>7, <2>8, <2>9, <2>10 DEF Next, Program
<1> QED BY <1>1, <1>2, QueueInvariant, PTL DEF Spec

(* The presses behind the first one were all of the key that triggered.                  *)
THEOREM AnotherKeyAborts == Spec => []OtherKeyAborts
<1>1. KeyInv => OtherKeyAborts
  BY DEF KeyInv, OtherKeyAborts
<1> QED BY <1>1, KeyInvariant, PTL

(* No loop is entered that can only time out.                                            *)
THEOREM NoHopelessWait == Spec => []NothingToWaitFor
<1>1. KeyInv => NothingToWaitFor
  BY DEF KeyInv, NothingToWaitFor, WantsMore
<1> QED BY <1>1, KeyInvariant, PTL

(* However many devices there are, keys found held are one key only if they are.         *)
THEOREM SeveralHeldAreNone == Spec => []SeveralHeldIsNone
<1>1. ASSUME KeyInv, phase = "scan", Cardinality(first) > 1 PROVE pressedKey = Several
  <2>1. Cardinality({}) = 0 /\ \A k \in Keys : Cardinality({k}) = 1
    BY FS_EmptySet, FS_Singleton
  <2> QED BY <1>1, <2>1 DEF KeyInv
<1>2. KeyInv => SeveralHeldIsNone
  BY <1>1 DEF SeveralHeldIsNone
<1> QED BY <1>2, KeyInvariant, PTL
----------------------------------------------------------------------------

\* Where the presses of a key wait to be read: device and place in its queue.
Waiting(q, k) == {x \in Devices \X Nat : x[2] \in 1..Len(q[x[1]]) /\ q[x[1]][x[2]] = k}

(* Keeping an event adds a press of a key only if it is one.                            *)
LEMMA OneMoreWaits ==
  ASSUME NEW q \in [Devices -> Seq(Event)], NEW d \in Devices, NEW e \in Event, NEW k \in Keys,
         IsFiniteSet(Waiting(q, k))
  PROVE  LET r == [q EXCEPT ![d] = Append(@, e)]
         IN  /\ IsFiniteSet(Waiting(r, k))
             /\ Cardinality(Waiting(r, k)) <= Cardinality(Waiting(q, k)) + 1
             /\ e # k => Cardinality(Waiting(r, k)) <= Cardinality(Waiting(q, k))
<1> DEFINE r == [q EXCEPT ![d] = Append(@, e)]
           new == <<d, Len(q[d]) + 1>>
<1>1. /\ q[d] \in Seq(Event) /\ r[d] = Append(q[d], e)
      /\ \A c \in Devices \ {d} : r[c] = q[c]
  OBVIOUS
<1>2. \A i \in 1..Len(r[d]) : \/ i \in 1..Len(q[d]) /\ r[d][i] = q[d][i]
                              \/ i = Len(q[d]) + 1 /\ r[d][i] = e
  BY <1>1
<1>3. ASSUME NEW x \in Waiting(r, k)
      PROVE  x \in Waiting(q, k) \/ (x = new /\ e = k)
  <2>1. PICK c \in Devices, i \in Nat : x = <<c, i>> /\ i \in 1..Len(r[c]) /\ r[c][i] = k
    BY <1>3 DEF Waiting
  <2>2. CASE c = d
    <3>1. (i \in 1..Len(q[d]) /\ q[d][i] = k) \/ (i = Len(q[d]) + 1 /\ e = k)
      BY <1>2, <2>1, <2>2
    <3>2. i \in 1..Len(q[d]) /\ q[d][i] = k => <<d, i>> \in Waiting(q, k)
      BY <2>1 DEF Waiting
    <3> QED BY <2>1, <2>2, <3>1, <3>2
  <2>3. CASE c # d
    BY <1>1, <2>1, <2>3 DEF Waiting
  <2> QED BY <2>2, <2>3
<1>4. Waiting(r, k) \subseteq Waiting(q, k) \cup {new}
  BY <1>3
<1>5. e # k => Waiting(r, k) \subseteq Waiting(q, k)
  BY <1>3
<1> HIDE DEF r, new
<1>6. /\ IsFiniteSet(Waiting(q, k) \cup {new})
      /\ Cardinality(Waiting(q, k) \cup {new}) <= Cardinality(Waiting(q, k)) + 1
      /\ Cardinality(Waiting(q, k)) \in Nat
  BY FS_AddElement, FS_CardinalityType
<1>7. /\ IsFiniteSet(Waiting(r, k))
      /\ Cardinality(Waiting(r, k)) <= Cardinality(Waiting(q, k) \cup {new})
  BY <1>4, <1>6, FS_Subset
<1>8. e # k => Cardinality(Waiting(r, k)) <= Cardinality(Waiting(q, k))
  BY <1>5, FS_Subset
<1>9. Cardinality(Waiting(r, k)) \in Nat /\ Cardinality(Waiting(q, k) \cup {new}) \in Nat
  BY <1>6, <1>7, FS_CardinalityType
<1> QED BY <1>6, <1>7, <1>8, <1>9 DEF r

(* Reading the event of a device takes it, and makes none.                              *)
LEMMA OneLessWaits ==
  ASSUME NEW q \in [Devices -> Seq(Event)], NEW d \in Devices, q[d] # <<>>, NEW k \in Keys,
         IsFiniteSet(Waiting(q, k))
  PROVE  LET r == [q EXCEPT ![d] = Tail(@)]
         IN  /\ IsFiniteSet(Waiting(r, k))
             /\ Cardinality(Waiting(r, k)) <= Cardinality(Waiting(q, k))
             /\ Head(q[d]) = k => Cardinality(Waiting(r, k)) + 1 <= Cardinality(Waiting(q, k))
<1> DEFINE r == [q EXCEPT ![d] = Tail(@)]
           old == <<d, 1>>
           rest == Waiting(q, k) \ {old}
           from == [x \in Waiting(r, k) |-> IF x[1] = d THEN <<d, x[2] + 1>> ELSE x]
<1>1. /\ q[d] \in Seq(Event) /\ r[d] = Tail(q[d])
      /\ \A c \in Devices \ {d} : r[c] = q[c]
  OBVIOUS
<1>2. \A i \in Nat : i \in 1..Len(r[d]) => i + 1 \in 1..Len(q[d]) /\ r[d][i] = q[d][i + 1]
  BY <1>1
<1>3. ASSUME NEW x \in Waiting(r, k)
      PROVE  /\ \E c \in Devices, i \in Nat \ {0} : x = <<c, i>>
             /\ from[x] \in rest
  <2>1. PICK c \in Devices, i \in Nat : x = <<c, i>> /\ i \in 1..Len(r[c]) /\ r[c][i] = k
    BY <1>3 DEF Waiting
  <2>2. CASE c = d
    <3>1. from[x] = <<d, i + 1>>
      BY <1>3, <2>1, <2>2
    <3>2. <<d, i + 1>> \in Waiting(q, k)
      BY <1>2, <2>1, <2>2 DEF Waiting
    <3>3. <<d, i + 1>> # old /\ i # 0
      BY <2>1
    <3> HIDE DEF from, old
    <3> QED BY <2>1, <2>2, <3>1, <3>2, <3>3
  <2>3. CASE c # d
    <3>1. from[x] = x
      BY <1>3, <2>1, <2>3
    <3>2. x \in Waiting(q, k)
      BY <1>1, <2>1, <2>3 DEF Waiting
    <3>3. x # old /\ i # 0
      BY <2>1, <2>3
    <3> HIDE DEF from, old
    <3> QED BY <2>1, <3>1, <3>2, <3>3
  <2> QED BY <2>2, <2>3
<1>4. from \in Injection(Waiting(r, k), rest)
  <2>1. ASSUME NEW x \in Waiting(r, k), NEW y \in Waiting(r, k), from[x] = from[y]
        PROVE  x = y
    <3>1. PICK c \in Devices, i \in Nat \ {0} : x = <<c, i>>
      BY <1>3
    <3>2. PICK b \in Devices, j \in Nat \ {0} : y = <<b, j>>
      BY <1>3
    <3>3. from[x] = IF c = d THEN <<d, i + 1>> ELSE <<c, i>>
      BY <3>1
    <3>4. from[y] = IF b = d THEN <<d, j + 1>> ELSE <<b, j>>
      BY <3>2
    <3>5. c = b /\ i = j
      BY <2>1, <3>3, <3>4
    <3> QED BY <3>1, <3>2, <3>5
  <2>2. from \in [Waiting(r, k) -> rest]
    BY <1>3
  <2> HIDE DEF from
  <2> QED BY <2>1, <2>2 DEF Injection, IsInjective
<1>5. Head(q[d]) = k => old \in Waiting(q, k)
  BY <1>1 DEF Waiting
<1> HIDE DEF r, old, from
<1>6. /\ IsFiniteSet(rest) /\ Cardinality(Waiting(q, k)) \in Nat
      /\ Cardinality(rest) = IF old \in Waiting(q, k) THEN Cardinality(Waiting(q, k)) - 1
                             ELSE Cardinality(Waiting(q, k))
  BY FS_RemoveElement, FS_CardinalityType
<1> HIDE DEF rest
<1>7. IsFiniteSet(Waiting(r, k)) /\ Cardinality(Waiting(r, k)) <= Cardinality(rest)
  BY <1>4, <1>6, FS_Injection
<1>8. Cardinality(Waiting(r, k)) \in Nat /\ Cardinality(rest) \in Nat
  BY <1>6, <1>7, FS_CardinalityType
<1> QED BY <1>5, <1>6, <1>7, <1>8 DEF r

Queued(d, k) == \E i \in 1..Len(queue[d]) : queue[d][i] = k

(* What a device has kept stays until it is read.                                        *)
LEMMA KeptIsQueued ==
  ASSUME QueueInv, NEW d \in Devices, NEW e \in Event, queue' = Kept(d, e)
  PROVE  /\ \A c \in Devices : \A k \in Keys : Queued(c, k) => Queued(c, k)'
         /\ d \in fds /\ Len(queue[d]) < MaxQueue => Queued(d, e)'
<1>1. CASE d \in fds /\ Len(queue[d]) < MaxQueue
  <2>1. /\ queue[d] \in Seq(Event) /\ queue' = [queue EXCEPT ![d] = Append(@, e)]
        /\ queue'[d] = Append(queue[d], e)
        /\ \A c \in Devices \ {d} : queue'[c] = queue[c]
    BY <1>1 DEF QueueInv, Kept
  <2>2. /\ Len(queue'[d]) = Len(queue[d]) + 1 /\ Len(queue[d]) \in Nat
        /\ queue'[d][Len(queue[d]) + 1] = e
        /\ \A i \in 1..Len(queue[d]) : queue'[d][i] = queue[d][i]
    BY <2>1
  <2>3. Queued(d, e)'
    BY <2>2 DEF Queued
  <2>4. ASSUME NEW c \in Devices, NEW k \in Keys, Queued(c, k) PROVE Queued(c, k)'
    <3>1. CASE c = d
      BY <2>2, <2>4, <3>1 DEF Queued
    <3>2. CASE c # d
      BY <2>1, <2>4, <3>2 DEF Queued
    <3> QED BY <3>1, <3>2
  <2> QED BY <2>3, <2>4
<1>2. CASE ~(d \in fds /\ Len(queue[d]) < MaxQueue)
  BY <1>2 DEF Kept, Queued
<1> QED BY <1>1, <1>2

\* The presses of a key the program holds for read: the one found held, or still to be
\* found so, and those it has counted. One that waits to be read does not count here.
Taken(k) ==
  CASE phase = "scan" ->
         IF \/ pressedKey = k
            \/ \E d \in unscanned : k \in held[d]
            \/ \E d \in asking : k \in held[d] /\ ~Queued(d, k)
           THEN 1 ELSE 0
    [] phase = "initial" -> IF pressedKey = k THEN 1 ELSE 0
    [] phase = "detect" -> IF pressedKey = k THEN triggerPresses ELSE 0
    [] OTHER -> 0

\* The press that is counted twice, if there is one.
Extra(k) == IF k \in twice THEN 1 ELSE 0

\* A press is read, waits in a queue, or is lost: there are never more read and waiting
\* than made, but for the one that was found held while it waited. A second is never,
\* since keys found held after a first are Several.
CountInv ==
  /\ triggerPresses \in Nat
  /\ phase # "done" => pressedKey \in Keys \cup {NoKey, Several}
  /\ made \in [Keys -> 0..Presses]
  /\ fds \cap unscanned = {}
  /\ phase = "detect" => pressedKey \in Keys
  /\ phase = "scan" /\ twice # {} => pressedKey # NoKey
  /\ \A k \in Keys : IsFiniteSet(Waiting(queue, k))
  /\ \A k \in Keys :
       made[k] = Presses \/ Taken(k) + Cardinality(Waiting(queue, k)) <= made[k] + Extra(k)
  /\ result => /\ phase = "done" /\ pressedKey \in Keys
               /\ made[pressedKey] + Extra(pressedKey) >= Presses

LEMMA CountInvariant == Spec => []CountInv
<1>1. ASSUME Init PROVE CountInv
  <2>1. made \in [Keys -> 0..Presses]
    BY <1>1 DEF Init
  <2>2. \A k \in Keys : Waiting(queue, k) = {}
    BY <1>1 DEF Init, Waiting
  <2>3. \A k \in Keys : IsFiniteSet(Waiting(queue, k)) /\ Cardinality(Waiting(queue, k)) = 0
    BY <2>2, FS_EmptySet
  <2>4. \A k \in Keys : Taken(k) = made[k] /\ Extra(k) = 0
    BY <1>1 DEF Init, Taken, Extra
  <2>5. /\ triggerPresses \in Nat /\ fds \cap unscanned = {} /\ twice = {}
        /\ phase = "scan" /\ ~result /\ pressedKey = NoKey
    BY <1>1 DEF Init
  <2> HIDE <1>1
  <2>6. \A k \in Keys : Taken(k) + Cardinality(Waiting(queue, k)) <= made[k] + Extra(k)
    BY <2>1, <2>3, <2>4
  <2> QED BY <2>1, <2>3, <2>5, <2>6 DEF CountInv
<1>2. ASSUME CountInv, QueueInv, KeyInv, [Next]_vars PROVE CountInv'
  <2> DEFINE W(k) == Cardinality(Waiting(queue, k))
             Fair(k) == made[k] = Presses \/ Taken(k) + W(k) <= made[k] + Extra(k)
  <2> USE <1>2 DEF history
  <2>0. \A k \in Keys : /\ IsFiniteSet(Waiting(queue, k)) /\ W(k) \in Nat /\ Fair(k)
                        /\ made[k] \in 0..Presses /\ Taken(k) \in Nat /\ Extra(k) \in {0, 1}
    BY FS_CardinalityType DEF CountInv, Taken, Extra
  \* The steps that leave the queues, the keys and what was pressed alone.
  <2>1. ASSUME UNCHANGED <<queue, made, twice>>, triggerPresses' \in Nat,
               phase' = "scan" => phase = "scan" /\ pressedKey' = pressedKey,
               fds' \cap unscanned' = {},
               phase' # "done" => pressedKey' \in Keys \cup {NoKey, Several},
               phase' = "detect" => pressedKey' \in Keys,
               \A k \in Keys : made[k] = Presses \/ (Taken(k)' \in Nat /\ Taken(k)' <= Taken(k)),
               result' => /\ phase' = "done" /\ pressedKey' \in Keys
                          /\ made[pressedKey'] + Extra(pressedKey') >= Presses
        PROVE  CountInv'
    <3>0. \A k : Extra(k)' = Extra(k)
      BY <2>1 DEF Extra
    <3>1. \A k \in Keys : Fair(k)'
      BY <2>0, <2>1, <3>0
    <3>2. made' \in [Keys -> 0..Presses] /\ \A k \in Keys : IsFiniteSet(Waiting(queue, k))'
      BY <2>0, <2>1 DEF CountInv
    <3>3. result' => made'[pressedKey'] + Extra(pressedKey)' >= Presses
      BY <2>1, <3>0 DEF Extra
    <3> QED BY <2>1, <3>1, <3>2, <3>3 DEF CountInv
  <2>2. ASSUME NEW d \in Devices, SkipDevice(d) PROVE CountInv'
    <3>1. /\ UNCHANGED <<queue, made, triggerPresses, phase, pressedKey, result, fds, held, asking,
                         twice>>
          /\ unscanned' = unscanned \ {d}
      BY <2>2 DEF SkipDevice, user
    <3>2. \A k \in Keys : Taken(k)' \in Nat /\ Taken(k)' <= Taken(k)
      BY <3>1 DEF Taken, CountInv, Queued
    <3> QED BY <2>1, <3>1, <3>2 DEF CountInv
  <2>3. ASSUME NEW d \in Devices, OpenDevice(d) PROVE CountInv'
    <3>1. /\ UNCHANGED <<queue, made, triggerPresses, phase, pressedKey, result, held, twice>>
          /\ phase = "scan" /\ asking' = {d}
          /\ unscanned' = unscanned \ {d} /\ fds' = fds \cup {d} /\ d \in unscanned
      BY <2>3 DEF OpenDevice, user, Scanning
    <3>2. \A k \in Keys : Taken(k)' \in Nat /\ Taken(k)' <= Taken(k)
      BY <3>1 DEF Taken, Queued
    <3> QED BY <2>1, <3>1, <3>2 DEF CountInv
  \* What was waiting to be read was not counted before it is found held: it makes the
  \* one press that may be counted twice.
  <2>17. ASSUME NEW d \in Devices, AskHeld(d) PROVE CountInv'
    <3>1. /\ UNCHANGED <<queue, made, triggerPresses, phase, result, held, unscanned, fds>>
          /\ phase = "scan" /\ asking' = {} /\ d \in asking
          /\ pressedKey' = FoundHeld(pressedKey, held[d]) /\ held[d] \subseteq Keys
          /\ twice' = twice \cup {k \in held[d] : Queued(d, k)}
      BY <2>17 DEF AskHeld, user, QueueInv, Queued
    <3>2. CASE held[d] = {}
      <4>1. pressedKey' = pressedKey /\ twice' = twice
        BY <3>1, <3>2 DEF FoundHeld
      <4>2. \A k \in Keys : Taken(k)' \in Nat /\ Taken(k)' <= Taken(k)
        BY <3>1, <4>1 DEF Taken, Queued
      <4> QED BY <2>1, <3>1, <4>1, <4>2 DEF CountInv
    <3>3. CASE held[d] # {}
      <4>1. /\ pressedKey' \in Keys \cup {Several} /\ pressedKey' # NoKey
            /\ pressedKey' \in Keys => pressedKey = NoKey /\ pressedKey' \in held[d]
        <5>1. CASE pressedKey = NoKey /\ Cardinality(held[d]) = 1
          BY <3>1, <3>3, <5>1 DEF FoundHeld
        <5>2. CASE ~(pressedKey = NoKey /\ Cardinality(held[d]) = 1)
          BY <3>1, <3>3, <5>2 DEF FoundHeld
        <5> QED BY <5>1, <5>2
      <4>2. ASSUME NEW k \in Keys PROVE Fair(k)'
        <5>1. /\ W(k)' = W(k) /\ made'[k] = made[k]
              /\ Taken(k)' \in {0, 1} /\ Taken(k) \in {0, 1}
          BY <3>1 DEF Taken
        <5>2. CASE Taken(k)' <= Taken(k)
          <6>1. Extra(k)' \in {0, 1} /\ Extra(k) <= Extra(k)'
            BY <3>1 DEF Extra
          <6> QED BY <2>0, <5>1, <5>2, <6>1
        <5>3. CASE Taken(k)' = 1 /\ Taken(k) = 0
          <6>1. pressedKey' = k
            BY <3>1, <5>3 DEF Taken
          <6>2. pressedKey = NoKey /\ k \in held[d]
            BY <4>1, <6>1
          <6>3. Queued(d, k)
            BY <3>1, <5>3, <6>2 DEF Taken
          <6>4. Extra(k)' = 1 /\ Extra(k) = 0
            BY <3>1, <6>2, <6>3 DEF Extra, CountInv
          <6> QED BY <2>0, <5>1, <5>3, <6>4
        <5> QED BY <5>1, <5>2, <5>3
      <4>3. /\ made' \in [Keys -> 0..Presses] /\ \A k \in Keys : IsFiniteSet(Waiting(queue, k))'
            /\ ~result'
        BY <2>0, <3>1 DEF CountInv
      <4> QED BY <3>1, <4>1, <4>2, <4>3 DEF CountInv
    <3> QED BY <3>2, <3>3
  <2>4. CASE GiveUp \/ TimeOut \/ EpollFails
    <3>1. /\ UNCHANGED <<queue, made, twice, triggerPresses, pressedKey, fds, unscanned>>
          /\ phase' = "done" /\ ~result'
      BY <2>4 DEF GiveUp, TimeOut, EpollFails, Leave, user
    <3>2. \A k \in Keys : Taken(k)' = 0
      BY <3>1 DEF Taken
    <3> QED BY <2>0, <2>1, <3>1, <3>2 DEF CountInv
  <2>5. CASE StartWaiting
    <3>1. /\ UNCHANGED <<queue, made, twice, triggerPresses, pressedKey, fds, unscanned, result>>
          /\ phase = "scan" /\ phase' = "initial"
      BY <2>5 DEF StartWaiting, ScanDone, user
    <3>2. \A k \in Keys : Taken(k)' \in Nat /\ Taken(k)' <= Taken(k)
      BY <3>1 DEF Taken
    <3> QED BY <2>1, <3>1, <3>2 DEF CountInv
  <2>6. CASE Wait \/ Tick
    <3>1. UNCHANGED <<queue, made, twice, triggerPresses, pressedKey, fds, unscanned, result, phase, held,
                    asking>>
      BY <2>6 DEF Wait, Tick, user
    <3>2. \A k \in Keys : Taken(k)' = Taken(k)
      BY <3>1 DEF Taken, Queued
    <3> QED BY <2>0, <2>1, <3>1, <3>2 DEF CountInv
  <2>7. CASE StartDetection
    <3>1. /\ UNCHANGED <<queue, made, twice, pressedKey, fds, unscanned, result>>
          /\ phase = "initial" /\ phase' = "detect" /\ pressedKey # NoKey /\ triggerPresses' = 1
      BY <2>7 DEF StartDetection, user
    <3>2. \A k \in Keys : Taken(k)' = Taken(k)
      BY <3>1 DEF Taken
    <3>3. pressedKey \in Keys
      BY <3>1 DEF CountInv, KeyInv
    <3> QED BY <2>0, <2>1, <3>1, <3>2, <3>3 DEF CountInv
  <2>8. CASE Triggered
    <3>1. /\ UNCHANGED <<queue, made, twice, triggerPresses, pressedKey, fds, unscanned>>
          /\ phase = "detect" /\ phase' = "done" /\ triggerPresses >= Presses
      BY <2>8 DEF Triggered, Leave, user
    <3>2. \A k \in Keys : Taken(k)' = 0
      BY <3>1 DEF Taken
    <3>3. pressedKey \in Keys /\ Taken(pressedKey) = triggerPresses /\ triggerPresses \in Nat
      BY <3>1 DEF Taken, CountInv
    <3>4. made[pressedKey] + Extra(pressedKey) >= Presses
      BY <2>0, <3>1, <3>3
    <3> QED BY <2>0, <2>1, <3>1, <3>2, <3>3, <3>4 DEF CountInv
  \* A press is kept, or finds the device not open or its queue full.
  <2>9. ASSUME NEW d \in Devices, NEW k \in Keys, Press(d, k) PROVE CountInv'
    <3> DEFINE kept == d \in fds /\ Len(queue[d]) < MaxQueue
    <3>1. /\ queue' = Kept(d, k) /\ held' = [held EXCEPT ![d] = @ \cup {k}]
          /\ made' = [made EXCEPT ![k] = IF @ < Presses THEN @ + 1 ELSE @]
          /\ UNCHANGED <<phase, unscanned, fds, asking, pressedKey, triggerPresses, result, twice>>
          /\ phase # "done"
      BY <2>9 DEF Press, program
    <3>2. /\ made' \in [Keys -> 0..Presses]
          /\ made'[k] = IF made[k] < Presses THEN made[k] + 1 ELSE Presses
          /\ \A j \in Keys \ {k} : made'[j] = made[j]
      <4>1. made \in [Keys -> 0..Presses]
        BY DEF CountInv
      <4>2. \A n \in 0..Presses : (IF n < Presses THEN n + 1 ELSE n) \in 0..Presses
        OBVIOUS
      <4>3. made[k] \in 0..Presses
        BY <4>1
      <4>4. made'[k] = (IF made[k] < Presses THEN made[k] + 1 ELSE made[k])
        BY <3>1, <4>1
      <4>5. \A j \in Keys \ {k} : made'[j] = made[j]
        BY <3>1, <4>1
      <4>6. DOMAIN made' = Keys /\ made' = [j \in Keys |-> made'[j]]
        BY <3>1, <4>1
      <4>7. \A j \in Keys : made'[j] \in 0..Presses
        BY <4>1, <4>2, <4>3, <4>4, <4>5
      <4> QED BY <4>3, <4>4, <4>5, <4>6, <4>7
    <3>3. \A j \in Keys : /\ Taken(j)' \in Nat
                          /\ Taken(j)' <= IF ~kept /\ j = k THEN Taken(j) + 1 ELSE Taken(j)
      <4>1. /\ \A c \in Devices : \A j \in Keys : Queued(c, j) => Queued(c, j)'
            /\ kept => Queued(d, k)'
        BY <3>1, KeptIsQueued DEF Event
      <4>2. \A j \in Keys \ {k} : Taken(j)' \in Nat /\ Taken(j)' <= Taken(j)
        BY <3>1, <4>1 DEF Taken, QueueInv, CountInv
      <4>3. ~kept => Taken(k)' \in Nat /\ Taken(k)' <= Taken(k) + 1
        BY <3>1 DEF Taken, CountInv
      <4>4. kept => Taken(k)' \in Nat /\ Taken(k)' <= Taken(k)
        BY <3>1, <4>1 DEF Taken, QueueInv, CountInv
      <4> QED BY <2>0, <4>2, <4>3, <4>4
    <3>4. \A j \in Keys :
             /\ IsFiniteSet(Waiting(queue, j))'
             /\ W(j)' \in Nat
             /\ W(j)' <= IF kept /\ j = k THEN W(j) + 1 ELSE W(j)
      <4>1. CASE queue' = queue
        BY <2>0, <4>1
      <4>2. CASE kept /\ queue' = [queue EXCEPT ![d] = Append(@, k)]
        BY <2>0, <4>2, OneMoreWaits, FS_CardinalityType DEF QueueInv, Event
      <4> QED BY <3>1, <4>1, <4>2 DEF Kept
    <3>5. \A j : Extra(j)' = Extra(j)
      BY <3>1 DEF Extra
    <3>6. ASSUME NEW j \in Keys PROVE Fair(j)'
      <4>1. /\ made[j] \in 0..Presses /\ Taken(j) \in Nat /\ W(j) \in Nat /\ Fair(j)
            /\ Extra(j)' = Extra(j) /\ Extra(j) \in {0, 1}
        BY <2>0, <3>5
      <4>2. Taken(j)' \in Nat /\ W(j)' \in Nat
        BY <3>3, <3>4
      <4>3. CASE j = k
        <5>1. Taken(j)' + W(j)' <= Taken(j) + W(j) + 1
          BY <3>3, <3>4, <4>1, <4>2, <4>3
        <5> QED BY <3>2, <4>1, <4>2, <4>3, <5>1
      <4>4. CASE j # k
        <5>1. Taken(j)' <= Taken(j) /\ W(j)' <= W(j)
          BY <3>3, <3>4, <4>1, <4>2, <4>4
        <5> QED BY <3>2, <4>1, <4>2, <4>4, <5>1
      <4> QED BY <4>3, <4>4
    <3>7. ~result
      BY <3>1 DEF CountInv
    <3> QED BY <3>1, <3>2, <3>4, <3>6, <3>7 DEF CountInv
  <2>10. ASSUME NEW d \in Devices, NEW k \in Keys, Release(d, k) PROVE CountInv'
    <3>1. /\ queue' = Kept(d, NoKey) /\ held' = [held EXCEPT ![d] = @ \ {k}]
          /\ UNCHANGED <<phase, unscanned, fds, asking, pressedKey, triggerPresses, result, made,
                         twice>>
      BY <2>10 DEF Release, program
    <3>2. \A j \in Keys : Taken(j)' \in Nat /\ Taken(j)' <= Taken(j)
      <4>1. \A c \in Devices : \A j \in Keys : Queued(c, j) => Queued(c, j)'
        BY <3>1, KeptIsQueued DEF Event
      <4> QED BY <3>1, <4>1 DEF Taken, QueueInv, CountInv
    <3>3. \A j \in Keys :
             /\ IsFiniteSet(Waiting(queue, j))'
             /\ W(j)' \in Nat
             /\ W(j)' <= W(j)
      <4>1. CASE queue' = queue
        BY <2>0, <4>1
      <4>2. CASE queue' = [queue EXCEPT ![d] = Append(@, NoKey)]
        BY <2>0, <4>2, OneMoreWaits, FS_CardinalityType DEF QueueInv, Event
      <4> QED BY <3>1, <4>1, <4>2 DEF Kept
    <3>4. \A j \in Keys : Fair(j)'
      BY <2>0, <3>1, <3>2, <3>3 DEF Extra
    <3>5. result' => made'[pressedKey'] + Extra(pressedKey)' >= Presses
      BY <3>1 DEF Extra, CountInv
    <3> QED BY <3>1, <3>3, <3>4, <3>5 DEF CountInv
  \* What a read takes from the queue is what it adds to the presses counted.
  <2>11. ASSUME NEW d \in Devices, NEW e, Reads(d, e), triggerPresses' \in Nat,
                phase' # "done" => pressedKey' \in Keys \cup {NoKey, Several},
                phase' = "detect" => pressedKey' \in Keys, ~result', phase' # "scan",
                \A k \in Keys : /\ Taken(k)' \in Nat
                                /\ Taken(k)' <= IF k = e THEN Taken(k) + 1 ELSE Taken(k)
         PROVE  CountInv'
    <3>1. /\ queue' = [queue EXCEPT ![d] = Tail(@)] /\ queue[d] # <<>> /\ e = Head(queue[d])
          /\ UNCHANGED <<unscanned, fds, made, twice>>
      BY <2>11 DEF Reads, QueueInv
    <3>2. \A k \in Keys :
             /\ IsFiniteSet(Waiting(queue, k))'
             /\ W(k)' \in Nat
             /\ IF k = e THEN W(k)' + 1 <= W(k) ELSE W(k)' <= W(k)
      BY <2>0, <3>1, OneLessWaits, FS_CardinalityType DEF QueueInv
    <3>3. ASSUME NEW k \in Keys PROVE Fair(k)'
      <4>1. /\ made'[k] = made[k] /\ made[k] \in Nat /\ Taken(k) \in Nat /\ W(k) \in Nat /\ Fair(k)
            /\ Extra(k)' = Extra(k) /\ Extra(k) \in {0, 1}
        BY <2>0, <3>1 DEF Extra
      <4>2. CASE k = e
        <5>1. Taken(k)' \in Nat /\ Taken(k)' <= Taken(k) + 1 /\ W(k)' \in Nat /\ W(k)' + 1 <= W(k)
          BY <2>11, <3>2, <4>2
        <5> QED BY <4>1, <5>1
      <4>3. CASE k # e
        <5>1. Taken(k)' \in Nat /\ Taken(k)' <= Taken(k) /\ W(k)' \in Nat /\ W(k)' <= W(k)
          BY <2>11, <3>2, <4>3
        <5> QED BY <4>1, <5>1
      <4> QED BY <4>2, <4>3
    <3> QED BY <2>11, <3>1, <3>2, <3>3 DEF CountInv
  <2>12. ASSUME NEW d \in Devices, Ignore(d) PROVE CountInv'
    <3>1. /\ Reads(d, NoKey) /\ phase \in {"initial", "detect"}
          /\ UNCHANGED <<phase, pressedKey, triggerPresses, result>>
      BY <2>12 DEF Ignore
    <3>2. \A k \in Keys : Taken(k)' = Taken(k)
      BY <3>1 DEF Taken, Reads
    <3> QED BY <2>0, <2>11, <3>1, <3>2 DEF CountInv
  <2>13. ASSUME NEW d \in Devices, FirstPress(d) PROVE CountInv'
    <3>1. /\ Reads(d, pressedKey') /\ phase = "initial" /\ pressedKey' \in Keys
          /\ UNCHANGED <<phase, triggerPresses, result>>
      BY <2>13 DEF FirstPress
    <3>2. \A k \in Keys : Taken(k)' = IF k = pressedKey' THEN 1 ELSE 0
      BY <3>1 DEF Taken
    <3> QED BY <2>0, <2>11, <3>1, <3>2 DEF CountInv
  <2>14. ASSUME NEW d \in Devices, SameKey(d) PROVE CountInv'
    <3>1. /\ Reads(d, pressedKey) /\ phase = "detect" /\ triggerPresses' = triggerPresses + 1
          /\ UNCHANGED <<phase, pressedKey, result>>
      BY <2>14 DEF SameKey
    <3>2. \A k \in Keys : Taken(k)' = IF k = pressedKey THEN Taken(k) + 1 ELSE Taken(k)
      BY <3>1 DEF Taken
    <3> QED BY <2>0, <2>11, <3>1, <3>2 DEF CountInv
  <2>15. ASSUME NEW d \in Devices, OtherKey(d) PROVE CountInv'
    <3>1. PICK k \in Keys \ {pressedKey} : Reads(d, k)
      BY <2>15 DEF OtherKey
    <3>2. phase' = "done" /\ ~result' /\ UNCHANGED <<pressedKey, triggerPresses>>
      BY <2>15 DEF OtherKey, Leave
    <3>3. \A j \in Keys : Taken(j)' = 0
      BY <3>2 DEF Taken
    <3> QED BY <2>0, <2>11, <3>1, <3>2, <3>3 DEF CountInv
  <2>16. CASE UNCHANGED vars
    <3>1. /\ UNCHANGED <<queue, made, triggerPresses, pressedKey, fds, unscanned, result, phase,
                         held, asking, twice>>
      BY <2>16 DEF vars, program, user
    <3>2. \A k \in Keys : Taken(k)' = Taken(k)
      BY <3>1 DEF Taken, Queued
    <3> QED BY <2>0, <2>1, <3>1, <3>2 DEF CountInv
  <2> QED
    BY <1>2, <2>2, <2>3, <2>4, <2>5, <2>6, <2>7, <2>8, <2>9, <2>10, <2>12, <2>13, <2>14, <2>15,
       <2>16, <2>17 DEF Next, Program
<1> QED BY <1>1, <1>2, QueueInvariant, KeyInvariant, PTL DEF Spec

(* Nothing but presses of the key brings safemode about, and none is counted twice but   *)
(* the one found held while it waited to be read.                                        *)
THEOREM EnoughPresses == Spec => []TriggerIsEnoughPresses
<1>1. CountInv => TriggerIsEnoughPresses
  BY DEF CountInv, TriggerIsEnoughPresses, Extra
<1> QED BY <1>1, CountInvariant, PTL

----------------------------------------------------------------------------
(* Sizes *)

\* A batch is of devices that are open, and a batch is all that is read before the number
\* of presses is looked at again: it can exceed the limit by the devices there are.
SizeInv ==
  /\ skip \in BOOLEAN /\ result \in BOOLEAN
  /\ unscanned \subseteq Devices
  /\ IsFiniteSet(fds) /\ Cardinality(fds) <= MaxDevices
  /\ pressedKey \in Keys \cup {NoKey, Several}
  /\ triggerPresses \in Nat
  /\ triggerPresses + Cardinality(batch) <= Presses + Cardinality(fds)
  /\ left \in 0..Delay
  /\ batch \subseteq fds
  /\ phase \in {"scan", "initial"} => triggerPresses = 0
  /\ phase = "scan" => batch = {}
  /\ \A d \in Devices : Len(queue[d]) <= MaxQueue /\ (d \notin fds => queue[d] = <<>>)
  /\ asking = {} \/ \E d \in Devices : asking = {d}
  /\ first \subseteq Keys /\ later \subseteq Keys /\ twice \subseteq Keys

LEMMA SizeInvariant == Spec => []SizeInv
<1>1. ASSUME Init PROVE SizeInv
  <2>1. fds = {} /\ batch = {} /\ IsFiniteSet(fds) /\ Cardinality(fds) = 0 /\ Cardinality(batch) = 0
    BY <1>1, FS_EmptySet DEF Init
  <2>2. \A d \in Devices : queue[d] = <<>> /\ Len(queue[d]) = 0
    BY <1>1 DEF Init
  <2>3. /\ skip \in BOOLEAN /\ result \in BOOLEAN /\ unscanned \subseteq Devices
        /\ pressedKey = NoKey /\ triggerPresses = 0 /\ left = 0 /\ first = {} /\ later = {}
        /\ twice = {} /\ asking = {}
    BY <1>1, Zenon DEF Init
  <2> HIDE <1>1
  <2> QED BY <2>1, <2>2, <2>3 DEF SizeInv
<1>2. ASSUME SizeInv, QueueInv, CountInv, [Next]_vars PROVE SizeInv'
  <2> USE <1>2 DEF SizeInv, program, user, history
  <2>0. /\ IsFiniteSet(batch) /\ Cardinality(batch) \in Nat /\ Cardinality(fds) \in Nat
        /\ Cardinality(batch) <= Cardinality(fds)
        /\ Cardinality({}) = 0 /\ triggerPresses \in Nat
        /\ \A d \in batch : Cardinality(batch \ {d}) \in Nat
                             /\ Cardinality(batch \ {d}) = Cardinality(batch) - 1
    BY FS_Subset, FS_CardinalityType, FS_EmptySet, FS_RemoveElement
  <2>1. ASSUME NEW d \in Devices, NEW e, queue' = Kept(d, e), fds' = fds
        PROVE  \A c \in Devices : Len(queue'[c]) <= MaxQueue /\ (c \notin fds' => queue'[c] = <<>>)
    <3>1. CASE d \in fds /\ Len(queue[d]) < MaxQueue /\ queue' = [queue EXCEPT ![d] = Append(@, e)]
      <4>1. queue[d] \in Seq(Event) /\ queue'[d] = Append(queue[d], e)
            /\ \A c \in Devices \ {d} : queue'[c] = queue[c]
        BY <3>1 DEF QueueInv
      <4>2. Len(Append(queue[d], e)) = Len(queue[d]) + 1 /\ Len(queue[d]) \in Nat
        BY <4>1
      <4> QED BY <2>1, <3>1, <4>1, <4>2
    <3>2. CASE queue' = queue
      BY <2>1, <3>2
    <3> QED BY <2>1, <3>1, <3>2 DEF Kept
  <2>2. ASSUME NEW d \in Devices, NEW k \in Keys, Press(d, k) \/ Release(d, k) PROVE SizeInv'
    <3>1. queue' = Kept(d, k) \/ queue' = Kept(d, NoKey)
      BY <2>2 DEF Press, Release
    <3>2. UNCHANGED <<program, history>>
      BY <2>2 DEF Press, Release
    <3> QED BY <2>1, <3>1, <3>2
  <2>3. CASE Tick
    BY <2>3 DEF Tick
  <2>4. ASSUME NEW d \in Devices, SkipDevice(d) PROVE SizeInv'
    BY <2>4 DEF SkipDevice
  <2>5. ASSUME NEW d \in Devices, OpenDevice(d) PROVE SizeInv'
    <3>1. /\ phase = "scan" /\ Cardinality(fds) < MaxDevices /\ fds' = fds \cup {d}
          /\ unscanned' = unscanned \ {d} /\ asking' = {d}
          /\ UNCHANGED <<skip, phase, pressedKey, triggerPresses, left, batch, result, queue,
                         history>>
      BY <2>5 DEF OpenDevice, Scanning
    <3>2. /\ IsFiniteSet(fds') /\ Cardinality(fds') \in Nat
          /\ Cardinality(fds) <= Cardinality(fds') /\ Cardinality(fds') <= Cardinality(fds) + 1
      <4>1. /\ IsFiniteSet(fds \cup {d})
            /\ Cardinality(fds \cup {d}) = IF d \in fds THEN Cardinality(fds) ELSE Cardinality(fds) + 1
        BY FS_AddElement
      <4> QED BY <2>0, <3>1, <4>1
    <3>3. Cardinality(fds') <= MaxDevices
      BY <2>0, <3>1, <3>2
    <3>4. triggerPresses' + Cardinality(batch') <= Presses + Cardinality(fds')
      BY <2>0, <3>1, <3>2
    <3> QED BY <3>1, <3>2, <3>3, <3>4
  <2>14. ASSUME NEW d \in Devices, AskHeld(d) PROVE SizeInv'
    <3>1. /\ pressedKey' = FoundHeld(pressedKey, held[d]) /\ first' = first \cup held[d]
          /\ asking' = {} /\ held[d] \subseteq Keys /\ twice' \subseteq twice \cup held[d]
          /\ UNCHANGED <<skip, phase, unscanned, fds, triggerPresses, left, batch, result, queue,
                         later>>
      BY <2>14 DEF AskHeld, QueueInv
    <3>2. pressedKey' \in Keys \cup {NoKey, Several}
      <4>1. CASE held[d] # {} /\ pressedKey = NoKey /\ Cardinality(held[d]) = 1
        BY <3>1, <4>1 DEF FoundHeld
      <4>2. CASE held[d] = {} \/ ~(pressedKey = NoKey /\ Cardinality(held[d]) = 1)
        BY <3>1, <4>2 DEF FoundHeld
      <4> QED BY <4>1, <4>2
    <3> QED BY <3>1, <3>2
  <2>6. CASE GiveUp \/ TimeOut \/ Triggered \/ EpollFails
    <3>1. /\ UNCHANGED <<skip, unscanned, fds, asking, pressedKey, triggerPresses, queue, history>>
          /\ phase' = "done" /\ result' \in BOOLEAN /\ left' = 0 /\ batch' = {}
      BY <2>6 DEF GiveUp, TimeOut, Triggered, EpollFails, Leave
    <3>2. triggerPresses' + Cardinality(batch') <= Presses + Cardinality(fds')
      BY <2>0, <3>1
    <3> QED BY <3>1, <3>2
  <2>7. CASE StartWaiting
    BY <2>7 DEF StartWaiting, ScanDone
  <2>8. CASE Wait
    <3>1. /\ UNCHANGED <<skip, phase, unscanned, fds, asking, pressedKey, triggerPresses, left, result,
                         queue, history>>
          /\ batch' \subseteq fds /\ WantsMore
      BY <2>8 DEF Wait
    <3>2. Cardinality(batch') \in Nat /\ Cardinality(batch') <= Cardinality(fds)
      BY <3>1, FS_Subset, FS_CardinalityType
    <3>3. triggerPresses < Presses
      BY <3>1 DEF WantsMore
    <3>4. phase # "scan"
      BY <3>1 DEF WantsMore
    <3> QED BY <2>0, <3>1, <3>2, <3>3, <3>4
  <2>9. CASE StartDetection
    <3>1. /\ UNCHANGED <<skip, unscanned, fds, asking, pressedKey, batch, result, queue, history>>
          /\ phase' = "detect" /\ left' = Delay /\ triggerPresses' = 1 /\ batch = {}
      BY <2>9 DEF StartDetection
    <3> QED BY <2>0, <3>1
  <2>10. ASSUME NEW d \in Devices, NEW e, Reads(d, e)
         PROVE  \A c \in Devices : Len(queue'[c]) <= MaxQueue /\ (c \notin fds => queue'[c] = <<>>)
    <3>1. queue[d] \in Seq(Event) /\ queue[d] # <<>> /\ d \in fds
          /\ queue'[d] = Tail(queue[d])
          /\ \A c \in Devices \ {d} : queue'[c] = queue[c]
      BY <2>10 DEF Reads, QueueInv
    <3>2. Len(Tail(queue[d])) = Len(queue[d]) - 1 /\ Len(queue[d]) \in Nat
      BY <3>1
    <3>3. Len(queue'[d]) <= MaxQueue
      BY <3>1, <3>2
    <3> QED BY <3>1, <3>3
  <2>11. ASSUME NEW d \in Devices, Ignore(d) \/ FirstPress(d) \/ SameKey(d) PROVE SizeInv'
    <3>1. PICK e : Reads(d, e)
      BY <2>11 DEF Ignore, FirstPress, SameKey
    <3>2. /\ batch' = batch \ {d} /\ d \in batch
          /\ UNCHANGED <<skip, phase, unscanned, fds, asking, left, result, twice>>
          /\ triggerPresses' \in {triggerPresses, triggerPresses + 1}
          /\ triggerPresses' # triggerPresses => phase = "detect"
      BY <2>11 DEF Ignore, FirstPress, SameKey, Reads
    <3>3. /\ pressedKey' \in Keys \cup {NoKey, Several}
          /\ first' \subseteq Keys
      BY <2>11 DEF Ignore, FirstPress, SameKey
    <3>4. later' \subseteq Keys
      <4>1. CASE SameKey(d)
        BY <4>1 DEF SameKey, CountInv
      <4>2. CASE Ignore(d) \/ FirstPress(d)
        BY <4>2 DEF Ignore, FirstPress
      <4> QED BY <2>11, <4>1, <4>2
    <3>5. triggerPresses' + Cardinality(batch') <= Presses + Cardinality(fds')
      BY <2>0, <3>2
    <3>6. \A c \in Devices : Len(queue'[c]) <= MaxQueue /\ (c \notin fds' => queue'[c] = <<>>)
      BY <2>10, <3>1, <3>2
    <3>7. /\ triggerPresses' \in Nat /\ batch' \subseteq fds'
          /\ phase' \in {"scan", "initial"} => triggerPresses' = 0
          /\ phase' = "scan" => batch' = {}
      BY <2>0, <3>2
    <3> QED BY <3>2, <3>3, <3>4, <3>5, <3>6, <3>7
  <2>12. ASSUME NEW d \in Devices, OtherKey(d) PROVE SizeInv'
    <3>1. PICK k \in Keys : Reads(d, k) /\ later' = later \cup {k}
      BY <2>12 DEF OtherKey
    <3>2. /\ phase' = "done" /\ result' = FALSE /\ left' = 0 /\ batch' = {}
          /\ UNCHANGED <<skip, unscanned, fds, asking, pressedKey, triggerPresses, first, twice>>
      BY <2>12, <3>1 DEF OtherKey, Leave, Reads
    <3>3. triggerPresses' + Cardinality(batch') <= Presses + Cardinality(fds')
      BY <2>0, <3>2
    <3>4. \A c \in Devices : Len(queue'[c]) <= MaxQueue /\ (c \notin fds' => queue'[c] = <<>>)
      BY <2>10, <3>1, <3>2
    <3>5. later' \subseteq Keys /\ triggerPresses' \in Nat /\ batch' \subseteq fds'
      BY <3>1, <3>2
    <3>6. /\ skip' \in BOOLEAN /\ result' \in BOOLEAN /\ left' \in 0..Delay
          /\ unscanned' \subseteq Devices /\ first' \subseteq Keys
          /\ IsFiniteSet(fds') /\ Cardinality(fds') <= MaxDevices
          /\ pressedKey' \in Keys \cup {NoKey, Several}
      <4>1. skip' \in BOOLEAN /\ result' \in BOOLEAN
        BY <3>2, Zenon
      <4>2. /\ left' \in 0..Delay /\ unscanned' \subseteq Devices /\ first' \subseteq Keys
            /\ pressedKey' \in Keys \cup {NoKey, Several}
        BY <3>2
      <4>3. IsFiniteSet(fds') /\ Cardinality(fds') <= MaxDevices
        BY <3>2
      <4> QED BY <4>1, <4>2, <4>3
    <3>7. phase' \notin {"scan", "initial"}
      BY <3>2
    <3>8. /\ asking' = {} \/ \E c \in Devices : asking' = {c}
          /\ twice' \subseteq Keys
      BY <3>2
    <3> QED BY <3>3, <3>4, <3>5, <3>6, <3>7, <3>8, Zenon
  <2>13. CASE UNCHANGED vars
    BY <2>13 DEF vars
  <2> QED
    BY <1>2, <2>2, <2>3, <2>4, <2>5, <2>6, <2>7, <2>8, <2>9, <2>11, <2>12, <2>13, <2>14
    DEF Next, Program
<1> QED BY <1>1, <1>2, QueueInvariant, CountInvariant, PTL DEF Spec

(* Queues, devices and time keep their limits, and the presses counted exceed theirs by  *)
(* less than there are devices, as one batch may hold an event of each.                  *)
THEOREM SafemodeTypeCorrect == Spec => []TypeOK
<1>1. SizeInv /\ QueueInv /\ KeyInv /\ CountInv => TypeOK
  <2> SUFFICES ASSUME SizeInv, QueueInv, KeyInv, CountInv PROVE TypeOK
    OBVIOUS
  <2>1. /\ Cardinality(fds) \in Nat /\ Cardinality(batch) \in Nat
    BY FS_Subset, FS_CardinalityType DEF SizeInv
  <2>2. triggerPresses \in 0..(Presses + Cardinality(fds))
    BY <2>1 DEF SizeInv
  <2>3. Cardinality(asking) <= 1
    <3>1. CASE asking = {}
      BY <3>1, FS_EmptySet
    <3>2. ASSUME NEW d \in Devices, asking = {d} PROVE Cardinality(asking) <= 1
      <4>1. Cardinality({d}) = 1
        BY FS_Singleton
      <4> QED BY <3>2, <4>1
    <3> QED BY <3>1, <3>2 DEF SizeInv
  <2> QED BY <2>2, <2>3 DEF SizeInv, QueueInv, KeyInv, CountInv, TypeOK
<1> QED BY <1>1, SizeInvariant, QueueInvariant, KeyInvariant, CountInvariant, PTL
=============================================================================
