---------------------------- MODULE BinderProofs ----------------------------
(***************************************************************************)
(* What a reader of a file gets, for any files, offsets and lengths, any   *)
(* width of the integers and any number of requests and writes.            *)
(***************************************************************************)
EXTENDS BinderProperties, TLAPS

USE BinderAssumption DEF BinderAssumption

(* int32_t holds what fits, and a conversion always fits.                               *)
LEMMA Conversion ==
  /\ \A n \in Int32 : ToInt32(n) = n
  /\ \A n \in Int : ToInt32(n) \in Int32
<1>1. ASSUME NEW M \in Nat \ {0}, NEW x \in 0..M - 1 PROVE x % M = x
  BY <1>1
<1>2. ASSUME NEW M \in Nat \ {0}, NEW x \in Int PROVE x % M \in 0..M - 1
  BY <1>2
<1> DEFINE M == 2 * (MaxInt + 1)
<1>3. M \in Nat \ {0}
  OBVIOUS
<1>6. \A x \in 0..M - 1 : x - (MaxInt + 1) \in Int32
  BY DEF Int32
<1>4. ASSUME NEW n \in Int32 PROVE ToInt32(n) = n
  <2>1. n + MaxInt + 1 \in 0..M - 1
    BY DEF Int32
  <2>2. (n + MaxInt + 1) % M = n + MaxInt + 1
    BY <1>1, <1>3, <2>1
  <2> QED BY <2>2 DEF ToInt32, Int32
<1>5. ASSUME NEW n \in Int PROVE ToInt32(n) \in Int32
  <2>2. n + MaxInt + 1 \in Int
    OBVIOUS
  <2>3. ToInt32(n) = ((n + MaxInt + 1) % M) - (MaxInt + 1)
    BY DEF ToInt32
  <2> HIDE DEF M
  <2>1. (n + MaxInt + 1) % M \in 0..M - 1
    BY <1>2, <1>3, <2>2
  <2> QED BY <1>6, <2>1, <2>3
<1> QED BY <1>4, <1>5

(* A part of a sequence.                                                               *)
LEMMA Parts ==
  ASSUME NEW s \in Seq(Bytes), NEW a \in Nat, NEW b \in Nat, b <= Len(s)
  PROVE  /\ SubSeq(s, a + 1, b) \in Seq(Bytes)
         /\ Len(SubSeq(s, a + 1, b)) = IF a < b THEN b - a ELSE 0
<1>1. \A i \in a + 1..b : s[i] \in Bytes
  OBVIOUS
<1> QED BY <1>1

LEMMA Whole ==
  /\ \A s \in Seq(Bytes) : SubSeq(s, 1, Len(s)) = s
  /\ \A s \in Seq(Bytes) : Len(s) = 0 => s = <<>>
OBVIOUS

----------------------------------------------------------------------------

FileType == [kind : {"none", "dir", "file"}, data : Seq(Bytes), mtime : Nat]
Request == [system : BOOLEAN, whole : BOOLEAN, offset : Int32, length : Int32,
            size : Int, mtime : Nat]
Response == [err : Errnos, size : Int, mtime : Nat, bytesRead : Int, data : Seq(Bytes)]

Typed ==
  /\ file \in FileType /\ Len(file.data) <= MaxInt
  /\ clock \in Nat
  /\ pc \in {"idle", "stat", "open", "read", "reply", "receive"}
  /\ req \in Request
  /\ req.whole => req.offset = 0 /\ req.length = 0
  /\ st \in [size : 0..MaxInt, mtime : Nat]
  /\ len \in Int32
  /\ handle \in Seq(Bytes)
  /\ buffer \in BOOLEAN /\ leaked \in BOOLEAN
  /\ res \in Response
  /\ copy \in [size : Int, mtime : Nat, data : Seq(Bytes)]
  /\ pc \in {"open", "read"} => len >= 0

\* What a use of the name may be about.
Named == {file} \cup Elsewhere

LEMMA NamedTyped ==
  ASSUME Typed, NEW f \in Named
  PROVE  /\ f.kind \in {"none", "dir", "file"} /\ f.data \in Seq(Bytes) /\ f.mtime \in Nat
         /\ Len(f.data) \in 0..MaxInt
<1>1. CASE f = file
  BY <1>1 DEF Typed, FileType
<1>2. CASE f \in Elsewhere
  BY <1>2
<1> QED BY <1>1, <1>2 DEF Named

\* What the server sees of a file's size fits.
LEMMA Sizes ==
  ASSUME Typed
  PROVE  /\ Len(file.data) \in 0..MaxInt
         /\ Offset \in 0..MaxInt
         /\ \A size \in 0..MaxInt : /\ Length(size) \in Int32
                                    /\ req.length <= 0 => Length(size) = size - Offset
                                    /\ req.length > 0 => Length(size) = req.length
                                    /\ req.length > 0 /\ ~OutOfRange(size)
                                       /\ Offset + req.length <= MaxInt
                                         => Offset + req.length <= size
         /\ len' \in Int32 => ToInt32(len' + 1) \in Int32
<1>1. file \in FileType /\ req \in Request
  BY DEF Typed
<1>2. Len(file.data) \in 0..MaxInt /\ file.mtime \in Int /\ req.length \in Int32
  BY <1>1 DEF Typed, FileType, Request
<1>3. Offset \in 0..MaxInt
  BY <1>1 DEF Offset, Request, Int32
<1>4. ASSUME NEW size \in 0..MaxInt
      PROVE  /\ Length(size) \in Int32
             /\ req.length <= 0 => Length(size) = size - Offset
             /\ req.length > 0 => Length(size) = req.length
             /\ req.length > 0 /\ ~OutOfRange(size) /\ Offset + req.length <= MaxInt
                  => Offset + req.length <= size
  <2>1. size - Offset \in Int32 /\ req.length \in Int
    BY <1>2, <1>3 DEF Int32
  <2>2. ToInt32(size - Offset) = size - Offset
    BY <2>1, Conversion
  <2>3. req.length > 0 /\ Offset + req.length <= MaxInt
          => ToInt32(Offset + req.length) = Offset + req.length
    <3>1. \A a \in 0..MaxInt, b \in Int : b > 0 /\ a + b <= MaxInt => a + b \in Int32
      BY DEF Int32
    <3> QED BY <1>3, <2>1, <3>1, Conversion
  <2> QED BY <1>2, <1>3, <2>1, <2>2, <2>3 DEF Length, OutOfRange
<1>5. len' \in Int32 => ToInt32(len' + 1) \in Int32
  <2>1. len' \in Int32 => len' + 1 \in Int
    BY DEF Int32
  <2> QED BY <2>1, Conversion
<1> QED BY <1>2, <1>3, <1>4, <1>5, Conversion

LEMMA ReplyTyped ==
  ASSUME NEW err \in Errnos, NEW size \in Int, NEW mtime \in Nat, NEW n \in Int,
         Reply(err, size, mtime, n)
  PROVE  /\ pc' = "reply" /\ res' \in Response
         /\ res'.err = err /\ res'.size = size /\ res'.mtime = mtime
         /\ res'.bytesRead = n /\ res'.data = <<>>
BY DEF Reply, Response

\* The part of a content that is read.
Part(data) == SubSeq(data, Offset + 1, IF Offset + len < Len(data) THEN Offset + len ELSE Len(data))

LEMMA PartTyped ==
  ASSUME Typed, NEW data \in Seq(Bytes), len >= 0
  PROVE  /\ Part(data) \in Seq(Bytes)
         /\ Len(Part(data)) > 0 <=> len > 0 /\ Offset < Len(data)
<1> DEFINE end == IF Offset + len < Len(data) THEN Offset + len ELSE Len(data)
<1>1. Offset \in Nat /\ len \in Nat /\ Len(data) \in Nat
  BY Sizes DEF Typed, Int32
<1>2. end \in Nat /\ end <= Len(data)
  BY <1>1
<1>3. SubSeq(data, Offset + 1, end) \in Seq(Bytes)
  BY <1>1, <1>2, Parts
<1>4. Len(SubSeq(data, Offset + 1, end)) = IF Offset < end THEN end - Offset ELSE 0
  BY <1>1, <1>2, Parts
<1> QED BY <1>1, <1>3, <1>4 DEF Part

LEMMA PartFits ==
  ASSUME Typed, NEW data \in Seq(Bytes), len >= 0, Len(data) <= MaxInt
  PROVE  Len(Part(data)) \in 0..MaxInt
<1> DEFINE end == IF Offset + len < Len(data) THEN Offset + len ELSE Len(data)
<1>1. Offset \in Nat /\ len \in Nat /\ Len(data) \in Nat
  BY Sizes DEF Typed, Int32
<1>2. end \in Nat /\ end <= Len(data)
  BY <1>1
<1>3. Len(SubSeq(data, Offset + 1, end)) = IF Offset < end THEN end - Offset ELSE 0
  BY <1>1, <1>2, Parts
<1> QED BY <1>1, <1>2, <1>3 DEF Part

\* What Stat decides when it allocates a buffer.
LEMMA StatOpens ==
  ASSUME Typed, NEW f \in Named, Stat(f), pc' = "open"
  PROVE  /\ st' = [size |-> Len(f.data), mtime |-> f.mtime]
         /\ len' = Length(Len(f.data)) /\ len' >= 0
         /\ ~OutOfRange(Len(f.data)) /\ Len(f.data) # 0
         /\ buffer' = TRUE /\ res' = res
<1>1. /\ len' = Length(Len(f.data)) /\ ToInt32(len' + 1) > 0
      /\ ~OutOfRange(Len(f.data)) /\ Len(f.data) # 0
      /\ st' = [size |-> Len(f.data), mtime |-> f.mtime]
      /\ buffer' = TRUE /\ res' = res
  <2>1. \A err, size, mtime, n : ~Reply(err, size, mtime, n)
    BY DEF Reply
  <2>2. ~OutOfRange(Len(f.data)) /\ Len(f.data) # 0
    BY <2>1 DEF Stat
  <2>3. st' = [size |-> Len(f.data), mtime |-> f.mtime]
    BY DEF Stat
  <2>4. len' = Length(Len(f.data))
    BY DEF Stat
  <2>5. ToInt32(len' + 1) > 0 /\ buffer' = TRUE /\ res' = res
    BY <2>1, <2>2 DEF Stat
  <2> QED BY <2>2, <2>3, <2>4, <2>5
<1>2. len' \in Int32
  BY <1>1, NamedTyped, Sizes
<1>3. CASE len' + 1 \in Int32
  BY <1>1, <1>2, <1>3, Conversion DEF Int32
<1>4. CASE len' + 1 \notin Int32
  BY <1>1, <1>2, <1>4 DEF Int32
<1> QED BY <1>1, <1>3, <1>4

(* Every variable keeps its type.                                                       *)
LEMMA TypedInvariant == Spec => []Typed
<1>0. <<>> \in Seq(Bytes) /\ 0 \in Int32 /\ -1 \in Int /\ 0..MaxInt \subseteq Int32
      /\ Int32 \subseteq Int
  BY DEF Int32
<1>1. ASSUME Init PROVE Typed
  <2>1. file \in FileType /\ Len(file.data) <= MaxInt
    <3>1. PICK c \in Contents : file = [kind |-> "file", data |-> c, mtime |-> 1]
      BY <1>1 DEF Init
    <3> QED BY <3>1 DEF FileType
  <2>2. NoRequest \in Request /\ NoReply \in Response
    BY <1>0 DEF NoRequest, NoReply, Request, Response, Errnos
  <2>3. NoStat \in [size : 0..MaxInt, mtime : Nat]
    BY <1>0 DEF NoStat
  <2>4. copy \in [size : Int, mtime : Nat, data : Seq(Bytes)]
    BY <1>0, <1>1 DEF Init
  <2>5. req.whole => req.offset = 0 /\ req.length = 0
    BY <1>1 DEF Init, NoRequest
  <2> QED BY <1>0, <1>1, <2>1, <2>2, <2>3, <2>4, <2>5 DEF Init, Typed
<1>2. ASSUME Typed, [Next]_vars PROVE Typed'
  <2> USE DEF fileVars, serverVars, clientVars
  <2>0. /\ file.kind \in {"none", "dir", "file"} /\ file.data \in Seq(Bytes) /\ file.mtime \in Nat
        /\ req.size \in Int /\ req.mtime \in Nat /\ res.size \in Int /\ res.mtime \in Nat
        /\ res.data \in Seq(Bytes) /\ res.bytesRead \in Int
        /\ st.size \in Int /\ st.mtime \in Nat
        /\ copy.data \in Seq(Bytes) /\ copy.size \in Int /\ copy.mtime \in Nat
    BY <1>0, <1>2 DEF Typed, FileType, Request, Response
  <2>1. ASSUME NEW system \in BOOLEAN, NEW whole \in BOOLEAN, NEW o \in Offsets, NEW l \in Lengths,
               Call(system, whole, o, l)
        PROVE  Typed'
    <3>1. o \in Int32 /\ l \in Int32 /\ 0 \in Int
      OBVIOUS
    <3>2. /\ req' = [system |-> system, whole |-> whole, offset |-> o, length |-> l,
                     size |-> IF whole THEN copy.size ELSE 0,
                     mtime |-> IF whole THEN copy.mtime ELSE 0]
          /\ whole => o = 0 /\ l = 0
      BY <2>1 DEF Call
    <3>3. req' \in Request /\ (req'.whole => req'.offset = 0 /\ req'.length = 0)
      BY <2>0, <3>1, <3>2 DEF Request
    <3> QED BY <1>2, <2>1, <3>3 DEF Call, Typed
  <2>2. CASE Receive
    <3>1. copy' \in [size : Int, mtime : Nat, data : Seq(Bytes)]
      <4>1. CASE req.whole /\ res.err = "OK"
        BY <2>0, <2>2, <4>1 DEF Receive
      <4>2. CASE ~(req.whole /\ res.err = "OK")
        BY <1>2, <2>2, <4>2 DEF Receive, Typed
      <4> QED BY <4>1, <4>2
    <3>2. NoRequest \in Request /\ NoReply \in Response
      BY <1>0 DEF NoRequest, NoReply, Request, Response, Errnos
    <3>3. NoStat \in [size : 0..MaxInt, mtime : Nat]
      BY <1>0 DEF NoStat
    <3>4. NoRequest.offset = 0 /\ NoRequest.length = 0
      BY DEF NoRequest
    <3> QED BY <1>0, <1>2, <2>2, <3>1, <3>2, <3>3, <3>4 DEF Receive, Typed
  <2>3. ASSUME NEW f \in Named, Denied \/ StatEnds(f) PROVE Typed'
    <3>1. \E err \in Errnos : Reply(err, req.size, req.mtime, -1)
      BY <2>3 DEF Denied, StatEnds, Errnos
    <3>2. pc' = "reply" /\ res' \in Response
      BY <1>0, <2>0, <3>1, ReplyTyped
    <3> QED BY <1>2, <2>3, <3>2 DEF Denied, StatEnds, Typed
  <2>4. ASSUME NEW f \in Named, Stat(f) PROVE Typed'
    <3>0. f.mtime \in Nat /\ Len(f.data) \in 0..MaxInt
      BY <1>2, NamedTyped
    <3>1. st' \in [size : 0..MaxInt, mtime : Nat] /\ len' \in Int32
      BY <1>2, <2>4, <3>0, Sizes DEF Stat
    <3>2. \/ pc' = "open" /\ res' = res /\ buffer' = TRUE
          \/ /\ \E err \in Errnos, n \in {-1, 0}, size \in {0, Len(f.data)} :
                  Reply(err, size, f.mtime, n)
             /\ buffer' = buffer
      BY <2>4 DEF Stat, Errnos
    <3>3. res' \in Response /\ pc' \in {"open", "reply"} /\ buffer' \in BOOLEAN
      BY <1>0, <1>2, <3>0, <3>2, ReplyTyped DEF Typed
    <3>4. pc' = "open" => len' >= 0
      BY <1>2, <2>4, StatOpens
    <3> QED BY <1>2, <2>4, <3>1, <3>3, <3>4 DEF Stat, Typed
  <2>5. ASSUME NEW f \in Named, Open(f) PROVE Typed'
    BY <1>2, <2>0, <2>5, NamedTyped DEF Open, Typed
  <2>6. ASSUME NEW f \in Named, OpenFails(f) \/ SeekFails \/ ReadFails PROVE Typed'
    <3>1. \E err \in Errnos : Reply(err, st.size, st.mtime, -1)
      BY <2>6 DEF OpenFails, CannotRead, SeekFails, ReadFails, Errnos
    <3>2. pc' = "reply" /\ res' \in Response
      BY <1>0, <2>0, <3>1, ReplyTyped
    <3> QED BY <1>2, <2>6, <3>2 DEF OpenFails, SeekFails, ReadFails, Typed
  <2>7. CASE Read
    <3>1. PICK data \in Opened :
            res' = [err |-> "OK", size |-> st.size, mtime |-> st.mtime,
                    bytesRead |-> Len(Part(data)), data |-> Part(data)]
      BY <2>7 DEF Read, Part
    <3>2. data \in Seq(Bytes) /\ len >= 0
      BY <1>2, <2>0, <2>7, <3>1 DEF Typed, Read, Opened
    <3>3. Part(data) \in Seq(Bytes) /\ Len(Part(data)) \in Int
      BY <1>2, <3>2, PartTyped
    <3>4. res' \in Response
      BY <2>0, <3>1, <3>3 DEF Response, Errnos
    <3> QED BY <1>2, <2>7, <3>4 DEF Read, Typed
  <2>8. CASE Transmit
    BY <1>2, <2>8 DEF Transmit, Typed
  <2>9. CASE Tick
    BY <1>2, <2>9 DEF Tick, Typed
  <2>10. ASSUME NEW kind \in {"none", "dir", "file"}, NEW data \in Seq(Bytes),
                Len(data) <= MaxInt, Write(kind, data)
         PROVE  Typed'
    <3>1. file' \in FileType /\ file'.data = data
      BY <1>2, <2>10 DEF Write, FileType, Typed
    <3> QED BY <1>2, <2>10, <3>1 DEF Write, Typed
  <2>11. CASE UNCHANGED vars
    BY <1>2, <2>11 DEF vars, Typed
  <2>12. ASSUME NEW c \in Contents, Write("file", c) PROVE Typed'
    BY <2>10, <2>12
  <2>13. ASSUME NEW k \in {"none", "dir"}, Write(k, <<>>) PROVE Typed'
    <3>1. <<>> \in Seq(Bytes) /\ Len(<<>>) <= MaxInt
      OBVIOUS
    <3> QED BY <2>10, <2>13, <3>1
  <2> QED
    BY <1>2, <2>1, <2>2, <2>3, <2>4, <2>5, <2>6, <2>7, <2>8, <2>9, <2>11, <2>12,
       <2>13
    DEF Next, Server, Named
<1> QED BY <1>1, <1>2, PTL DEF Spec

----------------------------------------------------------------------------
(* Sizes, times and the buffer *)

\* A buffer exists from the allocation to the reply, unless an error frees it; what was
\* opened fits into an int32_t, so that what is read of it does.
BufferInv ==
  /\ file.mtime <= clock /\ clock <= MaxTime
  /\ calls \in 0..MaxCalls
  /\ rewritten \in BOOLEAN /\ raced \in BOOLEAN /\ shrunk \in BOOLEAN
  /\ astray \subseteq {"stat", "open"} /\ strayCopy \in BOOLEAN
  /\ Len(handle) <= MaxInt
  /\ res.bytesRead \in -1..MaxInt
  /\ pc \in {"idle", "stat", "receive"} => ~buffer
  /\ pc \in {"open", "read"} => buffer
  /\ pc = "reply" /\ res.bytesRead > 0 => buffer
  /\ pc = "reply" /\ res.err # "OK" => ~buffer /\ res.bytesRead = -1

LEMMA BufferStep ==
  ASSUME Typed, BufferInv, [Next]_vars
  PROVE  BufferInv'
<1> USE DEF fileVars, serverVars, clientVars, races
<1>0. /\ file.mtime \in Nat /\ clock \in Nat /\ file.data \in Seq(Bytes) /\ handle \in Seq(Bytes)
      /\ Len(file.data) <= MaxInt /\ buffer \in BOOLEAN
  BY DEF Typed, FileType
<1>r. \A err, size, mtime, n : Reply(err, size, mtime, n) =>
        pc' = "reply" /\ res'.err = err /\ res'.bytesRead = n
  BY DEF Reply
<1>a. ASSUME NEW use \in {"stat", "open"}, NEW f, BufferInv, Led(use, f)
      PROVE  astray' \subseteq {"stat", "open"}
  BY <1>a, Zenon DEF BufferInv, Led
<1>s. \A n \in {-1, 0} : n \in -1..MaxInt
  OBVIOUS
<1>1. ASSUME NEW system \in BOOLEAN, NEW whole \in BOOLEAN, NEW o \in Offsets, NEW l \in Lengths,
             Call(system, whole, o, l)
      PROVE  BufferInv'
  <2>1. /\ calls < MaxCalls /\ calls' = calls + 1 /\ pc = "idle" /\ pc' = "stat"
        /\ UNCHANGED <<fileVars, handle, buffer, res, shrunk, astray, strayCopy>>
    BY <1>1 DEF Call
  <2>2. raced' \in BOOLEAN
    BY <1>1, Zenon DEF Call
  <2> QED BY <2>1, <2>2 DEF BufferInv
<1>2. CASE Receive
  <2>1. /\ pc = "receive" /\ pc' = "idle" /\ handle' = <<>> /\ res'.bytesRead = -1
        /\ UNCHANGED <<fileVars, buffer, calls>> /\ astray' = {} /\ raced' = FALSE
        /\ shrunk' = FALSE
    BY <1>2 DEF Receive, NoReply
  <2>3. strayCopy' \in BOOLEAN
    BY <1>2, Zenon DEF Receive, BufferInv
  <2>2. Len(<<>>) = 0 /\ -1 \in -1..MaxInt
    OBVIOUS
  <2>4. astray' \subseteq {"stat", "open"} /\ raced' \in BOOLEAN /\ shrunk' \in BOOLEAN
    BY <2>1
  <2> QED BY <2>1, <2>2, <2>3, <2>4 DEF BufferInv
<1>3. ASSUME NEW f \in Named, Denied \/ StatEnds(f) PROVE BufferInv'
  <2>1. /\ pc = "stat" /\ \E err : Reply(err, req.size, req.mtime, -1)
        /\ UNCHANGED <<fileVars, handle, buffer, calls, races, strayCopy>>
    BY <1>3 DEF Denied, StatEnds
  <2>2. pc' = "reply" /\ res'.bytesRead = -1
    BY <1>r, <2>1
  <2>3. astray' \subseteq {"stat", "open"}
    BY <1>3, <1>a DEF Denied, StatEnds, BufferInv
  <2> QED BY <2>1, <2>2, <2>3 DEF BufferInv
<1>4. ASSUME NEW f \in Named, Stat(f) PROVE BufferInv'
  <2>1. pc = "stat" /\ UNCHANGED <<fileVars, handle, calls, races, strayCopy>>
    BY <1>4 DEF Stat
  <2>2. \/ pc' = "open" /\ res' = res /\ buffer' = TRUE
        \/ pc' = "reply" /\ buffer' = buffer /\ res'.bytesRead \in {-1, 0}
           /\ (res'.err # "OK" => res'.bytesRead = -1)
    BY <1>4, <1>r DEF Stat
  <2>3. ~buffer
    BY <2>1 DEF BufferInv
  <2>4. astray' \subseteq {"stat", "open"}
    BY <1>4, <1>a DEF Stat
  <2> QED BY <1>s, <2>1, <2>2, <2>3, <2>4 DEF BufferInv
<1>5. ASSUME NEW f \in Named, Open(f) PROVE BufferInv'
  <2>1. astray' \subseteq {"stat", "open"}
    BY <1>5, <1>a DEF Open
  <2>2. Len(f.data) <= MaxInt
    BY NamedTyped
  <2> QED BY <1>0, <1>5, <2>1, <2>2 DEF Open, BufferInv
<1>6. ASSUME NEW f \in Named, OpenFails(f) \/ SeekFails \/ ReadFails PROVE BufferInv'
  <2>1. /\ buffer' = FALSE /\ UNCHANGED <<fileVars, handle, calls, races, strayCopy>>
        /\ \E err : Reply(err, st.size, st.mtime, -1)
    BY <1>6 DEF OpenFails, CannotRead, SeekFails, ReadFails
  <2>2. pc' = "reply" /\ res'.bytesRead = -1
    BY <1>r, <2>1
  <2>3. astray' \subseteq {"stat", "open"}
    BY <1>6, <1>a DEF OpenFails, SeekFails, ReadFails, BufferInv
  <2> QED BY <2>1, <2>2, <2>3 DEF BufferInv
<1>7. CASE Read
  <2>1. /\ pc = "read" /\ pc' = "reply" /\ UNCHANGED <<fileVars, handle, buffer, calls, races, astray, strayCopy>>
    BY <1>7 DEF Read
  <2>2. PICK data \in Opened :
          res' = [err |-> "OK", size |-> st.size, mtime |-> st.mtime,
                  bytesRead |-> Len(Part(data)), data |-> Part(data)]
    BY <1>7 DEF Read, Part
  <2>3. data \in Seq(Bytes) /\ Len(data) <= MaxInt /\ len >= 0
    BY <1>0, <2>1, <2>2 DEF BufferInv, Typed, Opened
  <2>4. Len(Part(data)) \in 0..MaxInt
    BY <2>3, PartFits
  <2>5. res'.bytesRead \in -1..MaxInt /\ res'.err = "OK"
    BY <2>2, <2>4
  <2> QED BY <2>1, <2>5 DEF BufferInv
<1>8. CASE Transmit
  BY <1>8 DEF Transmit, BufferInv
<1>9. CASE Tick
  BY <1>0, <1>9 DEF Tick, BufferInv
<1>10. ASSUME NEW kind, NEW data, Write(kind, data) PROVE BufferInv'
  <2>1. /\ file'.mtime = clock /\ UNCHANGED <<clock, serverVars, clientVars>>
    BY <1>10 DEF Write
  <2>2. rewritten' \in BOOLEAN
    BY <1>10, Zenon DEF Write, BufferInv
  <2>3. raced' \in BOOLEAN
    BY <1>10, Zenon DEF Write
  <2>4. shrunk' \in BOOLEAN
    BY <1>10, Zenon DEF Write, BufferInv
  <2> QED BY <1>0, <2>1, <2>2, <2>3, <2>4 DEF BufferInv
<1>11. CASE UNCHANGED vars
  BY <1>11 DEF vars, BufferInv
<1> QED
  BY <1>1, <1>2, <1>3, <1>4, <1>5, <1>6, <1>7, <1>8, <1>9, <1>10, <1>11 DEF Next, Server, Named

(* What is read never exceeds an int32_t, a reply with bytes has a buffer to free and one *)
(* with an error has none; the model's time begins at 2.                                 *)
THEOREM BinderTypeCorrect ==
  ASSUME MaxTime >= 2
  PROVE  Spec => []TypeOK
<1>1. Init => BufferInv
  <2> SUFFICES ASSUME Init PROVE BufferInv
    OBVIOUS
  <2>1. /\ file.mtime = 1 /\ clock = 2 /\ calls = 0 /\ handle = <<>> /\ res.bytesRead = -1
        /\ buffer = FALSE /\ pc = "idle"
    BY DEF Init, NoReply
  <2>2. /\ rewritten \in BOOLEAN /\ raced \in BOOLEAN /\ shrunk \in BOOLEAN
        /\ strayCopy \in BOOLEAN /\ astray = {}
    BY Zenon DEF Init
  <2>3. Len(<<>>) = 0
    OBVIOUS
  <2> QED BY <2>1, <2>2, <2>3 DEF BufferInv
<1>2. Typed /\ BufferInv => TypeOK
  <2> SUFFICES ASSUME Typed, BufferInv PROVE TypeOK
    OBVIOUS
  <2>1. /\ file.kind \in {"none", "dir", "file"} /\ file.mtime \in 0..MaxTime /\ clock \in 0..MaxTime
    BY DEF Typed, FileType, BufferInv
  <2>2. req.offset \in Int32 /\ req.length \in Int32 /\ res.err \in Errnos
    BY DEF Typed, Request, Response
  <2> QED BY <2>1, <2>2 DEF Typed, BufferInv, TypeOK
<1> QED BY <1>1, <1>2, BufferStep, TypedInvariant, PTL DEF Spec

----------------------------------------------------------------------------
(* When nobody writes meanwhile *)

\* What has been checked of the range before the file is opened.
Fits == ~OutOfRange(st.size) /\ st.size # 0 /\ len = Length(st.size)

IsExact(data) ==
  LET size == Len(file.data)
      end == IF req.length > 0 THEN Offset + req.length ELSE size
  IN  /\ data = SubSeq(file.data, Offset + 1, IF end < size THEN end ELSE size)
      /\ end <= MaxInt => end <= size

ServerInv ==
  /\ pc \in {"open", "read"} => Fits
  /\ pc \in {"open", "read"} /\ ~raced /\ astray = {} => Len(file.data) = st.size
  /\ pc = "read" /\ ~raced /\ astray = {} => handle = file.data
  /\ pc \in {"open", "read"} /\ ~shrunk /\ astray = {} =>
       /\ file.kind = "file" => Len(file.data) >= st.size
       /\ pc = "read" => Len(handle) >= st.size
  /\ pc = "reply" /\ buffer /\ ~shrunk /\ astray = {} => res.bytesRead > 0
  /\ pc \in {"reply", "receive"} /\ res.bytesRead > 0 /\ ~raced /\ astray = {}
       => IsExact(res.data)
  /\ pc \in {"idle", "stat", "receive"} => ~buffer
  /\ pc = "idle" => res.bytesRead <= 0

LEMMA PartNotEmpty ==
  ASSUME Typed, Fits, len >= 0, NEW data \in Seq(Bytes), Len(data) >= st.size
  PROVE  Offset < st.size /\ Len(Part(data)) > 0
<1> DEFINE size == st.size
<1>1. size \in 0..MaxInt /\ size # 0 /\ Offset \in 0..MaxInt /\ req.length \in Int /\ req.offset \in Int
  BY Sizes DEF Fits, Typed, Request, Int32
<1>2. ~OutOfRange(size) /\ len = Length(size)
  BY DEF Fits
<1>3. Offset < size
  BY <1>1, <1>2 DEF OutOfRange, Offset
<1>4. /\ req.length <= 0 => len = size - Offset
      /\ req.length > 0 => len = req.length
  BY <1>1, <1>2, Sizes
<1>5. len > 0
  BY <1>1, <1>3, <1>4
<1>6. Len(data) \in Nat
  OBVIOUS
<1>7. Offset < Len(data)
  BY <1>1, <1>3, <1>6
<1> QED BY <1>3, <1>5, <1>7, PartTyped

LEMMA PartIsExact ==
  ASSUME Typed, Fits, len >= 0, Len(file.data) = st.size
  PROVE  IsExact(Part(file.data))
<1> DEFINE size == Len(file.data)
<1>1. size \in 0..MaxInt /\ size # 0 /\ Offset \in 0..MaxInt /\ req.length \in Int /\ req.offset \in Int
  BY Sizes DEF Fits, Typed, Request, Int32
<1>2. ~OutOfRange(size) /\ len = Length(size)
  BY DEF Fits
<1>4. /\ req.length <= 0 => len = size - Offset
      /\ req.length > 0 => len = req.length
      /\ req.length > 0 /\ Offset + req.length <= MaxInt => Offset + req.length <= size
  BY <1>1, <1>2, Sizes
<1>7. CASE req.length > 0
  BY <1>1, <1>4, <1>7 DEF IsExact, Part
<1>8. CASE req.length <= 0
  <2>1. Offset + len = size
    BY <1>1, <1>4, <1>8
  <2> QED BY <1>1, <1>8, <2>1 DEF IsExact, Part
<1> QED BY <1>1, <1>7, <1>8

(* A file that nobody writes to is opened as it was when its size was checked, so that  *)
(* a buffer is filled with the part that was asked for.                                *)
LEMMA ServerInvariant == Spec => []ServerInv
<1>1. Init => ServerInv
  BY DEF Init, ServerInv, NoReply
<1>2. ASSUME Typed, Typed', ServerInv, [Next]_vars PROVE ServerInv'
  <2> USE DEF fileVars, serverVars, clientVars, races, ServerInv
  <2>0. \A err, size, mtime, n : Reply(err, size, mtime, n) =>
          pc' = "reply" /\ res'.bytesRead = n
    BY DEF Reply
  <2>1. ASSUME NEW system \in BOOLEAN, NEW whole \in BOOLEAN, NEW o \in Offsets, NEW l \in Lengths,
               Call(system, whole, o, l)
        PROVE  ServerInv'
    <3>1. pc' = "stat" /\ res' = res /\ buffer' = buffer /\ pc = "idle"
      BY <2>1 DEF Call
    <3> QED BY <1>2, <3>1
  <2>2. CASE Receive
    BY <1>2, <2>2 DEF Receive, NoReply, Typed
  <2>3. ASSUME NEW f \in Named, Denied \/ StatEnds(f) PROVE ServerInv'
    <3>1. \E err \in Errnos : Reply(err, req.size, req.mtime, -1)
      BY <2>3 DEF Denied, StatEnds, Errnos
    <3>2. pc' = "reply" /\ res'.bytesRead = -1
      BY <2>0, <3>1
    <3>3. pc = "stat" /\ buffer' = buffer
      BY <2>3 DEF Denied, StatEnds
    <3> QED BY <1>2, <3>2, <3>3
  <2>4. ASSUME NEW f \in Named, Stat(f) PROVE ServerInv'
    <3>1. CASE pc' = "open"
      <4>1. /\ st'.size = Len(f.data) /\ len' = Length(Len(f.data))
            /\ ~OutOfRange(Len(f.data)) /\ Len(f.data) # 0
        <5>1. Typed
          BY <1>2
        <5>2. /\ st' = [size |-> Len(f.data), mtime |-> f.mtime] /\ len' = Length(Len(f.data))
              /\ ~OutOfRange(Len(f.data)) /\ Len(f.data) # 0
          BY <2>4, <3>1, <5>1, StatOpens, Zenon
        <5> QED BY <5>2
      <4>2. req' = req /\ raced' = raced /\ file' = file
        BY <2>4 DEF Stat
      <4>3. Fits'
        BY <4>1, <4>2 DEF Fits, OutOfRange, Length, Offset
      <4>4. astray' = {} => f = file
        BY <2>4 DEF Stat, Led
      <4>5. Len(f.data) \in Nat
        BY <1>2, NamedTyped
      <4> QED BY <3>1, <4>1, <4>2, <4>3, <4>4, <4>5
    <3>2. CASE pc' # "open"
      <4>1. pc' = "reply" /\ res'.bytesRead \in {-1, 0} /\ buffer' = buffer
        BY <2>0, <2>4, <3>2 DEF Stat
      <4> QED BY <1>2, <2>4, <4>1 DEF Stat
    <3> QED BY <3>1, <3>2
  <2>5. ASSUME NEW f \in Named, Open(f) PROVE ServerInv'
    <3>1. astray' = {} => astray = {} /\ f = file
      BY <2>5 DEF Open, Led
    <3>2. /\ pc = "open" /\ pc' = "read" /\ handle' = f.data /\ f.kind = "file"
          /\ UNCHANGED <<fileVars, st, len, req, races>>
      BY <2>5 DEF Open
    <3>3. Fits'
      BY <1>2, <3>2 DEF Fits, OutOfRange, Length, Offset
    <3> QED BY <1>2, <3>1, <3>2, <3>3
  <2>6. ASSUME NEW f \in Named, OpenFails(f) \/ SeekFails \/ ReadFails PROVE ServerInv'
    <3>1. pc' = "reply" /\ res'.bytesRead = -1 /\ buffer' = FALSE
      BY <2>0, <2>6 DEF OpenFails, CannotRead, SeekFails, ReadFails
    <3> QED BY <1>2, <3>1
  <2>7. CASE Read
    <3>1. /\ pc' = "reply" /\ UNCHANGED <<file, req, st, len, handle, buffer, races, astray>>
          /\ pc = "read"
      BY <2>7 DEF Read
    <3>2. PICK data \in Opened :
            res' = [err |-> "OK", size |-> st.size, mtime |-> st.mtime,
                    bytesRead |-> Len(Part(data)), data |-> Part(data)]
      BY <2>7 DEF Read, Part
    <3>3. data \in Seq(Bytes) /\ st.size \in Int /\ len >= 0 /\ Fits
      BY <1>2, <3>1 DEF Typed, FileType, Opened
    <3>4. ASSUME ~shrunk, astray = {} PROVE res'.bytesRead > 0
      <4>1. Len(data) >= st.size
        BY <1>2, <3>1, <3>4 DEF Opened
      <4> QED BY <1>2, <3>2, <3>3, <4>1, PartNotEmpty
    <3>5. ASSUME ~raced, astray = {} PROVE IsExact(res.data)'
      <4>1. data = file.data /\ Len(file.data) = st.size
        BY <1>2, <3>1, <3>5 DEF Opened
      <4>2. IsExact(res'.data)
        BY <1>2, <3>2, <3>3, <4>1, PartIsExact
      <4> QED BY <3>1, <4>2, Zenon DEF IsExact, Offset
    <3> QED BY <1>2, <3>1, <3>4, <3>5
  <2>8. CASE Transmit
    BY <1>2, <2>8 DEF Transmit, IsExact, Offset
  <2>9. CASE Tick
    BY <1>2, <2>9 DEF Tick, Fits, OutOfRange, Length, Offset, IsExact
  <2>10. ASSUME NEW kind, NEW data, Write(kind, data) PROVE ServerInv'
    <3>1. /\ UNCHANGED <<clock, serverVars, clientVars>> /\ raced' = (pc # "idle")
          /\ shrunk' = (shrunk \/ (pc \in {"open", "read"} /\ kind = "file" /\ Len(data) < st.size))
          /\ file'.kind = kind /\ file'.data = data
      BY <2>10 DEF Write
    <3>2. Fits => Fits'
      BY <3>1 DEF Fits, OutOfRange, Length, Offset
    <3>3. /\ pc' = pc /\ res' = res /\ buffer' = buffer /\ handle' = handle /\ st' = st
          /\ astray' = astray
      BY <3>1
    <3>4. ASSUME pc \in {"open", "read"}, ~shrunk', astray = {}, kind = "file"
          PROVE  Len(data) >= st.size
      <4>1. data \in Seq(Bytes) /\ st.size \in Int
        BY <1>2, <3>1 DEF Typed, FileType
      <4>2. ~(Len(data) < st.size)
        BY <3>1, <3>4, Zenon
      <4> QED BY <4>1, <4>2
    <3>5. pc # "idle" => raced'
      BY <3>1
    <3>6. shrunk => shrunk'
      BY <3>1
    <3> QED BY <1>2, <3>1, <3>2, <3>3, <3>4, <3>5, <3>6
  <2>11. CASE UNCHANGED vars
    BY <1>2, <2>11 DEF vars, Fits, OutOfRange, Length, Offset, IsExact
  <2> QED
    BY <1>2, <2>1, <2>2, <2>3, <2>4, <2>5, <2>6, <2>7, <2>8, <2>9, <2>10, <2>11
    DEF Next, Server, Named
<1> QED BY <1>1, <1>2, TypedInvariant, PTL DEF Spec

(* A reply with bytes is exactly the part that was asked for, for any file, range and    *)
(* width of the integers, when nobody writes to the file meanwhile and the name leads to *)
(* it.                                                                                   *)
THEOREM PartsAreExact == Spec => []ExactPart
<1>1. ServerInv => ExactPart
  BY DEF ServerInv, ExactPart, IsExact
<1> QED BY <1>1, ServerInvariant, PTL

(* Transmit is the only place to lose a buffer, and only with a part that came out empty. *)
THEOREM LeaksAreShrunkFiles == Spec => LeakOnlyIfShrunk
<1>1. ASSUME Typed, ServerInv, [Next]_vars
      PROVE  [leaked' /\ ~leaked => shrunk \/ astray # {}]_vars
  <2> SUFFICES ASSUME Next, leaked', ~leaked PROVE shrunk \/ astray # {}
    BY <1>1
  <2>1. CASE Transmit
    BY <1>1, <2>1 DEF Transmit, ServerInv, Typed, Response
  <2>2. CASE ~Transmit
    <3>1. leaked' = leaked
      BY <2>2 DEF Next, Server, Call, Receive, Denied, StatEnds, Stat, Open, OpenFails, SeekFails,
                  ReadFails, Read, Write, Tick, serverVars, clientVars
    <3> QED BY <3>1
  <2> QED BY <2>1, <2>2
<1> QED BY <1>1, TypedInvariant, ServerInvariant, PTL DEF Spec, LeakOnlyIfShrunk

----------------------------------------------------------------------------
(* When others write *)

\* A time that is compared after its conversion is the same one, below 2^32 seconds.
LEMMA WrappedTime ==
  ASSUME NEW t \in 0..2 * MaxInt + 1, ToInt32(t) >= 0
  PROVE  ToInt32(t) = t
<1>1. ASSUME NEW M \in Nat \ {0}, NEW x \in M..2 * M - 1 PROVE x % M = x - M
  BY <1>1
<1> DEFINE M == 2 * (MaxInt + 1)
<1>2. CASE t <= MaxInt
  BY <1>2, Conversion DEF Int32
<1>3. CASE ~(t <= MaxInt)
  <2>1. t + MaxInt + 1 \in M..2 * M - 1 /\ M \in Nat \ {0}
    BY <1>3
  <2>2. (t + MaxInt + 1) % M = t + MaxInt + 1 - M
    <3> DEFINE x == t + MaxInt + 1
    <3>1. x \in M..2 * M - 1 /\ M \in Nat \ {0}
      BY <2>1
    <3>2. x % M = x - M
      <4> HIDE DEF M, x
      <4> QED BY <1>1, <3>1
    <3> QED BY <3>2
  <2>3. ToInt32(t) = t + MaxInt + 1 - M - (MaxInt + 1)
    BY <2>2 DEF ToInt32
  <2> QED BY <2>3
<1> QED BY <1>2, <1>3

\* Versions of the file have times of their own, until it is written twice within a
\* second: what is known of a version holds of the file as long as the time is the same.
CopyInv ==
  ~strayCopy =>
    /\ copy.mtime <= file.mtime
    /\ ~rewritten /\ copy.mtime = file.mtime => copy.data = file.data

OpenedInv ==
  pc \in {"open", "read"} =>
    /\ req.whole => len = st.size
    /\ astray = {} =>
         /\ st.mtime <= file.mtime
         /\ ~rewritten /\ st.mtime = file.mtime =>
              Len(file.data) = st.size /\ (pc = "read" => handle = file.data)

RepliedInv ==
  pc \in {"reply", "receive"} /\ req.whole /\ res.err = "OK" =>
    /\ res.bytesRead >= 0 /\ astray = {} =>
         /\ res.mtime <= file.mtime
         /\ ~rewritten /\ res.mtime = file.mtime => res.data = file.data
    /\ res.bytesRead < 0 =>
         /\ res.size = copy.size /\ res.mtime = copy.mtime
         /\ ~raced /\ astray = {} => res.mtime = file.mtime

HistoryInv ==
  /\ file.mtime <= clock /\ clock <= MaxTime
  /\ pc # "idle" /\ req.whole => req.size = copy.size /\ req.mtime = copy.mtime
  /\ CopyInv /\ OpenedInv /\ RepliedInv

LEMMA HistoryStep ==
  ASSUME MaxTime <= 2 * MaxInt + 1, Typed, Typed', HistoryInv, [Next]_vars
  PROVE  HistoryInv'
<1> USE DEF fileVars, serverVars, clientVars, races
<1>0. /\ file.mtime \in 0..2 * MaxInt + 1 /\ clock \in Nat
      /\ file.data \in Seq(Bytes) /\ copy.mtime \in Nat /\ st.mtime \in Nat /\ st.size \in 0..MaxInt
      /\ req.mtime \in Nat /\ res.mtime \in Nat /\ res.bytesRead \in Int
      /\ req.whole => req.offset = 0 /\ req.length = 0
  <2>1. /\ file.mtime \in Nat /\ clock \in Nat /\ file.data \in Seq(Bytes) /\ req.mtime \in Nat
        /\ res.mtime \in Nat /\ res.bytesRead \in Int
    BY DEF Typed, FileType, Request, Response
  <2>2. copy.mtime \in Nat /\ st.mtime \in Nat /\ st.size \in 0..MaxInt
        /\ (req.whole => req.offset = 0 /\ req.length = 0)
    BY DEF Typed
  <2>3. file.mtime <= clock /\ clock <= MaxTime
    BY DEF HistoryInv
  <2>4. file.mtime \in 0..2 * MaxInt + 1
    BY <2>1, <2>3
  <2> QED BY <2>1, <2>2, <2>4
<1>1. Unchanged(file) => req.mtime = file.mtime
  <2> SUFFICES ASSUME Unchanged(file) PROVE req.mtime = file.mtime
    OBVIOUS
  <2>1. ToInt32(file.mtime) = req.mtime
    BY DEF Unchanged
  <2>2. ToInt32(file.mtime) >= 0
    BY <1>0, <2>1
  <2> QED BY <1>0, <2>1, <2>2, WrappedTime
<1>2. \A err, size, mtime, n : Reply(err, size, mtime, n) =>
        /\ pc' = "reply" /\ res'.err = err /\ res'.size = size /\ res'.mtime = mtime
        /\ res'.bytesRead = n /\ res'.data = <<>>
  BY DEF Reply
<1>l. \A use, f : Led(use, f) /\ astray' = {} => f = file /\ astray = {}
  BY Zenon DEF Led
<1>3. ASSUME NEW system \in BOOLEAN, NEW whole \in BOOLEAN, NEW o \in Offsets, NEW l \in Lengths,
             Call(system, whole, o, l)
      PROVE  HistoryInv'
  BY <1>3 DEF Call, HistoryInv, CopyInv, OpenedInv, RepliedInv
<1>4. CASE Receive
  <2>1. UNCHANGED <<file, clock, rewritten>> /\ pc = "receive" /\ pc' = "idle"
    BY <1>4 DEF Receive
  <2>2. CASE req.whole /\ res.err = "OK"
    <3>1. copy' = [size |-> res.size, mtime |-> res.mtime,
                   data |-> IF res.bytesRead >= 0 THEN res.data ELSE copy.data]
      BY <1>4, <2>2 DEF Receive
    <3>2. CASE res.bytesRead >= 0
      <4>1. strayCopy' = (astray # {})
        BY <1>4, <2>2, <3>2 DEF Receive
      <4> QED BY <2>1, <2>2, <3>1, <3>2, <4>1 DEF HistoryInv, CopyInv, OpenedInv, RepliedInv
    <3>3. CASE ~(res.bytesRead >= 0)
      <4>1. strayCopy' = strayCopy
        BY <1>4, <2>2, <3>3 DEF Receive
      <4> QED BY <1>0, <2>1, <2>2, <3>1, <3>3, <4>1 DEF HistoryInv, CopyInv, OpenedInv, RepliedInv
    <3> QED BY <3>2, <3>3
  <2>3. CASE ~(req.whole /\ res.err = "OK")
    <3>1. copy' = copy /\ strayCopy' = strayCopy
      BY <1>4, <2>3 DEF Receive
    <3> QED BY <2>1, <3>1 DEF HistoryInv, CopyInv, OpenedInv, RepliedInv
  <2> QED BY <2>2, <2>3
<1>5. ASSUME NEW f \in Named, Denied \/ StatEnds(f) PROVE HistoryInv'
  <2>1. /\ \E err \in Errnos : /\ Reply(err, req.size, req.mtime, -1)
                               /\ err = "OK" => Unchanged(f) /\ Led("stat", f)
        /\ UNCHANGED <<file, clock, rewritten, req, copy, raced, strayCopy>> /\ pc = "stat"
    BY <1>5 DEF Denied, StatEnds, Errnos
  <2>2. /\ pc' = "reply" /\ res'.bytesRead = -1 /\ res'.size = req.size /\ res'.mtime = req.mtime
        /\ res'.err = "OK" => Unchanged(f) /\ Led("stat", f)
    BY <1>2, <2>1
  <2>3. res'.err = "OK" /\ astray' = {} => res'.mtime = file.mtime
    BY <1>1, <1>l, <2>2
  <2> QED BY <2>1, <2>2, <2>3 DEF HistoryInv, CopyInv, OpenedInv, RepliedInv
<1>6. ASSUME NEW f \in Named, Stat(f) PROVE HistoryInv'
  <2>1. UNCHANGED <<file, clock, rewritten, req, copy, raced, strayCopy>> /\ pc = "stat"
    BY <1>6 DEF Stat
  <2>0. /\ astray' = {} => f = file
        /\ f.data \in Seq(Bytes) /\ f.mtime \in Nat /\ Len(f.data) \in 0..MaxInt
    BY <1>6, <1>l, NamedTyped DEF Stat
  <2>2. CASE pc' = "open"
    <3>1. /\ st'.size = Len(f.data) /\ st'.mtime = f.mtime /\ len' = Length(Len(f.data))
      <4>1. st' = [size |-> Len(f.data), mtime |-> f.mtime] /\ len' = Length(Len(f.data))
        BY <1>6, <2>2, StatOpens, Zenon
      <4> QED BY <4>1
    <3>2. req.whole => len' = Len(f.data)
      <4>2. req.whole => Offset = 0 /\ req.length <= 0
        BY <1>0 DEF Offset
      <4> QED BY <2>0, <3>1, <4>2, Sizes
    <3> QED BY <1>0, <2>0, <2>1, <2>2, <3>1, <3>2 DEF HistoryInv, CopyInv, OpenedInv, RepliedInv
  <2>3. CASE pc' # "open"
    <3>1. /\ pc' = "reply" /\ res'.mtime = f.mtime /\ res'.data = <<>>
          /\ res'.err = "OK" => res'.bytesRead = 0 /\ Len(f.data) = 0
      BY <1>2, <1>6, <2>3 DEF Stat
    <3>2. res'.err = "OK" => res'.data = f.data
      BY <2>0, <3>1, Whole
    <3> QED BY <1>0, <2>0, <2>1, <3>1, <3>2 DEF HistoryInv, CopyInv, OpenedInv, RepliedInv
  <2> QED BY <2>2, <2>3
<1>7. ASSUME NEW f \in Named, Open(f) PROVE HistoryInv'
  <2>1. /\ pc = "open" /\ pc' = "read" /\ handle' = f.data
        /\ UNCHANGED <<file, clock, rewritten, req, st, len, copy, strayCopy>>
        /\ astray' = {} => f = file /\ astray = {}
    BY <1>7, <1>l DEF Open
  <2> QED BY <2>1 DEF HistoryInv, CopyInv, OpenedInv, RepliedInv
<1>8. ASSUME NEW f \in Named, OpenFails(f) \/ SeekFails \/ ReadFails PROVE HistoryInv'
  <2>1. UNCHANGED <<file, clock, rewritten, req, copy, raced, strayCopy>> /\ pc \in {"open", "read"}
    BY <1>8 DEF OpenFails, SeekFails, ReadFails
  <2>2. pc' = "reply" /\ (res'.err = "OK" => Offset > 0)
    BY <1>2, <1>8 DEF OpenFails, CannotRead, SeekFails, ReadFails
  <2>3. req.whole => ~(Offset > 0)
    BY <1>0 DEF Offset
  <2> QED BY <2>1, <2>2, <2>3 DEF HistoryInv, CopyInv, OpenedInv, RepliedInv
<1>9. CASE Read
  <2>1. PICK data \in Opened :
          res' = [err |-> "OK", size |-> st.size, mtime |-> st.mtime,
                  bytesRead |-> Len(Part(data)), data |-> Part(data)]
    BY <1>9 DEF Read, Part
  <2>2. UNCHANGED <<file, clock, rewritten, req, copy, raced, astray, strayCopy>>
        /\ pc = "read" /\ pc' = "reply"
    BY <1>9 DEF Read
  <2>3. res'.bytesRead >= 0
    <3>1. data \in Seq(Bytes) /\ len >= 0
      BY <1>0, <2>1, <2>2 DEF Typed, Opened
    <3> QED BY <2>1, <3>1, PartTyped
  <2>4. ASSUME req.whole, ~rewritten, st.mtime = file.mtime, astray = {}
        PROVE  res'.data = file.data
    <3>1. handle = file.data /\ len = Len(file.data)
      BY <2>2, <2>4 DEF HistoryInv, OpenedInv
    <3>2. data = file.data /\ Offset = 0
      BY <1>0, <2>1, <2>4, <3>1 DEF Offset, Opened
    <3>3. Part(data) = SubSeq(file.data, 1, Len(file.data))
      BY <1>0, <3>1, <3>2 DEF Part
    <3> QED BY <1>0, <2>1, <3>3, Whole
  <2> QED BY <2>1, <2>2, <2>3, <2>4 DEF HistoryInv, CopyInv, OpenedInv, RepliedInv
<1>10. CASE Transmit
  BY <1>10 DEF Transmit, HistoryInv, CopyInv, OpenedInv, RepliedInv
<1>11. CASE Tick
  BY <1>0, <1>11 DEF Tick, HistoryInv, CopyInv, OpenedInv, RepliedInv
<1>12. ASSUME NEW kind, NEW data, Write(kind, data) PROVE HistoryInv'
  <2>1. /\ file'.mtime = clock /\ rewritten' = (rewritten \/ file.mtime = clock)
        /\ UNCHANGED <<clock, pc, req, st, len, handle, buffer, res, copy, astray, strayCopy>>
        /\ raced' = (pc # "idle")
    BY <1>12 DEF Write, FileType
  <2>2. file.mtime <= clock /\ clock <= MaxTime
    BY DEF HistoryInv
  <2>3. \A m \in Int : m <= file.mtime => m <= file'.mtime /\ (~rewritten' => m # file'.mtime)
    <3>1. file.mtime = clock => rewritten'
      BY <2>1
    <3>2. file'.mtime = clock
      BY <2>1
    <3> QED BY <1>0, <2>2, <3>1, <3>2
  <2>4. CopyInv'
    BY <1>0, <2>1, <2>3 DEF HistoryInv, CopyInv
  <2>5. OpenedInv'
    BY <1>0, <2>1, <2>3 DEF HistoryInv, OpenedInv
  <2>6. RepliedInv'
    <3>1. RepliedInv
      BY DEF HistoryInv
    <3>2. /\ res.mtime <= file.mtime => res.mtime <= file'.mtime
          /\ res.mtime <= file.mtime /\ ~rewritten' => res.mtime # file'.mtime
      BY <1>0, <2>3
    <3>3. pc \in {"reply", "receive"} => raced'
      BY <2>1
    <3> QED BY <2>1, <3>1, <3>2, <3>3 DEF RepliedInv
  <2> QED BY <1>0, <2>1, <2>2, <2>4, <2>5, <2>6 DEF HistoryInv
<1>13. CASE UNCHANGED vars
  BY <1>13 DEF vars, HistoryInv, CopyInv, OpenedInv, RepliedInv
<1> QED
  BY <1>3, <1>4, <1>5, <1>6, <1>7, <1>8, <1>9, <1>10, <1>11, <1>12, <1>13
  DEF Next, Server, Named

(* A client that is told its copy is still right has the file as it is, unless the file *)
(* was written twice within a second, whatever was written while the copy was made, as  *)
(* long as the name leads to the file.  The time is only converted where it is compared *)
(* (line 712): after 2038 nothing is called unchanged, and only from 2^32 seconds on    *)
(* could a time of long ago be taken for the new one.                                   *)
THEOREM UnchangedIsTheSame ==
  ASSUME MaxTime \in 2..2 * MaxInt + 1
  PROVE  Spec => []UnchangedMeansSame
<1>1. Init => HistoryInv
  <2> SUFFICES ASSUME Init PROVE HistoryInv
    OBVIOUS
  <2>1. file.mtime = 1 /\ clock = 2 /\ copy.mtime = 0 /\ pc = "idle"
    BY DEF Init
  <2> QED BY <2>1 DEF HistoryInv, CopyInv, OpenedInv, RepliedInv
<1>2. HistoryInv => UnchangedMeansSame
  BY DEF HistoryInv, RepliedInv, CopyInv, UnchangedMeansSame
<1>3. MaxTime <= 2 * MaxInt + 1
  OBVIOUS
<1> QED BY <1>1, <1>2, <1>3, HistoryStep, TypedInvariant, PTL DEF Spec
=============================================================================
