-------------------------- MODULE MembasedProofs --------------------------
(***************************************************************************)
(* Proofs about the memory-based service, for any number of forked         *)
(* processes, any files and any chunk size.                                *)
(***************************************************************************)
EXTENDS MembasedProperties, TLAPS

\* A path that is on its way into the slot fits there.
PathFits ==
  \A c \in Clients :
    HasSlot(c) \/ pc[c] = "waitIdle" => my[c].path \notin LongPaths

----------------------------------------------------------------------------
(* Types *)

\* Every disjunct of Next is a step of the looper, of one client, or one of these.
Others(c, op, f, p) ==
  \/ StartStep \/ Restrict \/ (c \in Forked /\ Fork(c))
  \/ CallDenied(c, op, f) \/ CallTooLong(c, op, f) \/ Call(c, op, f)
  \/ ChangeFile(f) \/ SpuriousWakeup(p) \/ ServerDies \/ ClientDies(c)

\* The default call record is well formed: some path fits into the slot.
LEMMA NoCallType == NoCall \in CallRecord /\ NoCall.path \in Files \ LongPaths
  <1>1. (CHOOSE f \in Files \ LongPaths : TRUE) \in Files \ LongPaths
    BY FileAssumption
  <1>2. <<>> \in Seq(Nat)
    OBVIOUS
  <1> QED BY <1>1, <1>2 DEF NoCall, CallRecord, Errnos

\* The fields of the record no call has been made with.
LEMMA NoCallFields ==
  NoCall.op = "NONE" /\ NoCall.buf = <<>> /\ NoCall.got = FALSE /\ NoCall.alloc = FALSE
  BY DEF NoCall

\* Chunk() of a file's bytes is again a sequence of bytes.
LEMMA ChunkType ==
  ASSUME NEW bytes \in Seq(Nat), NEW offset \in Nat
  PROVE  Chunk(bytes, offset) \in Seq(Nat)
  BY FileAssumption DEF Chunk

\* The initial states are well typed.
LEMMA TypeInit == Init => TypeOK
  <1> SUFFICES ASSUME Init PROVE TypeOK
    OBVIOUS
  <1>1. shm \in Slot
    BY NoCallType DEF Init, Slot, Errnos
  <1>2. my \in [Clients -> CallRecord]
    BY NoCallType DEF Init
  <1>3. fs \in [Files -> FileState]
    BY FileAssumption DEF Init
  <1> QED BY <1>1, <1>2, <1>3 DEF Init, TypeOK, Procs, PcLabels

\* Every step of the looper keeps the types.
LEMMA TypeLooper == TypeOK /\ LooperStep => TypeOK'
  <1> SUFFICES ASSUME TypeOK, LooperStep PROVE TypeOK'
    OBVIOUS
  <1> USE DEF TypeOK, Procs, Slot, Errnos
  <1>1. CASE LooperStart
    BY <1>1 DEF LooperStart, bounds
  <1>2. CASE LooperWaits
    BY <1>2 DEF LooperWaits, Block, bounds
  <1>3. CASE LooperTakes
    BY <1>3 DEF LooperTakes, bounds
  <1>4. ASSUME NEW answer \in Slot, Reply(answer) PROVE TypeOK'
    BY <1>4 DEF Reply, bounds
  <1>f. fs[shm.path] \in FileState
    OBVIOUS
  <1>l. Len(fs[shm.path].bytes) \in Nat
    BY <1>f DEF FileState
  <1>5. CASE ServeQuery
    <2>1. QueryAnswer(fs[shm.path]) \in Slot
      BY <1>f, <1>l DEF QueryAnswer, FileState
    <2> QED BY <1>4, <1>5, <2>1 DEF ServeQuery
  <1>6. CASE ServeReadStat
    BY <1>6, <1>l DEF ServeReadStat, sync, bounds
  <1>7. CASE ServeReadMissing
    BY <1>4, <1>7 DEF ServeReadMissing
  <1>8. CASE ServeReadOpenFails
    BY <1>4, <1>8 DEF ServeReadOpenFails
  <1>9. CASE ServeReadSeekFails
    <2>1. PICK e \in {"OK", "FERR"} : Reply([shm EXCEPT !.error = e])
      BY <1>9 DEF ServeReadSeekFails
    <2>2. [shm EXCEPT !.error = e] \in Slot
      OBVIOUS
    <2> QED BY <1>4, <2>1, <2>2
  <1>10. CASE ServeReadIoError
    <2>1. [shm EXCEPT !.bytes = <<>>, !.eof = FALSE, !.error = "FERR"] \in Slot
      <3>1. shm \in Slot /\ <<>> \in Seq(Nat) /\ FALSE \in BOOLEAN /\ "FERR" \in Errnos
        OBVIOUS
      <3> HIDE DEF Errnos, TypeOK
      <3> QED BY <3>1
    <2> QED BY <1>4, <1>10, <2>1 DEF ServeReadIoError
  <1>11. CASE ServeReadChunk
    <2>1. Chunk(fs[shm.path].bytes, shm.offset) \in Seq(Nat)
      BY <1>f, ChunkType DEF FileState
    <2>2. ASSUME NEW b \in Seq(Nat), NEW e \in BOOLEAN
          PROVE  [shm EXCEPT !.bytes = b, !.eof = e, !.error = "OK"] \in Slot
      <3>1. shm \in Slot /\ "OK" \in Errnos
        OBVIOUS
      <3> HIDE DEF Errnos, TypeOK
      <3> QED BY <3>1
    <2>3. (shm.offset + ChunkSize > Len(fs[shm.path].bytes)) \in BOOLEAN
      OBVIOUS
    <2> HIDE DEF TypeOK, Errnos, Slot
    <2> QED BY <1>4, <1>11, <2>1, <2>2, <2>3 DEF ServeReadChunk
  <1> QED BY <1>1, <1>2, <1>3, <1>5, <1>6, <1>7, <1>8, <1>9, <1>10, <1>11
          DEF LooperStep

\* Every step of a client keeps the types.
LEMMA TypeClient ==
  ASSUME TypeOK, PathFits, NEW c \in Clients, ClientStep(c)
  PROVE  TypeOK'
  <1> USE DEF TypeOK, Procs, PcLabels, sync, bounds
  <1>t. my[c] \in CallRecord /\ shm \in Slot
    OBVIOUS
  <1>1. CASE AwaitsIdle(c) \/ AwaitsResponse(c)
    BY <1>1 DEF AwaitsIdle, AwaitsResponse, Block
  <1>2. CASE TakeSlot(c)
    <2>1. my[c].path \in Files \ LongPaths
      BY <1>2, <1>t DEF TakeSlot, PathFits, CallRecord
    <2>2. shm' \in Slot
      BY <1>2, <1>t, <2>1 DEF TakeSlot, Slot, CallRecord
    <2> QED BY <1>2, <2>2 DEF TakeSlot
  <1>3. CASE CallService(c)
    <2>1. shm' \in Slot
      BY <1>3, <1>t DEF CallService, Slot, CallRecord, Errnos
    <2> QED BY <1>3, <2>1 DEF CallService
  <1>4. CASE TakeResponse(c)
    BY <1>4 DEF TakeResponse
  <1>5. ASSUME NEW e \in Errnos, MakeIdle(c, e), my' \in [Clients -> CallRecord]
        PROVE  TypeOK'
    <2>1. shm' \in Slot
      BY <1>5 DEF MakeIdle, Slot
    <2> QED BY <1>5, <2>1 DEF MakeIdle
  <1>e. shm.error \in Errnos /\ "EBUSY" \in Errnos /\ shm.bytes \in Seq(Nat)
    BY <1>t DEF Slot, Errnos
  <1>6. CASE FinishQuery(c)
    <2>1. my' \in [Clients -> CallRecord]
      BY <1>6, <1>t DEF FinishQuery, CallRecord, Slot
    <2> QED BY <1>5, <1>6, <1>e, <2>1 DEF FinishQuery
  <1>7. CASE ReadFailed(c)
    BY <1>5, <1>7, <1>e DEF ReadFailed
  <1>8. CASE ReadBusy(c)
    BY <1>5, <1>8, <1>e DEF ReadBusy
  <1>9. my[c].buf \o shm.bytes \in Seq(Nat) /\ my[c].offset + Len(shm.bytes) \in Nat
    BY <1>t, <1>e DEF CallRecord
  <1>10. Copied(c) \in CallRecord
    BY <1>t, <1>9 DEF Copied, CallRecord, Slot
  <1>11. CASE ReadLast(c)
    <2>1. my' \in [Clients -> CallRecord]
      BY <1>11, <1>9, <1>10 DEF ReadLast, CallRecord
    <2> QED BY <1>5, <1>11, <1>e, <2>1 DEF ReadLast
  <1>12. CASE ReadMore(c)
    <2>1. my' \in [Clients -> CallRecord]
      BY <1>12, <1>9, <1>10 DEF ReadMore, CallRecord
    <2>2. shm' \in Slot
      BY <1>12, <1>9 DEF ReadMore, Slot
    <2> QED BY <1>12, <2>1, <2>2 DEF ReadMore
  <1>13. CASE FirstLook(c)
    <2>1. CASE my[c].op = "READ_FILE"
      <3> DEFINE keep == my[c].alloc /\ shm.error = "OK"
      <3>1. ASSUME NEW b \in BOOLEAN
            PROVE  [my EXCEPT ![c].alloc = b] \in [Clients -> CallRecord]
        BY <1>t DEF CallRecord
      <3>2. keep \in BOOLEAN
        OBVIOUS
      <3>3. my' = [my EXCEPT ![c].alloc = keep]
        BY <1>13, <2>1 DEF FirstLook
      <3>4. my' \in [Clients -> CallRecord]
        <4> HIDE DEF keep, TypeOK
        <4> QED BY <3>1, <3>2, <3>3
      <3> QED BY <1>13, <3>4 DEF FirstLook
    <2>2. CASE my[c].op # "READ_FILE"
      <3>1. my' \in [Clients -> CallRecord]
        BY <1>13, <1>e, <1>t, <2>2 DEF FirstLook, CallRecord
      <3> QED BY <1>13, <3>1 DEF FirstLook
    <2> QED BY <2>1, <2>2
  <1>14. CASE ReturnBuffer(c)
    <2>1. my' \in [Clients -> CallRecord]
      BY <1>14, <1>e, <1>t DEF ReturnBuffer, CallRecord
    <2> QED BY <1>14, <2>1 DEF ReturnBuffer
  <1>15. CASE SecondLook(c)
    BY <1>15 DEF SecondLook
  <1>16. CASE ReturnResult(c)
    <2>0. (IF shm.layout = my[c].op THEN {shm.result} ELSE BOOLEAN) \subseteq BOOLEAN
      BY <1>t DEF Slot
    <2>1. my' \in [Clients -> CallRecord]
      <3>1. PICK r \in BOOLEAN : my' = [my EXCEPT ![c].ok = r]
        BY <1>16, <2>0 DEF ReturnResult
      <3> QED BY <1>t, <3>1 DEF CallRecord
    <2> QED BY <1>16, <2>1 DEF ReturnResult
  <1> QED BY <1>1, <1>2, <1>3, <1>4, <1>6, <1>7, <1>8, <1>11, <1>12, <1>13,
             <1>14, <1>15, <1>16 DEF ClientStep

\* So do the deaths, the writers of files and spurious wakeups.
LEMMA TypeOthers ==
  ASSUME TypeOK, NEW c \in Clients, NEW op \in Ops, NEW f \in Files, NEW p \in Procs,
         Others(c, op, f, p)
  PROVE  TypeOK'
  <1> USE DEF TypeOK, Procs, PcLabels, sync, bounds
  <1>z. Zygote \in Clients
    BY DEF Clients
  <1>1. CASE StartStep
    BY <1>1, <1>z DEF StartStep, SeesRunning, AwaitsRunning, Block, RunningTimeout, GivesUp
  <1>2. CASE Restrict
    BY <1>2, <1>z DEF Restrict
  <1>3. CASE c \in Forked /\ Fork(c)
    <2>1. space' \in [Clients -> [mapped : BOOLEAN, always : BOOLEAN, ptr : BOOLEAN]]
      <3>1. [space[Zygote] EXCEPT !.mapped = ~dontfork]
              \in [mapped : BOOLEAN, always : BOOLEAN, ptr : BOOLEAN]
        BY <1>z
      <3> QED BY <1>3, <3>1 DEF Fork
    <2> QED BY <1>3, <2>1 DEF Fork
  <1>4. [NoCall EXCEPT !.op = op, !.path = f] \in CallRecord
    BY NoCallType DEF CallRecord
  <1>5. ASSUME NEW e \in Errnos
        PROVE  [NoCall EXCEPT !.op = op, !.path = f, !.errno = e] \in CallRecord
    BY NoCallType DEF CallRecord
  <1>6. CASE CallDenied(c, op, f)
    <2>1. my' \in [Clients -> CallRecord]
      BY <1>5, <1>6 DEF CallDenied, Refuse, Errnos
    <2>2. space' \in [Clients -> [mapped : BOOLEAN, always : BOOLEAN, ptr : BOOLEAN]]
      BY <1>6 DEF CallDenied
    <2> QED BY <1>6, <2>1, <2>2 DEF CallDenied, Refuse
  <1>7. CASE CallTooLong(c, op, f)
    BY <1>5, <1>7 DEF CallTooLong, Refuse, Errnos
  <1>8. CASE Call(c, op, f)
    BY <1>4, <1>8 DEF Call
  <1>9. CASE ChangeFile(f)
    BY <1>9, FileAssumption DEF ChangeFile
  <1>10. CASE SpuriousWakeup(p)
    BY <1>10 DEF SpuriousWakeup
  <1>11. CASE ServerDies
    BY <1>11 DEF ServerDies, DiesWith
  <1>12. CASE ClientDies(c)
    BY <1>12 DEF ClientDies, DiesWith
  <1> QED BY <1>1, <1>2, <1>3, <1>6, <1>7, <1>8, <1>9, <1>10, <1>11, <1>12
          DEF Others

----------------------------------------------------------------------------
(* Who has the mutex and the slot *)

\* The mutex is where the program counters say it is.
Holder ==
  /\ \A c \in Clients : pc[c] \in {"slot", "answered"} => mutex = c
  /\ srv \in {"handle", "reading"} => mutex = Server

\* The state of the slot fits whoever is using it.
StateFits ==
  /\ \A c \in Clients : HasSlot(c) => shm.state # "NOT_RUNNING"
  /\ \A c \in Clients : pc[c] \in {"posted", "answered"} =>
       shm.state \in {"SERVICE_ACTION", "SERVER_RESPONSE"}
  /\ \A c \in Clients : pc[c] = "answered" => shm.state = "SERVER_RESPONSE"
  /\ srv = "new" => shm.state = "NOT_RUNNING"
  /\ srv \in {"handle", "reading"} => shm.state = "SERVICE_ACTION"
  /\ srv = "reading" => shm.action = "READ_FILE"
  /\ shm.state = "SERVICE_ACTION" => shm.error = "OK"

\* What the slot's owner has put there is its request, at the offset it reached.
RequestFits ==
  \A c \in Clients :
    /\ HasSlot(c) \/ pc[c] = "waitIdle" => my[c].offset = Len(my[c].buf)
    /\ HasSlot(c) \/ pc[c] = "waitIdle" => ~my[c].got /\ my[c].op \in Ops
    /\ pc[c] = "waitIdle" => my[c].buf = <<>>
    /\ HasSlot(c) => /\ shm.path = my[c].path
                     /\ shm.layout = my[c].op
                     /\ my[c].op = "READ_FILE" => shm.offset = my[c].offset
    /\ pc[c] \in {"posted", "answered"} => shm.action = my[c].op

\* SlotExclusive alone is not inductive: that a second client cannot take the
\* slot while the first has released the mutex rests on the state it left there.
SlotInv ==
  /\ TypeOK
  /\ PathFits
  /\ Holder
  /\ StateFits
  /\ SlotExclusive
  /\ RequestFits

\* The inductive invariant holds initially.
LEMMA SlotInit == Init => SlotInv
  <1> SUFFICES ASSUME Init PROVE SlotInv
    OBVIOUS
  <1>1. \A c \in Clients : pc[c] \in {"waitRunning", "unborn"}
    BY DEF Init
  <1>2. srv = "new" /\ shm.state = "NOT_RUNNING"
    BY DEF Init
  <1> QED BY <1>1, <1>2, TypeInit DEF SlotInv, PathFits, Holder, StateFits,
             SlotExclusive, RequestFits, HasSlot

\* The looper keeps the slot with its owner and answers what was asked.
LEMMA SlotLooper == SlotInv /\ LooperStep => SlotInv'
  <1> SUFFICES ASSUME SlotInv, LooperStep PROVE SlotInv'
    OBVIOUS
  <1>t. TypeOK'
    BY TypeLooper DEF SlotInv
  <1>m. shm \in Slot /\ Server \notin Clients /\ NoOne \notin Clients
    BY ProcessAssumption DEF SlotInv, TypeOK, Procs
  <1>1. /\ pc' = pc /\ my' = my
        /\ shm'.path = shm.path /\ shm'.layout = shm.layout
        /\ shm'.offset = shm.offset /\ shm'.action = shm.action
    <2>1. CASE LooperStart \/ LooperWaits \/ LooperTakes \/ ServeReadStat
      BY <2>1, <1>m DEF LooperStart, LooperWaits, Block, LooperTakes, ServeReadStat, Slot
    <2>2. CASE ServeQuery
      BY <2>2, <1>m DEF ServeQuery, QueryAnswer, Reply, Slot
    <2>3. CASE ServeReadMissing \/ ServeReadOpenFails \/ ServeReadSeekFails
      BY <2>3, <1>m DEF ServeReadMissing, ServeReadOpenFails, ServeReadSeekFails, Reply, Slot
    <2>4. CASE ServeReadIoError \/ ServeReadChunk
      BY <2>4, <1>m DEF ServeReadIoError, ServeReadChunk, Reply, Slot
    <2> QED BY <2>1, <2>2, <2>3, <2>4 DEF LooperStep
  <1>2. \/ srv = "new" /\ srv' = "loop" /\ mutex = NoOne /\ mutex' = mutex
           /\ shm'.state = "IDLE"
        \/ srv = "loop" /\ UNCHANGED <<srv, mutex, shm>>
        \/ srv = "loop" /\ srv' = "handle" /\ mutex = NoOne /\ mutex' = Server
           /\ shm.state = "SERVICE_ACTION" /\ shm' = shm
        \/ srv = "handle" /\ srv' = "reading" /\ mutex' = mutex /\ shm'.state = shm.state
           /\ shm'.error = shm.error /\ shm.action = "READ_FILE"
        \/ srv \in {"handle", "reading"} /\ srv' = "loop" /\ mutex' = NoOne
           /\ shm'.state = "SERVER_RESPONSE"
    <2>1. CASE LooperStart \/ LooperWaits \/ LooperTakes \/ ServeReadStat
      BY <2>1, <1>m DEF LooperStart, LooperWaits, Block, LooperTakes, CanLock,
                        ServeReadStat, sync, Slot
    <2>2. CASE ServeQuery
      BY <2>2, <1>m DEF ServeQuery, QueryAnswer, Reply, Slot
    <2>3. CASE ServeReadMissing \/ ServeReadOpenFails \/ ServeReadSeekFails
      BY <2>3, <1>m DEF ServeReadMissing, ServeReadOpenFails, ServeReadSeekFails, Reply, Slot
    <2>4. CASE ServeReadIoError \/ ServeReadChunk
      BY <2>4, <1>m DEF ServeReadIoError, ServeReadChunk, Reply, Slot
    <2> QED BY <2>1, <2>2, <2>3, <2>4 DEF LooperStep
  <1>3. PathFits' /\ SlotExclusive' /\ RequestFits'
    BY <1>1 DEF SlotInv, PathFits, SlotExclusive, RequestFits, HasSlot
  <1>4. Holder'
    BY <1>1, <1>2, <1>m DEF SlotInv, Holder
  <1>5. StateFits'
    BY <1>1, <1>2, <1>m DEF SlotInv, Holder, StateFits, HasSlot
  <1> QED BY <1>t, <1>3, <1>4, <1>5 DEF SlotInv

\* makeIdle() by the owner of the slot: no other client can be left without it.
LEMMA SlotMakeIdle ==
  ASSUME SlotInv, NEW c \in Clients, NEW e \in Errnos, pc[c] = "answered",
         MakeIdle(c, e), \A d \in Clients \ {c} : my'[d] = my[d]
  PROVE  PathFits' /\ Holder' /\ StateFits' /\ SlotExclusive' /\ RequestFits'
  <1> USE DEF SlotInv, HasSlot
  <1>1. /\ pc' = [pc EXCEPT ![c] = "ret1"] /\ pc \in [Clients -> PcLabels]
        /\ shm \in Slot /\ mutex' = NoOne /\ srv' = srv
        /\ shm' = [shm EXCEPT !.action = "NONE", !.state = "IDLE", !.error = e]
    BY DEF MakeIdle, TypeOK
  <1>2. \A d \in Clients \ {c} : ~HasSlot(d) /\ pc'[d] = pc[d]
    BY <1>1 DEF SlotExclusive
  <1>3. ~HasSlot(c)' /\ pc'[c] = "ret1"
    BY <1>1
  <1>4. srv \notin {"new", "handle", "reading"}
    BY ProcessAssumption DEF Holder, StateFits, Procs
  <1>5. \A d \in Clients : ~HasSlot(d)'
    BY <1>2, <1>3
  <1>6. PathFits' /\ RequestFits'
    BY <1>2, <1>3, <1>5 DEF PathFits, RequestFits
  <1>7. Holder' /\ StateFits' /\ SlotExclusive'
    BY <1>1, <1>4, <1>5 DEF Holder, StateFits, SlotExclusive
  <1> QED BY <1>6, <1>7

\* A client takes only an idle slot, and gives up only its own.
LEMMA SlotClient ==
  ASSUME SlotInv, NEW c \in Clients, ClientStep(c)
  PROVE  SlotInv'
  <1>t. TypeOK'
    BY TypeClient DEF SlotInv
  <1>m. /\ shm \in Slot /\ my \in [Clients -> CallRecord] /\ pc \in [Clients -> PcLabels]
        /\ Server \notin Clients /\ NoOne \notin Clients /\ NoOne # Server
    BY ProcessAssumption DEF SlotInv, TypeOK, Procs
  <1>e. shm.error \in Errnos /\ "EBUSY" \in Errnos
    BY <1>m DEF Slot, Errnos
  <1>1. CASE AwaitsIdle(c) \/ AwaitsResponse(c)
    <2>1. UNCHANGED <<mutex, shm, srv, pc, my>>
      BY <1>1 DEF AwaitsIdle, AwaitsResponse, Block
    <2> QED BY <1>t, <2>1 DEF SlotInv, PathFits, Holder, StateFits, SlotExclusive,
                              RequestFits, HasSlot
  <1>2. CASE TakeSlot(c)
    <2> USE <1>m DEF SlotInv, HasSlot
    <2>1. /\ pc[c] = "waitIdle" /\ pc' = [pc EXCEPT ![c] = "slot"]
          /\ mutex = NoOne /\ mutex' = c /\ my' = my /\ srv' = srv
          /\ shm.state = "IDLE"
          /\ shm' = [shm EXCEPT !.path = my[c].path, !.layout = my[c].op, !.offset = 0]
      BY <1>2 DEF TakeSlot, CanLock
    <2>2. \A d \in Clients : ~HasSlot(d)
      BY <2>1 DEF Holder, StateFits
    <2>3. PathFits' /\ Holder' /\ StateFits' /\ SlotExclusive'
      BY <2>1, <2>2 DEF PathFits, Holder, StateFits, SlotExclusive, Slot
    <2>4. my[c].offset = 0
      BY <2>1 DEF RequestFits
    <2>5. RequestFits'
      BY <2>1, <2>2, <2>4 DEF RequestFits, Slot
    <2> QED BY <1>t, <2>3, <2>5
  <1>3. CASE CallService(c)
    <2> USE <1>m DEF SlotInv, HasSlot
    <2>1. /\ pc[c] = "slot" /\ pc' = [pc EXCEPT ![c] = "posted"]
          /\ mutex = c /\ mutex' = NoOne /\ my' = my /\ srv' = srv
          /\ shm' = [shm EXCEPT !.action = my[c].op, !.state = "SERVICE_ACTION", !.error = "OK"]
      BY <1>3 DEF CallService, Holder
    <2>2. \A d \in Clients : HasSlot(d) => d = c
      BY <2>1 DEF SlotExclusive
    <2>3. PathFits' /\ Holder' /\ StateFits' /\ SlotExclusive'
      BY <2>1, <2>2 DEF PathFits, Holder, StateFits, SlotExclusive, Slot
    <2>4. RequestFits'
      BY <2>1, <2>2 DEF RequestFits, Slot
    <2> QED BY <1>t, <2>3, <2>4
  <1>4. CASE TakeResponse(c)
    <2> USE <1>m DEF SlotInv, HasSlot
    <2>1. /\ pc[c] = "posted" /\ pc' = [pc EXCEPT ![c] = "answered"]
          /\ mutex = NoOne /\ mutex' = c /\ UNCHANGED <<my, srv, shm>>
          /\ shm.state = "SERVER_RESPONSE"
      BY <1>4 DEF TakeResponse, CanLock
    <2>2. PathFits' /\ Holder' /\ StateFits' /\ SlotExclusive'
      BY <2>1 DEF PathFits, Holder, StateFits, SlotExclusive
    <2>3. RequestFits'
      BY <2>1 DEF RequestFits
    <2> QED BY <1>t, <2>2, <2>3
  <1>5. CASE FinishQuery(c) \/ ReadFailed(c) \/ ReadBusy(c) \/ ReadLast(c)
    <2>1. PICK e \in Errnos : MakeIdle(c, e)
      BY <1>5, <1>e DEF FinishQuery, ReadFailed, ReadBusy, ReadLast
    <2>2. pc[c] = "answered" /\ \A d \in Clients \ {c} : my'[d] = my[d]
      BY <1>5, <1>m DEF FinishQuery, ReadFailed, ReadBusy, ReadLast, CanCopy
    <2> QED BY <1>t, <2>1, <2>2, SlotMakeIdle DEF SlotInv
  <1>6. CASE ReadMore(c)
    <2> USE <1>m DEF SlotInv, HasSlot
    <2> DEFINE next == my[c].offset + Len(shm.bytes)
    <2>1. /\ pc[c] = "answered" /\ pc' = [pc EXCEPT ![c] = "slot"]
          /\ mutex = c /\ mutex' = mutex /\ srv' = srv
          /\ shm' = [shm EXCEPT !.offset = next]
          /\ my' = [my EXCEPT ![c] = [Copied(c) EXCEPT !.offset = next]]
      BY <1>6 DEF ReadMore, CanCopy, Holder, sync
    <2>2. /\ my'[c].offset = next /\ my'[c].path = my[c].path /\ my'[c].op = my[c].op
          /\ my'[c].buf = my[c].buf \o shm.bytes /\ my'[c].got = my[c].got
      BY <2>1 DEF Copied, CallRecord
    <2>3. Len(my'[c].buf) = next
      <3>1. my[c].buf \in Seq(Nat) /\ shm.bytes \in Seq(Nat)
        BY DEF CallRecord, Slot
      <3>2. my[c].offset = Len(my[c].buf)
        BY <2>1 DEF RequestFits
      <3> QED BY <2>2, <3>1, <3>2
    <2>4. \A d \in Clients \ {c} : ~HasSlot(d) /\ my'[d] = my[d] /\ pc'[d] = pc[d]
      BY <2>1 DEF SlotExclusive
    <2>5. PathFits' /\ Holder' /\ StateFits' /\ SlotExclusive'
      BY <2>1, <2>2, <2>4 DEF PathFits, Holder, StateFits, SlotExclusive, Slot
    <2>6. shm'.offset = next /\ shm'.path = shm.path /\ shm'.layout = shm.layout
      BY <2>1 DEF Slot
    <2>7. RequestFits'
      <3> HIDE DEF next
      <3> QED BY <2>1, <2>2, <2>3, <2>4, <2>6 DEF RequestFits
    <2> QED BY <1>t, <2>5, <2>7
  <1>7. CASE FirstLook(c) \/ ReturnBuffer(c) \/ SecondLook(c) \/ ReturnResult(c)
    <2> USE <1>m DEF SlotInv, HasSlot
    <2>1. /\ pc[c] \in {"ret1", "ret2", "ret3"} /\ UNCHANGED <<mutex, srv, shm>>
          /\ pc'[c] \in {"ret2", "ret3", "idle"}
          /\ \A d \in Clients \ {c} : my'[d] = my[d] /\ pc'[d] = pc[d]
      BY <1>7 DEF FirstLook, ReturnBuffer, SecondLook, ReturnResult, sync
    <2>2. PathFits' /\ Holder' /\ StateFits' /\ SlotExclusive' /\ RequestFits'
      BY <2>1 DEF PathFits, Holder, StateFits, SlotExclusive, RequestFits
    <2> QED BY <1>t, <2>2
  <1> QED BY <1>1, <1>2, <1>3, <1>4, <1>5, <1>6, <1>7 DEF ClientStep

\* Nothing else touches the slot.
LEMMA SlotOthers ==
  ASSUME SlotInv, NEW c \in Clients, NEW op \in Ops, NEW f \in Files, NEW p \in Procs,
         Others(c, op, f, p)
  PROVE  SlotInv'
  <1>t. TypeOK'
    BY TypeOthers DEF SlotInv
  <1>m. /\ my \in [Clients -> CallRecord] /\ pc \in [Clients -> PcLabels]
        /\ Server \notin Clients /\ NoOne \notin Clients /\ NoOne # Server
        /\ Zygote \in Clients
    BY ProcessAssumption DEF SlotInv, TypeOK, Procs, Clients
  <1> USE <1>m DEF SlotInv, HasSlot
  <1>1. CASE StartStep
    <2>1. /\ UNCHANGED <<mutex, srv, shm, my>>
          /\ \A d \in Clients : pc'[d] = pc[d] \/ pc'[d] \in {"idle", "timedOut", "off"}
      BY <1>1 DEF StartStep, SeesRunning, AwaitsRunning, Block, RunningTimeout, GivesUp, sync
    <2> QED BY <1>t, <2>1 DEF PathFits, Holder, StateFits, SlotExclusive, RequestFits
  <1>2. CASE Restrict \/ ChangeFile(f) \/ SpuriousWakeup(p)
    <2>1. UNCHANGED <<mutex, srv, shm, my, pc>>
      BY <1>2 DEF Restrict, ChangeFile, SpuriousWakeup, sync
    <2> QED BY <1>t, <2>1 DEF PathFits, Holder, StateFits, SlotExclusive, RequestFits
  <1>3. CASE c \in Forked /\ Fork(c)
    <2>1. UNCHANGED <<mutex, srv, shm, my>> /\ pc' = [pc EXCEPT ![c] = "idle"]
      BY <1>3 DEF Fork, sync
    <2> QED BY <1>t, <2>1 DEF PathFits, Holder, StateFits, SlotExclusive, RequestFits
  <1>4. CASE CallDenied(c, op, f) \/ CallTooLong(c, op, f)
    <2>1. /\ UNCHANGED <<mutex, srv, shm, pc>> /\ pc[c] = "idle"
          /\ \A d \in Clients \ {c} : my'[d] = my[d]
      BY <1>4 DEF CallDenied, CallTooLong, Refuse, MayCall, sync
    <2> QED BY <1>t, <2>1 DEF PathFits, Holder, StateFits, SlotExclusive, RequestFits
  <1>5. CASE Call(c, op, f)
    <2>1. /\ UNCHANGED <<mutex, srv, shm>> /\ pc[c] = "idle"
          /\ pc' = [pc EXCEPT ![c] = "waitIdle"] /\ f \notin LongPaths
          /\ my' = [my EXCEPT ![c] = [NoCall EXCEPT !.op = op, !.path = f]]
      BY <1>5 DEF Call, MayCall, sync
    <2>2. my'[c].path = f /\ my'[c].offset = 0 /\ my'[c].buf = <<>> /\ ~my'[c].got
          /\ my'[c].op = op
      BY <2>1 DEF NoCall
    <2>3. \A d \in Clients \ {c} : my'[d] = my[d] /\ pc'[d] = pc[d]
      BY <2>1
    <2> QED BY <1>t, <2>1, <2>2, <2>3
            DEF PathFits, Holder, StateFits, SlotExclusive, RequestFits
  <1>6. CASE ServerDies
    <2>1. /\ srv' = "dead" /\ UNCHANGED <<shm, my, pc>>
          /\ mutex' = mutex \/ (mutex = NoOne /\ mutex' = Server)
      BY <1>6 DEF ServerDies, DiesWith, CanLock
    <2> QED BY <1>t, <2>1 DEF PathFits, Holder, StateFits, SlotExclusive, RequestFits
  <1>7. CASE ClientDies(c)
    <2>1. /\ pc' = [pc EXCEPT ![c] = "dead"] /\ UNCHANGED <<srv, shm, my>>
          /\ mutex' = mutex \/ (mutex = NoOne /\ mutex' = c)
      BY <1>7 DEF ClientDies, DiesWith, CanLock
    <2> QED BY <1>t, <2>1 DEF PathFits, Holder, StateFits, SlotExclusive, RequestFits
  <1> QED BY <1>1, <1>2, <1>3, <1>4, <1>5, <1>6, <1>7 DEF Others

\* The steps of the system, sorted by who takes them.
LEMMA NextCases ==
  ASSUME Next
  PROVE  \/ LooperStep
         \/ \E c \in Clients : ClientStep(c)
         \/ \E c \in Clients, op \in Ops, f \in Files, p \in Procs : Others(c, op, f, p)
         \/ UNCHANGED vars
  <1>1. Zygote \in Clients /\ Server \in Procs /\ Forked \subseteq Clients
    BY DEF Clients, Procs
  <1>2. PICK anOp \in Ops, aFile \in Files : TRUE
    BY FileAssumption
  <1>3. CASE StartStep \/ Restrict \/ ServerDies
    BY <1>1, <1>2, <1>3 DEF Others
  <1>4. ASSUME NEW c \in Forked, Fork(c)
        PROVE  Others(c, anOp, aFile, Server)
    BY <1>4 DEF Others
  <1>5. ASSUME NEW c \in Clients, NEW op \in Ops, NEW f \in Files,
               CallDenied(c, op, f) \/ CallTooLong(c, op, f) \/ Call(c, op, f)
        PROVE  Others(c, op, f, Server)
    BY <1>5 DEF Others
  <1>6. ASSUME NEW f \in Files, ChangeFile(f)
        PROVE  Others(Zygote, anOp, f, Server)
    BY <1>6 DEF Others
  <1>7. ASSUME NEW p \in Procs, SpuriousWakeup(p)
        PROVE  Others(Zygote, anOp, aFile, p)
    BY <1>7 DEF Others
  <1>8. ASSUME NEW c \in Clients, ClientDies(c)
        PROVE  Others(c, anOp, aFile, Server)
    BY <1>8 DEF Others
  <1> QED BY <1>1, <1>2, <1>3, <1>4, <1>5, <1>6, <1>7, <1>8 DEF Next, Finished

\* Every step keeps the inductive invariant.
LEMMA SlotStep == SlotInv /\ [Next]_vars => SlotInv'
  <1> SUFFICES ASSUME SlotInv, [Next]_vars PROVE SlotInv'
    OBVIOUS
  <1>1. CASE UNCHANGED vars
    <2> USE <1>1 DEF vars, sync, bounds
    <2>1. TypeOK'
      BY DEF SlotInv, TypeOK
    <2> QED BY <2>1 DEF SlotInv, PathFits, Holder, StateFits, SlotExclusive,
                        RequestFits, HasSlot
  <1>2. CASE Next
    BY <1>1, <1>2, NextCases, SlotLooper, SlotClient, SlotOthers
  <1> QED BY <1>1, <1>2

\* The inductive invariant of the slot: who has it, and what is in it.
THEOREM SlotInvariant == Spec => []SlotInv
  <1> QED BY SlotInit, SlotStep, PTL DEF Spec

\* Every variable keeps its type, and no path longer than its field gets into
\* the slot.
THEOREM TypeCorrect == Spec => []TypeOK
  <1>1. SlotInv => TypeOK
    BY DEF SlotInv
  <1> QED BY <1>1, SlotInvariant, PTL

\* At most one client has the slot, with any number of clients.
THEOREM SlotMutualExclusion == Spec => []SlotExclusive
  <1>1. SlotInv => SlotExclusive
    BY DEF SlotInv
  <1> QED BY <1>1, SlotInvariant, PTL

\* A waiting or answered client finds its own request in the slot.
THEOREM SlotKeepsRequest == Spec => []SlotHoldsRequest
  <1>1. SlotInv => SlotHoldsRequest
    BY DEF SlotInv, SlotHoldsRequest, StateFits, RequestFits, HasSlot
  <1> QED BY <1>1, SlotInvariant, PTL

----------------------------------------------------------------------------
(* No lost wakeup *)

\* Only waits that are in the code are waited in.
Sleepers ==
  /\ Server \in waiting => srv = "loop"
  /\ \A c \in Clients \cap waiting : pc[c] \in {"waitRunning", "waitIdle", "posted"}

WakeInv == Sleepers /\ NoLostWakeup

\* The looper wakes everybody whenever it changes the state.
LEMMA WakeLooper ==
  ASSUME TypeOK, WakeInv, LooperStep
  PROVE  WakeInv'
  <1> USE DEF WakeInv, Sleepers, NoLostWakeup
  <1>m. shm \in Slot /\ Server \notin Clients
    BY ProcessAssumption DEF TypeOK
  <1>1. CASE LooperStart
    BY <1>1, <1>m DEF LooperStart, Slot
  <1>2. CASE LooperWaits \/ LooperTakes
    BY <1>2, <1>m DEF LooperWaits, Block, LooperTakes, CanLock
  <1>3. CASE ServeReadStat
    BY <1>3, <1>m DEF ServeReadStat, sync, Slot
  <1>4. ASSUME NEW answer, answer \in Slot, Reply(answer) PROVE WakeInv'
    BY <1>4, <1>m DEF Reply, Slot
  <1>5. CASE ~(LooperStart \/ LooperWaits \/ LooperTakes \/ ServeReadStat)
    <2>1. waiting' = {Server} /\ srv' = "loop" /\ shm'.state = "SERVER_RESPONSE"
      <3>1. CASE ServeQuery
        BY <3>1, <1>m DEF ServeQuery, QueryAnswer, Reply, Slot
      <3>2. CASE ServeReadMissing \/ ServeReadOpenFails \/ ServeReadSeekFails
        BY <3>2, <1>m DEF ServeReadMissing, ServeReadOpenFails, ServeReadSeekFails, Reply, Slot
      <3>3. CASE ServeReadIoError \/ ServeReadChunk
        BY <3>3, <1>m DEF ServeReadIoError, ServeReadChunk, Reply, Slot
      <3> QED BY <1>5, <3>1, <3>2, <3>3 DEF LooperStep
    <2> QED BY <2>1, <1>m
  <1> QED BY <1>1, <1>2, <1>3, <1>5

\* So does a client.
LEMMA WakeClient ==
  ASSUME TypeOK, WakeInv, NEW c \in Clients, ClientStep(c)
  PROVE  WakeInv'
  <1> USE DEF WakeInv, Sleepers, NoLostWakeup
  <1>m. shm \in Slot /\ Server \notin Clients /\ pc \in [Clients -> PcLabels]
    BY ProcessAssumption DEF TypeOK
  <1>1. CASE AwaitsIdle(c) \/ AwaitsResponse(c)
    BY <1>1, <1>m DEF AwaitsIdle, AwaitsResponse, Block
  <1>2. CASE TakeSlot(c) \/ TakeResponse(c)
    BY <1>2, <1>m DEF TakeSlot, TakeResponse, CanLock, Slot
  <1>3. CASE CallService(c)
    BY <1>3, <1>m DEF CallService, Slot
  <1>4. CASE FinishQuery(c) \/ ReadFailed(c) \/ ReadBusy(c) \/ ReadLast(c)
    <2>1. waiting' = {}
      BY <1>4 DEF FinishQuery, ReadFailed, ReadBusy, ReadLast, MakeIdle
    <2> QED BY <2>1
  <1>5. CASE ReadMore(c)
    BY <1>5, <1>m DEF ReadMore, CanCopy, sync, Slot
  <1>6. CASE FirstLook(c) \/ ReturnBuffer(c) \/ SecondLook(c) \/ ReturnResult(c)
    BY <1>6, <1>m DEF FirstLook, ReturnBuffer, SecondLook, ReturnResult, sync
  <1> QED BY <1>1, <1>2, <1>3, <1>4, <1>5, <1>6 DEF ClientStep

\* A death leaves the state, and so what the others wait for, as it is.
LEMMA WakeOthers ==
  ASSUME TypeOK, WakeInv, NEW c \in Clients, NEW op \in Ops, NEW f \in Files,
         NEW p \in Procs, Others(c, op, f, p)
  PROVE  WakeInv'
  <1> USE DEF WakeInv, Sleepers, NoLostWakeup
  <1>m. Server \notin Clients /\ pc \in [Clients -> PcLabels] /\ Zygote \in Clients
    BY ProcessAssumption DEF TypeOK, Clients
  <1>1. CASE StartStep
    BY <1>1, <1>m DEF StartStep, SeesRunning, AwaitsRunning, Block, RunningTimeout,
                      GivesUp, CanLock, sync
  <1>2. CASE Restrict \/ ChangeFile(f) \/ SpuriousWakeup(p)
    BY <1>2, <1>m DEF Restrict, ChangeFile, SpuriousWakeup, sync
  <1>3. CASE c \in Forked /\ Fork(c)
    BY <1>3, <1>m DEF Fork, sync
  <1>4. CASE CallDenied(c, op, f) \/ CallTooLong(c, op, f) \/ Call(c, op, f)
    BY <1>4, <1>m DEF CallDenied, CallTooLong, Call, Refuse, MayCall, sync
  <1>5. CASE ServerDies \/ ClientDies(c)
    BY <1>5, <1>m DEF ServerDies, ClientDies, DiesWith
  <1> QED BY <1>1, <1>2, <1>3, <1>4, <1>5 DEF Others

\* Nobody sleeps through the state it waits for, with any number of clients.
THEOREM NoWakeupIsLost == Spec => []NoLostWakeup
  <1>1. Init => WakeInv
    BY DEF Init, WakeInv, Sleepers, NoLostWakeup
  <1>2. SlotInv /\ WakeInv /\ [Next]_vars => WakeInv'
    <2> SUFFICES ASSUME SlotInv, WakeInv, [Next]_vars PROVE WakeInv'
      OBVIOUS
    <2>1. CASE UNCHANGED vars
      BY <2>1 DEF vars, sync, bounds, WakeInv, Sleepers, NoLostWakeup
    <2>2. CASE Next
      BY <2>1, <2>2, NextCases, WakeLooper, WakeClient, WakeOthers DEF SlotInv
    <2> QED BY <2>1, <2>2
  <1>3. WakeInv => NoLostWakeup
    BY DEF WakeInv
  <1> QED BY <1>1, <1>2, <1>3, SlotInvariant, PTL DEF Spec

----------------------------------------------------------------------------
(* Who has the memory mapped *)

\* A process with unconditional access has the memory, and the zygote gives
\* that access up when it stops handing the memory on.
AccessFits ==
  /\ space[Zygote].mapped
  /\ dontfork => ~space[Zygote].always
  /\ \A c \in Clients : space[c].always => space[c].mapped

MapInv == AccessFits /\ MappedWhenTouched

\* Whoever can still call has the memory mapped, in every step.
LEMMA MapStep ==
  ASSUME TypeOK, MapInv, [Next]_vars
  PROVE  MapInv'
  <1> USE DEF MapInv, AccessFits, MappedWhenTouched, HasSlot
  <1>m. /\ Zygote \in Clients /\ pc \in [Clients -> PcLabels] /\ Zygote \notin Forked
        /\ space \in [Clients -> [mapped : BOOLEAN, always : BOOLEAN, ptr : BOOLEAN]]
    BY ProcessAssumption DEF TypeOK, Clients
  <1>1. CASE UNCHANGED vars
    BY <1>1 DEF vars
  <1>2. CASE LooperStep
    <2>1. UNCHANGED <<pc, space, dontfork>>
      BY <1>2 DEF LooperStep, LooperStart, LooperWaits, Block, LooperTakes, ServeQuery,
         ServeReadStat, ServeReadMissing, ServeReadOpenFails, ServeReadSeekFails,
         ServeReadIoError, ServeReadChunk, Reply
    <2> QED BY <2>1
  <1>3. ASSUME NEW c \in Clients, ClientStep(c) PROVE MapInv'
    <2>1. /\ UNCHANGED <<space, dontfork>>
          /\ \A d \in Clients \ {c} : pc'[d] = pc[d]
          /\ HasSlot(c) \/ pc[c] \in {"waitIdle", "ret1", "ret2", "ret3"}
      BY <1>3, <1>m DEF ClientStep, AwaitsIdle, AwaitsResponse, Block, TakeSlot, CallService,
         TakeResponse, FinishQuery, ReadFailed, ReadBusy, ReadLast, ReadMore, CanCopy,
         MakeIdle, FirstLook, ReturnBuffer, SecondLook, ReturnResult
    <2> QED BY <2>1
  <1>4. ASSUME NEW c \in Clients, NEW op \in Ops, NEW f \in Files, NEW p \in Procs,
               Others(c, op, f, p)
        PROVE  MapInv'
    <2>1. CASE StartStep
      <3>1. /\ UNCHANGED <<space, dontfork>>
            /\ \A d \in Clients : pc'[d] = pc[d] \/ pc'[d] \in {"idle", "timedOut", "off"}
        BY <2>1, <1>m DEF StartStep, SeesRunning, AwaitsRunning, Block, RunningTimeout, GivesUp
      <3> QED BY <3>1
    <2>2. CASE Restrict
      BY <2>2, <1>m DEF Restrict
    <2>3. CASE c \in Forked /\ Fork(c)
      <3>1. /\ \A d \in Clients \ {c} : space'[d] = space[d] /\ pc'[d] = pc[d]
            /\ c # Zygote /\ dontfork' = dontfork /\ pc'[c] = "idle"
            /\ space'[c].always = space[Zygote].always /\ space'[c].mapped = ~dontfork
        BY <2>3, <1>m DEF Fork
      <3> QED BY <3>1, <1>m
    <2>4. CASE CallDenied(c, op, f) \/ CallTooLong(c, op, f)
      <3>1. /\ pc' = pc /\ dontfork' = dontfork
            /\ \A d \in Clients : /\ space'[d].mapped = space[d].mapped
                                   /\ space'[d].always = space[d].always
        BY <2>4, <1>m DEF CallDenied, CallTooLong, Refuse
      <3> QED BY <3>1, <1>m
    <2>5. CASE Call(c, op, f)
      <3>1. space[c].mapped
        BY <2>5, <1>m DEF Call, Accessible
      <3> QED BY <2>5, <3>1, <1>m DEF Call
    <2>6. CASE ChangeFile(f) \/ SpuriousWakeup(p) \/ ServerDies \/ ClientDies(c)
      <3>1. /\ UNCHANGED <<space, dontfork>>
            /\ \A d \in Clients : pc'[d] = pc[d] \/ pc'[d] = "dead"
        BY <2>6, <1>m DEF ChangeFile, SpuriousWakeup, ServerDies, ClientDies, DiesWith
      <3> QED BY <3>1
    <2> QED BY <1>4, <2>1, <2>2, <2>3, <2>4, <2>5, <2>6 DEF Others
  <1> QED BY <1>1, <1>2, <1>3, <1>4, NextCases

\* Nobody touches the shared memory without having it mapped.
THEOREM TouchedMemoryIsMapped == Spec => []MappedWhenTouched
  <1>1. Init => MapInv
    <2>1. Init => /\ \A c \in Clients : space[c].mapped
                  /\ Zygote \in Clients /\ dontfork = FALSE
      BY DEF Init, Clients
    <2> QED BY <2>1 DEF MapInv, AccessFits, MappedWhenTouched
  <1>2. MapInv => MappedWhenTouched
    BY DEF MapInv
  <1>3. TypeOK /\ MapInv /\ [Next]_vars => MapInv'
    BY MapStep
  <1> QED BY <1>1, <1>2, <1>3, TypeCorrect, PTL DEF Spec
----------------------------------------------------------------------------
(* The buffer of readFile() *)

\* A piece is never longer than a chunk, and the buffer of a read under way is
\* empty until its size is known.
BufferInv ==
  /\ Len(shm.bytes) <= ChunkSize
  /\ \A c \in Clients : my[c].alloc => my[c].op = "READ_FILE"
  /\ \A c \in Clients :
       (HasSlot(c) \/ pc[c] = "waitIdle") /\ ~my[c].alloc => my[c].buf = <<>>
  /\ OnlyFirstChunkUnchecked

\* Only an answered read fills its buffer, and checks all but the first piece.
LEMMA BufferStep == SlotInv /\ BufferInv /\ [Next]_vars => BufferInv'
  <1> SUFFICES ASSUME SlotInv, BufferInv, [Next]_vars PROVE BufferInv'
    OBVIOUS
  <1>m. /\ shm \in Slot /\ my \in [Clients -> CallRecord] /\ pc \in [Clients -> PcLabels]
        /\ fs \in [Files -> FileState] /\ shm.bytes \in Seq(Nat) /\ ChunkSize \in Nat
    BY FileAssumption DEF SlotInv, TypeOK, Slot
  <1>t. TypeOK'
    BY SlotStep DEF SlotInv
  <1>1. CASE UNCHANGED vars
    BY <1>1 DEF vars, HasSlot, BufferInv, OnlyFirstChunkUnchecked
  <1>2. CASE LooperStep
    <2>1. UNCHANGED <<pc, my>>
      BY <1>2 DEF LooperStep, LooperStart, LooperWaits, Block, LooperTakes, ServeQuery,
         ServeReadStat, ServeReadMissing, ServeReadOpenFails, ServeReadSeekFails,
         ServeReadIoError, ServeReadChunk, Reply
    <2>2. Len(shm'.bytes) <= ChunkSize
      <3>1. CASE LooperStart \/ LooperWaits \/ LooperTakes \/ ServeReadStat
        BY <3>1, <1>m DEF LooperStart, LooperWaits, Block, LooperTakes, ServeReadStat, Slot,
                          BufferInv
      <3>2. CASE ServeQuery
        BY <3>2, <1>m DEF ServeQuery, QueryAnswer, Reply, Slot, BufferInv
      <3>3. CASE ServeReadMissing \/ ServeReadOpenFails \/ ServeReadSeekFails
        BY <3>3, <1>m DEF ServeReadMissing, ServeReadOpenFails, ServeReadSeekFails, Reply, Slot,
                          BufferInv
      <3>4. CASE ServeReadIoError
        <4> DEFINE none == <<>>
        <4> HIDE DEF none
        <4>1. Reply([shm EXCEPT !.bytes = none, !.eof = FALSE, !.error = "FERR"])
          BY <3>4 DEF ServeReadIoError, none
        <4>2. shm'.bytes = none
          BY <4>1, <1>m DEF Reply, Slot
        <4> QED BY <4>2, <1>m DEF none
      <3>5. CASE ServeReadChunk
        <4> DEFINE f == fs[shm.path]
                   piece == Chunk(f.bytes, shm.offset)
        <4>1. f.bytes \in Seq(Nat) /\ shm.offset \in Nat
          BY <1>m DEF Slot, FileState
        <4>2. Len(piece) <= ChunkSize
          BY <4>1, <1>m DEF Chunk
        <4> HIDE DEF piece
        <4>3. shm'.bytes = piece
          BY <3>5, <1>m DEF ServeReadChunk, Reply, Slot, piece
        <4> QED BY <4>2, <4>3
      <3> QED BY <1>2, <3>1, <3>2, <3>3, <3>4, <3>5 DEF LooperStep
    <2> QED BY <2>1, <2>2 DEF HasSlot, BufferInv, OnlyFirstChunkUnchecked
  <1>3. ASSUME NEW c \in Clients, ClientStep(c) PROVE BufferInv'
    <2>1. CASE AwaitsIdle(c) \/ AwaitsResponse(c) \/ TakeSlot(c) \/ CallService(c)
               \/ TakeResponse(c)
      <3>1. UNCHANGED my /\ shm'.bytes = shm.bytes /\ (HasSlot(c) \/ pc[c] = "waitIdle")
            /\ \A d \in Clients \ {c} : pc'[d] = pc[d]
        BY <2>1, <1>m DEF AwaitsIdle, AwaitsResponse, Block, TakeSlot, CallService,
                          TakeResponse, Slot, HasSlot
      <3> QED BY <3>1 DEF BufferInv, OnlyFirstChunkUnchecked, HasSlot
    <2>2. CASE FinishQuery(c) \/ ReadFailed(c) \/ ReadBusy(c)
      <3>1. /\ pc' = [pc EXCEPT ![c] = "ret1"] /\ shm'.bytes = shm.bytes
            /\ \A d \in Clients \ {c} : my'[d] = my[d]
            /\ my'[c].buf = my[c].buf /\ my'[c].alloc = my[c].alloc /\ my'[c].op = my[c].op
            /\ my'[c].total = my[c].total \/ my[c].op # "READ_FILE"
        <4>1. CASE FinishQuery(c)
          BY <4>1, <1>m DEF FinishQuery, MakeIdle, Slot, CallRecord
        <4>2. CASE ReadFailed(c) \/ ReadBusy(c)
          BY <4>2, <1>m DEF ReadFailed, ReadBusy, MakeIdle, Slot
        <4> QED BY <2>2, <4>1, <4>2
      <3> QED BY <3>1, <1>m DEF BufferInv, OnlyFirstChunkUnchecked, HasSlot
    <2>3. CASE FirstLook(c) \/ ReturnBuffer(c) \/ SecondLook(c) \/ ReturnResult(c)
      <3>1. /\ pc'[c] \in {"ret2", "ret3", "idle"} /\ shm' = shm
            /\ \A d \in Clients \ {c} : pc'[d] = pc[d] /\ my'[d] = my[d]
            /\ my'[c].buf = my[c].buf /\ (my'[c].alloc => my[c].alloc)
            /\ my'[c].op = my[c].op /\ my'[c].total = my[c].total
        <4>1. CASE FirstLook(c)
          BY <4>1, <1>m DEF FirstLook, CallRecord
        <4>2. CASE ReturnBuffer(c)
          BY <4>2, <1>m DEF ReturnBuffer, CallRecord
        <4>3. CASE SecondLook(c)
          BY <4>3, <1>m DEF SecondLook
        <4>4. CASE ReturnResult(c)
          BY <4>4, <1>m DEF ReturnResult, CallRecord
        <4> QED BY <2>3, <4>1, <4>2, <4>3, <4>4
      <3> QED BY <3>1, <1>m DEF BufferInv, OnlyFirstChunkUnchecked, HasSlot
    <2>4. CASE ReadLast(c) \/ ReadMore(c)
      <3>1. /\ pc[c] = "answered" /\ ~Outgrown(c) /\ my[c].op = "READ_FILE"
            /\ shm'.bytes = shm.bytes
            /\ \A d \in Clients \ {c} : pc'[d] = pc[d] /\ my'[d] = my[d]
            /\ my'[c].buf = my[c].buf \o shm.bytes /\ my'[c].alloc
            /\ my'[c].op = my[c].op
            /\ my[c].alloc => my'[c].total = my[c].total
        <4>1. CASE ReadLast(c)
          BY <4>1, <1>m DEF ReadLast, CanCopy, Copied, MakeIdle, Slot, CallRecord
        <4>2. CASE ReadMore(c)
          BY <4>2, <1>m DEF ReadMore, CanCopy, Copied, Slot, CallRecord
        <4> QED BY <2>4, <4>1, <4>2
      <3>2. my[c].buf \in Seq(Nat) /\ my[c].total \in Nat
        BY <1>m DEF CallRecord
      <3>3. Len(my'[c].buf) = Len(my[c].buf) + Len(shm.bytes)
        BY <3>1, <3>2, <1>m
      <3>4. Len(my'[c].buf) <= my'[c].total \/ Len(my'[c].buf) <= ChunkSize
        <4>1. CASE my[c].alloc
          <5>1. my[c].offset = Len(my[c].buf)
            BY <3>1 DEF SlotInv, RequestFits, HasSlot
          <5>2. ~(Len(my[c].buf) + Len(shm.bytes) > my[c].total)
            BY <3>1, <4>1, <5>1 DEF Outgrown
          <5>3. my'[c].total = my[c].total /\ Len(my[c].buf) \in Nat /\ Len(shm.bytes) \in Nat
            BY <3>1, <3>2, <4>1, <1>m
          <5>4. ASSUME NEW n, NEW m, NEW i \in Nat, NEW j \in Nat, NEW t \in Nat,
                       n = i + j, m = t, ~(i + j > t)
                PROVE  n <= m
            BY <5>4
          <5>5. Len(my'[c].buf) <= my'[c].total
            BY <3>2, <3>3, <5>2, <5>3, <5>4, Zenon
          <5> QED BY <5>5
        <4>2. CASE ~my[c].alloc
          <5>1. my[c].buf = <<>>
            BY <3>1, <4>2 DEF BufferInv, HasSlot
          <5>2. Len(my[c].buf) = 0
            BY <5>1
          <5> QED BY <3>3, <5>2, <1>m DEF BufferInv
        <4> QED BY <4>1, <4>2
      <3>5. my'[c].total \in Nat /\ Len(my'[c].buf) \in Nat
        <4>1. my'[c] \in CallRecord
          BY <1>t DEF TypeOK
        <4>2. Len(my[c].buf) \in Nat /\ Len(shm.bytes) \in Nat
          BY <3>2, <1>m
        <4>3. ASSUME NEW n, NEW i \in Nat, NEW j \in Nat, n = i + j PROVE n \in Nat
          BY <4>3
        <4>4. Len(my'[c].buf) \in Nat
          BY <3>3, <4>2, <4>3, Zenon
        <4> QED BY <4>1, <4>4 DEF CallRecord
      <3>6. my'[c].alloc /\ Len(my'[c].buf) > my'[c].total => Len(my'[c].buf) <= ChunkSize
        BY <3>4, <3>5
      <3>7. Len(shm'.bytes) <= ChunkSize
        BY <3>1 DEF BufferInv
      <3>8. \A d \in Clients \ {c} : HasSlot(d)' = HasSlot(d)
        BY <3>1 DEF HasSlot
      <3> QED BY <3>1, <3>6, <3>7, <3>8 DEF BufferInv, OnlyFirstChunkUnchecked
    <2> QED BY <1>3, <2>1, <2>2, <2>3, <2>4 DEF ClientStep
  <1>4. ASSUME NEW c \in Clients, NEW op \in Ops, NEW f \in Files, NEW p \in Procs,
               Others(c, op, f, p)
        PROVE  BufferInv'
    <2> DEFINE kept == /\ shm' = shm
                       /\ \A d \in Clients :
                            \/ my'[d] = my[d] /\ pc'[d] = pc[d]
                            \/ my'[d] = my[d] /\ ~HasSlot(d)' /\ pc'[d] # "waitIdle"
                            \/ my'[d].buf = <<>> /\ my'[d].alloc = FALSE
    <2>n. Len(<<>>) = 0
      OBVIOUS
    <2>1. ASSUME StartStep PROVE kept
      BY <2>1, <1>m DEF StartStep, SeesRunning, AwaitsRunning, Block, RunningTimeout, GivesUp,
                        HasSlot
    <2>2. ASSUME Restrict \/ ChangeFile(f) \/ SpuriousWakeup(p) \/ ServerDies PROVE kept
      BY <2>2 DEF Restrict, ChangeFile, SpuriousWakeup, ServerDies, DiesWith
    <2>3. ASSUME (c \in Forked /\ Fork(c)) \/ ClientDies(c) PROVE kept
      BY <2>3, <1>m DEF Fork, ClientDies, DiesWith, HasSlot
    <2>4. ASSUME CallDenied(c, op, f) \/ CallTooLong(c, op, f) \/ Call(c, op, f)
          PROVE  kept
      <3>1. /\ shm' = shm
            /\ \A d \in Clients \ {c} : my'[d] = my[d] /\ pc'[d] = pc[d]
            /\ my'[c].buf = NoCall.buf /\ my'[c].alloc = NoCall.alloc
        <4>1. /\ shm' = shm
              /\ pc' = pc \/ pc' = [pc EXCEPT ![c] = "waitIdle"]
              /\ \E e : \/ my' = [my EXCEPT ![c] = [NoCall EXCEPT !.op = op, !.path = f]]
                       \/ my' = [my EXCEPT ![c] = [NoCall EXCEPT !.op = op, !.path = f,
                                                                !.errno = e]]
          BY <2>4 DEF CallDenied, CallTooLong, Call, Refuse, sync
        <4>2. ASSUME NEW e
              PROVE  /\ [NoCall EXCEPT !.op = op, !.path = f].buf = NoCall.buf
                     /\ [NoCall EXCEPT !.op = op, !.path = f].alloc = NoCall.alloc
                     /\ [NoCall EXCEPT !.op = op, !.path = f, !.errno = e].buf = NoCall.buf
                     /\ [NoCall EXCEPT !.op = op, !.path = f, !.errno = e].alloc = NoCall.alloc
          BY NoCallType DEF CallRecord
        <4>3. PICK r : my' = [my EXCEPT ![c] = r] /\ r.buf = NoCall.buf /\ r.alloc = NoCall.alloc
          BY <4>1, <4>2, Zenon
        <4> QED BY <4>1, <4>3, <1>m
      <3> QED BY <3>1, NoCallFields
    <2>5. kept
      BY <1>4, <2>1, <2>2, <2>3, <2>4 DEF Others
    <2> QED BY <2>5, <2>n DEF HasSlot, BufferInv, OnlyFirstChunkUnchecked
  <1> QED BY <1>1, <1>2, <1>3, <1>4, NextCases

\* Behind the first piece nothing is written past the end of the buffer, whatever
\* happens to the file and whoever else calls.
THEOREM LaterPiecesFit == Spec => []OnlyFirstChunkUnchecked
  <1>1. Init => BufferInv
    <2> SUFFICES ASSUME Init PROVE BufferInv
      OBVIOUS
    <2>1. \A c \in Clients : my[c].alloc = FALSE /\ my[c].buf = <<>>
      BY NoCallFields DEF Init
    <2>2. Len(shm.bytes) = 0
      <3>1. shm.bytes = <<>>
        BY DEF Init
      <3> QED BY <3>1
    <2> QED BY <2>1, <2>2, FileAssumption DEF BufferInv, OnlyFirstChunkUnchecked
  <1>2. BufferInv => OnlyFirstChunkUnchecked
    BY DEF BufferInv
  <1> QED BY <1>1, <1>2, BufferStep, SlotInvariant, PTL DEF Spec

----------------------------------------------------------------------------
(* What a call reads after it has given the slot up *)

InCall(c) == pc[c] \in {"waitIdle", "slot", "posted", "answered", "ret1", "ret2", "ret3"}
Alone(c) == \A d \in Clients \ {c} : calls[d] = 0

\* With nobody else calling the slot stays as the caller left it: what it reads
\* there without the mutex agrees with what it found while it had it.
LeftAsFound(c) ==
  /\ pc[c] \in {"ret1", "ret2", "ret3"} => shm.state = "IDLE"
  /\ pc[c] \in {"ret1", "ret2", "ret3"} /\ my[c].op # "READ_FILE" =>
       /\ shm.layout = my[c].op
       /\ my[c].got = (shm.error = "OK" /\ shm.result)
       /\ pc[c] = "ret3" => shm.error = "OK"
  /\ pc[c] = "ret1" /\ my[c].op = "READ_FILE" =>
       my[c].got = (shm.error = "OK") /\ (my[c].got => my[c].alloc)
  /\ pc[c] = "ret2" /\ my[c].op = "READ_FILE" => my[c].alloc = my[c].got
  /\ pc[c] = "ret3" => my[c].op # "READ_FILE"
  /\ pc[c] = "idle" => my[c].ok = my[c].got

OwnInv ==
  \A c \in Clients :
    /\ InCall(c) => calls[c] > 0 /\ ~my[c].ok
    /\ pc[c] \in {"unborn", "waitRunning", "timedOut"} => my[c] = NoCall
    /\ Alone(c) => LeftAsFound(c)

\* Only a client that has called moves the slot or the looper.
LEMMA OwnStep == SlotInv /\ OwnInv /\ [Next]_vars => OwnInv'
  <1> SUFFICES ASSUME SlotInv, OwnInv, [Next]_vars PROVE OwnInv'
    OBVIOUS
  <1>m. /\ shm \in Slot /\ my \in [Clients -> CallRecord] /\ pc \in [Clients -> PcLabels]
        /\ calls \in [Clients -> Nat] /\ Zygote \in Clients
    BY DEF SlotInv, TypeOK, Clients
  <1> USE DEF InCall
  <1>1. CASE UNCHANGED vars
    BY <1>1 DEF vars, bounds, OwnInv, Alone, LeftAsFound
  <1>2. CASE LooperStep
    <2>1. UNCHANGED <<pc, my, calls>> /\ (shm' = shm \/ shm.state # "IDLE")
      BY <1>2 DEF SlotInv, StateFits, LooperStep, LooperStart, LooperWaits, Block, LooperTakes,
         ServeQuery, ServeReadStat, ServeReadMissing, ServeReadOpenFails, ServeReadSeekFails,
         ServeReadIoError, ServeReadChunk, Reply, bounds
    <2> QED BY <2>1 DEF OwnInv, Alone, LeftAsFound
  <1>3. ASSUME NEW c \in Clients, ClientStep(c) PROVE OwnInv'
    <2>1. calls' = calls /\ \A d \in Clients \ {c} : pc'[d] = pc[d] /\ my'[d] = my[d]
      BY <1>3, <1>m DEF ClientStep, AwaitsIdle, AwaitsResponse, Block, TakeSlot, CallService,
         TakeResponse, FinishQuery, ReadFailed, ReadBusy, ReadLast, ReadMore, CanCopy,
         MakeIdle, FirstLook, ReturnBuffer, SecondLook, ReturnResult, bounds
    <2>2. InCall(c)
      BY <1>3 DEF ClientStep, AwaitsIdle, AwaitsResponse, TakeSlot, CallService,
         TakeResponse, FinishQuery, ReadFailed, ReadBusy, ReadLast, ReadMore, CanCopy,
         FirstLook, ReturnBuffer, SecondLook, ReturnResult
    <2>3. \A d \in Clients \ {c} : ~Alone(d)'
      BY <2>1, <2>2, <1>m DEF OwnInv, Alone
    <2>4. /\ InCall(c)' => ~my'[c].ok
          /\ pc'[c] \notin {"unborn", "waitRunning", "timedOut"}
          /\ Alone(c) => LeftAsFound(c)'
      <3>1. ~my[c].ok /\ calls[c] > 0 /\ (Alone(c) => LeftAsFound(c))
        BY <2>2 DEF OwnInv
      <3>2. CASE AwaitsIdle(c) \/ AwaitsResponse(c) \/ TakeSlot(c) \/ CallService(c)
                 \/ TakeResponse(c)
        BY <3>1, <3>2, <1>m DEF AwaitsIdle, AwaitsResponse, Block, TakeSlot, CallService,
                                TakeResponse, LeftAsFound
      <3>3. CASE FinishQuery(c)
        <4>1. /\ pc'[c] = "ret1" /\ my'[c].op = my[c].op /\ my[c].op # "READ_FILE"
              /\ my'[c].ok = my[c].ok /\ shm'.state = "IDLE"
              /\ shm'.error = shm.error /\ shm'.layout = shm.layout /\ shm'.result = shm.result
              /\ my'[c].got = (shm.error = "OK" /\ shm.result)
          <5> DEFINE g == shm.error = "OK" /\ shm.result
          <5> HIDE DEF g
          <5>1. my' = [my EXCEPT ![c].total = IF my[c].op = "STAT_FILE" THEN shm.size ELSE @,
                                 ![c].got = g]
            BY <3>3 DEF FinishQuery, g
          <5>2. my'[c].got = g
            BY <5>1, <1>m DEF CallRecord
          <5> QED BY <3>3, <5>1, <5>2, <1>m DEF FinishQuery, MakeIdle, Slot, CallRecord, g
        <4>2. shm.layout = my[c].op
          BY <3>3 DEF FinishQuery, SlotInv, RequestFits, HasSlot
        <4> QED BY <3>1, <4>1, <4>2, Zenon DEF LeftAsFound
      <3>4. CASE ReadFailed(c) \/ ReadBusy(c) \/ ReadLast(c)
        <4>1. ~my[c].got
          BY <3>4 DEF ReadFailed, ReadBusy, ReadLast, CanCopy, SlotInv, RequestFits, HasSlot
        <4>2. /\ pc'[c] = "ret1" /\ my'[c].op = "READ_FILE" /\ my'[c].ok = my[c].ok
              /\ shm'.state = "IDLE"
              /\ \/ shm'.error # "OK" /\ my'[c].got = my[c].got
                 \/ shm'.error = "OK" /\ my'[c].got = TRUE /\ my'[c].alloc
          <5>1. CASE ReadFailed(c) \/ ReadBusy(c)
            BY <5>1, <1>m DEF ReadFailed, ReadBusy, MakeIdle, Slot
          <5>2. CASE ReadLast(c)
            BY <5>2, <1>m DEF ReadLast, CanCopy, Copied, MakeIdle, Slot, CallRecord
          <5> QED BY <3>4, <5>1, <5>2
        <4>3. my'[c].got = (shm'.error = "OK") /\ (my'[c].got => my'[c].alloc)
          <5>1. my[c].got = FALSE
            BY <4>1, <1>m DEF CallRecord
          <5> QED BY <4>2, <5>1
        <4> QED BY <3>1, <4>2, <4>3 DEF LeftAsFound
      <3>5. CASE ReadMore(c)
        BY <3>1, <3>5, <1>m DEF ReadMore, CanCopy, Copied, LeftAsFound, CallRecord
      <3>6. CASE FirstLook(c)
        <4> DEFINE okay == shm.error = "OK"
        <4>1. /\ pc[c] = "ret1" /\ pc'[c] = "ret2" /\ shm' = shm
              /\ my'[c].op = my[c].op /\ my'[c].got = my[c].got /\ my'[c].ok = my[c].ok
              /\ my[c].op = "READ_FILE" => my'[c].alloc = (my[c].alloc /\ okay)
          BY <3>6, <1>m DEF FirstLook, CallRecord
        <4>2. my[c].got \in BOOLEAN /\ my[c].alloc \in BOOLEAN /\ okay \in BOOLEAN
          BY <1>m DEF CallRecord
        <4> QED BY <3>1, <4>1, <4>2 DEF LeftAsFound
      <3>7. CASE ReturnBuffer(c)
        BY <3>1, <3>7, <1>m DEF ReturnBuffer, LeftAsFound, CallRecord
      <3>8. CASE SecondLook(c)
        <4>1. /\ pc[c] = "ret2" /\ my' = my /\ shm' = shm /\ my[c].op # "READ_FILE"
              /\ pc'[c] = IF shm.error = "OK" THEN "ret3" ELSE "idle"
          BY <3>8, <1>m DEF SecondLook
        <4>2. my[c].got \in BOOLEAN /\ my[c].ok = FALSE
          BY <3>1, <1>m DEF CallRecord
        <4> QED BY <3>1, <4>1, <4>2 DEF LeftAsFound
      <3>9. CASE ReturnResult(c)
        <4>1. PICK r \in IF shm.layout = my[c].op THEN {shm.result} ELSE BOOLEAN :
                /\ pc[c] = "ret3" /\ pc'[c] = "idle" /\ shm' = shm
                /\ my'[c].ok = r /\ my'[c].op = my[c].op /\ my'[c].got = my[c].got
          BY <3>9, <1>m DEF ReturnResult, CallRecord
        <4>2. ASSUME Alone(c) PROVE my'[c].ok = my'[c].got
          <5>1. shm.layout = my[c].op /\ shm.error = "OK"
                /\ my[c].got = (shm.error = "OK" /\ shm.result)
            BY <3>1, <4>1, <4>2 DEF LeftAsFound
          <5>2. my[c].got = shm.result
            BY <5>1, <1>m DEF CallRecord, Slot
          <5> QED BY <4>1, <5>1, <5>2
        <4> QED BY <4>1, <4>2 DEF LeftAsFound
      <3> QED BY <1>3, <3>2, <3>3, <3>4, <3>5, <3>6, <3>7, <3>8, <3>9 DEF ClientStep
    <2>5. Alone(c)' = Alone(c)
      BY <2>1 DEF Alone
    <2> QED BY <2>1, <2>2, <2>3, <2>4, <2>5 DEF OwnInv
  <1>4. ASSUME NEW c \in Clients, NEW op \in Ops, NEW f \in Files, NEW p \in Procs,
               Others(c, op, f, p)
        PROVE  OwnInv'
    <2>n. NoCall.ok = FALSE /\ NoCall.got = FALSE
      BY DEF NoCall
    <2>1. CASE StartStep
      <3>1. /\ UNCHANGED <<my, shm, calls>>
            /\ \A d \in Clients \ {Zygote} : pc'[d] = pc[d]
            /\ pc[Zygote] \in {"waitRunning", "timedOut"}
            /\ pc'[Zygote] \in {"waitRunning", "idle", "timedOut", "off"}
        BY <2>1, <1>m DEF StartStep, SeesRunning, AwaitsRunning, Block, RunningTimeout, GivesUp,
                          bounds
      <3>2. \A d \in Clients : Alone(d)' = Alone(d)
        BY <3>1 DEF Alone
      <3>3. \A d \in Clients \ {Zygote} : LeftAsFound(d)' = LeftAsFound(d)
        BY <3>1 DEF LeftAsFound
      <3>4. LeftAsFound(Zygote)'
        BY <3>1, <2>n, <1>m DEF OwnInv, LeftAsFound
      <3> QED BY <3>1, <3>2, <3>3, <3>4, <1>m DEF OwnInv
    <2>2. CASE Restrict \/ ChangeFile(f) \/ SpuriousWakeup(p) \/ ServerDies
      <3>1. UNCHANGED <<my, shm, calls, pc>>
        BY <2>2 DEF Restrict, ChangeFile, SpuriousWakeup, ServerDies, DiesWith, bounds
      <3> QED BY <3>1 DEF OwnInv, Alone, LeftAsFound
    <2>3. CASE (c \in Forked /\ Fork(c)) \/ ClientDies(c)
      <3>1. /\ UNCHANGED <<my, shm, calls>>
            /\ \A d \in Clients \ {c} : pc'[d] = pc[d]
            /\ pc'[c] = "dead" \/ (pc[c] = "unborn" /\ pc'[c] = "idle")
        BY <2>3, <1>m DEF Fork, ClientDies, DiesWith, bounds
      <3>2. \A d \in Clients : Alone(d)' = Alone(d)
        BY <3>1 DEF Alone
      <3>3. \A d \in Clients \ {c} : LeftAsFound(d)' = LeftAsFound(d)
        BY <3>1 DEF LeftAsFound
      <3>4. LeftAsFound(c)'
        BY <3>1, <2>n DEF OwnInv, LeftAsFound
      <3> QED BY <3>1, <3>2, <3>3, <3>4 DEF OwnInv
    <2>4. CASE CallDenied(c, op, f) \/ CallTooLong(c, op, f) \/ Call(c, op, f)
      <3>1. /\ shm' = shm /\ calls' = [calls EXCEPT ![c] = @ + 1]
            /\ \A d \in Clients \ {c} : pc'[d] = pc[d] /\ my'[d] = my[d]
            /\ pc'[c] \in {"idle", "waitIdle"}
        BY <2>4, <1>m DEF CallDenied, CallTooLong, Call, Refuse, MayCall, bounds, sync
      <3>2. my'[c].ok = FALSE /\ my'[c].got = FALSE
        <4>1. \E e : \/ my' = [my EXCEPT ![c] = [NoCall EXCEPT !.op = op, !.path = f]]
                    \/ my' = [my EXCEPT ![c] = [NoCall EXCEPT !.op = op, !.path = f, !.errno = e]]
          BY <2>4 DEF CallDenied, CallTooLong, Call, Refuse
        <4>2. ASSUME NEW e
              PROVE  /\ [NoCall EXCEPT !.op = op, !.path = f].ok = FALSE
                     /\ [NoCall EXCEPT !.op = op, !.path = f].got = FALSE
                     /\ [NoCall EXCEPT !.op = op, !.path = f, !.errno = e].ok = FALSE
                     /\ [NoCall EXCEPT !.op = op, !.path = f, !.errno = e].got = FALSE
          BY DEF NoCall
        <4>3. PICK e : \/ my' = [my EXCEPT ![c] = [NoCall EXCEPT !.op = op, !.path = f]]
                       \/ my' = [my EXCEPT ![c] = [NoCall EXCEPT !.op = op, !.path = f, !.errno = e]]
          BY <4>1
        <4>4. \/ my'[c] = [NoCall EXCEPT !.op = op, !.path = f]
              \/ my'[c] = [NoCall EXCEPT !.op = op, !.path = f, !.errno = e]
          BY <4>3, <1>m
        <4> QED BY <4>2, <4>4
      <3>3. calls'[c] > 0 /\ \A d \in Clients \ {c} : ~Alone(d)' /\ calls'[d] = calls[d]
        BY <3>1, <1>m DEF Alone
      <3> QED BY <3>1, <3>2, <3>3 DEF OwnInv, LeftAsFound
    <2> QED BY <1>4, <2>1, <2>2, <2>3, <2>4 DEF Others
  <1> QED BY <1>1, <1>2, <1>3, <1>4, NextCases

\* A caller that has the service to itself gets its own answer, although it reads
\* the shared memory again after it gave the slot up.
THEOREM LoneCallerGetsItsAnswer == Spec => []ReturnsOwnAnswer
  <1>1. Init => OwnInv
    <2> SUFFICES ASSUME Init PROVE OwnInv
      OBVIOUS
    <2>1. \A c \in Clients : pc[c] \in {"unborn", "waitRunning"} /\ my[c] = NoCall
      BY DEF Init
    <2> QED BY <2>1 DEF OwnInv, LeftAsFound, InCall
  <1>2. OwnInv => ReturnsOwnAnswer
    BY DEF OwnInv, ReturnsOwnAnswer, LeftAsFound, Alone
  <1> QED BY <1>1, <1>2, OwnStep, SlotInvariant, PTL DEF Spec

----------------------------------------------------------------------------
(* The truth of an answer, until a file changes *)

FileOf(c) == fs[my[c].path]

\* A read has gathered what comes before its offset, in a buffer of the file's size.
Gathered(c) ==
  (HasSlot(c) \/ pc[c] = "waitIdle") /\ my[c].op = "READ_FILE" =>
    /\ my[c].offset <= Len(FileOf(c).bytes)
    /\ my[c].buf = SubSeq(FileOf(c).bytes, 1, my[c].offset)
    /\ my[c].alloc => my[c].total = Len(FileOf(c).bytes)

\* The answer in the slot is the one the file gives.
QueryTrue(c) ==
  /\ (shm.error = "OK" /\ shm.result) <=> FileOf(c).exists
  /\ my[c].op = "STAT_FILE" /\ FileOf(c).exists => shm.size = Len(FileOf(c).bytes)
PieceTrue(c) ==
  /\ shm.error = "OK" <=> FileOf(c).exists /\ FileOf(c).readable
  /\ shm.error = "OK" =>
       /\ shm.size = Len(FileOf(c).bytes)
       /\ shm.bytes = Chunk(FileOf(c).bytes, my[c].offset)
       /\ shm.eof <=> my[c].offset + ChunkSize > Len(FileOf(c).bytes)
AnswerTrue(c) ==
  pc[c] \in {"posted", "answered"} /\ shm.state = "SERVER_RESPONSE" =>
    IF my[c].op = "READ_FILE" THEN PieceTrue(c) ELSE QueryTrue(c)

\* So is what the client has taken from it: LockedAnswerTrue of one client.
ReturnTrue(c) ==
  pc[c] = "ret1" =>
    LET f == FileOf(c) IN
    /\ my[c].got = (f.exists /\ (my[c].op = "READ_FILE" => f.readable))
    /\ my[c].got /\ my[c].op = "STAT_FILE" => my[c].total = Len(f.bytes)
    /\ my[c].got /\ my[c].op = "READ_FILE" =>
         my[c].buf = f.bytes /\ my[c].count = Len(f.bytes)

\* Between stat() and fread() the size of the file is in the slot.
SizeTrue ==
  srv = "reading" => fs[shm.path].exists /\ shm.size = Len(fs[shm.path].bytes)

ClientTrue(c) == Gathered(c) /\ AnswerTrue(c) /\ ReturnTrue(c)

TruthInv == writes = 0 => SizeTrue /\ \A c \in Clients : ClientTrue(c)

\* What one sequence behind another is.
LEMMA Concatenated ==
  ASSUME NEW a \in Seq(Nat), NEW b \in Seq(Nat)
  PROVE  /\ a \o b \in Seq(Nat) /\ Len(a \o b) = Len(a) + Len(b)
         /\ \A i \in 1..Len(a) + Len(b) : (a \o b)[i] = IF i <= Len(a) THEN a[i] ELSE b[i - Len(a)]
  OBVIOUS

\* Two parts of a sequence, one behind the other, are one part.
LEMMA AdjacentParts ==
  ASSUME NEW q \in Seq(Nat), NEW n \in 0..Len(q), NEW k \in 0..n
  PROVE  SubSeq(q, 1, k) \o SubSeq(q, k + 1, n) = SubSeq(q, 1, n)
  <1> DEFINE a == SubSeq(q, 1, k)
             b == SubSeq(q, k + 1, n)
             both == a \o b
             whole == SubSeq(q, 1, n)
  <1>1. Len(q) \in Nat /\ n \in Nat /\ k \in Nat /\ k <= n /\ n <= Len(q)
    OBVIOUS
  <1>2. /\ a \in Seq(Nat) /\ Len(a) = k
        /\ b \in Seq(Nat) /\ Len(b) = n - k
        /\ whole \in Seq(Nat) /\ Len(whole) = n
    BY <1>1
  <1>3. \A i \in 1..k : a[i] = q[i]
    BY <1>1
  <1>4. \A i \in 1..n - k : b[i] = q[k + i]
    BY <1>1
  <1>5. \A i \in 1..n : whole[i] = q[i]
    BY <1>1
  <1> HIDE DEF a, b, whole
  <1>6. /\ both \in Seq(Nat) /\ Len(both) = n
        /\ \A i \in 1..n : both[i] = IF i <= k THEN a[i] ELSE b[i - k]
    <2>1. Len(a) + Len(b) = n
      BY <1>1, <1>2
    <2>2. /\ both \in Seq(Nat) /\ Len(both) = Len(a) + Len(b)
          /\ \A i \in 1..Len(a) + Len(b) : both[i] = IF i <= Len(a) THEN a[i] ELSE b[i - Len(a)]
      BY <1>2, Concatenated
    <2> HIDE DEF both
    <2> QED BY <1>2, <2>1, <2>2
  <1> HIDE DEF both
  <1>7. ASSUME NEW i \in 1..n PROVE both[i] = whole[i]
    <2>1. CASE i <= k
      <3>1. i \in 1..k /\ i \in 1..n
        BY <1>1, <2>1
      <3>2. a[i] = q[i] /\ whole[i] = q[i]
        BY <1>3, <1>5, <3>1
      <3>3. both[i] = a[i]
        BY <1>6, <2>1, <3>1
      <3> QED BY <3>2, <3>3
    <2>2. CASE i > k
      <3>1. i - k \in 1..n - k /\ k + (i - k) = i
        BY <1>1, <2>2
      <3>2. b[i - k] = q[i]
        BY <1>4, <3>1
      <3> QED BY <1>1, <1>5, <1>6, <2>2, <3>2
    <2> QED BY <1>1, <2>1, <2>2
  <1>8. both \in [1..n -> Nat] /\ whole \in [1..n -> Nat]
    BY <1>2, <1>6
  <1>9. both = whole
    BY <1>7, <1>8
  <1> QED BY <1>9 DEF both, a, b, whole

\* Where a chunk ends, and what it adds to what comes before it.
LEMMA ChunkAdds ==
  ASSUME NEW bytes \in Seq(Nat), NEW offset \in 0..Len(bytes)
  PROVE  LET end == IF offset + ChunkSize < Len(bytes) THEN offset + ChunkSize ELSE Len(bytes)
         IN  /\ Len(Chunk(bytes, offset)) = end - offset
             /\ SubSeq(bytes, 1, offset) \o Chunk(bytes, offset) = SubSeq(bytes, 1, end)
             /\ SubSeq(bytes, 1, Len(bytes)) = bytes
  <1> DEFINE end == IF offset + ChunkSize < Len(bytes) THEN offset + ChunkSize ELSE Len(bytes)
  <1>1. Len(bytes) \in Nat /\ end \in offset..Len(bytes) /\ offset \in Nat
    BY FileAssumption
  <1>2. Chunk(bytes, offset) = SubSeq(bytes, offset + 1, end)
    BY DEF Chunk
  <1> HIDE DEF end
  <1>3. Len(SubSeq(bytes, offset + 1, end)) = end - offset
    BY <1>1
  <1>4. SubSeq(bytes, 1, offset) \o SubSeq(bytes, offset + 1, end) = SubSeq(bytes, 1, end)
    <2>1. end \in 0..Len(bytes) /\ offset \in 0..end
      BY <1>1
    <2> QED BY <2>1, AdjacentParts
  <1>5. SubSeq(bytes, 1, Len(bytes)) = bytes
    OBVIOUS
  <1> QED BY <1>2, <1>3, <1>4, <1>5 DEF end

\* What a client has, or finds in the slot, is as true as it was if neither its own
\* variables nor the files change, nor an answer it waits for.
LEMMA StaysTrue ==
  ASSUME NEW c \in Clients, ClientTrue(c), fs' = fs, my'[c] = my[c],
         \/ pc'[c] = pc[c]
         \/ pc'[c] \notin {"waitIdle", "slot", "posted", "answered", "ret1"},
         pc[c] \in {"posted", "answered"} => shm' = shm \/ shm'.state # "SERVER_RESPONSE"
  PROVE  ClientTrue(c)'
  <1>1. FileOf(c)' = FileOf(c)
    BY DEF FileOf
  <1>2. CASE pc'[c] = pc[c]
    <2>1. Gathered(c)' /\ ReturnTrue(c)'
      BY <1>1, <1>2 DEF ClientTrue, Gathered, ReturnTrue, HasSlot
    <2>2. AnswerTrue(c)'
      BY <1>1, <1>2 DEF ClientTrue, AnswerTrue, PieceTrue, QueryTrue
    <2> QED BY <2>1, <2>2 DEF ClientTrue
  <1>3. CASE pc'[c] \notin {"waitIdle", "slot", "posted", "answered", "ret1"}
    BY <1>3 DEF ClientTrue, Gathered, AnswerTrue, ReturnTrue, HasSlot
  <1> QED BY <1>2, <1>3

\* The looper answers the truth, if its calls do not fail.
LEMMA TruthLooper ==
  ASSUME IoErrors = {}, SlotInv, LooperStep, SizeTrue, \A c \in Clients : ClientTrue(c)
  PROVE  SizeTrue' /\ \A c \in Clients : ClientTrue(c)'
  <1>m. /\ shm \in Slot /\ my \in [Clients -> CallRecord] /\ fs \in [Files -> FileState]
        /\ fs[shm.path] \in FileState /\ Server \notin Clients
    BY ProcessAssumption DEF SlotInv, TypeOK, Slot
  <1>1. /\ pc' = pc /\ my' = my /\ fs' = fs
    BY DEF LooperStep, LooperStart, LooperWaits, Block, LooperTakes, ServeQuery,
       ServeReadStat, ServeReadMissing, ServeReadOpenFails, ServeReadSeekFails,
       ServeReadIoError, ServeReadChunk, Reply
  <1>2. ASSUME shm' = shm \/ shm'.state # "SERVER_RESPONSE"
        PROVE  \A c \in Clients : ClientTrue(c)'
    BY <1>1, <1>2, StaysTrue
  <1>3. CASE LooperStart \/ LooperWaits \/ LooperTakes
    <2>1. srv' # "reading" /\ (shm' = shm \/ shm'.state # "SERVER_RESPONSE")
      BY <1>3, <1>m DEF LooperStart, LooperWaits, Block, LooperTakes, Slot
    <2> QED BY <1>2, <2>1 DEF SizeTrue
  <1>4. CASE ServeReadStat
    <2>1. /\ fs[shm.path].exists /\ shm'.path = shm.path
          /\ shm'.size = Len(fs[shm.path].bytes) /\ shm'.state = shm.state
      BY <1>4, <1>m DEF ServeReadStat, Slot
    <2>2. shm.state = "SERVICE_ACTION"
      BY <1>4 DEF ServeReadStat, SlotInv, StateFits
    <2>3. SizeTrue'
      BY <1>1, <2>1 DEF SizeTrue
    <2> QED BY <1>2, <2>1, <2>2, <2>3
  <1>5. ASSUME NEW answer, Reply(answer), srv \in {"handle", "reading"},
               \A c \in Clients : pc[c] = "posted" /\ shm.action = my[c].op => AnswerTrue(c)'
        PROVE  SizeTrue' /\ \A c \in Clients : ClientTrue(c)'
    <2>1. SizeTrue'
      BY <1>5 DEF Reply, SizeTrue
    <2>2. ASSUME NEW c \in Clients PROVE ClientTrue(c)'
      <3>1. pc[c] # "answered"
        BY <1>5, <1>m DEF SlotInv, Holder
      <3>2. CASE pc[c] = "posted"
        <4>1. shm.action = my[c].op
          BY <3>2 DEF SlotInv, RequestFits
        <4>2. Gathered(c)' /\ ReturnTrue(c)'
          BY <1>1, <3>2 DEF ClientTrue, Gathered, ReturnTrue, HasSlot, FileOf
        <4> QED BY <1>5, <3>2, <4>1, <4>2 DEF ClientTrue
      <3>3. CASE pc[c] # "posted"
        BY <1>1, <3>1, <3>3, StaysTrue
      <3> QED BY <3>2, <3>3
    <2> QED BY <2>1, <2>2
  <1>6. ASSUME srv \in {"handle", "reading"}, NEW c \in Clients, pc[c] = "posted",
               shm.action = my[c].op
        PROVE  /\ FileOf(c)' = fs[shm.path] /\ shm.error = "OK" /\ my[c].op \in Ops
               /\ my[c].op = "READ_FILE" => shm.offset = my[c].offset
    BY <1>1, <1>6 DEF SlotInv, StateFits, RequestFits, HasSlot, FileOf
  <1>7. CASE ServeQuery
    <2> DEFINE answer == QueryAnswer(fs[shm.path])
    <2>1. Reply(answer) /\ srv = "handle" /\ shm.action # "READ_FILE"
      BY <1>7 DEF ServeQuery
    <2>2. ASSUME NEW c \in Clients, pc[c] = "posted", shm.action = my[c].op
          PROVE  AnswerTrue(c)'
      <3>1. /\ FileOf(c)' = fs[shm.path] /\ shm.error = "OK"
            /\ shm.action \in {"ACCESS_FILE", "STAT_FILE"}
        BY <1>6, <2>1, <2>2, FileAssumption
      <3>2. /\ answer.result = fs[shm.path].exists
            /\ answer.error = IF fs[shm.path].exists THEN "OK" ELSE "ENOENT"
            /\ shm.action = "STAT_FILE" /\ fs[shm.path].exists =>
                 answer.size = Len(fs[shm.path].bytes)
            /\ answer \in Slot
        <4>1. fs[shm.path].exists \in BOOLEAN /\ Len(fs[shm.path].bytes) \in Nat
          BY <1>m DEF FileState
        <4>2. CASE shm.action = "ACCESS_FILE"
          BY <1>m, <3>1, <4>1, <4>2 DEF QueryAnswer, Slot, Errnos
        <4>3. CASE shm.action = "STAT_FILE"
          BY <1>m, <3>1, <4>1, <4>3 DEF QueryAnswer, Slot, Errnos
        <4> QED BY <3>1, <4>2, <4>3
      <3> HIDE DEF answer
      <3>3. shm'.result = answer.result /\ shm'.error = answer.error /\ shm'.size = answer.size
        BY <2>1, <3>2 DEF Reply, Slot
      <3>4. QueryTrue(c)'
        BY <1>1, <2>2, <3>1, <3>2, <3>3 DEF QueryTrue
      <3> QED BY <1>1, <2>1, <2>2, <3>4 DEF AnswerTrue
    <2> HIDE DEF answer
    <2> QED BY <1>5, <2>1, <2>2
  <1>8. ASSUME NEW e, e # "OK", Reply([shm EXCEPT !.error = e]),
               srv \in {"handle", "reading"}, shm.action = "READ_FILE",
               ~(fs[shm.path].exists /\ fs[shm.path].readable)
        PROVE  SizeTrue' /\ \A c \in Clients : ClientTrue(c)'
    <2>1. shm'.error = e
      BY <1>8, <1>m DEF Reply, Slot
    <2>2. ASSUME NEW c \in Clients, pc[c] = "posted", shm.action = my[c].op
          PROVE  AnswerTrue(c)'
      <3>1. FileOf(c)' = fs[shm.path] /\ my'[c].op = "READ_FILE"
        BY <1>1, <1>6, <1>8, <2>2
      <3> QED BY <1>8, <2>1, <3>1 DEF AnswerTrue, PieceTrue
    <2> QED BY <1>5, <1>8, <2>2
  <1>9. CASE ServeReadMissing
    <2>1. /\ Reply([shm EXCEPT !.error = "ENOENT"]) /\ srv = "handle"
          /\ shm.action = "READ_FILE" /\ ~fs[shm.path].exists
      BY <1>9 DEF ServeReadMissing
    <2> QED BY <1>8, <2>1
  <1>10. CASE ServeReadOpenFails
    <2> DEFINE e == IF fs[shm.path].exists THEN "EACCES" ELSE "ENOENT"
    <2>1. /\ Reply([shm EXCEPT !.error = e]) /\ srv = "reading" /\ e # "OK"
          /\ ~(fs[shm.path].exists /\ fs[shm.path].readable)
      BY <1>10 DEF ServeReadOpenFails
    <2>2. shm.action = "READ_FILE"
      BY <2>1 DEF SlotInv, StateFits
    <2> HIDE DEF e
    <2> QED BY <1>8, <2>1, <2>2
  <1>11. CASE ServeReadSeekFails \/ ServeReadIoError
    BY <1>11 DEF ServeReadSeekFails, ServeReadIoError
  <1>12. CASE ServeReadChunk
    <2> DEFINE f == fs[shm.path]
               piece == Chunk(f.bytes, shm.offset)
               end == shm.offset + ChunkSize > Len(f.bytes)
               answer == [shm EXCEPT !.bytes = piece, !.eof = end, !.error = "OK"]
    <2>1. Reply(answer) /\ srv = "reading" /\ f.exists /\ f.readable
      BY <1>12 DEF ServeReadChunk
    <2>2. shm.action = "READ_FILE" /\ shm.size = Len(f.bytes)
      BY <2>1 DEF SlotInv, StateFits, SizeTrue
    <2> HIDE DEF piece, end
    <2>3. shm'.bytes = piece /\ shm'.eof = end /\ shm'.error = "OK" /\ shm'.size = shm.size
      BY <2>1, <1>m DEF Reply, Slot
    <2> HIDE DEF answer
    <2>4. ASSUME NEW c \in Clients, pc[c] = "posted", shm.action = my[c].op
          PROVE  AnswerTrue(c)'
      <3>1. FileOf(c)' = f /\ my'[c].op = "READ_FILE" /\ shm.offset = my'[c].offset
        BY <1>1, <1>6, <2>1, <2>2, <2>4
      <3>2. PieceTrue(c)'
        <4>1. shm'.error = "OK" <=> FileOf(c)'.exists /\ FileOf(c)'.readable
          BY <2>1, <2>3, <3>1
        <4>2. /\ shm'.size = Len(FileOf(c)'.bytes)
              /\ shm'.bytes = Chunk(FileOf(c)'.bytes, my'[c].offset)
              /\ shm'.eof = (my'[c].offset + ChunkSize > Len(FileOf(c)'.bytes))
          BY <2>2, <2>3, <3>1 DEF piece, end
        <4> QED BY <4>1, <4>2, Zenon DEF PieceTrue
      <3> QED BY <3>1, <3>2 DEF AnswerTrue
    <2> QED BY <1>5, <2>1, <2>4
  <1> QED BY <1>3, <1>4, <1>7, <1>9, <1>10, <1>11, <1>12 DEF LooperStep

\* A client takes over what it finds, piece by piece.
LEMMA TruthClient ==
  ASSUME SlotInv, SizeTrue, \A c \in Clients : ClientTrue(c),
         NEW c \in Clients, ClientStep(c)
  PROVE  SizeTrue' /\ \A d \in Clients : ClientTrue(d)'
  <1>m. /\ shm \in Slot /\ my \in [Clients -> CallRecord] /\ pc \in [Clients -> PcLabels]
        /\ fs \in [Files -> FileState] /\ Server \notin Clients /\ NoOne # Server
        /\ my[c] \in CallRecord
    BY ProcessAssumption DEF SlotInv, TypeOK, Procs
  <1>f. FileOf(c) \in FileState
    BY <1>m DEF FileOf, CallRecord
  <1>1. /\ fs' = fs /\ srv' = srv
        /\ \A d \in Clients \ {c} : pc'[d] = pc[d] /\ my'[d] = my[d]
        /\ \/ shm' = shm
           \/ mutex = c
           \/ mutex = NoOne /\ shm.state = "IDLE"
    BY <1>m DEF ClientStep, AwaitsIdle, AwaitsResponse, Block, TakeSlot, CanLock, CallService,
       TakeResponse, FinishQuery, ReadFailed, ReadBusy, ReadLast, ReadMore, CanCopy,
       MakeIdle, FirstLook, ReturnBuffer, SecondLook, ReturnResult, SlotInv, Holder
  <1>2. SizeTrue'
    <2>1. srv = "reading" => shm' = shm
      BY <1>1, <1>m DEF SlotInv, Holder
    <2> QED BY <1>1, <2>1 DEF SizeTrue
  <1>3. ASSUME NEW d \in Clients \ {c} PROVE ClientTrue(d)'
    <2>1. shm' = shm \/ pc[d] \notin {"posted", "answered"}
      <3>1. shm' = shm \/ HasSlot(c) \/ shm.state = "IDLE"
        BY <1>m DEF ClientStep, AwaitsIdle, AwaitsResponse, Block, TakeSlot, CallService,
           TakeResponse, FinishQuery, ReadFailed, ReadBusy, ReadLast, ReadMore, CanCopy,
           MakeIdle, FirstLook, ReturnBuffer, SecondLook, ReturnResult, HasSlot
      <3> QED BY <3>1 DEF SlotInv, SlotExclusive, StateFits, HasSlot
    <2> QED BY <1>1, <2>1, StaysTrue
  <1>4. CASE AwaitsIdle(c) \/ AwaitsResponse(c)
    <2>1. UNCHANGED <<pc, my, shm, fs>>
      BY <1>4 DEF AwaitsIdle, AwaitsResponse, Block
    <2>2. ClientTrue(c)'
      BY <2>1, StaysTrue
    <2> QED BY <1>2, <1>3, <2>2
  <1>5. CASE TakeSlot(c) \/ CallService(c)
    <2>1. /\ my' = my /\ (HasSlot(c) \/ pc[c] = "waitIdle")
          /\ pc'[c] = "slot" \/ (pc'[c] = "posted" /\ shm'.state = "SERVICE_ACTION")
      BY <1>5, <1>m DEF TakeSlot, CallService, HasSlot, Slot
    <2>2. FileOf(c)' = FileOf(c)
      BY <1>1, <2>1 DEF FileOf
    <2>3. Gathered(c)'
      BY <2>1, <2>2 DEF ClientTrue, Gathered
    <2>4. AnswerTrue(c)' /\ ReturnTrue(c)'
      BY <2>1 DEF AnswerTrue, ReturnTrue
    <2> QED BY <1>2, <1>3, <2>3, <2>4 DEF ClientTrue
  <1>6. CASE TakeResponse(c)
    <2>1. UNCHANGED <<my, shm, fs>> /\ pc[c] = "posted" /\ pc'[c] = "answered"
      BY <1>6, <1>m DEF TakeResponse
    <2>2. FileOf(c)' = FileOf(c)
      BY <2>1 DEF FileOf
    <2>3. Gathered(c)' /\ ReturnTrue(c)'
      BY <2>1, <2>2 DEF ClientTrue, Gathered, ReturnTrue, HasSlot
    <2>4. AnswerTrue(c)'
      BY <2>1, <2>2 DEF ClientTrue, AnswerTrue, PieceTrue, QueryTrue
    <2> QED BY <1>2, <1>3, <2>3, <2>4 DEF ClientTrue
  <1>7. pc[c] = "answered" =>
          /\ IF my[c].op = "READ_FILE" THEN PieceTrue(c) ELSE QueryTrue(c)
          /\ my[c].got = FALSE
    <2>1. pc[c] = "answered" => shm.state = "SERVER_RESPONSE" /\ ~my[c].got
      BY DEF SlotInv, StateFits, RequestFits, HasSlot
    <2> QED BY <1>m, <2>1 DEF ClientTrue, AnswerTrue, CallRecord
  <1>8. ASSUME pc'[c] = "ret1", ReturnTrue(c)' PROVE ClientTrue(c)'
    BY <1>8 DEF ClientTrue, Gathered, AnswerTrue, HasSlot
  <1>9. CASE FinishQuery(c)
    <2> DEFINE g == shm.error = "OK" /\ shm.result
               n == IF my[c].op = "STAT_FILE" THEN shm.size ELSE my[c].total
    <2>1. /\ pc[c] = "answered" /\ my[c].op # "READ_FILE" /\ pc'[c] = "ret1"
          /\ my' = [my EXCEPT ![c].total = IF my[c].op = "STAT_FILE" THEN shm.size ELSE @,
                              ![c].got = g]
      BY <1>9, <1>m DEF FinishQuery, MakeIdle
    <2>2. g = FileOf(c).exists
      <3>1. g \in BOOLEAN /\ FileOf(c).exists \in BOOLEAN
        BY <1>f DEF FileState
      <3>2. g <=> FileOf(c).exists
        BY <1>7, <2>1 DEF QueryTrue
      <3> QED BY <3>1, <3>2
    <2> HIDE DEF g
    <2>3. /\ my'[c].got = g /\ my'[c].op = my[c].op /\ my'[c].path = my[c].path
          /\ my[c].op = "STAT_FILE" => my'[c].total = shm.size
      BY <1>m, <2>1 DEF CallRecord
    <2>4. FileOf(c)' = FileOf(c)
      BY <1>1, <2>3 DEF FileOf
    <2>5. my[c].op = "STAT_FILE" /\ FileOf(c).exists => shm.size = Len(FileOf(c).bytes)
      BY <1>7, <2>1 DEF QueryTrue
    <2>6. ReturnTrue(c)'
      <3>1. my'[c].got = FileOf(c)'.exists /\ my'[c].op # "READ_FILE"
        BY <2>1, <2>2, <2>3, <2>4
      <3>2. my'[c].got /\ my'[c].op = "STAT_FILE" => my'[c].total = Len(FileOf(c)'.bytes)
        BY <2>2, <2>3, <2>4, <2>5
      <3>3. FileOf(c)'.exists \in BOOLEAN
        BY <1>f, <2>4 DEF FileState
      <3>4. my'[c].got = (FileOf(c)'.exists /\ (my'[c].op = "READ_FILE" => FileOf(c)'.readable))
        BY <3>1, <3>3
      <3> QED BY <3>1, <3>2, <3>4, Zenon DEF ReturnTrue
    <2> QED BY <1>2, <1>3, <1>8, <2>1, <2>6
  <1>10. CASE ReadFailed(c)
    <2>1. /\ pc[c] = "answered" /\ my[c].op = "READ_FILE" /\ shm.error # "OK"
          /\ my' = my /\ pc'[c] = "ret1"
      BY <1>10, <1>m DEF ReadFailed, MakeIdle
    <2>2. FileOf(c)' = FileOf(c)
      BY <1>1, <2>1 DEF FileOf
    <2>3. ~(FileOf(c).exists /\ FileOf(c).readable) /\ my[c].got = FALSE
      BY <1>7, <2>1 DEF PieceTrue
    <2>4. ReturnTrue(c)'
      BY <2>1, <2>2, <2>3 DEF ReturnTrue
    <2> QED BY <1>2, <1>3, <1>8, <2>1, <2>4
  \* What a piece adds.
  <1> DEFINE bytes == FileOf(c).bytes
             offset == my[c].offset
             end == IF offset + ChunkSize < Len(bytes) THEN offset + ChunkSize ELSE Len(bytes)
  <1>11. ASSUME pc[c] = "answered", my[c].op = "READ_FILE", shm.error = "OK"
         PROVE  /\ FileOf(c).exists /\ FileOf(c).readable
                /\ Len(bytes) \in Nat /\ end <= Len(bytes)
                /\ shm.eof <=> offset + ChunkSize > Len(bytes)
                /\ offset + Len(shm.bytes) = end
                /\ my[c].buf \o shm.bytes = SubSeq(bytes, 1, end)
                /\ my[c].alloc => my[c].total = Len(bytes)
                /\ shm.size = Len(bytes)
                /\ SubSeq(bytes, 1, Len(bytes)) = bytes
                /\ ChunkSize \in Nat /\ offset \in Nat
    <2>1. bytes \in Seq(Nat) /\ Len(bytes) \in Nat
      BY <1>f DEF FileState
    <2>2. offset \in 0..Len(bytes)
      <3>1. offset \in Nat /\ offset <= Len(bytes)
        BY <1>m, <1>11 DEF CallRecord, ClientTrue, Gathered, HasSlot
      <3> QED BY <2>1, <3>1
    <2>3. /\ shm.bytes = Chunk(bytes, offset) /\ shm.size = Len(bytes)
          /\ shm.eof <=> offset + ChunkSize > Len(bytes)
          /\ FileOf(c).exists /\ FileOf(c).readable
      BY <1>7, <1>11 DEF PieceTrue
    <2>4. /\ my[c].buf = SubSeq(bytes, 1, offset)
          /\ my[c].alloc => my[c].total = Len(bytes)
      BY <1>11 DEF ClientTrue, Gathered, HasSlot
    <2> HIDE DEF bytes, offset
    <2>5. /\ Len(Chunk(bytes, offset)) = end - offset
          /\ SubSeq(bytes, 1, offset) \o Chunk(bytes, offset) = SubSeq(bytes, 1, end)
          /\ SubSeq(bytes, 1, Len(bytes)) = bytes
      BY <2>1, <2>2, ChunkAdds
    <2>6. ChunkSize \in Nat /\ end \in Nat /\ end <= Len(bytes) /\ offset \in Nat
      BY <2>1, <2>2, FileAssumption
    <2> QED BY <2>1, <2>3, <2>4, <2>5, <2>6
  <1> HIDE DEF bytes, offset, end
  <1>12. CASE ReadBusy(c)
    <2>1. /\ pc[c] = "answered" /\ my[c].op = "READ_FILE" /\ shm.error = "OK"
          /\ my[c].alloc /\ my[c].offset + Len(shm.bytes) > my[c].total
      BY <1>12 DEF ReadBusy, Outgrown
    <2>2. FALSE
      <3>1. /\ Len(bytes) \in Nat /\ end <= Len(bytes) /\ offset + Len(shm.bytes) = end
            /\ my[c].total = Len(bytes)
        BY <1>11, <2>1
      <3>2. end > Len(bytes)
        BY <2>1, <3>1 DEF offset
      <3>3. end \in Nat
        BY <1>11, <2>1 DEF end
      <3> QED BY <3>1, <3>2, <3>3
    <2> QED BY <2>2
  <1>13. CASE ReadLast(c)
    <2>1. /\ pc[c] = "answered" /\ my[c].op = "READ_FILE" /\ shm.error = "OK" /\ shm.eof
          /\ pc'[c] = "ret1"
      BY <1>13, <1>m DEF ReadLast, CanCopy, MakeIdle
    <2>2. /\ my'[c].path = my[c].path /\ my'[c].op = my[c].op /\ my'[c].got = TRUE
          /\ my'[c].buf = my[c].buf \o shm.bytes
          /\ my'[c].count = my[c].offset + Len(shm.bytes)
      BY <1>13, <1>m DEF ReadLast, Copied, CallRecord
    <2>3. end = Len(bytes)
      BY <1>11, <2>1 DEF end
    <2>4. FileOf(c)' = FileOf(c)
      BY <1>1, <2>2 DEF FileOf
    <2>5. my'[c].buf = FileOf(c)'.bytes /\ my'[c].count = Len(FileOf(c)'.bytes)
      BY <1>11, <2>1, <2>2, <2>3, <2>4 DEF bytes, offset
    <2>6. FileOf(c)'.exists /\ FileOf(c)'.readable
      BY <1>11, <2>1, <2>4
    <2>7. ReturnTrue(c)'
      BY <2>1, <2>2, <2>5, <2>6 DEF ReturnTrue
    <2> QED BY <1>2, <1>3, <1>8, <2>1, <2>7
  <1>14. CASE ReadMore(c)
    <2>1. /\ pc[c] = "answered" /\ my[c].op = "READ_FILE" /\ shm.error = "OK" /\ ~shm.eof
          /\ pc'[c] = "slot"
      BY <1>14, <1>m DEF ReadMore, CanCopy
    <2>2. /\ my'[c].path = my[c].path /\ my'[c].op = my[c].op
          /\ my'[c].buf = my[c].buf \o shm.bytes
          /\ my'[c].offset = my[c].offset + Len(shm.bytes)
          /\ my'[c].total = IF my[c].alloc THEN my[c].total ELSE shm.size
      BY <1>14, <1>m DEF ReadMore, Copied, CallRecord
    <2>3. FileOf(c)' = FileOf(c)
      BY <1>1, <2>2 DEF FileOf
    <2>4. /\ my'[c].offset = end /\ my'[c].total = Len(bytes)
          /\ my'[c].buf = SubSeq(bytes, 1, end) /\ end <= Len(bytes)
      BY <1>11, <2>1, <2>2 DEF offset
    <2>5. Gathered(c)'
      BY <2>3, <2>4 DEF Gathered, bytes
    <2>6. AnswerTrue(c)' /\ ReturnTrue(c)'
      BY <2>1 DEF AnswerTrue, ReturnTrue
    <2> QED BY <1>2, <1>3, <2>5, <2>6 DEF ClientTrue
  <1>15. CASE FirstLook(c) \/ ReturnBuffer(c) \/ SecondLook(c) \/ ReturnResult(c)
    <2>1. pc'[c] \in {"ret2", "ret3", "idle"}
      BY <1>15, <1>m DEF FirstLook, ReturnBuffer, SecondLook, ReturnResult
    <2>2. ClientTrue(c)'
      BY <2>1 DEF ClientTrue, Gathered, AnswerTrue, ReturnTrue, HasSlot
    <2> QED BY <1>2, <1>3, <2>2
  <1> QED BY <1>4, <1>5, <1>6, <1>9, <1>10, <1>12, <1>13, <1>14, <1>15 DEF ClientStep

\* A call begins with nothing gathered; only a change of a file could make an answer false.
LEMMA TruthOthers ==
  ASSUME SlotInv, SizeTrue, \A c \in Clients : ClientTrue(c), writes' = 0,
         NEW c \in Clients, NEW op \in Ops, NEW f \in Files, NEW p \in Procs,
         Others(c, op, f, p)
  PROVE  SizeTrue' /\ \A d \in Clients : ClientTrue(d)'
  <1>m. /\ my \in [Clients -> CallRecord] /\ pc \in [Clients -> PcLabels] /\ writes \in Nat
        /\ fs \in [Files -> FileState] /\ Zygote \in Clients
    BY DEF SlotInv, TypeOK, Clients
  <1>1. ASSUME UNCHANGED <<my, shm, fs>>, srv' \in {srv, "dead"},
               \A d \in Clients :
                 pc'[d] = pc[d] \/ pc'[d] \in {"idle", "timedOut", "off", "dead"}
        PROVE  SizeTrue' /\ \A d \in Clients : ClientTrue(d)'
    <2>1. SizeTrue'
      BY <1>1 DEF SizeTrue
    <2> QED BY <1>1, <2>1, StaysTrue
  <1>2. CASE StartStep
    BY <1>1, <1>2, <1>m DEF StartStep, SeesRunning, AwaitsRunning, Block, RunningTimeout,
                            GivesUp
  <1>3. CASE Restrict \/ SpuriousWakeup(p) \/ ServerDies
    BY <1>1, <1>3 DEF Restrict, SpuriousWakeup, ServerDies, DiesWith
  <1>4. CASE (c \in Forked /\ Fork(c)) \/ ClientDies(c)
    BY <1>1, <1>4, <1>m DEF Fork, ClientDies, DiesWith
  <1>5. CASE CallDenied(c, op, f) \/ CallTooLong(c, op, f)
    <2>1. /\ UNCHANGED <<shm, srv, fs, pc>> /\ pc[c] = "idle"
          /\ \A d \in Clients \ {c} : my'[d] = my[d]
      BY <1>5, <1>m DEF CallDenied, CallTooLong, Refuse, MayCall
    <2>2. ASSUME NEW d \in Clients PROVE ClientTrue(d)'
      <3>1. CASE d = c
        BY <2>1, <3>1 DEF ClientTrue, Gathered, AnswerTrue, ReturnTrue, HasSlot
      <3>2. CASE d # c
        BY <2>1, <3>2, StaysTrue
      <3> QED BY <3>1, <3>2
    <2> QED BY <2>1, <2>2 DEF SizeTrue
  <1>6. CASE Call(c, op, f)
    <2>1. /\ UNCHANGED <<shm, srv, fs>> /\ pc'[c] = "waitIdle"
          /\ \A d \in Clients \ {c} : my'[d] = my[d] /\ pc'[d] = pc[d]
          /\ my' = [my EXCEPT ![c] = [NoCall EXCEPT !.op = op, !.path = f]]
      BY <1>6, <1>m DEF Call
    <2>2. /\ my'[c].path = f /\ my'[c].offset = 0 /\ my'[c].buf = <<>>
          /\ my'[c].alloc = FALSE
      BY <1>m, <2>1 DEF NoCall
    <2>3. ClientTrue(c)'
      <3>1. FileOf(c)' = fs[f] /\ fs[f].bytes \in Seq(Nat)
        BY <1>m, <2>1, <2>2 DEF FileOf, FileState
      <3>2. SubSeq(fs[f].bytes, 1, 0) = <<>> /\ 0 <= Len(fs[f].bytes)
        BY <3>1
      <3>3. Gathered(c)'
        BY <2>2, <3>1, <3>2 DEF Gathered
      <3> QED BY <2>1, <3>3 DEF ClientTrue, AnswerTrue, ReturnTrue
    <2>4. ASSUME NEW d \in Clients \ {c} PROVE ClientTrue(d)'
      BY <2>1, StaysTrue
    <2> QED BY <2>1, <2>3, <2>4 DEF SizeTrue
  <1>7. CASE ChangeFile(f)
    BY <1>7, <1>m DEF ChangeFile
  <1> QED BY <1>2, <1>3, <1>4, <1>5, <1>6, <1>7 DEF Others

\* Until a file changes, and with no I/O errors, the answer a client finds is the truth
\* and a read gathers every byte, with any number of clients, any sizes of files and of
\* chunks, and whoever dies.
THEOREM AnswersAreTrue ==
  ASSUME IoErrors = {}
  PROVE  Spec => [](writes = 0 => LockedAnswerTrue)
  <1>1. Init => TruthInv
    <2> SUFFICES ASSUME Init PROVE TruthInv
      OBVIOUS
    <2>1. srv = "new" /\ \A c \in Clients : pc[c] \in {"waitRunning", "unborn"}
      BY DEF Init
    <2> QED BY <2>1 DEF TruthInv, SizeTrue, ClientTrue, Gathered, AnswerTrue, ReturnTrue,
                        HasSlot
  <1>2. SlotInv /\ TruthInv /\ [Next]_vars => TruthInv'
    <2> SUFFICES ASSUME SlotInv, TruthInv, [Next]_vars, writes' = 0
                 PROVE  SizeTrue' /\ \A c \in Clients : ClientTrue(c)'
      BY DEF TruthInv
    <2>1. CASE UNCHANGED vars
      <3>1. /\ UNCHANGED <<shm, srv, fs, pc, my>> /\ writes' = writes
        BY <2>1 DEF vars, bounds
      <3>2. SizeTrue /\ \A c \in Clients : ClientTrue(c)
        BY <3>1 DEF TruthInv
      <3> QED BY <3>1, <3>2, StaysTrue DEF SizeTrue
    <2>2. CASE LooperStep
      <3>1. writes' = writes
        BY <2>2 DEF LooperStep, LooperStart, LooperWaits, Block, LooperTakes, ServeQuery,
           ServeReadStat, ServeReadMissing, ServeReadOpenFails, ServeReadSeekFails,
           ServeReadIoError, ServeReadChunk, Reply, bounds
      <3> QED BY <2>2, <3>1, TruthLooper DEF TruthInv
    <2>3. ASSUME NEW c \in Clients, ClientStep(c)
          PROVE  SizeTrue' /\ \A d \in Clients : ClientTrue(d)'
      <3>1. writes' = writes
        BY <2>3 DEF ClientStep, AwaitsIdle, AwaitsResponse, Block, TakeSlot, CallService,
           TakeResponse, FinishQuery, ReadFailed, ReadBusy, ReadLast, ReadMore, CanCopy,
           MakeIdle, FirstLook, ReturnBuffer, SecondLook, ReturnResult, bounds
      <3> QED BY <2>3, <3>1, TruthClient DEF TruthInv
    <2>4. ASSUME NEW c \in Clients, NEW op \in Ops, NEW f \in Files, NEW p \in Procs,
                 Others(c, op, f, p)
          PROVE  SizeTrue' /\ \A d \in Clients : ClientTrue(d)'
      <3>1. writes' = writes \/ writes' = writes + 1
        BY <2>4 DEF Others, StartStep, SeesRunning, AwaitsRunning, Block, RunningTimeout,
           GivesUp, Restrict, Fork, CallDenied, CallTooLong, Refuse, Call, ChangeFile,
           SpuriousWakeup, ServerDies, ClientDies, DiesWith, bounds
      <3>2. writes = 0
        <4>1. writes \in Nat
          BY DEF SlotInv, TypeOK
        <4> QED BY <3>1, <4>1
      <3> QED BY <2>4, <3>2, TruthOthers DEF TruthInv
    <2> QED BY <2>1, <2>2, <2>3, <2>4, NextCases
  <1>3. TruthInv => (writes = 0 => LockedAnswerTrue)
    BY DEF TruthInv, ClientTrue, ReturnTrue, FileOf, LockedAnswerTrue
  <1> QED BY <1>1, <1>2, <1>3, SlotInvariant, PTL DEF Spec
=============================================================================
