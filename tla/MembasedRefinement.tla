------------------------ MODULE MembasedRefinement ------------------------
(***************************************************************************)
(* The shared memory implements the abstract file service, for any number  *)
(* of clients and files: proof of the step simulation.                     *)
(***************************************************************************)
EXTENDS MembasedProofs

\* All that the abstract service sees of a client.
View(c) == <<AbsPhase(c), my[c].op, my[c].path, AbsData(c), AbsOk(c)>>

AbsVars == <<[c \in Clients |-> AbsPhase(c)],
             [c \in Clients |-> [op |-> my[c].op, path |-> my[c].path]],
             [c \in Clients |-> AbsData(c)], [c \in Clients |-> AbsOk(c)], fs>>

\* A client's view only changes with its program counter, its locals and, while
\* it has a posted request, with the slot.
LEMMA SameView ==
  ASSUME NEW c \in Clients, pc'[c] = pc[c], my'[c] = my[c],
         \/ shm' = shm
         \/ pc[c] \notin {"posted", "answered"}
         \/ shm.state # "SERVER_RESPONSE" /\ shm'.state # "SERVER_RESPONSE"
  PROVE  View(c)' = View(c)
  <1>1. CASE shm' = shm
    BY <1>1 DEF View, AbsPhase, AbsData, AbsOk, HasPiece, ServedYes, ServedNo, Served,
                Outgrown, HasSlot
  <1>2. CASE \/ pc[c] \notin {"posted", "answered"}
             \/ shm.state # "SERVER_RESPONSE" /\ shm'.state # "SERVER_RESPONSE"
    <2>1. ~Served(c) /\ ~Served(c)'
      BY <1>2 DEF Served
    <2>2. ~HasPiece(c) /\ ~ServedYes(c) /\ ~ServedNo(c)
      BY <2>1 DEF HasPiece, ServedYes, ServedNo
    <2>3. ~HasPiece(c)' /\ ~ServedYes(c)' /\ ~ServedNo(c)'
      BY <2>1 DEF HasPiece, ServedYes, ServedNo
    <2>4. AbsPhase(c)' = AbsPhase(c)
      BY <2>2, <2>3 DEF AbsPhase, HasSlot
    <2>5. AbsData(c)' = AbsData(c)
      BY <2>2, <2>3 DEF AbsData
    <2>6. AbsOk(c)' = AbsOk(c)
      BY <2>1 DEF AbsOk
    <2> QED BY <2>4, <2>5, <2>6 DEF View
  <1> QED BY <1>1, <1>2 DEF View

\* If no view and no file changes, the abstract service stutters.
LEMMA Stutter ==
  ASSUME \A c \in Clients : View(c)' = View(c), fs' = fs
  PROVE  AbsVars' = AbsVars
  <1>1. \A c \in Clients : /\ AbsPhase(c)' = AbsPhase(c) /\ AbsData(c)' = AbsData(c)
                           /\ AbsOk(c)' = AbsOk(c)
                           /\ my'[c].op = my[c].op /\ my'[c].path = my[c].path
    BY DEF View
  <1> QED BY <1>1 DEF AbsVars

\* How an abstract action of one client follows from what happens to its view.
LEMMA OneClient ==
  ASSUME NEW c \in Clients, \A d \in Clients \ {c} : View(d)' = View(d)
  PROVE  /\ \A ph : AbsPhase(c)' = ph =>
              [d \in Clients |-> AbsPhase(d)]' = [[d \in Clients |-> AbsPhase(d)] EXCEPT ![c] = ph]
         /\ \A dt : AbsData(c)' = dt =>
              [d \in Clients |-> AbsData(d)]' = [[d \in Clients |-> AbsData(d)] EXCEPT ![c] = dt]
         /\ \A k : AbsOk(c)' = k =>
              [d \in Clients |-> AbsOk(d)]' = [[d \in Clients |-> AbsOk(d)] EXCEPT ![c] = k]
         /\ \A r : [op |-> my'[c].op, path |-> my'[c].path] = r =>
              [d \in Clients |-> [op |-> my[d].op, path |-> my[d].path]]'
                = [[d \in Clients |-> [op |-> my[d].op, path |-> my[d].path]] EXCEPT ![c] = r]
  <1>1. \A d \in Clients \ {c} : /\ AbsPhase(d)' = AbsPhase(d) /\ AbsData(d)' = AbsData(d)
                                 /\ AbsOk(d)' = AbsOk(d)
                                 /\ my'[d].op = my[d].op /\ my'[d].path = my[d].path
    BY DEF View
  <1> QED BY <1>1

\* A client whose entries stay the same has the same view.
LEMMA Untouched ==
  ASSUME NEW c \in Clients, \A d \in Clients \ {c} : View(d)' = View(d)
  PROVE  /\ AbsPhase(c)' = AbsPhase(c) =>
              [d \in Clients |-> AbsPhase(d)]' = [d \in Clients |-> AbsPhase(d)]
         /\ AbsData(c)' = AbsData(c) =>
              [d \in Clients |-> AbsData(d)]' = [d \in Clients |-> AbsData(d)]
         /\ AbsOk(c)' = AbsOk(c) =>
              [d \in Clients |-> AbsOk(d)]' = [d \in Clients |-> AbsOk(d)]
         /\ my'[c].op = my[c].op /\ my'[c].path = my[c].path =>
              [d \in Clients |-> [op |-> my[d].op, path |-> my[d].path]]'
                = [d \in Clients |-> [op |-> my[d].op, path |-> my[d].path]]
  <1>1. \A d \in Clients \ {c} : /\ AbsPhase(d)' = AbsPhase(d) /\ AbsData(d)' = AbsData(d)
                                 /\ AbsOk(d)' = AbsOk(d)
                                 /\ my'[d].op = my[d].op /\ my'[d].path = my[d].path
    BY DEF View
  <1> QED BY <1>1

\* The initial states are initial states of the abstract service.
LEMMA AbstractInit == Init => Abstract!Init
  <1> SUFFICES ASSUME Init PROVE Abstract!Init
    OBVIOUS
  <1>1. \A c \in Clients : my[c] = NoCall /\ pc[c] \in {"waitRunning", "unborn"}
    BY DEF Init
  <1>s. \A c \in Clients : ~Served(c) /\ ~HasPiece(c) /\ ~ServedYes(c) /\ ~ServedNo(c)
    BY <1>1 DEF HasPiece, ServedYes, ServedNo, Served
  <1>2. \A c \in Clients : AbsPhase(c) = "out" /\ AbsData(c) = <<>> /\ AbsOk(c) = FALSE
    <2> TAKE c \in Clients
    <2>1. AbsPhase(c) = "out"
      BY <1>1, <1>s DEF AbsPhase, HasSlot
    <2>2. AbsData(c) = <<>>
      BY <1>1, <1>s, NoCallFields DEF AbsData
    <2>3. ~my[c].got
      BY <1>1, NoCallFields
    <2>4. AbsOk(c) = FALSE
      BY <1>s, <2>3, Zenon DEF AbsOk
    <2> QED BY <2>1, <2>2, <2>4
  <1>3. \A c \in Clients : [op |-> my[c].op, path |-> my[c].path]
                             = [op |-> "NONE", path |-> NoCall.path]
    BY <1>1, NoCallFields
  <1>4. NoCall.path \in Files
    BY NoCallType
  <1> QED BY <1>2, <1>3, <1>4 DEF Abstract!Init, Init

\* The four functions the abstract actions are about, and one client's entries.
LEMMA AbsAt ==
  ASSUME NEW c \in Clients
  PROVE  /\ [d \in Clients |-> AbsPhase(d)][c] = AbsPhase(c)
         /\ [d \in Clients |-> AbsData(d)][c] = AbsData(c)
         /\ [d \in Clients |-> AbsOk(d)][c] = AbsOk(c)
         /\ [d \in Clients |-> [op |-> my[d].op, path |-> my[d].path]][c].op = my[c].op
         /\ [d \in Clients |-> [op |-> my[d].op, path |-> my[d].path]][c].path = my[c].path
  OBVIOUS

----------------------------------------------------------------------------
(* What a failed fseek() leaves in the slot *)

\* The piece in the slot is the last one c has taken, and not the end of its file.
LastPiece(c) ==
  LET n == Len(my[c].buf) IN
  /\ n >= ChunkSize
  /\ shm.bytes = SubSeq(my[c].buf, n - ChunkSize + 1, n)
  /\ Len(shm.bytes) = ChunkSize
  /\ ~shm.eof

\* Until a continued read is answered the slot holds the previous piece, and only
\* a full piece is continued.
KeptPiece ==
  /\ \A c \in Clients :
       /\ pc[c] = "slot" \/ (pc[c] = "posted" /\ shm.state = "SERVICE_ACTION")
       /\ my[c].op = "READ_FILE"
       /\ my[c].buf # <<>>
       => LastPiece(c)
  /\ \A c \in Clients :
       Served(c) /\ my[c].op = "READ_FILE" /\ shm.error = "OK" /\ ~shm.eof
       => Len(shm.bytes) = ChunkSize

\* A piece that does not reach the end of the file is a full one.
LEMMA FullPiece ==
  ASSUME NEW bytes \in Seq(Nat), NEW offset \in Nat, offset + ChunkSize <= Len(bytes)
  PROVE  Len(Chunk(bytes, offset)) = ChunkSize
  BY FileAssumption DEF Chunk

\* What was appended last is the last piece.
LEMMA AppendedLast ==
  ASSUME NEW buf \in Seq(Nat), NEW bytes \in Seq(Nat)
  PROVE  LET n == Len(buf \o bytes) IN
         SubSeq(buf \o bytes, n - Len(bytes) + 1, n) = bytes
  <1> DEFINE all == buf \o bytes
             n == Len(all)
             part == SubSeq(all, n - Len(bytes) + 1, n)
  <1>1. all \in Seq(Nat) /\ n = Len(buf) + Len(bytes) /\ Len(buf) \in Nat /\ Len(bytes) \in Nat
    OBVIOUS
  <1>2. part \in Seq(Nat) /\ Len(part) = Len(bytes)
    <2> HIDE DEF all
    <2> QED BY <1>1
  <1>3. \A i \in 1..Len(bytes) : part[i] = bytes[i]
    BY <1>1
  <1> HIDE DEF part
  <1>4. part \in [1..Len(bytes) -> Nat] /\ bytes \in [1..Len(bytes) -> Nat]
    BY <1>2
  <1>5. part = bytes
    BY <1>3, <1>4
  <1> QED BY <1>5 DEF part

\* The looper leaves the previous piece alone or answers; only the client that
\* was answered moves on.
LEMMA KeptStep == SlotInv /\ KeptPiece /\ [Next]_vars => KeptPiece'
  <1> SUFFICES ASSUME SlotInv, KeptPiece, [Next]_vars PROVE KeptPiece'
    OBVIOUS
  <1>m. /\ shm \in Slot /\ my \in [Clients -> CallRecord] /\ pc \in [Clients -> PcLabels]
        /\ shm.bytes \in Seq(Nat) /\ \A c \in Clients : my[c].buf \in Seq(Nat)
    BY DEF SlotInv, TypeOK, Slot, CallRecord
  <1>1. ASSUME UNCHANGED <<pc, my, shm>> PROVE KeptPiece'
    BY <1>1 DEF KeptPiece, LastPiece, Served
  <1>2. CASE LooperStep
    <2>0. \A c \in Clients : pc'[c] = pc[c] /\ my'[c] = my[c]
      BY <1>2 DEF LooperStep, LooperStart, LooperWaits, Block, LooperTakes, ServeQuery,
         ServeReadStat, ServeReadMissing, ServeReadOpenFails, ServeReadSeekFails,
         ServeReadIoError, ServeReadChunk, Reply
    <2>1. CASE LooperStart \/ LooperWaits \/ LooperTakes \/ ServeReadStat
      <3>1. /\ shm'.bytes = shm.bytes /\ shm'.eof = shm.eof /\ shm'.error = shm.error
            /\ shm'.state = shm.state \/ (shm'.state = "IDLE" /\ shm.state = "NOT_RUNNING")
        BY <2>1, <1>m DEF SlotInv, StateFits, LooperStart, LooperWaits, Block, LooperTakes,
                          ServeReadStat, Slot
      <3> QED BY <2>0, <3>1 DEF KeptPiece, LastPiece, Served
    <2>2. CASE ServeQuery \/ ServeReadMissing \/ ServeReadOpenFails \/ ServeReadSeekFails
               \/ ServeReadIoError \/ ServeReadChunk
      <3>1. \A c \in Clients : pc'[c] # "slot"
        <4>1. srv \in {"handle", "reading"}
          BY <2>2 DEF ServeQuery, ServeReadMissing, ServeReadOpenFails, ServeReadSeekFails,
                      ServeReadIoError, ServeReadChunk
        <4>2. mutex = Server /\ \A c \in Clients : c # Server
          BY <4>1, ProcessAssumption DEF SlotInv, Holder, Procs
        <4> QED BY <2>0, <4>2 DEF SlotInv, Holder
      <3>2. shm'.state = "SERVER_RESPONSE"
        BY <2>2, <1>m DEF ServeQuery, QueryAnswer, ServeReadMissing, ServeReadOpenFails,
           ServeReadSeekFails, ServeReadIoError, ServeReadChunk, Reply, Slot
      <3>3. ASSUME NEW c \in Clients, pc[c] = "posted", my[c].op = "READ_FILE",
                   shm'.error = "OK", ~shm'.eof
            PROVE  Len(shm'.bytes) = ChunkSize
        <4>1. shm.state = "SERVICE_ACTION" /\ shm.action = "READ_FILE"
              /\ shm.offset = Len(my[c].buf) /\ Len(my[c].buf) \in Nat
          BY <2>2, <3>3, <1>m DEF SlotInv, StateFits, RequestFits, HasSlot, ServeQuery,
             ServeReadMissing, ServeReadOpenFails, ServeReadSeekFails, ServeReadIoError,
             ServeReadChunk
        <4>2. CASE ServeQuery \/ ServeReadMissing \/ ServeReadOpenFails \/ ServeReadIoError
          BY <4>1, <4>2, <3>3, <1>m DEF ServeQuery, ServeReadMissing, ServeReadOpenFails,
             ServeReadIoError, Reply, Slot
        <4>3. CASE ServeReadSeekFails
          <5>1. my[c].buf # <<>> /\ shm'.bytes = shm.bytes
            BY <4>1, <4>3, <1>m DEF ServeReadSeekFails, Reply, Slot
          <5> QED BY <3>3, <4>1, <5>1 DEF KeptPiece, LastPiece
        <4>4. CASE ServeReadChunk
          <5> DEFINE f == fs[shm.path]
                     eof == shm.offset + ChunkSize > Len(f.bytes)
          <5>1. f.bytes \in Seq(Nat) /\ shm.offset \in Nat
            BY <1>m DEF SlotInv, TypeOK, Slot, FileState
          <5>2. shm'.bytes = Chunk(f.bytes, shm.offset) /\ shm'.eof = eof
            <6> HIDE DEF eof
            <6>1. Reply([shm EXCEPT !.bytes = Chunk(f.bytes, shm.offset), !.eof = eof,
                                    !.error = "OK"])
              BY <4>4 DEF ServeReadChunk, eof
            <6> QED BY <6>1, <1>m DEF Reply, Slot
          <5>3. ~eof
            BY <3>3, <5>2
          <5>4. shm.offset + ChunkSize <= Len(f.bytes)
            BY <5>1, <5>3, FileAssumption
          <5> QED BY <5>1, <5>2, <5>4, FullPiece
        <4> QED BY <2>2, <4>2, <4>3, <4>4
      <3>4. \A c \in Clients : pc[c] # "answered"
        <4>1. shm.state = "SERVICE_ACTION"
          BY <2>2 DEF SlotInv, StateFits, ServeQuery, ServeReadMissing, ServeReadOpenFails,
             ServeReadSeekFails, ServeReadIoError, ServeReadChunk
        <4> QED BY <4>1 DEF SlotInv, StateFits
      <3> QED BY <2>0, <3>1, <3>2, <3>3, <3>4 DEF KeptPiece, Served
    <2> QED BY <1>2, <2>1, <2>2 DEF LooperStep
  <1>3. ASSUME NEW c \in Clients, ClientStep(c) PROVE KeptPiece'
    <2>1. \A d \in Clients \ {c} : pc'[d] = pc[d] /\ my'[d] = my[d]
      BY <1>3, <1>m DEF ClientStep, AwaitsIdle, AwaitsResponse, Block, TakeSlot, CallService,
         TakeResponse, FinishQuery, ReadFailed, ReadBusy, ReadLast, ReadMore, CanCopy,
         MakeIdle, FirstLook, ReturnBuffer, SecondLook, ReturnResult
    <2>2. HasSlot(c) => \A d \in Clients \ {c} : ~HasSlot(d)'
      BY <2>1 DEF SlotInv, SlotExclusive, HasSlot
    <2>3. CASE AwaitsIdle(c) \/ AwaitsResponse(c)
      BY <1>1, <2>3 DEF AwaitsIdle, AwaitsResponse, Block
    <2>4. CASE TakeSlot(c)
      <3>1. /\ pc'[c] = "slot" /\ my' = my /\ my[c].buf = <<>>
            /\ shm.state = "IDLE" /\ mutex = NoOne
        BY <2>4, <1>m DEF TakeSlot, CanLock, SlotInv, RequestFits
      <3>2. \A d \in Clients : ~HasSlot(d)
        BY <3>1, ProcessAssumption DEF SlotInv, Holder, StateFits, HasSlot, Procs
      <3> QED BY <2>1, <3>1, <3>2 DEF KeptPiece, Served, HasSlot
    <2>5. CASE CallService(c)
      <3>1. /\ pc[c] = "slot" /\ pc'[c] = "posted" /\ my' = my
            /\ shm'.state = "SERVICE_ACTION" /\ shm'.bytes = shm.bytes /\ shm'.eof = shm.eof
        BY <2>5, <1>m DEF CallService, Slot
      <3>2. \A d \in Clients \ {c} : ~HasSlot(d)'
        BY <2>2, <3>1 DEF HasSlot
      <3> QED BY <3>1, <3>2 DEF KeptPiece, LastPiece, Served, HasSlot
    <2>6. CASE TakeResponse(c)
      <3>1. /\ pc[c] = "posted" /\ pc'[c] = "answered" /\ UNCHANGED <<my, shm>>
            /\ shm.state = "SERVER_RESPONSE"
        BY <2>6, <1>m DEF TakeResponse
      <3> QED BY <2>1, <3>1 DEF KeptPiece, LastPiece, Served
    <2>7. CASE FinishQuery(c) \/ ReadFailed(c) \/ ReadBusy(c) \/ ReadLast(c)
      <3>1. pc[c] = "answered" /\ pc'[c] = "ret1"
        BY <2>7, <1>m DEF FinishQuery, ReadFailed, ReadBusy, ReadLast, CanCopy, MakeIdle
      <3>2. \A d \in Clients : ~HasSlot(d)'
        BY <2>2, <3>1 DEF HasSlot
      <3> QED BY <3>2 DEF KeptPiece, Served, HasSlot
    <2>8. CASE ReadMore(c)
      <3>1. /\ pc[c] = "answered" /\ pc'[c] = "slot" /\ my[c].op = "READ_FILE"
            /\ shm.error = "OK" /\ ~shm.eof
            /\ shm'.bytes = shm.bytes /\ shm'.eof = shm.eof
            /\ my'[c].buf = my[c].buf \o shm.bytes
        BY <2>8, <1>m DEF ReadMore, CanCopy, Copied, Slot, CallRecord
      <3>2. \A d \in Clients \ {c} : ~HasSlot(d)'
        BY <2>2, <3>1 DEF HasSlot
      <3>3. Len(shm.bytes) = ChunkSize
        BY <3>1 DEF KeptPiece, Served, SlotInv, StateFits
      <3>4. LastPiece(c)'
        <4> DEFINE all == my[c].buf \o shm.bytes
        <4>1. Len(all) = Len(my[c].buf) + Len(shm.bytes) /\ Len(my[c].buf) \in Nat
          BY <1>m
        <4>2. SubSeq(all, Len(all) - Len(shm.bytes) + 1, Len(all)) = shm.bytes
          BY <1>m, AppendedLast
        <4> HIDE DEF all
        <4>3. my'[c].buf = all
          BY <3>1 DEF all
        <4>4. Len(all) >= ChunkSize
          BY <3>3, <4>1, FileAssumption
        <4>5. shm'.bytes = SubSeq(all, Len(all) - ChunkSize + 1, Len(all))
          BY <3>1, <3>3, <4>2
        <4>6. Len(shm'.bytes) = ChunkSize /\ ~shm'.eof
          BY <3>1, <3>3
        <4> QED BY <4>3, <4>4, <4>5, <4>6, Zenon DEF LastPiece
      <3> QED BY <3>1, <3>2, <3>4 DEF KeptPiece, Served, HasSlot
    <2>9. CASE FirstLook(c) \/ ReturnBuffer(c) \/ SecondLook(c) \/ ReturnResult(c)
      <3>1. shm' = shm /\ ~HasSlot(c)'
        BY <2>9, <1>m DEF FirstLook, ReturnBuffer, SecondLook, ReturnResult, HasSlot
      <3> QED BY <2>1, <3>1 DEF KeptPiece, LastPiece, Served, HasSlot
    <2> QED BY <1>3, <2>3, <2>4, <2>5, <2>6, <2>7, <2>8, <2>9 DEF ClientStep
  <1>4. ASSUME NEW c \in Clients, NEW op \in Ops, NEW f \in Files, NEW p \in Procs,
               Others(c, op, f, p)
        PROVE  KeptPiece'
    <2> DEFINE kept == /\ shm' = shm
                       /\ \A d \in Clients : \/ pc'[d] = pc[d] /\ my'[d] = my[d]
                                             \/ ~HasSlot(d)'
    <2>1. StartStep => kept
      BY <1>m DEF StartStep, SeesRunning, AwaitsRunning, Block, RunningTimeout, GivesUp,
                        HasSlot
    <2>2. (Restrict \/ ChangeFile(f) \/ SpuriousWakeup(p) \/ ServerDies) => kept
      BY <1>m DEF Restrict, ChangeFile, SpuriousWakeup, ServerDies, DiesWith
    <2>3. ((c \in Forked /\ Fork(c)) \/ ClientDies(c)) => kept
      BY <1>m DEF Fork, ClientDies, DiesWith, HasSlot
    <2>4. (CallDenied(c, op, f) \/ CallTooLong(c, op, f) \/ Call(c, op, f)) => kept
      BY <1>m DEF CallDenied, CallTooLong, Call, Refuse, MayCall, HasSlot
    <2>5. kept
      BY <1>4, <2>1, <2>2, <2>3, <2>4 DEF Others
    <2> QED BY <2>5 DEF KeptPiece, LastPiece, Served, HasSlot
  <1> QED BY <1>1, <1>2, <1>3, <1>4, NextCases DEF vars

\* In every reachable state a continued read finds its last piece in the slot.
THEOREM PieceIsKept == Spec => []KeptPiece
  <1>1. Init => KeptPiece
    BY DEF Init, KeptPiece, Served
  <1> QED BY <1>1, KeptStep, SlotInvariant, PTL DEF Spec

----------------------------------------------------------------------------
(* The looper: an answer is the abstract service's decision *)

\* Before the answer the owner's call is undecided, and nobody else is affected.
LEMMA BeforeReply ==
  ASSUME SlotInv, NEW c \in Clients, pc[c] = "posted", srv \in {"handle", "reading"},
         NEW answer \in Slot, Reply(answer)
  PROVE  /\ AbsPhase(c) = "in" /\ AbsData(c) = my[c].buf /\ AbsOk(c) = FALSE
         /\ shm.path = my[c].path /\ shm.action = my[c].op /\ shm.error = "OK"
         /\ my[c].op = "READ_FILE" => shm.offset = Len(my[c].buf)
         /\ my[c].op \in Ops
         /\ Served(c)' /\ pc'[c] = "posted"
         /\ my' = my /\ fs' = fs /\ shm' = [answer EXCEPT !.state = "SERVER_RESPONSE"]
         /\ \A d \in Clients \ {c} : View(d)' = View(d)
  <1>1. /\ pc' = pc /\ my' = my /\ fs' = fs
        /\ shm' = [answer EXCEPT !.state = "SERVER_RESPONSE"]
    BY DEF Reply
  <1>2. shm.state = "SERVICE_ACTION" /\ shm.error = "OK" /\ HasSlot(c)
    BY DEF SlotInv, StateFits, HasSlot
  <1>3. ~Served(c)
    BY <1>2 DEF Served
  <1>4. ~HasPiece(c) /\ ~ServedYes(c) /\ ~ServedNo(c)
    BY <1>3 DEF HasPiece, ServedYes, ServedNo
  <1>5. ~my[c].got /\ my[c].op \in Ops /\ my[c].offset = Len(my[c].buf)
        /\ shm.path = my[c].path /\ shm.action = my[c].op
        /\ (my[c].op = "READ_FILE" => shm.offset = my[c].offset)
    BY <1>2 DEF SlotInv, RequestFits
  <1>6. AbsPhase(c) = "in"
    BY <1>2, <1>4 DEF AbsPhase
  <1>7. AbsData(c) = my[c].buf
    BY <1>4 DEF AbsData
  <1>8. AbsOk(c) = FALSE
    BY <1>3, <1>5, Zenon DEF AbsOk
  <1>9. Served(c)' /\ pc'[c] = "posted"
    BY <1>1 DEF Served, Slot
  <1>10. ASSUME NEW d \in Clients \ {c} PROVE View(d)' = View(d)
    <2>1. pc[d] \notin {"posted", "answered"}
      BY <1>2 DEF SlotInv, SlotExclusive, HasSlot
    <2> QED BY <1>1, <2>1, SameView
  <1> QED BY <1>1, <1>2, <1>5, <1>6, <1>7, <1>8, <1>9, <1>10

\* The answer to accessFile() or statFile() is the abstract Query.
LEMMA QuerySimulates ==
  ASSUME SlotInv, NEW c \in Clients, pc[c] = "posted", ServeQuery
  PROVE  Abstract!Next
  <1> DEFINE f == fs[shm.path]
             answer == QueryAnswer(f)
  <1>1. srv = "handle" /\ shm.action # "READ_FILE" /\ Reply(answer)
    BY DEF ServeQuery
  <1>m. shm \in Slot /\ f \in FileState
    BY DEF SlotInv, TypeOK, Slot
  <1>2. answer \in Slot
    <2>1. f.exists \in BOOLEAN /\ Len(f.bytes) \in Nat
      BY <1>m DEF FileState
    <2> HIDE DEF f
    <2> QED BY <1>m, <2>1 DEF QueryAnswer, Slot, Errnos
  <1>3. /\ AbsPhase(c) = "in" /\ AbsData(c) = my[c].buf
        /\ shm.path = my[c].path /\ shm.action = my[c].op /\ shm.error = "OK"
        /\ my[c].op \in Ops /\ Served(c)' /\ pc'[c] = "posted" /\ my' = my /\ fs' = fs
        /\ shm' = [answer EXCEPT !.state = "SERVER_RESPONSE"]
        /\ \A d \in Clients \ {c} : View(d)' = View(d)
    BY <1>1, <1>2, BeforeReply
  <1>4. my[c].op \in {"ACCESS_FILE", "STAT_FILE"}
    BY <1>1, <1>3, FileAssumption
  <1>5. /\ shm'.error = "OK" <=> f.exists
        /\ shm'.result = f.exists
    BY <1>3, <1>4, <1>m DEF QueryAnswer, Slot, FileState
  <1>6. (ServedYes(c)' <=> f.exists) /\ (ServedNo(c)' <=> ~f.exists) /\ ~HasPiece(c)'
    BY <1>3, <1>4, <1>5 DEF ServedYes, ServedNo, HasPiece
  <1>7. AbsPhase(c)' = "decided"
    BY <1>6 DEF AbsPhase
  <1>8. AbsData(c)' = my[c].buf
    BY <1>3, <1>6 DEF AbsData
  <1>9. AbsOk(c)' = f.exists
    <2>1. f.exists \in BOOLEAN /\ ServedYes(c)' \in BOOLEAN
      BY <1>m DEF FileState, ServedYes
    <2>2. AbsOk(c)' = ServedYes(c)'
      BY <1>3, Zenon DEF AbsOk
    <2>3. ServedYes(c)' = f.exists
      BY <1>6, <2>1
    <2> QED BY <2>2, <2>3, Zenon
  <1>10. Abstract!Query(c)
    <2>1. [d \in Clients |-> AbsPhase(d)]' = [[d \in Clients |-> AbsPhase(d)] EXCEPT ![c] = "decided"]
      BY <1>3, <1>7, OneClient
    <2>2. [d \in Clients |-> AbsOk(d)]' = [[d \in Clients |-> AbsOk(d)] EXCEPT ![c] = f.exists]
      BY <1>3, <1>9, OneClient
    <2>3. /\ [d \in Clients |-> AbsData(d)]' = [d \in Clients |-> AbsData(d)]
          /\ [d \in Clients |-> [op |-> my[d].op, path |-> my[d].path]]'
               = [d \in Clients |-> [op |-> my[d].op, path |-> my[d].path]]
      BY <1>3, <1>8, Untouched
    <2> QED BY <1>3, <1>4, <2>1, <2>2, <2>3, AbsAt DEF Abstract!Query
  <1> QED BY <1>10 DEF Abstract!Next

\* An answer with an error, and one that no longer fits, give the read up.
LEMMA GivenUpSimulates ==
  ASSUME NEW c \in Clients,
         AbsPhase(c) = "in", AbsData(c) = my[c].buf, AbsOk(c) = FALSE, my' = my, fs' = fs,
         my[c].op = "READ_FILE", Served(c)', pc'[c] = "posted",
         shm'.error # "OK" \/ Outgrown(c)',
         \A d \in Clients \ {c} : View(d)' = View(d)
  PROVE  Abstract!Next
  <1>1. ServedNo(c)' /\ ~ServedYes(c)' /\ ~HasPiece(c)'
    BY DEF ServedNo, ServedYes, HasPiece
  <1>2. AbsPhase(c)' = "decided"
    BY <1>1 DEF AbsPhase
  <1>3. AbsData(c)' = AbsData(c)
    BY <1>1 DEF AbsData
  <1>4. AbsOk(c)' = AbsOk(c)
    <2>1. AbsOk(c)' = ServedYes(c)'
      BY Zenon DEF AbsOk
    <2>2. ServedYes(c)' = FALSE
      BY <1>1 DEF ServedYes
    <2> QED BY <2>1, <2>2
  <1>5. [d \in Clients |-> AbsPhase(d)]' = [[d \in Clients |-> AbsPhase(d)] EXCEPT ![c] = "decided"]
    BY <1>2, OneClient
  <1>6. /\ [d \in Clients |-> AbsData(d)]' = [d \in Clients |-> AbsData(d)]
        /\ [d \in Clients |-> AbsOk(d)]' = [d \in Clients |-> AbsOk(d)]
        /\ [d \in Clients |-> [op |-> my[d].op, path |-> my[d].path]]'
             = [d \in Clients |-> [op |-> my[d].op, path |-> my[d].path]]
    BY <1>3, <1>4, Untouched
  <1>7. Abstract!ReadGivenUp(c)
    BY <1>5, <1>6, AbsAt DEF Abstract!ReadGivenUp
  <1> QED BY <1>7 DEF Abstract!Next

\* A short piece is what reaches the end of the file.
LEMMA ShortPiece ==
  ASSUME NEW bytes \in Seq(Nat), NEW offset \in Nat
  PROVE  /\ Len(Chunk(bytes, offset)) < ChunkSize <=> offset + ChunkSize > Len(bytes)
         /\ Chunk(bytes, offset) = Abstract!Chunk(bytes, offset)
  BY FileAssumption DEF Chunk, Abstract!Chunk

\* A served chunk is the abstract ReadPiece.
LEMMA PieceSimulates ==
  ASSUME SlotInv, NEW c \in Clients, pc[c] = "posted", ServeReadChunk
  PROVE  Abstract!Next
  <1> DEFINE f == fs[shm.path]
             piece == Chunk(f.bytes, shm.offset)
             eof == shm.offset + ChunkSize > Len(f.bytes)
             answer == [shm EXCEPT !.bytes = piece, !.eof = eof, !.error = "OK"]
  <1>1. srv = "reading" /\ f.exists /\ f.readable /\ Reply(answer)
    BY DEF ServeReadChunk
  <1>m. shm \in Slot /\ f \in FileState /\ f.bytes \in Seq(Nat) /\ shm.offset \in Nat
    BY DEF SlotInv, TypeOK, Slot, FileState
  <1>2. piece \in Seq(Nat) /\ eof \in BOOLEAN
    <2>1. piece \in Seq(Nat)
      BY <1>m, ChunkType
    <2>2. eof \in BOOLEAN
      OBVIOUS
    <2> QED BY <2>1, <2>2
  <1>3. answer \in Slot
    <2> HIDE DEF piece, eof
    <2> QED BY <1>m, <1>2 DEF Slot, Errnos
  <1>4. /\ AbsPhase(c) = "in" /\ AbsData(c) = my[c].buf /\ AbsOk(c) = FALSE
        /\ shm.path = my[c].path /\ shm.action = my[c].op
        /\ my[c].op = "READ_FILE" => shm.offset = Len(my[c].buf)
        /\ Served(c)' /\ pc'[c] = "posted" /\ my' = my /\ fs' = fs
        /\ shm' = [answer EXCEPT !.state = "SERVER_RESPONSE"]
        /\ \A d \in Clients \ {c} : View(d)' = View(d)
    <2> HIDE DEF answer
    <2> QED BY <1>1, <1>3, BeforeReply
  <1>5. shm'.error = "OK" /\ shm'.bytes = piece /\ shm'.eof = eof
    <2> HIDE DEF piece, eof
    <2> QED BY <1>4, <1>m DEF Slot
  <1>6. my[c].op = "READ_FILE"
    BY <1>1, <1>4 DEF SlotInv, StateFits
  <1>7. CASE Outgrown(c)'
    BY <1>4, <1>6, <1>7, GivenUpSimulates
  <1>8. CASE ~Outgrown(c)'
    <2> DEFINE last == Len(piece) < ChunkSize
    <2>0. last <=> eof
      BY <1>m, ShortPiece
    <2>1. /\ HasPiece(c)' /\ (ServedYes(c)' <=> last) /\ ~ServedNo(c)'
      <3> HIDE DEF piece, eof, last
      <3> QED BY <1>4, <1>5, <1>6, <1>8, <2>0 DEF HasPiece, ServedYes, ServedNo
    <2>2. AbsPhase(c)' = IF last THEN "decided" ELSE "in"
      <3> HIDE DEF last
      <3> QED BY <1>4, <2>1 DEF AbsPhase, HasSlot
    <2>3. AbsData(c)' = AbsData(c) \o piece
      <3> HIDE DEF piece
      <3> QED BY <1>4, <1>5, <2>1 DEF AbsData
    <2>4. AbsOk(c)' = last
      <3>1. ServedYes(c)' \in BOOLEAN /\ last \in BOOLEAN
        BY DEF ServedYes
      <3>2. AbsOk(c)' = ServedYes(c)'
        BY <1>4, Zenon DEF AbsOk
      <3>3. ServedYes(c)' = last
        BY <2>1, <3>1
      <3> QED BY <3>2, <3>3, Zenon
    <2> HIDE DEF last
    <2>5. [d \in Clients |-> AbsPhase(d)]'
            = [[d \in Clients |-> AbsPhase(d)] EXCEPT ![c] = IF last THEN "decided" ELSE "in"]
      BY <1>4, <2>2, OneClient
    <2>6. [d \in Clients |-> AbsData(d)]'
            = [[d \in Clients |-> AbsData(d)] EXCEPT ![c] = AbsData(c) \o piece]
      <3> HIDE DEF piece
      <3> QED BY <1>4, <2>3, OneClient
    <2>7. [d \in Clients |-> AbsOk(d)]' = [[d \in Clients |-> AbsOk(d)] EXCEPT ![c] = last]
      <3>1. \A k : AbsOk(c)' = k =>
              [d \in Clients |-> AbsOk(d)]' = [[d \in Clients |-> AbsOk(d)] EXCEPT ![c] = k]
        BY <1>4, OneClient
      <3> QED BY <2>4, <3>1, Zenon
    <2>8. [d \in Clients |-> [op |-> my[d].op, path |-> my[d].path]]'
            = [d \in Clients |-> [op |-> my[d].op, path |-> my[d].path]]
      BY <1>4, Untouched
    <2>9. piece = Abstract!Chunk(fs[my[c].path].bytes, Len(AbsData(c)))
      BY <1>4, <1>6, <1>m, ShortPiece
    <2>10. fs[my[c].path].exists /\ fs[my[c].path].readable
      BY <1>1, <1>4
    <2>11. Abstract!ReadPiece(c)
      <3> USE DEF last
      <3> HIDE DEF piece
      <3> QED BY <1>4, <1>6, <2>5, <2>6, <2>7, <2>8, <2>9, <2>10, AbsAt
              DEF Abstract!ReadPiece
    <2> QED BY <2>11 DEF Abstract!Next
  <1> QED BY <1>7, <1>8

\* A failed fseek() that ferror() does not tell repeats the last piece.
LEMMA SeekFailureSimulates ==
  ASSUME SlotInv, KeptPiece, NEW c \in Clients, pc[c] = "posted", ServeReadSeekFails
  PROVE  Abstract!Next
  <1>1. PICK e \in {"OK", "FERR"} : Reply([shm EXCEPT !.error = e])
    BY DEF ServeReadSeekFails
  <1> DEFINE answer == [shm EXCEPT !.error = e]
  <1>m. shm \in Slot /\ srv = "reading" /\ shm.offset > 0 /\ "fseek" \in IoErrors
    BY DEF SlotInv, TypeOK, ServeReadSeekFails
  <1>2. answer \in Slot /\ Reply(answer)
    BY <1>1, <1>m DEF Slot, Errnos
  <1>3. /\ AbsPhase(c) = "in" /\ AbsData(c) = my[c].buf /\ AbsOk(c) = FALSE
        /\ shm.action = my[c].op
        /\ my[c].op = "READ_FILE" => shm.offset = Len(my[c].buf)
        /\ Served(c)' /\ pc'[c] = "posted" /\ my' = my /\ fs' = fs
        /\ shm' = [answer EXCEPT !.state = "SERVER_RESPONSE"]
        /\ \A d \in Clients \ {c} : View(d)' = View(d)
    <2> HIDE DEF answer
    <2> QED BY <1>m, <1>2, BeforeReply
  <1>4. my[c].op = "READ_FILE" /\ shm.state = "SERVICE_ACTION"
    BY <1>m, <1>3 DEF SlotInv, StateFits
  <1>5. shm'.error = e /\ shm'.bytes = shm.bytes /\ shm'.eof = shm.eof
    BY <1>3, <1>m DEF Slot
  <1>6. my[c].buf # <<>> /\ LastPiece(c)
    BY <1>3, <1>4, <1>m DEF KeptPiece
  <1>7. CASE e # "OK" \/ Outgrown(c)'
    BY <1>3, <1>4, <1>5, <1>7, GivenUpSimulates
  <1>8. CASE e = "OK" /\ ~Outgrown(c)'
    <2>1. HasPiece(c)' /\ ~ServedYes(c)' /\ ~ServedNo(c)'
      BY <1>3, <1>4, <1>5, <1>6, <1>8 DEF HasPiece, ServedYes, ServedNo, LastPiece
    <2>2. AbsPhase(c)' = AbsPhase(c)
      BY <1>3, <2>1 DEF AbsPhase, HasSlot
    <2>3. AbsData(c)' = AbsData(c) \o shm.bytes
      BY <1>3, <1>5, <2>1 DEF AbsData
    <2>4. AbsOk(c)' = AbsOk(c)
      <3>1. AbsOk(c)' = ServedYes(c)'
        BY <1>3, Zenon DEF AbsOk
      <3>2. ServedYes(c)' = FALSE
        BY <2>1 DEF ServedYes
      <3> QED BY <1>3, <3>1, <3>2
    <2>5. [d \in Clients |-> AbsData(d)]'
            = [[d \in Clients |-> AbsData(d)] EXCEPT ![c] = AbsData(c) \o shm.bytes]
      BY <1>3, <2>3, OneClient
    <2>6. /\ [d \in Clients |-> AbsPhase(d)]' = [d \in Clients |-> AbsPhase(d)]
          /\ [d \in Clients |-> AbsOk(d)]' = [d \in Clients |-> AbsOk(d)]
          /\ [d \in Clients |-> [op |-> my[d].op, path |-> my[d].path]]'
               = [d \in Clients |-> [op |-> my[d].op, path |-> my[d].path]]
      BY <1>3, <2>2, <2>4, Untouched
    <2>7. /\ Len(AbsData(c)) >= ChunkSize
          /\ shm.bytes = SubSeq(AbsData(c), Len(AbsData(c)) - ChunkSize + 1, Len(AbsData(c)))
      BY <1>3, <1>6 DEF LastPiece
    <2>8. Abstract!RepeatPiece(c)
      BY <1>3, <1>4, <1>m, <2>5, <2>6, <2>7, AbsAt DEF Abstract!RepeatPiece
    <2> QED BY <2>8 DEF Abstract!Next
  <1> QED BY <1>7, <1>8

\* Every step of the looper is an abstract step or a stutter.
LEMMA LooperSimulates ==
  ASSUME SlotInv, KeptPiece, LooperStep
  PROVE  Abstract!Next \/ AbsVars' = AbsVars
  <1>1. CASE LooperStart \/ LooperWaits \/ LooperTakes \/ ServeReadStat
    <2>1. /\ UNCHANGED <<pc, my, fs>>
          /\ \/ shm' = shm
             \/ shm.state # "SERVER_RESPONSE" /\ shm'.state # "SERVER_RESPONSE"
      <3>1. shm \in Slot /\ (srv \in {"handle", "reading"} => shm.state = "SERVICE_ACTION")
            /\ (srv = "new" => shm.state = "NOT_RUNNING")
        BY DEF SlotInv, TypeOK, StateFits
      <3> QED BY <1>1, <3>1 DEF LooperStart, LooperWaits, Block, LooperTakes, ServeReadStat, Slot
    <2> QED BY <2>1, SameView, Stutter
  <1>2. CASE ServeQuery \/ ServeReadMissing \/ ServeReadOpenFails \/ ServeReadSeekFails
              \/ ServeReadIoError \/ ServeReadChunk
    <2>1. shm.state = "SERVICE_ACTION" /\ srv \in {"handle", "reading"}
      BY <1>2 DEF SlotInv, StateFits, ServeQuery, ServeReadMissing, ServeReadOpenFails,
                  ServeReadSeekFails, ServeReadIoError, ServeReadChunk
    <2>2. CASE \A c \in Clients : pc[c] # "posted"
      <3>1. \A c \in Clients : pc[c] \notin {"posted", "answered"}
        BY <2>1, <2>2 DEF SlotInv, StateFits
      <3>2. UNCHANGED <<pc, my, fs>>
        BY <1>2 DEF ServeQuery, ServeReadMissing, ServeReadOpenFails,
                    ServeReadSeekFails, ServeReadIoError, ServeReadChunk, Reply
      <3> QED BY <3>1, <3>2, SameView, Stutter
    <2>3. ASSUME NEW c \in Clients, pc[c] = "posted" PROVE Abstract!Next
      <3>1. ASSUME NEW e \in Errnos \ {"OK"}, NEW a \in Slot, a.error = e, Reply(a),
                   shm.action = "READ_FILE"
            PROVE  Abstract!Next
        <4>1. /\ AbsPhase(c) = "in" /\ AbsData(c) = my[c].buf /\ AbsOk(c) = FALSE
              /\ shm.action = my[c].op /\ Served(c)' /\ pc'[c] = "posted"
              /\ my' = my /\ fs' = fs /\ shm' = [a EXCEPT !.state = "SERVER_RESPONSE"]
              /\ \A d \in Clients \ {c} : View(d)' = View(d)
          BY <2>1, <2>3, <3>1, BeforeReply
        <4>2. shm'.error # "OK"
          BY <3>1, <4>1 DEF Slot
        <4> QED BY <3>1, <4>1, <4>2, GivenUpSimulates
      <3>2. CASE ServeReadMissing \/ ServeReadOpenFails
        <4>1. shm \in Slot /\ shm.action = "READ_FILE"
          BY <3>2 DEF SlotInv, TypeOK, StateFits, ServeReadMissing, ServeReadOpenFails
        <4>2. PICK e \in {"ENOENT", "EACCES"} : Reply([shm EXCEPT !.error = e])
          BY <3>2 DEF ServeReadMissing, ServeReadOpenFails
        <4>3. [shm EXCEPT !.error = e] \in Slot /\ [shm EXCEPT !.error = e].error = e
              /\ e \in Errnos \ {"OK"}
          BY <4>1 DEF Slot, Errnos
        <4> QED BY <3>1, <4>1, <4>2, <4>3
      <3>3. CASE ServeReadIoError
        <4> DEFINE a == [shm EXCEPT !.bytes = <<>>, !.eof = FALSE, !.error = "FERR"]
        <4>1. shm \in Slot /\ shm.action = "READ_FILE" /\ Reply(a)
          BY <3>3 DEF SlotInv, TypeOK, StateFits, ServeReadIoError
        <4>2. <<>> \in Seq(Nat) /\ "FERR" \in Errnos \ {"OK"}
          BY DEF Errnos
        <4>3. a \in Slot /\ a.error = "FERR"
          BY <4>1, <4>2 DEF Slot
        <4> HIDE DEF a
        <4> QED BY <3>1, <4>1, <4>2, <4>3
      <3> QED BY <1>2, <2>3, <3>2, <3>3, QuerySimulates, SeekFailureSimulates,
                  PieceSimulates
    <2> QED BY <2>2, <2>3
  <1> QED BY <1>1, <1>2 DEF LooperStep

----------------------------------------------------------------------------
(* The clients: what has been decided is carried to the return *)

\* A step of one client leaves the views of all others alone.
LEMMA OtherClients ==
  ASSUME SlotInv, NEW c \in Clients, ClientStep(c), NEW d \in Clients \ {c}
  PROVE  View(d)' = View(d) /\ fs' = fs
  <1>m. my \in [Clients -> CallRecord] /\ pc \in [Clients -> PcLabels]
    BY DEF SlotInv, TypeOK
  <1>1. pc'[d] = pc[d] /\ my'[d] = my[d] /\ fs' = fs
        /\ (shm' = shm \/ HasSlot(c) \/ shm.state = "IDLE")
    BY <1>m DEF ClientStep, AwaitsIdle, AwaitsResponse, Block, TakeSlot, CallService,
       TakeResponse, FinishQuery, ReadFailed, ReadBusy, ReadLast, ReadMore, CanCopy,
       MakeIdle, FirstLook, ReturnBuffer, SecondLook, ReturnResult, HasSlot
  <1>2. HasSlot(c) \/ shm.state = "IDLE" => pc[d] \notin {"posted", "answered"}
    BY DEF SlotInv, SlotExclusive, StateFits, HasSlot
  <1> QED BY <1>1, <1>2, SameView

\* Which view a client has when nothing is waiting for it in the slot.
LEMMA ViewUnserved ==
  ASSUME NEW c \in Clients, pc[c] \notin {"posted", "answered"}
         \/ shm.state # "SERVER_RESPONSE"
  PROVE  /\ ~Served(c) /\ ~HasPiece(c) /\ ~ServedYes(c) /\ ~ServedNo(c)
         /\ pc[c] # "dead" => AbsData(c) = my[c].buf /\ AbsOk(c) = (my[c].got /\ TRUE)
         /\ HasSlot(c) \/ pc[c] = "waitIdle" => AbsPhase(c) = "in"
         /\ pc[c] \in {"ret1", "ret2", "ret3"} => AbsPhase(c) = "decided"
         /\ pc[c] \in {"unborn", "waitRunning", "timedOut", "off", "idle"}
              => AbsPhase(c) = "out"
         /\ pc[c] = "dead"
              => AbsPhase(c) = "gone" /\ AbsData(c) = <<>> /\ AbsOk(c) = FALSE
  <1>1. ~Served(c)
    BY DEF Served
  <1>2. ~HasPiece(c) /\ ~ServedYes(c) /\ ~ServedNo(c)
    BY <1>1 DEF HasPiece, ServedYes, ServedNo
  <1>3. pc[c] # "dead" => AbsData(c) = my[c].buf
    BY <1>2 DEF AbsData
  <1>4. pc[c] # "dead" => AbsOk(c) = (my[c].got /\ TRUE)
    BY <1>1 DEF AbsOk
  <1>5. pc[c] = "dead" => AbsOk(c) = FALSE
    BY <1>1 DEF AbsOk
  <1>6. pc[c] = "dead" => AbsData(c) = <<>>
    BY DEF AbsData
  <1> QED BY <1>1, <1>2, <1>3, <1>4, <1>5, <1>6 DEF AbsPhase, HasSlot

\* Every step of a client is an abstract step or a stutter.
LEMMA ClientSimulates ==
  ASSUME SlotInv, NEW c \in Clients, ClientStep(c)
  PROVE  Abstract!Next \/ AbsVars' = AbsVars
  <1>m. /\ my \in [Clients -> CallRecord] /\ pc \in [Clients -> PcLabels] /\ shm \in Slot
        /\ my[c].got \in BOOLEAN
    BY DEF SlotInv, TypeOK, CallRecord
  <1>o. fs' = fs /\ \A d \in Clients \ {c} : View(d)' = View(d)
    <2>1. fs' = fs
      BY DEF ClientStep, AwaitsIdle, AwaitsResponse, Block, TakeSlot, CallService,
         TakeResponse, FinishQuery, ReadFailed, ReadBusy, ReadLast, ReadMore,
         MakeIdle, FirstLook, ReturnBuffer, SecondLook, ReturnResult
    <2> QED BY <2>1, OtherClients
  <1>s. View(c)' = View(c) => AbsVars' = AbsVars
    BY <1>o, Stutter
  <1>1. CASE AwaitsIdle(c) \/ AwaitsResponse(c)
    <2>1. UNCHANGED <<shm, pc, my>>
      BY <1>1 DEF AwaitsIdle, AwaitsResponse, Block
    <2> QED BY <1>s, <2>1, SameView
  <1>2. CASE TakeSlot(c) \/ CallService(c)
    <2>1. /\ pc[c] \in {"waitIdle", "slot"} /\ my' = my
          /\ \/ pc'[c] = "slot"
             \/ pc'[c] = "posted" /\ shm'.state = "SERVICE_ACTION"
      BY <1>2, <1>m DEF TakeSlot, CallService, Slot
    <2>2. /\ AbsPhase(c) = "in" /\ AbsData(c) = my[c].buf /\ AbsOk(c) = (my[c].got /\ TRUE)
      BY <2>1, ViewUnserved DEF HasSlot
    <2>3. ~Served(c)'
      BY <2>1 DEF Served
    <2>4. ~HasPiece(c)' /\ ~ServedYes(c)' /\ ~ServedNo(c)'
      BY <2>3 DEF HasPiece, ServedYes, ServedNo
    <2>5. AbsPhase(c)' = "in"
      BY <2>1, <2>4 DEF AbsPhase, HasSlot
    <2>6. AbsData(c)' = my[c].buf
      BY <2>1, <2>4 DEF AbsData
    <2>7. AbsOk(c)' = (my[c].got /\ TRUE)
      BY <2>1, <2>3 DEF AbsOk
    <2> QED BY <1>s, <2>1, <2>2, <2>5, <2>6, <2>7 DEF View
  <1>3. CASE TakeResponse(c)
    <2>1. pc[c] = "posted" /\ pc'[c] = "answered" /\ UNCHANGED <<my, shm>>
      BY <1>3, <1>m DEF TakeResponse
    <2>2. /\ (Served(c)' <=> Served(c)) /\ (HasPiece(c)' <=> HasPiece(c))
          /\ (ServedYes(c)' <=> ServedYes(c)) /\ (ServedNo(c)' <=> ServedNo(c))
      BY <2>1 DEF Served, HasPiece, ServedYes, ServedNo, Outgrown
    <2>3. AbsPhase(c)' = AbsPhase(c)
      BY <2>1, <2>2 DEF AbsPhase, HasSlot
    <2>4. AbsData(c)' = AbsData(c)
      BY <2>1, <2>2 DEF AbsData
    <2>5. AbsOk(c)' = AbsOk(c)
      BY <2>1 DEF AbsOk, Served, ServedYes, Outgrown
    <2> QED BY <1>s, <2>1, <2>3, <2>4, <2>5 DEF View
  <1>4. ASSUME pc[c] = "answered"
        PROVE  Served(c) /\ ~my[c].got /\ HasSlot(c) /\ AbsOk(c) = ServedYes(c)
    <2>1. Served(c) /\ ~my[c].got /\ HasSlot(c)
      BY <1>4 DEF SlotInv, StateFits, RequestFits, Served, HasSlot
    <2>2. AbsOk(c) = ServedYes(c)
      BY <2>1, Zenon DEF AbsOk
    <2> QED BY <2>1, <2>2
  <1>5. ASSUME pc'[c] = "ret1", pc[c] = "answered", ServedYes(c) \/ ServedNo(c),
               my'[c].op = my[c].op, my'[c].path = my[c].path, my'[c].buf = AbsData(c),
               my'[c].got = ServedYes(c)
        PROVE  AbsVars' = AbsVars
    <2>1. AbsPhase(c) = "decided"
      BY <1>5 DEF AbsPhase
    <2>2. ~Served(c)'
      BY <1>5 DEF Served
    <2>3. AbsPhase(c)' = "decided"
      BY <1>5 DEF AbsPhase
    <2>4. AbsData(c)' = AbsData(c)
      BY <1>5, <2>2 DEF AbsData, HasPiece
    <2>5. AbsOk(c)' = AbsOk(c)
      <3>1. AbsOk(c)' = (my'[c].got /\ TRUE)
        BY <1>5, <2>2 DEF AbsOk
      <3>2. ServedYes(c) \in BOOLEAN
        BY DEF ServedYes
      <3> QED BY <1>4, <1>5, <3>1, <3>2
    <2> QED BY <1>s, <1>5, <2>1, <2>3, <2>4, <2>5 DEF View
  <1>6. CASE FinishQuery(c)
    <2>1. /\ pc[c] = "answered" /\ pc'[c] = "ret1" /\ my[c].op # "READ_FILE"
          /\ my'[c].op = my[c].op /\ my'[c].path = my[c].path /\ my'[c].buf = my[c].buf
          /\ my'[c].got = (shm.error = "OK" /\ shm.result)
      BY <1>6, <1>m DEF FinishQuery, MakeIdle, CallRecord
    <2>2. AbsData(c) = my[c].buf
      BY <2>1 DEF AbsData, HasPiece
    <2>3. Served(c)
      BY <1>4, <2>1
    <2>4. ServedYes(c) = (shm.error = "OK" /\ shm.result)
      BY <2>1, <2>3 DEF ServedYes
    <2>5. ServedYes(c) \/ ServedNo(c)
      BY <2>1, <2>3 DEF ServedYes, ServedNo
    <2> QED BY <1>5, <2>1, <2>2, <2>4, <2>5
  <1>7. CASE ReadFailed(c) \/ ReadBusy(c)
    <2>1. /\ pc[c] = "answered" /\ pc'[c] = "ret1" /\ my' = my /\ my[c].op = "READ_FILE"
          /\ shm.error # "OK" \/ Outgrown(c)
      BY <1>7, <1>m DEF ReadFailed, ReadBusy, MakeIdle
    <2>2. AbsData(c) = my[c].buf
      BY <2>1 DEF AbsData, HasPiece
    <2>3. ServedNo(c) /\ ServedYes(c) = FALSE
      BY <1>4, <2>1 DEF ServedYes, ServedNo
    <2>4. my[c].got = FALSE
      BY <1>m, <1>4, <2>1
    <2> QED BY <1>5, <2>1, <2>2, <2>3, <2>4
  <1>8. ASSUME CanCopy(c)
        PROVE  AbsData(c) = my[c].buf \o shm.bytes /\ (ServedYes(c) <=> shm.eof)
               /\ ~ServedNo(c) /\ pc[c] = "answered"
    <2>1. pc[c] = "answered" /\ Served(c)
      BY <1>4, <1>8 DEF CanCopy
    <2> QED BY <1>8, <2>1 DEF CanCopy, AbsData, HasPiece, ServedYes, ServedNo
  <1>9. CASE ReadLast(c)
    <2>1. /\ CanCopy(c) /\ shm.eof /\ pc'[c] = "ret1"
          /\ my'[c].op = my[c].op /\ my'[c].path = my[c].path
          /\ my'[c].buf = my[c].buf \o shm.bytes /\ my'[c].got = TRUE
      BY <1>9, <1>m DEF ReadLast, MakeIdle, Copied, CallRecord
    <2>2. ServedYes(c) = TRUE
      <3>1. ServedYes(c) \in BOOLEAN
        BY DEF ServedYes
      <3> QED BY <1>8, <2>1, <3>1
    <2> QED BY <1>5, <1>8, <2>1, <2>2
  <1>10. CASE ReadMore(c)
    <2>1. /\ CanCopy(c) /\ ~shm.eof /\ pc'[c] = "slot"
          /\ my'[c].op = my[c].op /\ my'[c].path = my[c].path
          /\ my'[c].buf = my[c].buf \o shm.bytes /\ my'[c].got = my[c].got
      BY <1>10, <1>m DEF ReadMore, Copied, CallRecord
    <2>2. ~ServedYes(c) /\ ~ServedNo(c) /\ HasSlot(c) /\ ~my[c].got
      BY <1>4, <1>8, <2>1
    <2>3. AbsPhase(c) = "in"
      BY <1>8, <2>1, <2>2 DEF AbsPhase, HasSlot
    <2>4. ~Served(c)'
      BY <2>1 DEF Served
    <2>5. ~HasPiece(c)' /\ ~ServedYes(c)' /\ ~ServedNo(c)'
      BY <2>4 DEF HasPiece, ServedYes, ServedNo
    <2>6. AbsPhase(c)' = "in"
      BY <2>1, <2>5 DEF AbsPhase, HasSlot
    <2>7. AbsData(c)' = AbsData(c)
      BY <1>8, <2>1, <2>5 DEF AbsData
    <2>8. AbsOk(c) = FALSE /\ AbsOk(c)' = FALSE
      <3>1. ServedYes(c) \in BOOLEAN
        BY DEF ServedYes
      <3>2. AbsOk(c) = FALSE
        BY <1>4, <1>8, <2>1, <2>2, <3>1
      <3>3. AbsOk(c)' = (my'[c].got /\ TRUE)
        BY <2>1, <2>4 DEF AbsOk
      <3> QED BY <2>1, <2>2, <3>2, <3>3
    <2> QED BY <1>s, <2>1, <2>3, <2>6, <2>7, <2>8 DEF View
  <1>11. CASE FirstLook(c) \/ ReturnBuffer(c) \/ SecondLook(c) \/ ReturnResult(c)
    <2>1. /\ pc[c] \in {"ret1", "ret2", "ret3"} /\ pc'[c] \in {"ret2", "ret3", "idle"}
          /\ my'[c].op = my[c].op /\ my'[c].path = my[c].path
          /\ my'[c].buf = my[c].buf /\ my'[c].got = my[c].got
      BY <1>11, <1>m DEF FirstLook, ReturnBuffer, SecondLook, ReturnResult, CallRecord
    <2>2. AbsPhase(c) = "decided" /\ AbsData(c) = my[c].buf /\ AbsOk(c) = (my[c].got /\ TRUE)
      BY <2>1, ViewUnserved
    <2>3. ~Served(c)'
      BY <2>1 DEF Served
    <2>4. ~HasPiece(c)' /\ ~ServedYes(c)' /\ ~ServedNo(c)'
      BY <2>3 DEF HasPiece, ServedYes, ServedNo
    <2>5. AbsPhase(c)' = IF pc'[c] = "idle" THEN "out" ELSE "decided"
      BY <2>1, <2>4 DEF AbsPhase, HasSlot
    <2>6. AbsData(c)' = AbsData(c)
      BY <2>1, <2>2, <2>4 DEF AbsData
    <2>7. AbsOk(c)' = AbsOk(c)
      BY <2>1, <2>2, <2>3 DEF AbsOk
    <2>8. CASE pc'[c] # "idle"
      BY <1>s, <2>1, <2>2, <2>5, <2>6, <2>7, <2>8 DEF View
    <2>9. CASE pc'[c] = "idle"
      <3>1. [d \in Clients |-> AbsPhase(d)]' = [[d \in Clients |-> AbsPhase(d)] EXCEPT ![c] = "out"]
        <4>1. AbsPhase(c)' = "out"
          BY <2>5, <2>9
        <4> QED BY <1>o, <4>1, OneClient
      <3>2. /\ [d \in Clients |-> AbsData(d)]' = [d \in Clients |-> AbsData(d)]
            /\ [d \in Clients |-> AbsOk(d)]' = [d \in Clients |-> AbsOk(d)]
            /\ [d \in Clients |-> [op |-> my[d].op, path |-> my[d].path]]'
                 = [d \in Clients |-> [op |-> my[d].op, path |-> my[d].path]]
        BY <1>o, <2>1, <2>6, <2>7, Untouched
      <3>3. Abstract!Return(c)
        BY <1>o, <2>2, <3>1, <3>2, AbsAt DEF Abstract!Return
      <3> QED BY <3>3 DEF Abstract!Next
    <2> QED BY <2>8, <2>9
  <1> QED BY <1>1, <1>2, <1>3, <1>6, <1>7, <1>9, <1>10, <1>11 DEF ClientStep

----------------------------------------------------------------------------
(* Everything else *)

\* Deaths, writers and wakeups are abstract crashes, changes or stutters.
LEMMA OthersSimulate ==
  ASSUME SlotInv, NEW c \in Clients, NEW op \in Ops, NEW f \in Files, NEW p \in Procs,
         Others(c, op, f, p)
  PROVE  Abstract!Next \/ AbsVars' = AbsVars
  <1>m. /\ my \in [Clients -> CallRecord] /\ pc \in [Clients -> PcLabels]
        /\ Zygote \in Clients
    BY DEF SlotInv, TypeOK, Clients
  <1> DEFINE Outside == {"unborn", "waitRunning", "timedOut", "off", "idle"}
  <1>1. ASSUME NEW d \in Clients, pc[d] \in Outside, pc'[d] \in Outside, my'[d] = my[d]
        PROVE  View(d)' = View(d)
    <2>1. AbsPhase(d) = "out" /\ AbsData(d) = my[d].buf /\ AbsOk(d) = (my[d].got /\ TRUE)
      BY <1>1, ViewUnserved
    <2>2. ~Served(d)'
      BY <1>1 DEF Served
    <2>3. ~HasPiece(d)' /\ ~ServedYes(d)' /\ ~ServedNo(d)'
      BY <2>2 DEF HasPiece, ServedYes, ServedNo
    <2>4. AbsPhase(d)' = "out"
      BY <1>1, <2>3 DEF AbsPhase, HasSlot
    <2>5. AbsData(d)' = my[d].buf
      BY <1>1, <2>3 DEF AbsData
    <2>6. AbsOk(d)' = (my[d].got /\ TRUE)
      BY <1>1, <2>2 DEF AbsOk
    <2> QED BY <1>1, <2>1, <2>4, <2>5, <2>6 DEF View
  <1>2. CASE StartStep
    <2>1. /\ UNCHANGED <<my, shm, fs>> /\ pc[Zygote] \in Outside /\ pc'[Zygote] \in Outside
          /\ \A d \in Clients \ {Zygote} : pc'[d] = pc[d]
      BY <1>2, <1>m DEF StartStep, SeesRunning, AwaitsRunning, Block, RunningTimeout, GivesUp
    <2> QED BY <1>1, <1>m, <2>1, SameView, Stutter
  <1>3. CASE Restrict \/ SpuriousWakeup(p) \/ ServerDies
    <2>1. UNCHANGED <<my, shm, fs, pc>>
      BY <1>3 DEF Restrict, SpuriousWakeup, ServerDies, DiesWith
    <2> QED BY <2>1, SameView, Stutter
  <1>4. CASE ChangeFile(f)
    <2>1. UNCHANGED <<my, shm, pc>> /\ \E k \in Contents : fs' = [fs EXCEPT ![f] = k]
      BY <1>4 DEF ChangeFile
    <2>2. \A d \in Clients : View(d)' = View(d)
      BY <2>1, SameView
    <2>3. /\ [d \in Clients |-> AbsPhase(d)]' = [d \in Clients |-> AbsPhase(d)]
          /\ [d \in Clients |-> AbsData(d)]' = [d \in Clients |-> AbsData(d)]
          /\ [d \in Clients |-> AbsOk(d)]' = [d \in Clients |-> AbsOk(d)]
          /\ [d \in Clients |-> [op |-> my[d].op, path |-> my[d].path]]'
               = [d \in Clients |-> [op |-> my[d].op, path |-> my[d].path]]
      <3>1. \A d \in Clients : /\ AbsPhase(d)' = AbsPhase(d) /\ AbsData(d)' = AbsData(d)
                               /\ AbsOk(d)' = AbsOk(d)
                               /\ my'[d].op = my[d].op /\ my'[d].path = my[d].path
        BY <2>2 DEF View
      <3> QED BY <3>1
    <2>4. Abstract!ChangeFile(f)
      BY <2>1, <2>3 DEF Abstract!ChangeFile
    <2> QED BY <2>4 DEF Abstract!Next
  <1>5. CASE c \in Forked /\ Fork(c)
    <2>1. /\ UNCHANGED <<my, shm, fs>> /\ pc[c] \in Outside /\ pc'[c] \in Outside
          /\ \A d \in Clients \ {c} : pc'[d] = pc[d]
      BY <1>5, <1>m DEF Fork
    <2> QED BY <1>1, <2>1, SameView, Stutter
  <1>6. CASE CallDenied(c, op, f) \/ CallTooLong(c, op, f) \/ Call(c, op, f)
    <2>1. /\ UNCHANGED <<shm, fs>> /\ pc[c] = "idle" /\ pc'[c] \in {"idle", "waitIdle"}
          /\ \A d \in Clients \ {c} : pc'[d] = pc[d] /\ my'[d] = my[d]
          /\ my'[c].op = op /\ my'[c].path = f /\ my'[c].buf = <<>> /\ my'[c].got = FALSE
      <3>1. \/ my' = [my EXCEPT ![c] = [NoCall EXCEPT !.op = op, !.path = f]]
            \/ \E e : my' = [my EXCEPT ![c] = [NoCall EXCEPT !.op = op, !.path = f, !.errno = e]]
        BY <1>6 DEF CallDenied, CallTooLong, Call, Refuse
      <3>2. /\ UNCHANGED <<shm, fs>> /\ pc[c] = "idle" /\ pc'[c] \in {"idle", "waitIdle"}
            /\ \A d \in Clients \ {c} : pc'[d] = pc[d]
        BY <1>6, <1>m DEF CallDenied, CallTooLong, Call, Refuse, MayCall
      <3>3. /\ \A d \in Clients \ {c} : my'[d] = my[d]
            /\ \/ my'[c] = [NoCall EXCEPT !.op = op, !.path = f]
               \/ \E e : my'[c] = [NoCall EXCEPT !.op = op, !.path = f, !.errno = e]
        BY <1>m, <3>1
      <3>4. NoCall \in CallRecord /\ NoCall.buf = <<>> /\ NoCall.got = FALSE
        BY NoCallType, NoCallFields
      <3>5. /\ my'[c].op = op /\ my'[c].path = f /\ my'[c].buf = <<>> /\ my'[c].got = FALSE
        BY <3>3, <3>4 DEF CallRecord
      <3> QED BY <3>2, <3>3, <3>5
    <2>2. \A d \in Clients \ {c} : View(d)' = View(d)
      BY <2>1, SameView
    <2>3. AbsPhase(c) = "out"
      BY <2>1, ViewUnserved
    <2>4. ~Served(c)'
      BY <2>1 DEF Served
    <2>5. ~HasPiece(c)' /\ ~ServedYes(c)' /\ ~ServedNo(c)'
      BY <2>4 DEF HasPiece, ServedYes, ServedNo
    <2>6. AbsData(c)' = <<>>
      BY <2>1, <2>5 DEF AbsData
    <2>7. AbsOk(c)' = FALSE
      <3>1. AbsOk(c)' = (my'[c].got /\ TRUE)
        BY <2>1, <2>4 DEF AbsOk
      <3> QED BY <2>1, <3>1
    <2>8. ASSUME NEW ph, AbsPhase(c)' = ph PROVE Abstract!Begin(c, op, f, ph)
      <3>1. [op |-> my'[c].op, path |-> my'[c].path] = [op |-> op, path |-> f]
        BY <2>1
      <3> QED BY <2>1, <2>2, <2>3, <2>6, <2>7, <2>8, <3>1, OneClient, AbsAt
              DEF Abstract!Begin
    <2>9. CASE pc'[c] = "waitIdle"
      <3>1. AbsPhase(c)' = "in"
        BY <2>5, <2>9 DEF AbsPhase, HasSlot
      <3> QED BY <2>8, <3>1 DEF Abstract!Next, Abstract!Invoke
    <2>10. CASE pc'[c] = "idle"
      <3>1. AbsPhase(c)' = "out"
        BY <2>5, <2>10 DEF AbsPhase, HasSlot
      <3> QED BY <2>8, <3>1 DEF Abstract!Next, Abstract!Refuse
    <2> QED BY <2>1, <2>9, <2>10
  <1>7. CASE ClientDies(c)
    <2>1. UNCHANGED <<my, shm, fs>> /\ pc' = [pc EXCEPT ![c] = "dead"]
      BY <1>7 DEF ClientDies, DiesWith
    <2>2. \A d \in Clients \ {c} : View(d)' = View(d)
      BY <1>m, <2>1, SameView
    <2>3. pc'[c] = "dead" /\ ~Served(c)'
      BY <1>m, <2>1 DEF Served
    <2>4. AbsPhase(c)' = "gone"
      BY <2>3 DEF AbsPhase, ServedYes, ServedNo, HasSlot
    <2>5. AbsData(c)' = <<>>
      BY <2>3 DEF AbsData
    <2>6. AbsOk(c)' = FALSE
      BY <2>3, Zenon DEF AbsOk
    <2>7. [d \in Clients |-> [op |-> my[d].op, path |-> my[d].path]]'
            = [d \in Clients |-> [op |-> my[d].op, path |-> my[d].path]]
      BY <2>1
    <2>8. Abstract!Crash(c)
      BY <2>1, <2>2, <2>4, <2>5, <2>6, <2>7, OneClient DEF Abstract!Crash
    <2> QED BY <2>8 DEF Abstract!Next
  <1> QED BY <1>2, <1>3, <1>4, <1>5, <1>6, <1>7 DEF Others

\* The shared memory implements the abstract file service, whatever the number of
\* clients, files and chunks, and whichever of the looper's calls fail.
THEOREM MembasedImplementsFileService == Spec => ImplementsFileService
  <1>1. Init => Abstract!Init
    BY AbstractInit
  <1>2. SlotInv /\ KeptPiece /\ [Next]_vars => [Abstract!Next]_(Abstract!vars)
    <2> SUFFICES ASSUME SlotInv, KeptPiece, [Next]_vars
                 PROVE  Abstract!Next \/ AbsVars' = AbsVars
      BY DEF Abstract!vars, AbsVars
    <2>1. CASE UNCHANGED vars
      <3>1. UNCHANGED <<my, shm, fs, pc>>
        BY <2>1 DEF vars
      <3> QED BY <3>1, SameView, Stutter
    <2>2. CASE Next
      BY <2>1, <2>2, NextCases, LooperSimulates, ClientSimulates, OthersSimulate
    <2> QED BY <2>1, <2>2
  <1> QED BY <1>1, <1>2, SlotInvariant, PieceIsKept, PTL DEF Spec, ImplementsFileService, Abstract!Spec
=============================================================================
