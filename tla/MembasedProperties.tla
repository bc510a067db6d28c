------------------------ MODULE MembasedProperties ------------------------
(***************************************************************************)
(* What the memory-based service owes its callers: its invariants, when it *)
(* makes progress, and the abstract file service it implements.            *)
(***************************************************************************)
EXTENDS MembasedService

Errnos == {"OK", "EPERM", "ENAMETOOLONG", "ENOENT", "EACCES", "EBUSY", "FERR"}

CallRecord ==
  [op : Ops \cup {"NONE"}, path : Files, offset : Nat, total : Nat,
   alloc : BOOLEAN, buf : Seq(Nat), count : Nat, ok : BOOLEAN,
   errno : Errnos, got : BOOLEAN]

Slot ==
  [state : {"NOT_RUNNING", "IDLE", "SERVICE_ACTION", "SERVER_RESPONSE"},
   action : Ops \cup {"NONE"}, error : Errnos, layout : Ops \cup {"NONE"},
   path : Files \ LongPaths, offset : Nat, result : BOOLEAN, size : Nat,
   bytes : Seq(Nat), eof : BOOLEAN]

PcLabels ==
  {"unborn", "waitRunning", "timedOut", "off", "idle", "waitIdle", "slot",
   "posted", "answered", "ret1", "ret2", "ret3", "dead"}

\* Every variable has its type; above all, the path field of the slot only ever
\* holds paths it has room for (the strlen() checks before each strcpy()).
TypeOK ==
  /\ mutex \in Procs \cup {NoOne}
  /\ waiting \subseteq Procs
  /\ shm \in Slot
  /\ srv \in {"new", "loop", "handle", "reading", "dead"}
  /\ pc \in [Clients -> PcLabels]
  /\ my \in [Clients -> CallRecord]
  /\ space \in [Clients -> [mapped : BOOLEAN, always : BOOLEAN, ptr : BOOLEAN]]
  /\ dontfork \in BOOLEAN
  /\ fs \in [Files -> FileState]
  /\ calls \in [Clients -> Nat]
  /\ writes \in Nat
  /\ spurious \in Nat

\* From the end of waitForIdle() to makeIdle() a client has the slot.
HasSlot(c) == pc[c] \in {"slot", "posted", "answered"}

\* At most one client has the slot, although callService() gives the mutex up
\* while it waits for the answer.
SlotExclusive ==
  \A c, d \in Clients : HasSlot(c) /\ HasSlot(d) => c = d

\* A client that waits for an answer, or has it, finds its own request in the
\* slot: what the looper serves is what this client asked, at the offset its
\* read has reached, and nobody can have posted over it.
SlotHoldsRequest ==
  \A c \in Clients : pc[c] \in {"posted", "answered"} =>
    /\ shm.state \in {"SERVICE_ACTION", "SERVER_RESPONSE"}
    /\ shm.action = my[c].op
    /\ shm.layout = my[c].op
    /\ shm.path = my[c].path
    /\ shm.action = "READ_FILE" => shm.offset = Len(my[c].buf)

\* Nobody sleeps through the state it waits for: with one condition variable
\* for all waits, this rests on every change being broadcast.
NoLostWakeup ==
  /\ srv = "loop" /\ Server \in waiting => shm.state # "SERVICE_ACTION"
  /\ \A c \in Clients \cap waiting :
       /\ pc[c] = "waitRunning" => shm.state = "NOT_RUNNING"
       /\ pc[c] = "waitIdle" => shm.state # "IDLE"
       /\ pc[c] = "posted" => shm.state # "SERVER_RESPONSE"

\* Whoever is about to touch the shared memory has it mapped: after
\* restrictMemoryInheritance() no new process gets past isServiceAccessible().
MappedWhenTouched ==
  \A c \in Clients :
    (HasSlot(c) \/ pc[c] \in {"waitIdle", "ret1", "ret2", "ret3"}) => space[c].mapped

\* While no file changes and no I/O fails, the answer a client finds in the slot
\* is the truth about its file, and a read has gathered every byte of it, also
\* when the size is a multiple of the chunk size.
LockedAnswerTrue ==
  \A c \in Clients : pc[c] = "ret1" =>
    LET f == fs[my[c].path] IN
    /\ my[c].got = (f.exists /\ (my[c].op = "READ_FILE" => f.readable))
    /\ my[c].got /\ my[c].op = "STAT_FILE" => my[c].total = Len(f.bytes)
    /\ my[c].got /\ my[c].op = "READ_FILE" =>
         my[c].buf = f.bytes /\ my[c].count = Len(f.bytes)

\* As long as no other client has called, a call returns the answer that was in
\* the slot when the client gave it up, although the code reads shared->error and
\* data->result again after makeIdle().
ReturnsOwnAnswer ==
  \A c \in Clients :
    pc[c] = "idle" /\ (\A d \in Clients \ {c} : calls[d] = 0) => my[c].ok = my[c].got

\* accessFile() tells whether the file exists (as isDisabled() relies on), in a
\* model where no file changes.
AccessAnswersTrue ==
  \A c \in Clients :
    pc[c] = "idle" /\ my[c].op = "ACCESS_FILE" /\ my[c].errno # "EPERM" =>
      my[c].ok = fs[my[c].path].exists

\* However a file changes during readFile(), at most the first chunk can be more
\* than the buffer was allocated for: everything behind it has been checked.
OnlyFirstChunkUnchecked ==
  \A c \in Clients : my[c].alloc /\ Len(my[c].buf) > my[c].total =>
    Len(my[c].buf) <= ChunkSize

LiveProcs == {c \in Clients : pc[c] # "dead"} \cup (IF srv = "dead" THEN {} ELSE {Server})

\* What a death leaves behind for good: no looper, a mutex nobody will release,
\* or a slot whose owner is gone.
Stranded ==
  \/ srv = "dead"
  \/ mutex \notin LiveProcs \cup {NoOne}
  \/ shm.state # "IDLE" /\ \A c \in Clients : ~HasSlot(c)

\* Every call returns, unless a process died in one of the places where nothing
\* in the code recovers from it.
EveryCallReturns ==
  \A c \in Clients : pc[c] = "waitIdle" ~> (pc[c] \in {"idle", "dead"} \/ Stranded)

\* The zygote gets past waitForRunning() even if the looper never starts.
StartupDecided ==
  pc[Zygote] = "waitRunning" ~> (pc[Zygote] \in {"off", "idle", "dead"} \/ mutex \notin LiveProcs \cup {NoOne})

----------------------------------------------------------------------------
(* The abstract service: what has been decided for a client is the answer  *)
(* it found in the slot (my.got), or the one waiting there for it.         *)

Served(c) ==
  /\ pc[c] \in {"posted", "answered"}
  /\ shm.state = "SERVER_RESPONSE"

\* The service has put a piece into the slot that readFile() will take.
HasPiece(c) ==
  Served(c) /\ my[c].op = "READ_FILE" /\ shm.error = "OK" /\ ~Outgrown(c)

ServedYes(c) ==
  /\ Served(c)
  /\ shm.error = "OK"
  /\ IF my[c].op = "READ_FILE" THEN shm.eof /\ ~Outgrown(c) ELSE shm.result

ServedNo(c) ==
  /\ Served(c)
  /\ IF my[c].op = "READ_FILE"
     THEN shm.error # "OK" \/ Outgrown(c)
     ELSE shm.error # "OK" \/ ~shm.result

AbsPhase(c) ==
  IF ServedYes(c) \/ ServedNo(c) \/ pc[c] \in {"ret1", "ret2", "ret3"} THEN "decided"
  ELSE IF HasSlot(c) \/ pc[c] = "waitIdle" THEN "in"
  ELSE IF pc[c] = "dead" THEN "gone" ELSE "out"

AbsData(c) ==
  IF pc[c] = "dead" THEN <<>>
  ELSE IF HasPiece(c) THEN my[c].buf \o shm.bytes ELSE my[c].buf

AbsOk(c) == IF Served(c) THEN ServedYes(c) ELSE pc[c] # "dead" /\ my[c].got

Abstract == INSTANCE FileService WITH
  phase <- [c \in Clients |-> AbsPhase(c)],
  req <- [c \in Clients |-> [op |-> my[c].op, path |-> my[c].path]],
  data <- [c \in Clients |-> AbsData(c)],
  ok <- [c \in Clients |-> AbsOk(c)],
  SeekFails <- "fseek" \in IoErrors

\* Up to the moment a client gives the slot up, the shared memory serves it as
\* the abstract file service does, with any number of clients, whatever happens
\* to the files meanwhile and whoever dies.  A failed fseek() costs no more than
\* a piece that comes twice: ferror() need not tell it, and the answer in the
\* slot is the previous one.
ImplementsFileService == Abstract!Spec
=============================================================================
