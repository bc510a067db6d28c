-------------------------- MODULE MembasedService --------------------------
(***************************************************************************)
(* The memory-based Zygote service (namespace xposed::service::membased of *)
(* xposed_service.cpp).                                                    *)
(*                                                                         *)
(* One request slot lives in memory shared by several processes.  A client *)
(* (the zygote, a process forked from it) takes the slot when it is idle,  *)
(* posts a request and waits; the looper, a thread of the app service      *)
(* process, serves it under SELinux's app context and answers in place.    *)
(* One mutex and one condition variable serve for every wait, so each      *)
(* broadcast wakes everybody and each waiter checks its own condition.     *)
(*                                                                         *)
(* A process holds the mutex from one action to the next exactly when the  *)
(* code does; blocking in pthread_cond_wait is membership in waiting.      *)
(* What a client reads AFTER makeIdle() released the mutex is read in      *)
(* separate steps, which is where the code is not protected.               *)
(***************************************************************************)
EXTENDS Naturals, Sequences

CONSTANTS
  Zygote,       \* the process that created the shared memory
  Forked,       \* the processes it forks that may call the service
  Server,       \* the looper thread in the app service process
  NoOne,        \* the owner of a free mutex
  Files,        \* the paths clients ask for
  LongPaths,    \* those that do not fit into the request's path field
  Contents,     \* the states a file can be in
  ChunkSize,    \* sizeof(ReadFileData::content), in units of the model
  Ops,          \* the operations clients call
  Mortal,       \* the processes that may die at any moment
  IoErrors,     \* which of "fseek" and "fread" may report an error
  MaxCalls,     \* bound: calls made by each client
  MaxWrites,    \* bound: changes of a file by other programs
  MaxSpurious   \* bound: spurious wakeups

Clients == {Zygote} \cup Forked
Procs == Clients \cup {Server}

\* The state of a file as the looper's system calls can tell it apart.
FileState == [exists : BOOLEAN, readable : BOOLEAN, bytes : Seq(Nat)]

ASSUME ProcessAssumption ==
  /\ Server \notin Clients
  /\ Zygote \notin Forked
  /\ NoOne \notin Procs
  /\ Mortal \subseteq Procs

ASSUME FileAssumption ==
  /\ LongPaths \subseteq Files
  /\ Files \ LongPaths # {}
  /\ Contents # {}
  /\ Contents \subseteq FileState
  /\ Ops \subseteq {"ACCESS_FILE", "STAT_FILE", "READ_FILE"}
  /\ Ops # {}
  /\ ChunkSize \in Nat \ {0}
  /\ IoErrors \subseteq {"fseek", "fread"}

ASSUME BoundAssumption ==
  /\ MaxCalls \in Nat
  /\ MaxWrites \in Nat
  /\ MaxSpurious \in Nat

VARIABLES
  mutex,     \* shared->workerMutex: its owner, or NoOne
  waiting,   \* the processes blocked on shared->workerCond
  shm,       \* the other members of MemBasedState
  srv,       \* where the looper is
  pc,        \* where each client is
  my,        \* the local variables of each client's current or last call
  space,     \* per process: what fork() copied or shared of the service
  dontfork,  \* MADV_DONTFORK set on the region by the zygote
  fs,        \* the files
  calls, writes, spurious  \* how much of each bound is used

sync == <<mutex, waiting>>
bounds == <<calls, writes, spurious>>
vars == <<sync, shm, srv, pc, my, space, dontfork, fs, bounds>>

\* A call that has not been made yet.
NoCall == [op |-> "NONE", path |-> CHOOSE f \in Files \ LongPaths : TRUE,
           offset |-> 0, total |-> 0, alloc |-> FALSE, buf |-> <<>>,
           count |-> 0, ok |-> FALSE, errno |-> "OK", got |-> FALSE]

Init ==
  /\ mutex = NoOne
  /\ waiting = {}
  /\ shm = [state |-> "NOT_RUNNING", action |-> "NONE", error |-> "OK",
            layout |-> "NONE", path |-> NoCall.path, offset |-> 0,
            result |-> TRUE, size |-> 0, bytes |-> <<>>, eof |-> FALSE]
  /\ srv = "new"
  /\ pc = [c \in Clients |-> IF c = Zygote THEN "waitRunning" ELSE "unborn"]
  /\ my = [c \in Clients |-> NoCall]
  /\ space = [c \in Clients |-> [mapped |-> TRUE, always |-> TRUE, ptr |-> TRUE]]
  /\ dontfork = FALSE
  /\ fs \in [Files -> Contents]
  /\ calls = [c \in Clients |-> 0]
  /\ writes = 0
  /\ spurious = 0

\* pthread_mutex_lock, and the way back out of pthread_cond_wait.
CanLock(p) == mutex = NoOne /\ p \notin waiting

\* The state is not the one p waits for: it locks, looks, and blocks (again).
Block(p) ==
  /\ CanLock(p)
  /\ waiting' = waiting \cup {p}
  /\ UNCHANGED <<mutex, shm, srv, pc, my, space, dontfork, fs, bounds>>

----------------------------------------------------------------------------
(* The server: looper() *)

\* looper(): the service is idle from now on; everybody is woken, and with no
\* request posted the looper blocks.
LooperStart ==
  /\ srv = "new"
  /\ CanLock(Server)
  /\ shm' = [shm EXCEPT !.state = "IDLE"]
  /\ waiting' = {Server}
  /\ srv' = "loop"
  /\ UNCHANGED <<mutex, pc, my, space, dontfork, fs, bounds>>

LooperWaits ==
  /\ srv = "loop"
  /\ shm.state # "SERVICE_ACTION"
  /\ Block(Server)

LooperTakes ==
  /\ srv = "loop"
  /\ CanLock(Server)
  /\ shm.state = "SERVICE_ACTION"
  /\ mutex' = Server
  /\ srv' = "handle"
  /\ UNCHANGED <<waiting, shm, pc, my, space, dontfork, fs, bounds>>

\* Mutant: the broadcast behind the answer is missing.
ReplySilently(answer) ==
  /\ shm' = [answer EXCEPT !.state = "SERVER_RESPONSE"]
  /\ waiting' = waiting \cup {Server}
  /\ mutex' = NoOne
  /\ srv' = "loop"
  /\ UNCHANGED <<pc, my, space, dontfork, fs, bounds>>

\* The end of every case of the switch: answer, wake everybody, block again.
Reply(answer) ==
  /\ shm' = [answer EXCEPT !.state = "SERVER_RESPONSE"]
  /\ waiting' = {Server}
  /\ mutex' = NoOne
  /\ srv' = "loop"
  /\ UNCHANGED <<pc, my, space, dontfork, fs, bounds>>

\* OP_ACCESS_FILE and OP_STAT_FILE; anything else but a read leaves the answer
\* as callService() prepared it.
QueryAnswer(f) ==
  CASE shm.action = "ACCESS_FILE" ->
         [shm EXCEPT !.result = f.exists,
                     !.error = IF f.exists THEN @ ELSE "ENOENT"]
    [] shm.action = "STAT_FILE" ->
         [shm EXCEPT !.result = f.exists,
                     !.size = IF f.exists THEN Len(f.bytes) ELSE @,
                     !.error = IF f.exists THEN @ ELSE "ENOENT"]
    [] OTHER -> shm

ServeQuery ==
  /\ srv = "handle"
  /\ shm.action # "READ_FILE"
  /\ Reply(QueryAnswer(fs[shm.path]))

\* OP_READ_FILE, first half: stat().
ServeReadStat ==
  /\ srv = "handle"
  /\ shm.action = "READ_FILE"
  /\ fs[shm.path].exists
  /\ shm' = [shm EXCEPT !.size = Len(fs[shm.path].bytes)]
  /\ srv' = "reading"
  /\ UNCHANGED <<sync, pc, my, space, dontfork, fs, bounds>>

ServeReadMissing ==
  /\ srv = "handle"
  /\ shm.action = "READ_FILE"
  /\ ~fs[shm.path].exists
  /\ Reply([shm EXCEPT !.error = "ENOENT"])

\* OP_READ_FILE, second half: fopen(), fseek(), fread() on whatever the path
\* names by then.
ServeReadOpenFails ==
  LET f == fs[shm.path] IN
  /\ srv = "reading"
  /\ ~(f.exists /\ f.readable)
  /\ Reply([shm EXCEPT !.error = IF f.exists THEN "EACCES" ELSE "ENOENT"])

\* fseek() failed: error is ferror(f), which a failed fseek() need not set, and
\* the fields of the previous answer stay.
ServeReadSeekFails ==
  LET f == fs[shm.path] IN
  /\ srv = "reading"
  /\ "fseek" \in IoErrors
  /\ f.exists /\ f.readable
  /\ shm.offset > 0
  /\ \E e \in {"OK", "FERR"} : Reply([shm EXCEPT !.error = e])

ServeReadIoError ==
  LET f == fs[shm.path] IN
  /\ srv = "reading"
  /\ "fread" \in IoErrors
  /\ f.exists /\ f.readable
  /\ Reply([shm EXCEPT !.bytes = <<>>, !.eof = FALSE, !.error = "FERR"])

\* At most ChunkSize bytes from the offset on; feof() only after a short read.
Chunk(bytes, offset) ==
  SubSeq(bytes, offset + 1,
         IF offset + ChunkSize < Len(bytes) THEN offset + ChunkSize ELSE Len(bytes))

ServeReadChunk ==
  LET f == fs[shm.path] IN
  /\ srv = "reading"
  /\ f.exists /\ f.readable
  /\ Reply([shm EXCEPT !.bytes = Chunk(f.bytes, shm.offset),
                       !.eof = shm.offset + ChunkSize > Len(f.bytes),
                       !.error = "OK"])

LooperStep ==
  \/ LooperStart \/ LooperWaits \/ LooperTakes
  \/ ServeQuery
  \/ ServeReadStat \/ ServeReadMissing
  \/ ServeReadOpenFails \/ ServeReadSeekFails \/ ServeReadIoError \/ ServeReadChunk

----------------------------------------------------------------------------
(* The zygote's side of the service's life: waitForRunning(), fork(),      *)
(* restrictMemoryInheritance().                                            *)

\* waitForRunning(): the first look at the state, and every look after a wakeup.
SeesRunning ==
  /\ pc[Zygote] = "waitRunning"
  /\ CanLock(Zygote)
  /\ shm.state # "NOT_RUNNING"
  /\ pc' = [pc EXCEPT ![Zygote] = "idle"]
  /\ UNCHANGED <<sync, shm, srv, my, space, dontfork, fs, bounds>>

AwaitsRunning ==
  /\ pc[Zygote] = "waitRunning"
  /\ shm.state = "NOT_RUNNING"
  /\ Block(Zygote)

\* pthread_cond_timedwait() gives up; it still has to get the mutex back.
RunningTimeout ==
  /\ pc[Zygote] = "waitRunning"
  /\ Zygote \in waiting
  /\ waiting' = waiting \ {Zygote}
  /\ pc' = [pc EXCEPT ![Zygote] = "timedOut"]
  /\ UNCHANGED <<mutex, shm, srv, my, space, dontfork, fs, bounds>>

\* Mutant: the loop forgets to test rc and waits until the service runs.
GivesUpOnceRunning ==
  /\ pc[Zygote] = "timedOut"
  /\ CanLock(Zygote)
  /\ shm.state # "NOT_RUNNING"
  /\ pc' = [pc EXCEPT ![Zygote] = "off"]
  /\ UNCHANGED <<sync, shm, srv, my, space, dontfork, fs, bounds>>

\* rc is ETIMEDOUT, so the result is false whatever the state is by now; the
\* zygote then starts without Xposed and never calls the service.
GivesUp ==
  /\ pc[Zygote] = "timedOut"
  /\ CanLock(Zygote)
  /\ pc' = [pc EXCEPT ![Zygote] = "off"]
  /\ UNCHANGED <<sync, shm, srv, my, space, dontfork, fs, bounds>>

\* Mutant: canAlwaysAccessService stays true.
RestrictKeepsAccess ==
  /\ pc[Zygote] = "idle"
  /\ ~dontfork
  /\ dontfork' = TRUE
  /\ UNCHANGED <<sync, shm, srv, pc, my, space, fs, bounds>>

\* restrictMemoryInheritance()
Restrict ==
  /\ pc[Zygote] = "idle"
  /\ ~dontfork
  /\ dontfork' = TRUE
  /\ space' = [space EXCEPT ![Zygote].always = FALSE]
  /\ UNCHANGED <<sync, shm, srv, pc, my, fs, bounds>>

\* fork(): the globals are copied, the region is shared unless MADV_DONTFORK.
Fork(c) ==
  /\ pc[Zygote] = "idle"
  /\ pc[c] = "unborn"
  /\ pc' = [pc EXCEPT ![c] = "idle"]
  /\ space' = [space EXCEPT ![c] = [space[Zygote] EXCEPT !.mapped = ~dontfork]]
  /\ UNCHANGED <<sync, shm, srv, my, dontfork, fs, bounds>>

StartStep == SeesRunning \/ AwaitsRunning \/ RunningTimeout \/ GivesUp

----------------------------------------------------------------------------
(* The client: accessFile(), statFile(), readFile() *)

\* isServiceAccessible()
Accessible(c) == space[c].always \/ (space[c].ptr /\ c = Zygote)

\* The zygote makes its first call after restrictMemoryInheritance().
MayCall(c) ==
  /\ pc[c] = "idle"
  /\ calls[c] < MaxCalls
  /\ c = Zygote => dontfork

\* A call that returns without touching the shared memory.
Refuse(c, op, f, e) ==
  /\ my' = [my EXCEPT ![c] = [NoCall EXCEPT !.op = op, !.path = f, !.errno = e]]
  /\ calls' = [calls EXCEPT ![c] = @ + 1]
  /\ UNCHANGED <<sync, shm, srv, pc, dontfork, fs, writes, spurious>>

CallDenied(c, op, f) ==
  /\ MayCall(c)
  /\ ~Accessible(c)
  /\ space' = [space EXCEPT ![c].ptr = FALSE]
  /\ Refuse(c, op, f, "EPERM")

CallTooLong(c, op, f) ==
  /\ MayCall(c)
  /\ Accessible(c)
  /\ f \in LongPaths
  /\ UNCHANGED space
  /\ Refuse(c, op, f, "ENAMETOOLONG")

\* Mutant: the length of the path is not checked.
CallUnchecked(c, op, f) ==
  /\ MayCall(c)
  /\ Accessible(c)
  /\ my' = [my EXCEPT ![c] = [NoCall EXCEPT !.op = op, !.path = f]]
  /\ calls' = [calls EXCEPT ![c] = @ + 1]
  /\ pc' = [pc EXCEPT ![c] = "waitIdle"]
  /\ UNCHANGED <<sync, shm, srv, space, dontfork, fs, writes, spurious>>

Call(c, op, f) ==
  /\ MayCall(c)
  /\ Accessible(c)
  /\ f \notin LongPaths
  /\ my' = [my EXCEPT ![c] = [NoCall EXCEPT !.op = op, !.path = f]]
  /\ calls' = [calls EXCEPT ![c] = @ + 1]
  /\ pc' = [pc EXCEPT ![c] = "waitIdle"]
  /\ UNCHANGED <<sync, shm, srv, space, dontfork, fs, writes, spurious>>

\* waitForIdle()
AwaitsIdle(c) ==
  /\ pc[c] = "waitIdle"
  /\ shm.state # "IDLE"
  /\ Block(c)

\* Mutant: waitForIdle() only waits while a request is being serviced.
TakeSlotUnlessServiced(c) ==
  /\ pc[c] = "waitIdle"
  /\ CanLock(c)
  /\ shm.state # "SERVICE_ACTION"
  /\ mutex' = c
  /\ shm' = [shm EXCEPT !.path = my[c].path, !.layout = my[c].op, !.offset = 0]
  /\ pc' = [pc EXCEPT ![c] = "slot"]
  /\ UNCHANGED <<waiting, srv, my, space, dontfork, fs, bounds>>

\* waitForIdle() returns with the mutex; the request's arguments are filled in.
TakeSlot(c) ==
  /\ pc[c] = "waitIdle"
  /\ CanLock(c)
  /\ shm.state = "IDLE"
  /\ mutex' = c
  /\ shm' = [shm EXCEPT !.path = my[c].path, !.layout = my[c].op, !.offset = 0]
  /\ pc' = [pc EXCEPT ![c] = "slot"]
  /\ UNCHANGED <<waiting, srv, my, space, dontfork, fs, bounds>>

\* Mutant: the error of the previous request is not cleared.
CallServiceKeepsError(c) ==
  /\ pc[c] = "slot"
  /\ shm' = [shm EXCEPT !.action = my[c].op, !.state = "SERVICE_ACTION"]
  /\ waiting' = {c}
  /\ mutex' = NoOne
  /\ pc' = [pc EXCEPT ![c] = "posted"]
  /\ UNCHANGED <<srv, my, space, dontfork, fs, bounds>>

\* callService(): post, wake everybody, block.
CallService(c) ==
  /\ pc[c] = "slot"
  /\ shm' = [shm EXCEPT !.action = my[c].op, !.state = "SERVICE_ACTION",
                        !.error = "OK"]
  /\ waiting' = {c}
  /\ mutex' = NoOne
  /\ pc' = [pc EXCEPT ![c] = "posted"]
  /\ UNCHANGED <<srv, my, space, dontfork, fs, bounds>>

AwaitsResponse(c) ==
  /\ pc[c] = "posted"
  /\ shm.state # "SERVER_RESPONSE"
  /\ Block(c)

\* callService() returns, with the mutex.
TakeResponse(c) ==
  /\ pc[c] = "posted"
  /\ CanLock(c)
  /\ shm.state = "SERVER_RESPONSE"
  /\ mutex' = c
  /\ pc' = [pc EXCEPT ![c] = "answered"]
  /\ UNCHANGED <<waiting, shm, srv, my, space, dontfork, fs, bounds>>

\* Mutants: makeIdle() without its broadcast, and one that also clears error.
MakeIdleSilently(c, error) ==
  /\ shm' = [shm EXCEPT !.action = "NONE", !.state = "IDLE", !.error = error]
  /\ mutex' = NoOne
  /\ pc' = [pc EXCEPT ![c] = "ret1"]
  /\ UNCHANGED <<waiting, srv, space, dontfork, fs, bounds>>
MakeIdleClearsError(c, error) ==
  /\ shm' = [shm EXCEPT !.action = "NONE", !.state = "IDLE", !.error = "OK"]
  /\ waiting' = {}
  /\ mutex' = NoOne
  /\ pc' = [pc EXCEPT ![c] = "ret1"]
  /\ UNCHANGED <<srv, space, dontfork, fs, bounds>>

\* makeIdle(), after which the call only has its results left to read.
MakeIdle(c, error) ==
  /\ shm' = [shm EXCEPT !.action = "NONE", !.state = "IDLE", !.error = error]
  /\ waiting' = {}
  /\ mutex' = NoOne
  /\ pc' = [pc EXCEPT ![c] = "ret1"]
  /\ UNCHANGED <<srv, space, dontfork, fs, bounds>>

\* accessFile() and statFile() behind callService().  got is a history variable:
\* the answer that was in the slot while the caller still held the mutex.
FinishQuery(c) ==
  /\ pc[c] = "answered"
  /\ my[c].op # "READ_FILE"
  /\ my' = [my EXCEPT ![c].total = IF my[c].op = "STAT_FILE" THEN shm.size ELSE @,
                      ![c].got = (shm.error = "OK" /\ shm.result)]
  /\ MakeIdle(c, shm.error)

\* readFile(): the request failed.
ReadFailed(c) ==
  /\ pc[c] = "answered"
  /\ my[c].op = "READ_FILE"
  /\ shm.error # "OK"
  /\ my' = my
  /\ MakeIdle(c, shm.error)

\* Mutant: only the new chunk is compared with the size of the buffer.
OutgrownByChunk(c) == my[c].alloc /\ Len(shm.bytes) > my[c].total

\* The first chunk is copied, unchecked, into a buffer of the size stat() gave;
\* a later one must fit.
Outgrown(c) == my[c].alloc /\ my[c].offset + Len(shm.bytes) > my[c].total

\* readFile(): the file has outgrown the buffer.
ReadBusy(c) ==
  /\ pc[c] = "answered"
  /\ my[c].op = "READ_FILE"
  /\ shm.error = "OK"
  /\ Outgrown(c)
  /\ my' = my
  /\ MakeIdle(c, "EBUSY")

CanCopy(c) ==
  /\ pc[c] = "answered"
  /\ my[c].op = "READ_FILE"
  /\ shm.error = "OK"
  /\ ~Outgrown(c)

\* Mutant: a later chunk goes to the start of the buffer.
CopiedToStart(c) ==
  [my[c] EXCEPT !.total = IF my[c].alloc THEN @ ELSE shm.size,
                !.alloc = TRUE,
                !.buf = shm.bytes \o SubSeq(@, Len(shm.bytes) + 1, Len(@))]

Copied(c) ==
  [my[c] EXCEPT !.total = IF my[c].alloc THEN @ ELSE shm.size,
                !.alloc = TRUE,
                !.buf = @ \o shm.bytes]

ReadLast(c) ==
  /\ CanCopy(c)
  /\ shm.eof
  /\ my' = [my EXCEPT ![c] = [Copied(c) EXCEPT
              !.count = my[c].offset + Len(shm.bytes), !.got = TRUE]]
  /\ MakeIdle(c, shm.error)

\* Mutant: data->offset is not moved on.
ReadMoreKeepsOffset(c) ==
  /\ CanCopy(c)
  /\ ~shm.eof
  /\ my' = [my EXCEPT ![c] = [Copied(c) EXCEPT !.offset = @ + Len(shm.bytes)]]
  /\ pc' = [pc EXCEPT ![c] = "slot"]
  /\ UNCHANGED <<sync, shm, srv, space, dontfork, fs, bounds>>

ReadMore(c) ==
  LET next == my[c].offset + Len(shm.bytes) IN
  /\ CanCopy(c)
  /\ ~shm.eof
  /\ my' = [my EXCEPT ![c] = [Copied(c) EXCEPT !.offset = next]]
  /\ shm' = [shm EXCEPT !.offset = next]
  /\ pc' = [pc EXCEPT ![c] = "slot"]
  /\ UNCHANGED <<sync, srv, space, dontfork, fs, bounds>>

\* The reads behind makeIdle(): shared->error twice, then data->result, each at
\* its own moment and without the mutex.
FirstLook(c) ==
  /\ pc[c] = "ret1"
  /\ my' = IF my[c].op = "READ_FILE"
           THEN [my EXCEPT ![c].alloc = @ /\ shm.error = "OK"]
           ELSE [my EXCEPT ![c].errno = shm.error]
  /\ pc' = [pc EXCEPT ![c] = "ret2"]
  /\ UNCHANGED <<sync, shm, srv, space, dontfork, fs, bounds>>

ReturnBuffer(c) ==
  /\ pc[c] = "ret2"
  /\ my[c].op = "READ_FILE"
  /\ my' = [my EXCEPT ![c].errno = shm.error, ![c].ok = my[c].alloc]
  /\ pc' = [pc EXCEPT ![c] = "idle"]
  /\ UNCHANGED <<sync, shm, srv, space, dontfork, fs, bounds>>

SecondLook(c) ==
  /\ pc[c] = "ret2"
  /\ my[c].op # "READ_FILE"
  /\ pc' = [pc EXCEPT ![c] = IF shm.error = "OK" THEN "ret3" ELSE "idle"]
  /\ UNCHANGED <<sync, shm, srv, my, space, dontfork, fs, bounds>>

\* data->result; another member of the union may have overwritten it.
ReturnResult(c) ==
  /\ pc[c] = "ret3"
  /\ \E r \in IF shm.layout = my[c].op THEN {shm.result} ELSE BOOLEAN :
       my' = [my EXCEPT ![c].ok = r]
  /\ pc' = [pc EXCEPT ![c] = "idle"]
  /\ UNCHANGED <<sync, shm, srv, space, dontfork, fs, bounds>>

ClientStep(c) ==
  \/ AwaitsIdle(c) \/ TakeSlot(c) \/ CallService(c)
  \/ AwaitsResponse(c) \/ TakeResponse(c) \/ FinishQuery(c)
  \/ ReadFailed(c) \/ ReadBusy(c) \/ ReadLast(c) \/ ReadMore(c)
  \/ FirstLook(c) \/ ReturnBuffer(c) \/ SecondLook(c) \/ ReturnResult(c)

----------------------------------------------------------------------------
(* The environment *)

\* Another program creates, changes or removes a file.
ChangeFile(f) ==
  /\ writes < MaxWrites
  /\ writes' = writes + 1
  /\ \E k \in Contents \ {fs[f]} : fs' = [fs EXCEPT ![f] = k]
  /\ UNCHANGED <<sync, shm, srv, pc, my, space, dontfork, calls, spurious>>

SpuriousWakeup(p) ==
  /\ p \in waiting
  /\ spurious < MaxSpurious
  /\ spurious' = spurious + 1
  /\ waiting' = waiting \ {p}
  /\ UNCHANGED <<mutex, shm, srv, pc, my, space, dontfork, fs, calls, writes>>

\* A process is killed.  The mutex is not robust: it stays with a process that
\* held it, be it inside one of the short critical sections that are one action
\* here, such as the check before a wait.
DiesWith(p, locks) ==
  /\ p \in Mortal
  /\ waiting' = waiting \ {p}
  /\ mutex' \in {mutex} \cup (IF locks /\ CanLock(p) THEN {p} ELSE {})
  /\ UNCHANGED <<shm, my, space, dontfork, fs, bounds>>

ServerDies ==
  /\ srv # "dead"
  /\ srv' = "dead"
  /\ DiesWith(Server, srv \in {"new", "loop"})
  /\ UNCHANGED pc

ClientDies(c) ==
  /\ pc[c] \notin {"unborn", "dead"}
  /\ pc' = [pc EXCEPT ![c] = "dead"]
  /\ DiesWith(c, pc[c] \in {"waitRunning", "timedOut", "waitIdle", "posted"})
  /\ UNCHANGED srv

\* Every client has used up its calls, or will make none: the bounded model ends.
Finished ==
  /\ \A c \in Clients :
       \/ pc[c] = "off"
       \/ pc[c] = "unborn" /\ pc[Zygote] = "off"
       \/ pc[c] = "idle" /\ calls[c] = MaxCalls /\ (c = Zygote => dontfork)
  /\ UNCHANGED vars

Next ==
  \/ LooperStep
  \/ StartStep
  \/ Restrict
  \/ \E c \in Forked : Fork(c)
  \/ \E c \in Clients, op \in Ops, f \in Files :
       CallDenied(c, op, f) \/ CallTooLong(c, op, f) \/ Call(c, op, f)
  \/ \E c \in Clients : ClientStep(c)
  \/ \E f \in Files : ChangeFile(f)
  \/ \E p \in Procs : SpuriousWakeup(p)
  \/ ServerDies
  \/ \E c \in Clients : ClientDies(c)
  \/ Finished

Spec == Init /\ [][Next]_vars

\* The kernel keeps scheduling the looper, the start of the zygote and every
\* client that is inside a call; a timed wait ends.  Nothing makes the mutex fair.
FairSpec ==
  /\ Spec
  /\ WF_vars(LooperStep)
  /\ WF_vars(StartStep)
  /\ \A c \in Clients : WF_vars(ClientStep(c))

=============================================================================
