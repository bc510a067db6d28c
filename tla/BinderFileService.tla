------------------------- MODULE BinderFileService -------------------------
(***************************************************************************)
(* readFile() of the binder service (namespace xposed::service::binder of  *)
(* xposed_service.cpp), from the transaction to its reply, for a client    *)
(* that keeps what it has read and asks again with the size and time of    *)
(* its copy.                                                               *)
(*                                                                         *)
(* The service looks at the file twice, with stat() and by reading it, and *)
(* other programs write to it, or replace it, in between.  Requests share  *)
(* nothing, so one at a time is looked at.  Offsets and lengths are        *)
(* int32_t: MaxInt stands for INT32_MAX; sizes and times are int64_t.      *)
(*                                                                         *)
(* The file's name is a temporary that is freed before stat() and fopen()  *)
(* use it.  Its memory may be given to another thread, or to the buffer of *)
(* this request, so each of the two may be about another file, or none.    *)
(***************************************************************************)
EXTENDS Integers, Sequences

CONSTANTS
  Bytes,
  Contents,    \* what a file can hold
  Offsets, Lengths,  \* the arguments clients pass
  MaxInt,      \* INT32_MAX
  IoErrors,    \* which of "malloc", "fopen", "fseek", "fread" may fail
  Elsewhere,   \* what the freed name may lead to instead: other files, or none
  MaxTime,     \* bound: seconds
  MaxCalls     \* bound: requests

Int32 == (-MaxInt - 1)..MaxInt

\* Conversion to int32_t.
ToInt32(n) == ((n + MaxInt + 1) % (2 * (MaxInt + 1))) - (MaxInt + 1)

ASSUME BinderAssumption ==
  /\ MaxInt \in Nat \ {0}
  /\ Contents \subseteq Seq(Bytes) /\ Contents # {}
  /\ \A c \in Contents : Len(c) <= MaxInt
  /\ Offsets \subseteq Int32 /\ Lengths \subseteq Int32
  /\ IoErrors \subseteq {"malloc", "fopen", "fseek", "fread"}
  /\ \A f \in Elsewhere : /\ f \in [kind : {"none", "dir", "file"}, data : Seq(Bytes), mtime : Nat]
                          /\ Len(f.data) <= MaxInt
  /\ MaxTime \in Nat /\ MaxCalls \in Nat

VARIABLES
  file,     \* [kind: "none", "dir", "file"; data; mtime]
  clock,    \* the time, in seconds
  pc,       \* "idle", "stat", "open", "read", "reply", "receive"
  req,      \* the request: caller, offset, length, size and mtime of the copy
  st,       \* what stat() has told
  len,      \* length, once it is computed
  handle,   \* the content of the file that was opened
  buffer,   \* whether a buffer is allocated
  res,      \* the reply
  copy,     \* the client's copy of the whole file
  leaked,   \* whether a buffer has been lost
  calls,
  astray,   \* for which of its uses, "stat" and "open", the name led to another file
  rewritten,  \* history: the file was written twice within one second
  raced,      \* history: the file was written during this request
  shrunk,     \* history: it was made shorter than stat() had told, before it was read
  strayCopy   \* history: the client's copy is of another file, or partly so

fileVars == <<file, clock, rewritten>>
serverVars == <<pc, st, len, handle, buffer, res, leaked, astray>>
clientVars == <<req, copy, calls, strayCopy>>
races == <<raced, shrunk>>
vars == <<fileVars, serverVars, clientVars, races>>

\* The locals of a request that is not there.
NoStat == [size |-> 0, mtime |-> 0]
NoRequest == [system |-> TRUE, whole |-> TRUE, offset |-> 0, length |-> 0,
              size |-> 0, mtime |-> 0]
NoReply == [err |-> "OK", size |-> 0, mtime |-> 0, bytesRead |-> -1, data |-> <<>>]

Init ==
  /\ file \in [kind : {"file"}, data : Contents, mtime : {1}]
  /\ clock = 2
  /\ pc = "idle"
  /\ req = NoRequest /\ st = NoStat /\ len = 0 /\ handle = <<>> /\ res = NoReply
  /\ buffer = FALSE /\ leaked = FALSE
  /\ copy = [size |-> 0, mtime |-> 0, data |-> <<>>]
  /\ calls = 0
  /\ rewritten = FALSE /\ raced = FALSE /\ shrunk = FALSE
  /\ astray = {} /\ strayCopy = FALSE

----------------------------------------------------------------------------
(* The client *)

\* For a whole file, with the size and time of the copy, or for a part of it.
Call(system, whole, offset, length) ==
  /\ pc = "idle" /\ calls < MaxCalls
  /\ calls' = calls + 1
  /\ whole => offset = 0 /\ length = 0
  /\ req' = [system |-> system, whole |-> whole, offset |-> offset, length |-> length,
             size |-> IF whole THEN copy.size ELSE 0, mtime |-> IF whole THEN copy.mtime ELSE 0]
  /\ raced' = FALSE
  /\ pc' = "stat"
  /\ UNCHANGED <<fileVars, st, len, handle, buffer, res, leaked, astray, copy, strayCopy, shrunk>>

\* A reply without an array leaves the copy as it is.
Receive ==
  /\ pc = "receive"
  /\ pc' = "idle"
  /\ copy' = IF req.whole /\ res.err = "OK"
             THEN [size |-> res.size, mtime |-> res.mtime,
                   data |-> IF res.bytesRead >= 0 THEN res.data ELSE copy.data]
             ELSE copy
  /\ strayCopy' = IF req.whole /\ res.err = "OK" /\ res.bytesRead >= 0
                  THEN astray # {} ELSE strayCopy
  /\ req' = NoRequest /\ st' = NoStat /\ len' = 0 /\ handle' = <<>> /\ res' = NoReply
  /\ raced' = FALSE /\ shrunk' = FALSE /\ astray' = {}
  /\ UNCHANGED <<fileVars, buffer, leaked, calls>>

----------------------------------------------------------------------------
(* XposedService::readFile() *)

Reply(err, size, mtime, bytesRead) ==
  /\ pc' = "reply"
  /\ res' = [err |-> err, size |-> size, mtime |-> mtime, bytesRead |-> bytesRead, data |-> <<>>]

\* A use of the name is about the file, or about another one.
Led(use, f) == astray' = IF f = file THEN astray ELSE astray \cup {use}

\* Mutant: only the size is compared.
UnchangedSize(f) == req.size = Len(f.data)

Unchanged(f) == req.size = Len(f.data) /\ req.mtime = ToInt32(f.mtime)

\* A caller other than the system is refused.
Denied ==
  /\ pc = "stat" /\ ~req.system
  /\ Reply("EPERM", req.size, req.mtime, -1)
  /\ UNCHANGED <<fileVars, st, len, handle, buffer, leaked, astray, clientVars, races>>

\* A file that is not there, a directory, and a file that is unchanged are answered at
\* once.
StatEnds(f) ==
  /\ pc = "stat" /\ req.system
  /\ \/ f.kind = "none" /\ Reply("ENOENT", req.size, req.mtime, -1)
     \/ f.kind = "dir" /\ Reply("EISDIR", req.size, req.mtime, -1)
     \/ f.kind = "file" /\ Unchanged(f) /\ Reply("OK", req.size, req.mtime, -1)
  /\ Led("stat", f)
  /\ UNCHANGED <<fileVars, st, len, handle, buffer, leaked, clientVars, races>>

Offset == IF req.offset < 0 THEN 0 ELSE req.offset

\* Mutant: the offset is forgotten in the check.
OutOfRangeLengthOnly(size) ==
  \/ req.offset > 0 /\ req.offset >= size
  \/ req.length > 0 /\ req.length > size

OutOfRange(size) ==
  \/ req.offset > 0 /\ req.offset >= size
  \/ req.length > 0 /\ ToInt32(Offset + req.length) > size

Length(size) == IF req.length <= 0 THEN ToInt32(size - Offset) ELSE req.length

Stat(f) ==
  /\ pc = "stat"
  /\ req.system /\ f.kind = "file" /\ ~Unchanged(f)
  /\ LET size == Len(f.data) IN
     /\ st' = [size |-> size, mtime |-> f.mtime]
     /\ len' = Length(size)
     /\ IF OutOfRange(size) THEN
          Reply("EINVAL", size, f.mtime, -1) /\ UNCHANGED buffer
        ELSE IF size = 0 THEN
          Reply("OK", 0, f.mtime, 0) /\ UNCHANGED buffer
        ELSE \/ /\ ToInt32(len' + 1) < 0 \/ "malloc" \in IoErrors
                /\ Reply("ENOMEM", size, f.mtime, -1) /\ UNCHANGED buffer
             \/ /\ ToInt32(len' + 1) > 0
                /\ pc' = "open" /\ buffer' = TRUE /\ UNCHANGED res
  /\ Led("stat", f)
  /\ UNCHANGED <<fileVars, handle, leaked, clientVars, races>>

Open(f) ==
  /\ pc = "open"
  /\ f.kind = "file"
  /\ handle' = f.data
  /\ pc' = "read"
  /\ Led("open", f)
  /\ UNCHANGED <<fileVars, st, len, buffer, res, leaked, clientVars, races>>

CannotRead(f) ==
  \/ (f.kind = "none" \/ "fopen" \in IoErrors) /\ Reply("EACCES", st.size, st.mtime, -1)
  \/ f.kind = "dir" /\ Reply("EIO", st.size, st.mtime, -1)

\* Mutant: the buffer is forgotten.
OpenFailsKeepsBuffer(f) ==
  /\ pc = "open"
  /\ CannotRead(f)
  /\ leaked' = TRUE
  /\ buffer' = FALSE
  /\ Led("open", f)
  /\ UNCHANGED <<fileVars, st, len, handle, clientVars, races>>

\* A directory can be opened, but not read.
OpenFails(f) ==
  /\ pc = "open"
  /\ CannotRead(f)
  /\ buffer' = FALSE
  /\ Led("open", f)
  /\ UNCHANGED <<fileVars, st, len, handle, leaked, clientVars, races>>

\* ferror() after a failing fseek() may be 0, which is no error to the caller.
SeekFails ==
  /\ pc = "read" /\ "fseek" \in IoErrors /\ Offset > 0
  /\ buffer' = FALSE
  /\ \E err \in {"OK", "EIO"} : Reply(err, st.size, st.mtime, -1)
  /\ UNCHANGED <<fileVars, st, len, handle, leaked, astray, clientVars, races>>

ReadFails ==
  /\ pc = "read" /\ "fread" \in IoErrors
  /\ buffer' = FALSE
  /\ Reply("EIO", st.size, st.mtime, -1)
  /\ UNCHANGED <<fileVars, st, len, handle, leaked, astray, clientVars, races>>

\* The file that was opened has been written to in place, or replaced.
Opened ==
  {handle} \cup (IF file.kind = "file" /\ "open" \notin astray THEN {file.data} ELSE {})

Read ==
  /\ pc = "read"
  /\ \E data \in Opened :
       LET end == IF Offset + len < Len(data) THEN Offset + len ELSE Len(data)
           got == SubSeq(data, Offset + 1, end)
       IN res' = [err |-> "OK", size |-> st.size, mtime |-> st.mtime,
                  bytesRead |-> Len(got), data |-> got]
  /\ pc' = "reply"
  /\ UNCHANGED <<fileVars, st, len, handle, buffer, leaked, astray, clientVars, races>>

\* onTransact(): the buffer is freed if there are bytes to write.
Transmit ==
  /\ pc = "reply"
  /\ leaked' = (leaked \/ (buffer /\ res.bytesRead <= 0))
  /\ buffer' = FALSE
  /\ pc' = "receive"
  /\ UNCHANGED <<fileVars, st, len, handle, res, astray, clientVars, races>>

Server ==
  \/ \E f \in {file} \cup Elsewhere : StatEnds(f) \/ Stat(f) \/ Open(f) \/ OpenFails(f)
  \/ Denied \/ SeekFails \/ ReadFails \/ Read \/ Transmit

----------------------------------------------------------------------------
(* Other programs, and time *)

Write(kind, data) ==
  /\ kind # file.kind \/ data # file.data
  /\ file' = [kind |-> kind, data |-> data, mtime |-> clock]
  /\ rewritten' = (rewritten \/ file.mtime = clock)
  /\ raced' = (pc # "idle")
  /\ shrunk' = (shrunk \/ (pc \in {"open", "read"} /\ kind = "file" /\ Len(data) < st.size))
  /\ UNCHANGED <<clock, serverVars, clientVars>>

Tick ==
  /\ clock < MaxTime
  /\ clock' = clock + 1
  /\ UNCHANGED <<file, rewritten, serverVars, clientVars, races>>

Next ==
  \/ \E system, whole \in BOOLEAN, o \in Offsets, l \in Lengths : Call(system, whole, o, l)
  \/ Receive \/ Server \/ Tick
  \/ \E c \in Contents : Write("file", c)
  \/ \E k \in {"none", "dir"} : Write(k, <<>>)

Spec == Init /\ [][Next]_vars
=============================================================================
