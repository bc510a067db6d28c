---------------------------- MODULE FileService ----------------------------
(***************************************************************************)
(* What accessFile(), statFile() and readFile() promise a caller, whatever *)
(* carries the request: a query is answered by one look at the file, taken *)
(* between call and return; a read gathers the file in consecutive pieces, *)
(* each of them a look of its own, and is complete when a piece is short,  *)
(* or it is given up and says so.  Where a failed seek may go unnoticed, a *)
(* piece may come twice.                                                   *)
(***************************************************************************)
EXTENDS Naturals, Sequences

CONSTANTS Clients, Files, Contents, ChunkSize, Ops,
  SeekFails  \* whether a failed seek may go unnoticed

VARIABLES
  phase,   \* per client: "out", "in" a call, "decided" and not yet returned, "gone"
  req,     \* per client: the operation and the path of its latest call
  data,    \* per client: the bytes gathered by its latest call
  ok,      \* per client: whether its latest call succeeded
  fs       \* the files

vars == <<phase, req, data, ok, fs>>

\* At most ChunkSize bytes from the offset on.
Chunk(bytes, offset) ==
  SubSeq(bytes, offset + 1,
         IF offset + ChunkSize < Len(bytes) THEN offset + ChunkSize ELSE Len(bytes))

Init ==
  /\ phase = [c \in Clients |-> "out"]
  /\ \E f \in Files : req = [c \in Clients |-> [op |-> "NONE", path |-> f]]
  /\ data = [c \in Clients |-> <<>>]
  /\ ok = [c \in Clients |-> FALSE]
  /\ fs \in [Files -> Contents]

Begin(c, op, f, next) ==
  /\ phase[c] = "out"
  /\ phase' = [phase EXCEPT ![c] = next]
  /\ req' = [req EXCEPT ![c] = [op |-> op, path |-> f]]
  /\ data' = [data EXCEPT ![c] = <<>>]
  /\ ok' = [ok EXCEPT ![c] = FALSE]
  /\ UNCHANGED fs

Invoke(c, op, f) == Begin(c, op, f, "in")

\* The service is out of the caller's reach or the path is too long.
Refuse(c, op, f) == Begin(c, op, f, "out")

Query(c) ==
  /\ phase[c] = "in"
  /\ req[c].op # "READ_FILE"
  /\ ok' = [ok EXCEPT ![c] = fs[req[c].path].exists]
  /\ phase' = [phase EXCEPT ![c] = "decided"]
  /\ UNCHANGED <<req, data, fs>>

ReadPiece(c) ==
  LET f == fs[req[c].path]
      piece == Chunk(f.bytes, Len(data[c]))
      last == Len(piece) < ChunkSize
  IN
  /\ phase[c] = "in"
  /\ req[c].op = "READ_FILE"
  /\ f.exists /\ f.readable
  /\ data' = [data EXCEPT ![c] = @ \o piece]
  /\ ok' = [ok EXCEPT ![c] = last]
  /\ phase' = [phase EXCEPT ![c] = IF last THEN "decided" ELSE "in"]
  /\ UNCHANGED <<req, fs>>

\* The file was not moved to the next piece, nobody noticed, and the last one
\* comes again.
RepeatPiece(c) ==
  LET n == Len(data[c]) IN
  /\ SeekFails
  /\ phase[c] = "in"
  /\ req[c].op = "READ_FILE"
  /\ n >= ChunkSize
  /\ data' = [data EXCEPT ![c] = @ \o SubSeq(@, n - ChunkSize + 1, n)]
  /\ UNCHANGED <<phase, req, ok, fs>>

ReadGivenUp(c) ==
  /\ phase[c] = "in"
  /\ req[c].op = "READ_FILE"
  /\ phase' = [phase EXCEPT ![c] = "decided"]
  /\ UNCHANGED <<req, data, ok, fs>>

Return(c) ==
  /\ phase[c] = "decided"
  /\ phase' = [phase EXCEPT ![c] = "out"]
  /\ UNCHANGED <<req, data, ok, fs>>

Crash(c) ==
  /\ phase' = [phase EXCEPT ![c] = "gone"]
  /\ data' = [data EXCEPT ![c] = <<>>]
  /\ ok' = [ok EXCEPT ![c] = FALSE]
  /\ UNCHANGED <<req, fs>>

ChangeFile(f) ==
  /\ \E k \in Contents : fs' = [fs EXCEPT ![f] = k]
  /\ UNCHANGED <<phase, req, data, ok>>

Next ==
  \/ \E c \in Clients, op \in Ops, f \in Files : Invoke(c, op, f) \/ Refuse(c, op, f)
  \/ \E c \in Clients : Query(c) \/ ReadPiece(c) \/ RepeatPiece(c) \/ ReadGivenUp(c)
                         \/ Return(c) \/ Crash(c)
  \/ \E f \in Files : ChangeFile(f)

Spec == Init /\ [][Next]_vars
=============================================================================
