------------------------------ MODULE FdTable ------------------------------
(***************************************************************************)
(* The file descriptors a zygote hands to the processes it forks:          *)
(* fd_utils-inl.h and its callers in libxposed_art.cpp.                    *)
(*                                                                         *)
(* Before a fork, the zygote records its descriptors of application files, *)
(* with their positions, and puts /dev/null in their place; after it, both *)
(* processes open the files again.  So what they had shared, one open file *)
(* and its position, becomes an open file of each.  Any of the system      *)
(* calls may fail; most failures are logged and otherwise ignored.         *)
(*                                                                         *)
(* At the start every descriptor has an open file of its own.  One child   *)
(* at a time is looked at; it runs along with the zygote.                  *)
(***************************************************************************)
EXTENDS Naturals

CONSTANTS
  Zygote, Child,
  Fds,          \* the descriptors above STDERR_FILENO
  Whitelisted,  \* the paths of application files
  Sockets,      \* whitelisted paths that are sockets
  DevNull,      \* /dev/null
  Opened,       \* Opened[fd]: what the zygote has opened at first
  MaxOffset,    \* bound: positions in a file
  MaxForks      \* bound: processes forked

Procs == {Zygote, Child}
OpenFile == [path : {Opened[fd].path : fd \in Fds} \cup {DevNull}, flags : {"r", "rw"},
             offset : 0..MaxOffset, cloexec : BOOLEAN]

ASSUME FdAssumption ==
  /\ Zygote # Child
  /\ DevNull \notin Whitelisted /\ Sockets \subseteq Whitelisted
  /\ MaxOffset \in Nat /\ MaxForks \in Nat
  /\ Opened \in [Fds -> OpenFile]

VARIABLES
  pc,       \* "none", "run", "scan", "fork", "reopen", "crashed"
  open,     \* open[p][fd]: what p sees through a descriptor
  shared,   \* the descriptors through which both see one open file
  unread,   \* the entries of /proc/self/fd the zygote has not come to
  infos,    \* gClosedFdTable of each process, as far as it is not reopened
  table,    \* whether it is there: not NULL
  gone,     \* the paths that no longer exist
  forks,
  pos,      \* history: the position p has reached by itself since the last fork was prepared
  undetached, \* history: the descriptors the zygote could not detach for the last fork
  lost      \* history: lost[p], the descriptors that were not opened again in p

history == <<pos, undetached, lost>>
vars == <<pc, open, shared, unread, infos, table, gone, forks, history>>

Init ==
  /\ pc = [p \in Procs |-> IF p = Zygote THEN "run" ELSE "none"]
  /\ open = [p \in Procs |-> Opened]
  /\ shared = {}
  /\ unread = {}
  /\ infos = [p \in Procs |-> {}]
  /\ table = [p \in Procs |-> FALSE]
  /\ gone = {}
  /\ forks = 0
  /\ pos = [p \in Procs |-> [fd \in Fds |-> Opened[fd].offset]]
  /\ undetached = {}
  /\ lost = [p \in Procs |-> {}]

----------------------------------------------------------------------------
(* closeFilesBeforeForkNative(): FileDescriptorTable::Create() *)

OpenDir ==
  /\ pc[Zygote] = "run" /\ pc[Child] = "none" /\ forks < MaxForks
  /\ forks' = forks + 1
  /\ \/ pc' = [pc EXCEPT ![Zygote] = "scan"] /\ unread' = Fds /\ undetached' = {}
     \/ pc' = [pc EXCEPT ![Zygote] = "fork"] /\ undetached' = Fds /\ UNCHANGED unread
  /\ pos' = [pos EXCEPT ![Zygote] = [fd \in Fds |-> open[Zygote][fd].offset]]
  /\ UNCHANGED <<open, shared, infos, table, gone, lost>>

\* Mutant: every descriptor is taken for an application file's.
AnyPath(path) == path # DevNull

IsWhitelisted(path) == path \in Whitelisted

\* createFromFd() returns NULL for what is not whitelisted, and on any failure.
Pass(fd) ==
  /\ pc[Zygote] = "scan"
  /\ fd \in unread
  /\ unread' = unread \ {fd}
  /\ undetached' = IF IsWhitelisted(open[Zygote][fd].path) THEN undetached \cup {fd}
                   ELSE undetached
  /\ UNCHANGED <<pc, open, shared, infos, table, gone, forks, pos, lost>>

\* dup2() onto a descriptor leaves FD_CLOEXEC cleared.
Null == [path |-> DevNull, flags |-> "rw", offset |-> 0, cloexec |-> FALSE]

\* Mutant: the descriptor is recorded but stays as it is.
RecordOnly(fd) ==
  /\ pc[Zygote] = "scan"
  /\ fd \in unread
  /\ IsWhitelisted(open[Zygote][fd].path)
  /\ unread' = unread \ {fd}
  /\ infos' = [infos EXCEPT ![Zygote] = @ \cup {[fd |-> fd, file |-> open[Zygote][fd]]}]
  /\ UNCHANGED <<pc, open, shared, table, gone, forks, history>>

\* createFromFd() and Detach().
Detach(fd) ==
  /\ pc[Zygote] = "scan"
  /\ fd \in unread
  /\ IsWhitelisted(open[Zygote][fd].path)
  /\ unread' = unread \ {fd}
  /\ infos' = [infos EXCEPT ![Zygote] = @ \cup {[fd |-> fd, file |-> open[Zygote][fd]]}]
  /\ open' = [open EXCEPT ![Zygote][fd] = Null]
  /\ UNCHANGED <<pc, shared, table, gone, forks, history>>

\* Detach() fails, which Create() does not look at.
DetachFails(fd) ==
  /\ pc[Zygote] = "scan"
  /\ fd \in unread
  /\ IsWhitelisted(open[Zygote][fd].path)
  /\ unread' = unread \ {fd}
  /\ infos' = [infos EXCEPT ![Zygote] = @ \cup {[fd |-> fd, file |-> open[Zygote][fd]]}]
  /\ undetached' = undetached \cup {fd}
  /\ UNCHANGED <<pc, open, shared, table, gone, forks, pos, lost>>

\* closedir(); when it fails Create() returns NULL, with the files detached.
CloseDir ==
  /\ pc[Zygote] = "scan" /\ unread = {}
  /\ pc' = [pc EXCEPT ![Zygote] = "fork"]
  /\ \/ table' = [table EXCEPT ![Zygote] = TRUE] /\ UNCHANGED infos
     \/ infos' = [infos EXCEPT ![Zygote] = {}] /\ UNCHANGED table
  /\ UNCHANGED <<open, shared, unread, gone, forks, history>>

----------------------------------------------------------------------------
(* fork(), and reopenFilesAfterForkNative() in both processes *)

Fork ==
  /\ pc[Zygote] = "fork"
  /\ pc' = [p \in Procs |-> "reopen"]
  /\ open' = [p \in Procs |-> open[Zygote]]
  /\ infos' = [p \in Procs |-> infos[Zygote]]
  /\ table' = [p \in Procs |-> table[Zygote]]
  /\ pos' = [p \in Procs |-> pos[Zygote]]
  /\ lost' = [p \in Procs |-> lost[Zygote]]
  /\ shared' = Fds
  /\ UNCHANGED <<unread, gone, forks, undetached>>

\* There is no table: a NULL pointer is used.
Crash(p) ==
  /\ pc[p] = "reopen" /\ ~table[p]
  /\ pc' = [pc EXCEPT ![p] = "crashed"]
  /\ shared' = {}
  /\ UNCHANGED <<open, unread, infos, table, gone, forks, history>>

\* Mutant: the file is opened at its start.
ReopenAtStart(p, i) ==
  /\ pc[p] = "reopen" /\ table[p] /\ i \in infos[p]
  /\ i.file.path \notin Sockets \cup gone
  /\ open' = [open EXCEPT ![p][i.fd] = [i.file EXCEPT !.cloexec = FALSE, !.offset = 0]]
  /\ shared' = shared \ {i.fd}
  /\ infos' = [infos EXCEPT ![p] = @ \ {i}]
  /\ UNCHANGED <<pc, unread, table, gone, forks, history>>

\* Reopen(): the recorded flags and position are set on a new descriptor, which
\* dup2() then copies to the old one, except for its FD_CLOEXEC.
Reopen(p, i) ==
  /\ pc[p] = "reopen" /\ table[p] /\ i \in infos[p]
  /\ i.file.path \notin Sockets \cup gone
  /\ open' = [open EXCEPT ![p][i.fd] = [i.file EXCEPT !.cloexec = FALSE]]
  /\ shared' = shared \ {i.fd}
  /\ infos' = [infos EXCEPT ![p] = @ \ {i}]
  /\ UNCHANGED <<pc, unread, table, gone, forks, history>>

\* Sockets stay detached; so does a file one of the calls fails for.
StayDetached(p, i) ==
  /\ pc[p] = "reopen" /\ table[p] /\ i \in infos[p]
  /\ infos' = [infos EXCEPT ![p] = @ \ {i}]
  /\ lost' = [lost EXCEPT ![p] = @ \cup ({i.fd} \ undetached)]
  /\ UNCHANGED <<pc, open, shared, unread, table, gone, forks, pos, undetached>>

ReopenDone(p) ==
  /\ pc[p] = "reopen" /\ table[p] /\ infos[p] = {}
  /\ pc' = [pc EXCEPT ![p] = "run"]
  /\ table' = [table EXCEPT ![p] = FALSE]
  /\ UNCHANGED <<open, shared, unread, infos, gone, forks, history>>

----------------------------------------------------------------------------
(* What else happens *)

\* A process reads on: the position of the open file moves, for whoever shares it.
Read(p, fd) ==
  /\ pc[p] = "run"
  /\ open[p][fd].path # DevNull
  /\ open[p][fd].offset < MaxOffset /\ pos[p][fd] < MaxOffset
  /\ open' = [q \in Procs |->
                IF q = p \/ fd \in shared THEN [open[q] EXCEPT ![fd].offset = @ + 1]
                ELSE open[q]]
  /\ pos' = [pos EXCEPT ![p][fd] = @ + 1]
  /\ UNCHANGED <<pc, shared, unread, infos, table, gone, forks, undetached, lost>>

Unlink(path) ==
  /\ path \in Whitelisted \ gone
  /\ gone' = gone \cup {path}
  /\ UNCHANGED <<pc, open, shared, unread, infos, table, forks, history>>

ChildExits ==
  /\ pc[Child] \in {"run", "crashed"}
  /\ pc' = [pc EXCEPT ![Child] = "none"]
  /\ shared' = {}
  /\ UNCHANGED <<open, unread, infos, table, gone, forks, history>>

ReopenStep(p) ==
  \/ Crash(p) \/ ReopenDone(p)
  \/ \E i \in infos[p] : Reopen(p, i) \/ StayDetached(p, i)

Next ==
  \/ OpenDir \/ CloseDir \/ Fork \/ ChildExits
  \/ \E fd \in Fds : Pass(fd) \/ Detach(fd) \/ DetachFails(fd)
  \/ \E p \in Procs : ReopenStep(p)
  \/ \E p \in Procs, fd \in Fds : Read(p, fd)
  \/ \E path \in Whitelisted : Unlink(path)

Spec == Init /\ [][Next]_vars
=============================================================================
