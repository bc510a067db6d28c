------------------------------ MODULE FdProofs ------------------------------
(***************************************************************************)
(* A zygote's descriptors are private after a fork, for any descriptors,   *)
(* files and number of forks.                                              *)
(***************************************************************************)
EXTENDS FdProperties, TLAPS

USE FdAssumption DEF FdAssumption, Procs

(* What Detach() and Reopen() make of an open file.                                    *)
LEMMA FileFacts ==
  /\ Null \in OpenFile
  /\ \A f \in OpenFile :
       LET g == [f EXCEPT !.cloexec = FALSE]
       IN  g \in OpenFile /\ g.path = f.path /\ g.flags = f.flags /\ g.offset = f.offset
  /\ \A f \in OpenFile : f.offset < MaxOffset =>
       LET g == [f EXCEPT !.offset = @ + 1]
       IN  g \in OpenFile /\ g.path = f.path /\ g.flags = f.flags /\ g.offset = f.offset + 1
  /\ \A f \in OpenFile : f.offset \in 0..MaxOffset
  /\ \A fd \in Fds : Opened[fd] \in OpenFile
<1>1. ASSUME NEW f \in OpenFile, NEW g, g = [f EXCEPT !.cloexec = FALSE]
      PROVE  g \in OpenFile /\ g.path = f.path /\ g.flags = f.flags /\ g.offset = f.offset
  BY <1>1 DEF OpenFile
<1>2. ASSUME NEW f \in OpenFile, f.offset < MaxOffset, NEW g, g = [f EXCEPT !.offset = @ + 1]
      PROVE  g \in OpenFile /\ g.path = f.path /\ g.flags = f.flags /\ g.offset = f.offset + 1
  BY <1>2 DEF OpenFile
<1>3. Null \in OpenFile
  BY DEF OpenFile, Null
<1>4. \A f \in OpenFile : f.offset \in 0..MaxOffset
  BY DEF OpenFile
<1> QED BY <1>1, <1>2, <1>3, <1>4

Info == [fd : Fds, file : OpenFile]

Typed ==
  /\ pc \in [Procs -> {"none", "run", "scan", "fork", "reopen", "crashed"}]
  /\ open \in [Procs -> [Fds -> OpenFile]]
  /\ shared \subseteq Fds
  /\ unread \subseteq Fds
  /\ infos \in [Procs -> SUBSET Info]
  /\ table \in [Procs -> BOOLEAN]
  /\ gone \subseteq Whitelisted
  /\ forks \in 0..MaxForks
  /\ pos \in [Procs -> [Fds -> 0..MaxOffset]]
  /\ undetached \subseteq Fds
  /\ lost \in [Procs -> SUBSET Fds]
  /\ \A p \in Procs : table[p] => pc[p] \in {"fork", "reopen"}
  /\ \A fd \in shared : open[Zygote][fd] = open[Child][fd]
  /\ pc[Zygote] \in {"scan", "fork"} => pc[Child] = "none"
  /\ pc[Child] = "none" => shared = {}
  /\ pc[Child] \notin {"scan", "fork"}

(* Every variable keeps its type; what is shared is the same to both, which is what     *)
(* bounds the position when the other process reads; nothing is shared while the       *)
(* zygote prepares a fork.                                                             *)
LEMMA TypedInvariant == Spec => []Typed
<1>1. Init => Typed
  <2> SUFFICES ASSUME Init PROVE Typed
    OBVIOUS
  <2>1. open \in [Procs -> [Fds -> OpenFile]]
    BY DEF Init
  <2>2. table \in [Procs -> BOOLEAN] /\ (\A p \in Procs : ~table[p])
    BY Zenon DEF Init
  <2>3. pos \in [Procs -> [Fds -> 0..MaxOffset]]
    BY FileFacts DEF Init
  <2> QED BY <2>1, <2>2, <2>3 DEF Init, Typed
<1>2. Typed /\ [Next]_vars => Typed'
  <2> SUFFICES ASSUME Typed, [Next]_vars PROVE Typed'
    OBVIOUS
  <2> USE DEF Typed, history
  <2>1. CASE OpenDir
    <3>1. [fd \in Fds |-> open[Zygote][fd].offset] \in [Fds -> 0..MaxOffset]
      BY FileFacts
    <3>2. pos' \in [Procs -> [Fds -> 0..MaxOffset]]
      BY <2>1, <3>1 DEF OpenDir
    <3> QED BY <2>1, <3>2 DEF OpenDir
  <2>2. CASE CloseDir
    <3>1. table' \in [Procs -> BOOLEAN] /\ infos' \in [Procs -> SUBSET Info]
      BY <2>2 DEF CloseDir
    <3>2. \A p \in Procs : table'[p] => pc'[p] \in {"fork", "reopen"}
      BY <2>2 DEF CloseDir
    <3> QED BY <2>2, <3>1, <3>2 DEF CloseDir
  <2>3. CASE Fork
    <3>1. table' \in [Procs -> BOOLEAN]
      BY <2>3, Zenon DEF Fork
    <3> QED BY <2>3, <3>1 DEF Fork
  <2>4. CASE ChildExits
    BY <2>4 DEF ChildExits
  <2>5. ASSUME NEW fd \in Fds, Pass(fd) PROVE Typed'
    BY <2>5 DEF Pass
  <2>6. ASSUME NEW fd \in Fds, Detach(fd) PROVE Typed'
    <3>1. [fd |-> fd, file |-> open[Zygote][fd]] \in Info /\ Null \in OpenFile
      BY FileFacts DEF Info
    <3>2. infos' \in [Procs -> SUBSET Info] /\ open' \in [Procs -> [Fds -> OpenFile]]
      BY <2>6, <3>1 DEF Detach
    <3> QED BY <2>6, <3>2 DEF Detach
  <2>7. ASSUME NEW fd \in Fds, DetachFails(fd) PROVE Typed'
    <3>1. [fd |-> fd, file |-> open[Zygote][fd]] \in Info
      BY DEF Info
    <3> QED BY <2>7, <3>1 DEF DetachFails
  <2>8. ASSUME NEW p \in Procs, Crash(p) PROVE Typed'
    BY <2>8 DEF Crash
  <2>9. ASSUME NEW p \in Procs, ReopenDone(p) PROVE Typed'
    BY <2>9 DEF ReopenDone
  <2>10. ASSUME NEW p \in Procs, NEW i \in infos[p], Reopen(p, i) PROVE Typed'
    <3>1. i.fd \in Fds /\ i.file \in OpenFile
      BY DEF Info
    <3>2. [i.file EXCEPT !.cloexec = FALSE] \in OpenFile
      BY <3>1, FileFacts
    <3> QED BY <2>10, <3>1, <3>2 DEF Reopen
  <2>11. ASSUME NEW p \in Procs, NEW i \in infos[p], StayDetached(p, i) PROVE Typed'
    BY <2>11 DEF StayDetached, Info
  <2>12. ASSUME NEW p \in Procs, NEW fd \in Fds, Read(p, fd) PROVE Typed'
    <3>1. open' \in [Procs -> [Fds -> OpenFile]]
      <4> SUFFICES ASSUME NEW q \in Procs PROVE open'[q] \in [Fds -> OpenFile]
        BY <2>12 DEF Read
      <4>1. open'[q] \in {open[q], [open[q] EXCEPT ![fd].offset = @ + 1]}
        BY <2>12 DEF Read
      <4>2. CASE open'[q] = open[q]
        BY <4>2
      <4>3. CASE open'[q] # open[q]
        <5>1. open[q][fd].offset < MaxOffset
          BY <2>12, <4>3 DEF Read
        <5>2. open[q][fd] \in OpenFile
          OBVIOUS
        <5>3. [open[q][fd] EXCEPT !.offset = @ + 1] \in OpenFile
          BY <5>1, <5>2, FileFacts
        <5>4. open'[q] = [open[q] EXCEPT ![fd] = [open[q][fd] EXCEPT !.offset = @ + 1]]
          BY <4>1, <4>3
        <5> QED BY <5>3, <5>4
      <4> QED BY <4>2, <4>3
    <3>2. pos' \in [Procs -> [Fds -> 0..MaxOffset]]
      BY <2>12 DEF Read
    <3> QED BY <2>12, <3>1, <3>2 DEF Read
  <2>13. ASSUME NEW path \in Whitelisted, Unlink(path) PROVE Typed'
    BY <2>13 DEF Unlink
  <2>14. CASE UNCHANGED vars
    BY <2>14 DEF vars
  <2> QED
    BY <2>1, <2>2, <2>3, <2>4, <2>5, <2>6, <2>7, <2>8, <2>9, <2>10, <2>11, <2>12, <2>13,
       <2>14 DEF Next, ReopenStep
<1> QED BY <1>1, <1>2, PTL DEF Spec

(* What a process records of a file, sees through a descriptor and has read of it are    *)
(* descriptors, open files and positions, however often it forks and whatever fails.     *)
THEOREM FdTypeCorrect == Spec => []TypeOK
<1>1. Typed => TypeOK
  BY DEF Typed, TypeOK, Info
<1> QED BY <1>1, TypedInvariant, PTL

----------------------------------------------------------------------------
(* The files of the system *)

SameButOffset(f, g) == [f EXCEPT !.offset = 0] = [g EXCEPT !.offset = 0]

OtherInv ==
  \A fd \in Fds \ AppFds :
    /\ \A p \in Procs : SameButOffset(open[p][fd], Opened[fd])
    /\ \A p \in Procs : \A i \in infos[p] : i.fd # fd
    /\ (\A p \in Procs : pc[p] \in {"run", "reopen"}) => fd \in shared

LEMMA SameFacts ==
  /\ \A f, g \in OpenFile : SameButOffset(f, g) => f.path = g.path
  /\ \A f, g \in OpenFile :
       SameButOffset(f, g) => SameButOffset([f EXCEPT !.offset = @ + 1], g)
<1>1. ASSUME NEW f \in OpenFile, NEW g \in OpenFile, SameButOffset(f, g) PROVE f.path = g.path
  <2>1. [f EXCEPT !.offset = 0].path = f.path /\ [g EXCEPT !.offset = 0].path = g.path
    BY DEF OpenFile
  <2> QED BY <1>1, <2>1 DEF SameButOffset
<1>2. ASSUME NEW f \in OpenFile
      PROVE  [[f EXCEPT !.offset = @ + 1] EXCEPT !.offset = 0] = [f EXCEPT !.offset = 0]
  BY DEF OpenFile
<1> QED BY <1>1, <1>2 DEF SameButOffset

(* Only what is whitelisted is ever detached or opened again.                           *)
LEMMA OtherInvariant == Spec => []OtherInv
<1>1. Init => OtherInv
  BY FileFacts DEF Init, OtherInv, SameButOffset
<1>2. ASSUME Typed, OtherInv, [Next]_vars PROVE OtherInv'
  <2> USE DEF history
  <2> SUFFICES ASSUME NEW fd \in Fds \ AppFds
               PROVE  /\ \A p \in Procs : SameButOffset(open'[p][fd], Opened[fd])
                      /\ \A p \in Procs : \A i \in infos'[p] : i.fd # fd
                      /\ (\A p \in Procs : pc'[p] \in {"run", "reopen"}) => fd \in shared'
    BY DEF OtherInv, AppFds
  <2> DEFINE Goal ==
         /\ \A p \in Procs : SameButOffset(open'[p][fd], Opened[fd])
         /\ \A p \in Procs : \A i \in infos'[p] : i.fd # fd
         /\ (\A p \in Procs : pc'[p] \in {"run", "reopen"}) => fd \in shared'
  <2>0. /\ \A p \in Procs : SameButOffset(open[p][fd], Opened[fd])
        /\ \A p \in Procs : \A i \in infos[p] : i.fd # fd
        /\ (\A p \in Procs : pc[p] \in {"run", "reopen"}) => fd \in shared
        /\ \A p \in Procs : open[p][fd] \in OpenFile
        /\ Opened[fd].path \notin Whitelisted /\ Opened[fd] \in OpenFile
        /\ pc \in [Procs -> {"none", "run", "scan", "fork", "reopen", "crashed"}]
        /\ open \in [Procs -> [Fds -> OpenFile]]
        /\ infos \in [Procs -> SUBSET Info]
    BY <1>2, FileFacts DEF OtherInv, Typed, AppFds
  <2>1. open[Zygote][fd].path \notin Whitelisted
    BY <2>0, SameFacts
  <2>2. CASE OpenDir
    BY <2>0, <2>2 DEF OpenDir
  <2>3. CASE CloseDir
    BY <2>0, <2>3 DEF CloseDir
  <2>4. CASE Fork
    BY <2>0, <2>4 DEF Fork
  <2>5. CASE ChildExits
    BY <2>0, <2>5 DEF ChildExits
  <2>6. ASSUME NEW fd2 \in Fds, Pass(fd2) PROVE Goal
    BY <2>0, <2>6 DEF Pass
  <2>7. ASSUME NEW fd2 \in Fds, Detach(fd2) PROVE Goal
    <3>1. fd2 # fd
      BY <2>1, <2>7 DEF Detach, IsWhitelisted
    <3> QED BY <2>0, <2>7, <3>1 DEF Detach
  <2>8. ASSUME NEW fd2 \in Fds, DetachFails(fd2) PROVE Goal
    <3>1. fd2 # fd
      BY <2>1, <2>8 DEF DetachFails, IsWhitelisted
    <3> QED BY <2>0, <2>8, <3>1 DEF DetachFails
  <2>9. ASSUME NEW q \in Procs, Crash(q) PROVE Goal
    BY <2>0, <2>9 DEF Crash
  <2>10. ASSUME NEW q \in Procs, ReopenDone(q) PROVE Goal
    BY <2>0, <2>10 DEF ReopenDone
  <2>11. ASSUME NEW q \in Procs, NEW i \in infos[q], Reopen(q, i) PROVE Goal
    <3>1. i.fd # fd
      BY <2>0
    <3> QED BY <2>0, <2>11, <3>1 DEF Reopen
  <2>12. ASSUME NEW q \in Procs, NEW i \in infos[q], StayDetached(q, i) PROVE Goal
    BY <2>0, <2>12 DEF StayDetached
  <2>13. ASSUME NEW q \in Procs, NEW fd2 \in Fds, Read(q, fd2) PROVE Goal
    <3>1. ASSUME NEW p \in Procs PROVE SameButOffset(open'[p][fd], Opened[fd])
      <4>1. open'[p][fd] = open[p][fd] \/ open'[p][fd] = [open[p][fd] EXCEPT !.offset = @ + 1]
        BY <2>0, <2>13 DEF Read
      <4> QED BY <2>0, <4>1, SameFacts
    <3>2. UNCHANGED <<pc, shared, infos>>
      BY <2>13 DEF Read
    <3> QED BY <2>0, <3>1, <3>2
  <2>14. ASSUME NEW path \in Whitelisted, Unlink(path) PROVE Goal
    BY <2>0, <2>14 DEF Unlink
  <2>15. CASE UNCHANGED vars
    BY <2>0, <2>15 DEF vars
  <2> QED
    BY <1>2, <2>2, <2>3, <2>4, <2>5, <2>6, <2>7, <2>8, <2>9, <2>10, <2>11, <2>12, <2>13,
       <2>14, <2>15 DEF Next, ReopenStep
<1> QED BY <1>1, <1>2, TypedInvariant, PTL DEF Spec

----------------------------------------------------------------------------
(* The files of applications *)

Same(p, fd) ==
  open[p][fd].path = Opened[fd].path /\ open[p][fd].flags = Opened[fd].flags

Good(p, fd) == Same(p, fd) /\ open[p][fd].offset = pos[p][fd]

Recorded(p, fd) == \E i \in infos[p] : i.fd = fd

Detached(p, fd) == open[p][fd].path = DevNull

\* What is recorded of a descriptor is what the process is to get back, and is recorded
\* once.
RecordsFit(p, fd) ==
  /\ \A i \in infos[p] : i.fd = fd => /\ i.file.path = Opened[fd].path
                                      /\ i.file.flags = Opened[fd].flags
                                      /\ i.file.offset = pos[p][fd]
  /\ \A i, j \in infos[p] : i.fd = fd /\ j.fd = fd => i = j

Unread(fd) == fd \in unread
Undetached(fd) == fd \in undetached
Lost(p, fd) == fd \in lost[p]

\* Where a descriptor is, in each phase of a process.
Runs(p, fd) == infos[p] = {} /\ (~Undetached(fd) /\ ~Lost(p, fd) => Good(p, fd))
Scanned(p, fd) ==
  /\ RecordsFit(p, fd)
  /\ Recorded(p, fd) => ~Lost(p, fd)
  /\ Unread(fd) => ~Recorded(p, fd) /\ ~Undetached(fd) /\ (~Lost(p, fd) => Good(p, fd))
  /\ ~Unread(fd) /\ ~Undetached(fd) => Detached(p, fd) /\ (Recorded(p, fd) \/ Lost(p, fd))
Forking(p, fd) ==
  /\ RecordsFit(p, fd)
  /\ Recorded(p, fd) => ~Lost(p, fd)
  /\ ~Undetached(fd) => Detached(p, fd)
  /\ ~Undetached(fd) /\ table[p] => Recorded(p, fd) \/ Lost(p, fd)
Reopening(p, fd) ==
  /\ RecordsFit(p, fd)
  /\ Recorded(p, fd) => ~Lost(p, fd)
  /\ ~Undetached(fd) /\ Recorded(p, fd) => Detached(p, fd)
  /\ ~Undetached(fd) /\ ~Recorded(p, fd) /\ ~Lost(p, fd) /\ table[p] => Good(p, fd)

PlaceOf(p, fd) ==
  pc[p] # "none" =>
    /\ Lost(p, fd) => Detached(p, fd)
    /\ Undetached(fd) /\ ~Lost(p, fd) => Same(p, fd)
    /\ pc[p] = "run" => Runs(p, fd)
    /\ pc[p] = "scan" => Scanned(p, fd)
    /\ pc[p] = "fork" => Forking(p, fd)
    /\ pc[p] = "reopen" => Reopening(p, fd)

AppOf(fd) ==
  /\ \A p \in Procs : PlaceOf(p, fd)
  /\ fd \in shared /\ ~Undetached(fd) => \A p \in Procs : Detached(p, fd)

AppInv == \A fd \in AppFds : AppOf(fd)

\* The steps leave what p sees through fd, and what is recorded of it, as it was.
Untouched(p, fd) ==
  /\ open'[p][fd] = open[p][fd]
  /\ pos'[p][fd] = pos[p][fd]
  /\ \A i \in Info : i.fd = fd => (i \in infos'[p] <=> i \in infos[p])

LEMMA UntouchedKeeps ==
  ASSUME Typed, Typed', NEW fd \in Fds, NEW p \in Procs, Untouched(p, fd)
  PROVE  /\ Good(p, fd)' <=> Good(p, fd)
         /\ Same(p, fd)' <=> Same(p, fd)
         /\ Detached(p, fd)' <=> Detached(p, fd)
         /\ Recorded(p, fd)' <=> Recorded(p, fd)
         /\ RecordsFit(p, fd)' <=> RecordsFit(p, fd)
<1>1. infos[p] \subseteq Info /\ infos'[p] \subseteq Info
  BY DEF Typed
<1>2. (Good(p, fd)' <=> Good(p, fd)) /\ (Same(p, fd)' <=> Same(p, fd))
  BY DEF Untouched, Good, Same
<1>3. Detached(p, fd)' <=> Detached(p, fd)
  BY DEF Untouched, Detached
<1>4. Recorded(p, fd)' <=> Recorded(p, fd)
  BY <1>1 DEF Untouched, Recorded
<1>5. \A i : i.fd = fd => (i \in infos'[p] <=> i \in infos[p])
  BY <1>1 DEF Untouched
<1>6. RecordsFit(p, fd)' <=> RecordsFit(p, fd)
  BY <1>5 DEF Untouched, RecordsFit
<1> QED BY <1>2, <1>3, <1>4, <1>6

(* A process and a descriptor that a step does not concern stay where they are.         *)
LEMMA PlaceStays ==
  ASSUME Typed, Typed', NEW fd \in Fds, NEW p \in Procs, Untouched(p, fd), PlaceOf(p, fd),
         pc'[p] = pc[p], table'[p] = table[p], infos[p] = {} => infos'[p] = {},
         pc[p] = "scan" => (Unread(fd)' <=> Unread(fd)),
         Undetached(fd)' <=> Undetached(fd),
         Lost(p, fd)' <=> Lost(p, fd)
  PROVE  PlaceOf(p, fd)'
<1>1. pc[p] = "run" => (Runs(p, fd) => Runs(p, fd)')
  BY UntouchedKeeps DEF Runs
<1>2. pc[p] = "scan" => (Scanned(p, fd) => Scanned(p, fd)')
  BY UntouchedKeeps DEF Scanned
<1>3. Forking(p, fd) => Forking(p, fd)'
  BY UntouchedKeeps DEF Forking
<1>4. Reopening(p, fd) => Reopening(p, fd)'
  BY UntouchedKeeps DEF Reopening
<1>5. /\ (Same(p, fd)' <=> Same(p, fd)) /\ (Detached(p, fd)' <=> Detached(p, fd))
  BY UntouchedKeeps
<1> QED BY <1>1, <1>2, <1>3, <1>4, <1>5 DEF PlaceOf

LEMMA SameIsOpen ==
  ASSUME NEW fd \in AppFds, NEW p \in Procs, Same(p, fd)
  PROVE  open[p][fd].path \in Whitelisted /\ ~Detached(p, fd)
BY DEF AppFds, Same, Detached

(* A descriptor the zygote can detach is first itself, then recorded and detached, and   *)
(* then, in each process, itself again or /dev/null for good; one it cannot detach stays  *)
(* the file it was.                                                                      *)
LEMMA AppInvariant == Spec => []AppInv
<1>1. Init => AppInv
  <2> SUFFICES ASSUME Init, NEW fd \in AppFds PROVE AppOf(fd)
    BY DEF AppInv
  <2>1. fd \in Fds /\ shared = {}
    BY DEF Init, AppFds
  <2>2. ASSUME NEW p \in Procs PROVE PlaceOf(p, fd)
    BY <2>1 DEF Init, PlaceOf, Runs, Good, Same, Lost, Undetached
  <2> QED BY <2>1, <2>2 DEF AppOf
<1>2. ASSUME Typed, Typed', AppInv, [Next]_vars PROVE AppInv'
  <2> SUFFICES ASSUME NEW fd \in AppFds PROVE AppOf(fd)'
    BY DEF AppInv, AppFds
  <2> USE DEF history
  <2>1. fd \in Fds
    BY DEF AppFds
  <2>2. /\ \A p \in Procs : PlaceOf(p, fd)
        /\ pc \in [Procs -> {"none", "run", "scan", "fork", "reopen", "crashed"}]
        /\ table \in [Procs -> BOOLEAN]
        /\ open \in [Procs -> [Fds -> OpenFile]]
        /\ pos \in [Procs -> [Fds -> 0..MaxOffset]]
        /\ infos \in [Procs -> SUBSET Info]
        /\ lost \in [Procs -> SUBSET Fds] /\ undetached \subseteq Fds
        /\ fd \in shared /\ ~Undetached(fd) => \A p \in Procs : Detached(p, fd)
        /\ pc[Zygote] \in {"scan", "fork"} => pc[Child] = "none"
        /\ pc[Child] = "none" => shared = {}
    BY <1>2, <2>1 DEF AppInv, AppOf, Typed
  <2>3. ASSUME \A p \in Procs : Untouched(p, fd), \A p \in Procs : PlaceOf(p, fd)',
               shared' \subseteq shared, Undetached(fd)' <=> Undetached(fd)
        PROVE  AppOf(fd)'
    BY <1>2, <2>1, <2>2, <2>3, UntouchedKeeps DEF AppOf
  <2>4. CASE OpenDir
    <3>1. /\ pc[Zygote] = "run" /\ pc[Child] = "none" /\ pc'[Child] = "none"
          /\ shared = {} /\ shared' = {} /\ UNCHANGED <<open, infos, lost>>
          /\ pos'[Zygote] = [c \in Fds |-> open[Zygote][c].offset]
      BY <2>2, <2>4 DEF OpenDir
    <3>2. Runs(Zygote, fd) /\ (Lost(Zygote, fd) => Detached(Zygote, fd))
          /\ (Undetached(fd) /\ ~Lost(Zygote, fd) => Same(Zygote, fd))
      BY <2>2, <3>1 DEF PlaceOf
    <3>3. ~Lost(Zygote, fd) => Same(Zygote, fd)
      BY <3>2 DEF Runs, Good
    <3>4. ~Lost(Zygote, fd) => Good(Zygote, fd)' /\ Same(Zygote, fd)'
      BY <2>1, <3>1, <3>3 DEF Good, Same
    <3>5. infos'[Zygote] = {} /\ (Lost(Zygote, fd)' <=> Lost(Zygote, fd))
          /\ (Detached(Zygote, fd)' <=> Detached(Zygote, fd))
      BY <3>1, <3>2 DEF Runs, Lost, Detached
    <3>6. RecordsFit(Zygote, fd)' /\ ~Recorded(Zygote, fd)'
      BY <3>5 DEF RecordsFit, Recorded
    <3>7. CASE pc' = [pc EXCEPT ![Zygote] = "scan"] /\ unread' = Fds /\ undetached' = {}
      <4>1. Unread(fd)' /\ ~Undetached(fd)' /\ pc'[Zygote] = "scan"
        BY <2>1, <2>2, <3>7 DEF Unread, Undetached
      <4>2. PlaceOf(Zygote, fd)'
        BY <3>2, <3>4, <3>5, <3>6, <4>1 DEF PlaceOf, Scanned
      <4>3. PlaceOf(Child, fd)'
        BY <3>1 DEF PlaceOf
      <4> QED BY <3>1, <4>2, <4>3 DEF AppOf
    <3>8. CASE pc' = [pc EXCEPT ![Zygote] = "fork"] /\ undetached' = Fds
      <4>1. Undetached(fd)' /\ pc'[Zygote] = "fork"
        BY <2>1, <2>2, <3>8 DEF Undetached
      <4>2. PlaceOf(Zygote, fd)'
        BY <3>2, <3>4, <3>5, <3>6, <4>1 DEF PlaceOf, Forking
      <4>3. PlaceOf(Child, fd)'
        BY <3>1 DEF PlaceOf
      <4> QED BY <3>1, <4>2, <4>3 DEF AppOf
    <3> QED BY <2>4, <3>7, <3>8 DEF OpenDir
  <2>5. CASE CloseDir
    <3>1. /\ pc[Zygote] = "scan" /\ ~Unread(fd) /\ pc'[Zygote] = "fork" /\ pc'[Child] = "none"
          /\ shared' = {}
          /\ UNCHANGED <<open, pos, undetached, lost>> /\ infos' \in [Procs -> SUBSET Info]
      BY <2>2, <2>5 DEF CloseDir, Unread
    <3>2. /\ Scanned(Zygote, fd) /\ (Lost(Zygote, fd) => Detached(Zygote, fd))
          /\ (Undetached(fd) /\ ~Lost(Zygote, fd) => Same(Zygote, fd))
      BY <2>2, <3>1 DEF PlaceOf
    <3>3. /\ Lost(Zygote, fd)' <=> Lost(Zygote, fd)
          /\ Undetached(fd)' <=> Undetached(fd)
          /\ Same(Zygote, fd)' <=> Same(Zygote, fd)
          /\ Detached(Zygote, fd)' <=> Detached(Zygote, fd)
      BY <3>1 DEF Lost, Undetached, Same, Detached
    <3>4. CASE table' = [table EXCEPT ![Zygote] = TRUE] /\ UNCHANGED infos
      <4>1. /\ RecordsFit(Zygote, fd)' <=> RecordsFit(Zygote, fd)
            /\ Recorded(Zygote, fd)' <=> Recorded(Zygote, fd)
        BY <3>1, <3>4 DEF RecordsFit, Recorded
      <4>2. PlaceOf(Zygote, fd)'
        BY <3>1, <3>2, <3>3, <4>1 DEF PlaceOf, Scanned, Forking
      <4> QED BY <3>1, <4>2 DEF AppOf, PlaceOf
    <3>5. CASE infos' = [infos EXCEPT ![Zygote] = {}] /\ UNCHANGED table
      <4>1. infos'[Zygote] = {} /\ table'[Zygote] = table[Zygote] /\ ~table[Zygote]
        BY <1>2, <2>2, <3>1, <3>5 DEF Typed
      <4>2. RecordsFit(Zygote, fd)' /\ ~Recorded(Zygote, fd)'
        BY <4>1 DEF RecordsFit, Recorded
      <4>3. PlaceOf(Zygote, fd)'
        BY <3>1, <3>2, <3>3, <4>1, <4>2 DEF PlaceOf, Scanned, Forking
      <4> QED BY <3>1, <4>3 DEF AppOf, PlaceOf
    <3> QED BY <2>5, <3>4, <3>5 DEF CloseDir
  <2>6. CASE Fork
    <3>1. PlaceOf(Zygote, fd) /\ pc[Zygote] = "fork"
      BY <2>2, <2>6 DEF Fork
    <3>2. \A p \in Procs : /\ open'[p] = open[Zygote] /\ infos'[p] = infos[Zygote]
                           /\ table'[p] = table[Zygote] /\ pos'[p] = pos[Zygote]
                           /\ lost'[p] = lost[Zygote] /\ pc'[p] = "reopen"
      BY <2>6 DEF Fork
    <3>3. Undetached(fd)' <=> Undetached(fd)
      BY <2>6 DEF Fork, Undetached
    <3>4. ASSUME NEW p \in Procs
          PROVE  /\ Detached(p, fd)' <=> Detached(Zygote, fd)
                 /\ Same(p, fd)' <=> Same(Zygote, fd)
                 /\ RecordsFit(p, fd)' <=> RecordsFit(Zygote, fd)
                 /\ Recorded(p, fd)' <=> Recorded(Zygote, fd)
                 /\ Lost(p, fd)' <=> Lost(Zygote, fd)
      BY <3>2 DEF Detached, Same, Recorded, RecordsFit, Lost
    <3>5. ASSUME NEW p \in Procs PROVE PlaceOf(p, fd)'
      BY <3>1, <3>2, <3>3, <3>4 DEF PlaceOf, Forking, Reopening
    <3>6. ~Undetached(fd)' => \A p \in Procs : Detached(p, fd)'
      BY <3>1, <3>3, <3>4 DEF PlaceOf, Forking
    <3> QED BY <3>5, <3>6 DEF AppOf
  <2>7. CASE ChildExits
    <3>1. /\ \A p \in Procs : Untouched(p, fd)
          /\ pc' = [pc EXCEPT ![Child] = "none"] /\ shared' \subseteq shared
          /\ UNCHANGED <<infos, table, unread, undetached, lost>>
      BY <2>1, <2>2, <2>7 DEF ChildExits, Untouched
    <3>2. PlaceOf(Child, fd)'
      BY <2>2, <3>1 DEF PlaceOf
    <3>3. PlaceOf(Zygote, fd)'
      BY <1>2, <2>1, <2>2, <3>1, PlaceStays DEF Unread, Undetached, Lost
    <3> QED BY <2>3, <3>1, <3>2, <3>3 DEF Undetached
  <2>8. ASSUME NEW fd2 \in Fds, Pass(fd2) PROVE AppOf(fd)'
    <3>1. /\ UNCHANGED <<pc, open, shared, infos, table, pos, lost>>
          /\ unread' = unread \ {fd2} /\ fd2 \in unread /\ pc[Zygote] = "scan"
          /\ undetached' = IF open[Zygote][fd2].path \in Whitelisted THEN undetached \cup {fd2}
                           ELSE undetached
      BY <2>8 DEF Pass, IsWhitelisted
    <3>2. pc'[Child] = "none" /\ shared' = {}
      BY <2>2, <3>1
    <3>3. Untouched(Zygote, fd)
      BY <3>1 DEF Untouched
    <3>4. CASE fd2 # fd
      <4>1. PlaceOf(Zygote, fd)'
        BY <1>2, <2>1, <2>2, <3>1, <3>3, <3>4, PlaceStays DEF Unread, Undetached, Lost
      <4> QED BY <3>2, <4>1 DEF AppOf, PlaceOf
    <3>5. CASE fd2 = fd
      <4>1. Scanned(Zygote, fd) /\ Unread(fd) /\ (Lost(Zygote, fd) => Detached(Zygote, fd))
        BY <2>2, <3>1, <3>5 DEF PlaceOf, Unread
      <4>2. /\ RecordsFit(Zygote, fd)' <=> RecordsFit(Zygote, fd)
            /\ Recorded(Zygote, fd)' <=> Recorded(Zygote, fd)
            /\ Detached(Zygote, fd)' <=> Detached(Zygote, fd)
            /\ Same(Zygote, fd)' <=> Same(Zygote, fd)
            /\ Lost(Zygote, fd)' <=> Lost(Zygote, fd)
        BY <1>2, <2>1, <3>1, <3>3, UntouchedKeeps DEF Lost
      <4>3. CASE Lost(Zygote, fd)
        <5>1. ~Undetached(fd)' /\ ~Unread(fd)'
          BY <3>1, <3>5, <4>1, <4>3 DEF Scanned, Detached, Undetached, Unread
        <5>2. PlaceOf(Zygote, fd)'
          BY <3>1, <4>1, <4>2, <4>3, <5>1 DEF PlaceOf, Scanned
        <5> QED BY <3>2, <5>2 DEF AppOf, PlaceOf
      <4>4. CASE ~Lost(Zygote, fd)
        <5>1. Same(Zygote, fd)
          BY <4>1, <4>4 DEF Scanned, Good
        <5>2. Undetached(fd)' /\ ~Unread(fd)'
          BY <3>1, <3>5, <5>1, SameIsOpen DEF Undetached, Unread
        <5>3. PlaceOf(Zygote, fd)'
          BY <3>1, <4>1, <4>2, <4>4, <5>1, <5>2 DEF PlaceOf, Scanned
        <5> QED BY <3>2, <5>3 DEF AppOf, PlaceOf
      <4> QED BY <4>3, <4>4
    <3> QED BY <3>4, <3>5
  <2>9. ASSUME NEW fd2 \in Fds, Detach(fd2) \/ DetachFails(fd2) PROVE AppOf(fd)'
    <3> DEFINE new == [fd |-> fd2, file |-> open[Zygote][fd2]]
    <3>1. /\ UNCHANGED <<pc, shared, table, pos, lost>>
          /\ unread' = unread \ {fd2} /\ fd2 \in unread /\ pc[Zygote] = "scan"
          /\ infos' = [infos EXCEPT ![Zygote] = @ \cup {new}]
          /\ undetached' \in {undetached, undetached \cup {fd2}}
          /\ open[Zygote][fd2].path \in Whitelisted
      BY <2>9 DEF Detach, DetachFails, IsWhitelisted
    <3>2. pc'[Child] = "none" /\ shared' = {} /\ pc'[Zygote] = "scan"
      BY <2>2, <3>1
    <3>3. Scanned(Zygote, fd) /\ (Lost(Zygote, fd) => Detached(Zygote, fd))
      BY <2>2, <3>1 DEF PlaceOf
    <3>4. /\ infos'[Zygote] = infos[Zygote] \cup {new}
          /\ new.fd = fd2 /\ new.file = open[Zygote][fd2]
      BY <2>2, <3>1
    <3>5. CASE fd2 # fd
      <4>1. Untouched(Zygote, fd)
        BY <2>1, <2>2, <2>9, <3>1, <3>5 DEF Untouched, Detach, DetachFails
      <4>2. /\ Unread(fd)' <=> Unread(fd)
            /\ Undetached(fd)' <=> Undetached(fd)
            /\ Lost(Zygote, fd)' <=> Lost(Zygote, fd)
        BY <3>1, <3>5 DEF Unread, Undetached, Lost
      <4>3. Scanned(Zygote, fd)'
        BY <1>2, <2>1, <3>3, <4>1, <4>2, UntouchedKeeps DEF Scanned
      <4>4. /\ Lost(Zygote, fd)' => Detached(Zygote, fd)'
            /\ Undetached(fd)' /\ ~Lost(Zygote, fd)' => Same(Zygote, fd)'
        BY <1>2, <2>1, <2>2, <3>1, <4>1, <4>2, UntouchedKeeps DEF PlaceOf
      <4>5. PlaceOf(Zygote, fd)'
        BY <3>2, <4>3, <4>4 DEF PlaceOf
      <4> QED BY <3>2, <4>5 DEF AppOf, PlaceOf
    <3>6. CASE fd2 = fd
      <4>1. /\ Unread(fd) /\ ~Lost(Zygote, fd) /\ Good(Zygote, fd) /\ RecordsFit(Zygote, fd)
            /\ ~Recorded(Zygote, fd) /\ ~Undetached(fd)
        BY <3>1, <3>3, <3>6 DEF Scanned, Unread, Detached
      <4>2. Recorded(Zygote, fd)' /\ RecordsFit(Zygote, fd)'
        <5>1. \A i \in infos[Zygote] : i.fd # fd
          BY <4>1 DEF Recorded
        <5>2. /\ new.file.path = Opened[fd].path /\ new.file.flags = Opened[fd].flags
              /\ new.file.offset = pos'[Zygote][fd]
          BY <3>1, <3>4, <3>6, <4>1 DEF Good, Same
        <5>3. new.fd = fd /\ infos'[Zygote] = infos[Zygote] \cup {new}
          BY <3>4, <3>6
        <5> HIDE DEF new
        <5>4. Recorded(Zygote, fd)'
          BY <5>3 DEF Recorded
        <5>5. \A i \in infos'[Zygote] : i.fd = fd => i = new
          BY <5>1, <5>3
        <5>6. RecordsFit(Zygote, fd)'
          BY <5>2, <5>5 DEF RecordsFit
        <5> QED BY <5>4, <5>6
      <4>3. ~Unread(fd)' /\ ~Lost(Zygote, fd)'
        BY <3>1, <3>6, <4>1 DEF Unread, Lost
      <4>4. CASE Detach(fd2)
        <5>1. Detached(Zygote, fd)' /\ ~Undetached(fd)'
          BY <2>1, <2>2, <3>6, <4>1, <4>4 DEF Detach, Detached, Null, Undetached
        <5>2. PlaceOf(Zygote, fd)'
          BY <3>2, <4>2, <4>3, <5>1 DEF PlaceOf, Scanned
        <5> QED BY <3>2, <5>2 DEF AppOf, PlaceOf
      <4>5. CASE DetachFails(fd2)
        <5>1. Same(Zygote, fd)' /\ Undetached(fd)'
          BY <3>6, <4>1, <4>5 DEF DetachFails, Good, Same, Undetached
        <5>2. PlaceOf(Zygote, fd)'
          BY <3>2, <4>2, <4>3, <5>1 DEF PlaceOf, Scanned
        <5> QED BY <3>2, <5>2 DEF AppOf, PlaceOf
      <4> QED BY <2>9, <4>4, <4>5
    <3> QED BY <3>5, <3>6
  <2>10. ASSUME NEW q \in Procs, Crash(q) PROVE AppOf(fd)'
    <3>1. /\ \A p \in Procs : Untouched(p, fd)
          /\ pc' = [pc EXCEPT ![q] = "crashed"] /\ shared' \subseteq shared
          /\ pc[q] = "reopen" /\ UNCHANGED <<infos, table, unread, undetached, lost>>
      BY <2>1, <2>2, <2>10 DEF Crash, Untouched
    <3>2. ASSUME NEW p \in Procs PROVE PlaceOf(p, fd)'
      <4>1. CASE p = q
        BY <1>2, <2>1, <2>2, <3>1, <4>1, UntouchedKeeps DEF PlaceOf, Undetached, Lost
      <4>2. CASE p # q
        BY <1>2, <2>1, <2>2, <3>1, <4>2, PlaceStays DEF Unread, Undetached, Lost
      <4> QED BY <4>1, <4>2
    <3> QED BY <2>3, <3>1, <3>2 DEF Undetached
  <2>11. ASSUME NEW q \in Procs, ReopenDone(q) PROVE AppOf(fd)'
    <3>1. /\ \A p \in Procs : Untouched(p, fd)
          /\ pc' = [pc EXCEPT ![q] = "run"] /\ shared' \subseteq shared
          /\ pc[q] = "reopen" /\ table[q] /\ infos[q] = {}
          /\ UNCHANGED <<infos, unread, undetached, lost>>
          /\ \A p \in Procs \ {q} : table'[p] = table[p]
      BY <2>1, <2>2, <2>11 DEF ReopenDone, Untouched
    <3>2. ASSUME NEW p \in Procs PROVE PlaceOf(p, fd)'
      <4>1. CASE p = q
        <5>1. Reopening(p, fd) /\ ~Recorded(p, fd) /\ table[p] /\ pc'[p] = "run" /\ infos'[p] = {}
          BY <2>2, <3>1, <4>1 DEF PlaceOf, Recorded
        <5>2. /\ Lost(p, fd)' <=> Lost(p, fd)
              /\ Undetached(fd)' <=> Undetached(fd)
          BY <3>1 DEF Lost, Undetached
        <5>3. Runs(p, fd)'
          BY <1>2, <2>1, <3>1, <5>1, <5>2, UntouchedKeeps DEF Runs, Reopening
        <5>4. /\ Lost(p, fd)' => Detached(p, fd)'
              /\ Undetached(fd)' /\ ~Lost(p, fd)' => Same(p, fd)'
          BY <1>2, <2>1, <2>2, <3>1, <4>1, <5>2, UntouchedKeeps DEF PlaceOf
        <5> QED BY <5>1, <5>3, <5>4 DEF PlaceOf
      <4>2. CASE p # q
        BY <1>2, <2>1, <2>2, <3>1, <4>2, PlaceStays DEF Unread, Undetached, Lost
      <4> QED BY <4>1, <4>2
    <3> QED BY <2>3, <3>1, <3>2 DEF Undetached
  <2>12. ASSUME NEW q \in Procs, NEW i \in infos[q], Reopen(q, i) PROVE AppOf(fd)'
    <3>1. /\ pc[q] = "reopen" /\ UNCHANGED <<pc, unread, table, pos, undetached, lost>>
          /\ infos' = [infos EXCEPT ![q] = @ \ {i}] /\ shared' = shared \ {i.fd}
          /\ open' = [open EXCEPT ![q][i.fd] = [i.file EXCEPT !.cloexec = FALSE]]
          /\ i \in Info /\ i.fd \in Fds /\ i.file \in OpenFile
      BY <2>2, <2>12 DEF Reopen, Info
    <3>2. (Undetached(fd)' <=> Undetached(fd)) /\ \A p \in Procs : Lost(p, fd)' <=> Lost(p, fd)
      BY <3>1 DEF Undetached, Lost
    <3>3. ASSUME NEW p \in Procs, p # q \/ i.fd # fd PROVE Untouched(p, fd) /\ PlaceOf(p, fd)'
      <4>1. Untouched(p, fd)
        BY <2>1, <2>2, <3>1, <3>3 DEF Untouched
      <4>2. infos[p] = {} => infos'[p] = {}
        BY <2>2, <3>1
      <4> QED BY <1>2, <2>1, <2>2, <3>1, <3>2, <4>1, <4>2, PlaceStays DEF Unread
    <3>4. CASE i.fd # fd
      <4>1. shared' \subseteq shared
        BY <3>1
      <4> QED BY <2>3, <3>2, <3>3, <3>4, <4>1
    <3>5. CASE i.fd = fd
      <4>1. Reopening(q, fd) /\ Recorded(q, fd)
        BY <2>2, <3>1, <3>5 DEF PlaceOf, Recorded
      <4>2. open'[q][fd] = [i.file EXCEPT !.cloexec = FALSE] /\ infos'[q] = infos[q] \ {i}
        BY <2>1, <2>2, <3>1, <3>5
      <4>3. Good(q, fd)'
        <5>1. /\ i.file.path = Opened[fd].path /\ i.file.flags = Opened[fd].flags
              /\ i.file.offset = pos[q][fd]
          BY <3>1, <3>5, <4>1 DEF RecordsFit, Reopening
        <5>2. /\ open'[q][fd].path = i.file.path /\ open'[q][fd].flags = i.file.flags
              /\ open'[q][fd].offset = i.file.offset
          BY <3>1, <4>2, FileFacts
        <5> QED BY <3>1, <5>1, <5>2 DEF Good, Same
      <4>4. RecordsFit(q, fd)' /\ ~Recorded(q, fd)'
        BY <3>1, <3>5, <4>1, <4>2 DEF RecordsFit, Recorded, Reopening
      <4>5. ~Lost(q, fd)' /\ Same(q, fd)' /\ pc'[q] = "reopen"
        BY <3>1, <3>2, <4>1, <4>3 DEF Reopening, Good
      <4>6. PlaceOf(q, fd)'
        BY <4>3, <4>4, <4>5 DEF PlaceOf, Reopening
      <4>7. \A p \in Procs : PlaceOf(p, fd)'
        BY <3>3, <4>6
      <4> QED BY <3>1, <3>5, <4>7 DEF AppOf
    <3> QED BY <3>4, <3>5
  <2>13. ASSUME NEW q \in Procs, NEW i \in infos[q], StayDetached(q, i) PROVE AppOf(fd)'
    <3>1. /\ UNCHANGED <<pc, open, shared, unread, table, pos, undetached>>
          /\ infos' = [infos EXCEPT ![q] = @ \ {i}] /\ pc[q] = "reopen"
          /\ lost' = [lost EXCEPT ![q] = @ \cup ({i.fd} \ undetached)]
      BY <2>13 DEF StayDetached
    <3>2. Undetached(fd)' <=> Undetached(fd)
      BY <3>1 DEF Undetached
    <3>3. ASSUME NEW p \in Procs, p # q \/ i.fd # fd PROVE PlaceOf(p, fd)'
      <4>1. Untouched(p, fd)
        BY <2>1, <2>2, <3>1, <3>3 DEF Untouched
      <4>2. infos[p] = {} => infos'[p] = {}
        BY <2>2, <3>1
      <4>3. Lost(p, fd)' <=> Lost(p, fd)
        BY <2>2, <3>1, <3>3 DEF Lost
      <4> QED BY <1>2, <2>1, <2>2, <3>1, <3>2, <4>1, <4>2, <4>3, PlaceStays DEF Unread
    <3>4. ASSUME i.fd = fd PROVE PlaceOf(q, fd)'
      <4>1. Reopening(q, fd) /\ Recorded(q, fd) /\ (Undetached(fd) /\ ~Lost(q, fd) => Same(q, fd))
        BY <2>2, <3>1, <3>4 DEF PlaceOf, Recorded
      <4>2. infos'[q] = infos[q] \ {i} /\ (Lost(q, fd)' <=> Lost(q, fd) \/ ~Undetached(fd))
        BY <2>2, <3>1, <3>4 DEF Lost, Undetached
      <4>3. RecordsFit(q, fd)' /\ ~Recorded(q, fd)'
        BY <3>1, <3>4, <4>1, <4>2 DEF RecordsFit, Recorded, Reopening
      <4>4. (Detached(q, fd)' <=> Detached(q, fd)) /\ (Same(q, fd)' <=> Same(q, fd))
        BY <3>1 DEF Detached, Same
      <4> QED BY <3>1, <3>2, <4>1, <4>2, <4>3, <4>4 DEF PlaceOf, Reopening
    <3>5. \A p \in Procs : PlaceOf(p, fd)'
      BY <3>3, <3>4
    <3> QED BY <2>2, <3>1, <3>2, <3>5 DEF AppOf, Detached
  <2>14. ASSUME NEW q \in Procs, NEW fd2 \in Fds, Read(q, fd2) PROVE AppOf(fd)'
    <3>1. /\ pc[q] = "run" /\ ~Detached(q, fd2)
          /\ UNCHANGED <<pc, shared, unread, infos, table, undetached, lost>>
      BY <2>14 DEF Read, Detached
    <3>2. (Undetached(fd)' <=> Undetached(fd)) /\ \A p \in Procs : Lost(p, fd)' <=> Lost(p, fd)
      BY <3>1 DEF Undetached, Lost
    <3>3. CASE fd2 # fd
      <4>1. ASSUME NEW p \in Procs PROVE Untouched(p, fd) /\ PlaceOf(p, fd)'
        <5>1. Untouched(p, fd)
          BY <2>1, <2>2, <2>14, <3>1, <3>3 DEF Untouched, Read
        <5> QED BY <1>2, <2>1, <2>2, <3>1, <3>2, <5>1, PlaceStays DEF Unread
      <4> QED BY <2>3, <3>1, <3>2, <4>1
    <3>4. CASE fd2 = fd /\ fd \notin shared
      <4>1. ASSUME NEW p \in Procs, p # q PROVE PlaceOf(p, fd)'
        <5>1. Untouched(p, fd)
          BY <2>1, <2>2, <2>14, <3>1, <3>4, <4>1 DEF Untouched, Read
        <5> QED BY <1>2, <2>1, <2>2, <3>1, <3>2, <5>1, PlaceStays DEF Unread
      <4>2. /\ Runs(q, fd) /\ (Lost(q, fd) => Detached(q, fd))
            /\ (Undetached(fd) /\ ~Lost(q, fd) => Same(q, fd))
        BY <2>2, <3>1 DEF PlaceOf
      <4>3. open[q][fd] \in OpenFile /\ open[q][fd].offset < MaxOffset
        BY <2>1, <2>2, <2>14, <3>4 DEF Read
      <4>4. /\ open'[q][fd] = [open[q][fd] EXCEPT !.offset = @ + 1]
            /\ pos'[q][fd] = pos[q][fd] + 1
        BY <2>1, <2>2, <2>14, <3>4 DEF Read
      <4>5. /\ open'[q][fd].path = open[q][fd].path /\ open'[q][fd].flags = open[q][fd].flags
            /\ open'[q][fd].offset = open[q][fd].offset + 1
        BY <4>3, <4>4, FileFacts
      <4>6. /\ Good(q, fd) => Good(q, fd)'
            /\ Same(q, fd) => Same(q, fd)'
            /\ Detached(q, fd) => Detached(q, fd)'
        BY <4>4, <4>5 DEF Good, Same, Detached
      <4>7. PlaceOf(q, fd)'
        BY <3>1, <3>2, <4>2, <4>6 DEF PlaceOf, Runs
      <4> QED BY <3>1, <3>4, <4>1, <4>7 DEF AppOf
    \* A file that could not be detached: the other process's position moves as well.
    <3>5. CASE fd2 = fd /\ fd \in shared
      <4>1. Undetached(fd)
        BY <2>2, <3>1, <3>5
      <4>2. ASSUME NEW p \in Procs
            PROVE  /\ open'[p][fd].path = open[p][fd].path /\ open'[p][fd].flags = open[p][fd].flags
        <5>1. open[p][fd] \in OpenFile /\ open[p][fd] = open[q][fd] /\ open[q][fd].offset < MaxOffset
          BY <1>2, <2>1, <2>2, <2>14, <3>5 DEF Read, Typed
        <5>2. open'[p][fd] = [open[p][fd] EXCEPT !.offset = @ + 1]
          BY <2>1, <2>2, <2>14, <3>5 DEF Read
        <5> QED BY <5>1, <5>2, FileFacts
      <4>3. \A p \in Procs : Detached(p, fd)' <=> Detached(p, fd)
        BY <4>2 DEF Detached
      <4>4. \A p \in Procs : Same(p, fd)' <=> Same(p, fd)
        BY <4>2 DEF Same
      <4>5. ASSUME NEW p \in Procs PROVE PlaceOf(p, fd)'
        <5>1. pc[p] \notin {"scan", "fork"}
          BY <1>2, <2>2, <3>1, <3>5 DEF Typed
        <5>2. CASE p = q
          BY <2>2, <3>1, <3>2, <4>1, <4>3, <4>4, <5>2 DEF PlaceOf, Runs
        <5>3. CASE p # q
          <6>1. /\ Recorded(p, fd)' <=> Recorded(p, fd)
                /\ RecordsFit(p, fd)' <=> RecordsFit(p, fd)
            BY <2>1, <2>2, <2>14, <3>1, <5>3 DEF Recorded, RecordsFit, Read
          <6> QED BY <2>2, <3>1, <3>2, <4>1, <4>3, <4>4, <5>1, <6>1 DEF PlaceOf, Runs, Reopening
        <5> QED BY <5>2, <5>3
      <4> QED BY <3>2, <4>1, <4>5 DEF AppOf
    <3> QED BY <3>3, <3>4, <3>5
  <2>15. CASE (\E path \in Whitelisted : Unlink(path)) \/ UNCHANGED vars
    <3>1. UNCHANGED <<pc, open, shared, unread, infos, table, pos, undetached, lost>>
      BY <2>15 DEF Unlink, vars
    <3>2. ASSUME NEW p \in Procs PROVE Untouched(p, fd) /\ PlaceOf(p, fd)'
      <4>1. Untouched(p, fd)
        BY <3>1 DEF Untouched
      <4> QED BY <1>2, <2>1, <2>2, <3>1, <4>1, PlaceStays DEF Unread, Undetached, Lost
    <3> QED BY <2>3, <3>1, <3>2 DEF Undetached
  <2> QED
    BY <1>2, <2>4, <2>5, <2>6, <2>7, <2>8, <2>9, <2>10, <2>11, <2>12, <2>13, <2>14, <2>15
    DEF Next, ReopenStep
<1> QED BY <1>1, <1>2, TypedInvariant, PTL DEF Spec

----------------------------------------------------------------------------

(* Each process gets its own position in each file that was detached and opened again,  *)
(* and nothing else in place of one that was not, over any number of forks, files and    *)
(* processes that run on or exit meanwhile.                                             *)
THEOREM PositionsStayPrivate == Spec => []PositionsArePrivate
<1>1. AppInv => PositionsArePrivate
  <2> SUFFICES ASSUME AppInv, NEW p \in Procs, NEW fd \in AppFds \ undetached, pc[p] = "run"
               PROVE  IF Lost(p, fd) THEN Detached(p, fd) ELSE Good(p, fd)
    BY DEF PositionsArePrivate, Lost, Detached, Good, Same
  <2>1. PlaceOf(p, fd)
    BY DEF AppInv, AppOf
  <2> QED BY <2>1 DEF PlaceOf, Runs, Undetached
<1> QED BY <1>1, AppInvariant, PTL

(* What the two processes share meanwhile, or for good where a file is not opened again, *)
(* is /dev/null.                                                                        *)
THEOREM AppFilesAreNotShared == Spec => []NoAppFileShared
<1>1. AppInv => NoAppFileShared
  BY DEF AppInv, AppOf, Detached, Undetached, NoAppFileShared
<1> QED BY <1>1, AppInvariant, PTL

(* Descriptors of the system's files are left to fork() alone, whatever fails.           *)
THEOREM SystemFilesAreUntouched == Spec => []OthersUntouched
<1>1. OtherInv => OthersUntouched
  BY DEF OtherInv, OthersUntouched, SameButOffset
<1> QED BY <1>1, OtherInvariant, PTL
=============================================================================
