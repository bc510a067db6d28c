---------------------------- MODULE FdProperties ---------------------------
(***************************************************************************)
(* What becomes of a zygote's descriptors across forks: FdTable.           *)
(***************************************************************************)
EXTENDS FdTable

(* Every variable has its type; a table exists only from its creation to the end  *)
(* of reopenFilesAfterForkNative().                                               *)
TypeOK ==
  /\ pc \in [Procs -> {"none", "run", "scan", "fork", "reopen", "crashed"}]
  /\ open \in [Procs -> [Fds -> OpenFile]]
  /\ shared \subseteq Fds
  /\ unread \subseteq Fds
  /\ \A p \in Procs : \A i \in infos[p] : i.fd \in Fds /\ i.file \in OpenFile
  /\ \A p \in Procs : table[p] => pc[p] \in {"fork", "reopen"}
  /\ gone \subseteq Whitelisted
  /\ forks \in 0..MaxForks
  /\ pos \in [Procs -> [Fds -> 0..MaxOffset]]
  /\ undetached \subseteq Fds
  /\ lost \in [Procs -> SUBSET Fds]

\* The descriptors of application files.
AppFds == {fd \in Fds : Opened[fd].path \in Whitelisted}

(* Once a process runs, a descriptor of an application file that the zygote could    *)
(* detach leads it to the file it led to at first, opened the same way, at the       *)
(* position the process has reached by itself: neither process moves the other's,    *)
(* whichever of them runs first, over any number of forks. If it is a socket, or      *)
(* could not be opened again in this process or in the zygote before the fork, it     *)
(* leads to /dev/null and nowhere else; a failure in a child is not the zygote's.     *)
PositionsArePrivate ==
  \A p \in Procs, fd \in AppFds \ undetached :
    pc[p] = "run" =>
      IF fd \in lost[p] THEN open[p][fd].path = DevNull
      ELSE /\ open[p][fd].path = Opened[fd].path
           /\ open[p][fd].flags = Opened[fd].flags
           /\ open[p][fd].offset = pos[p][fd]

(* Zygote and child never share an application file, not before they open it again,  *)
(* not when that fails in one of them or both, and no socket, unless the zygote could *)
(* not detach it before this fork.                                                   *)
NoAppFileShared ==
  \A fd \in (AppFds \cap shared) \ undetached : open[Zygote][fd].path = DevNull

(* The descriptors of everything else are as they were, and shared, for a child     *)
(* that runs, as fork() alone would leave them.                                     *)
OthersUntouched ==
  \A fd \in Fds \ AppFds :
    /\ \A p \in Procs : [open[p][fd] EXCEPT !.offset = 0] = [Opened[fd] EXCEPT !.offset = 0]
    /\ pc[Child] = "run" /\ pc[Zygote] = "run" => fd \in shared
=============================================================================
