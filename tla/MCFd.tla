-------------------------------- MODULE MCFd -------------------------------
(* A file and a socket of an application, and a file of the system. *)
EXTENDS FdProperties, TLC

CONSTANTS Dex, AppSocket, SystemFile

AppFiles == {Dex, AppSocket}
AllOpened ==
  <<[path |-> Dex, flags |-> "rw", offset |-> 1, cloexec |-> TRUE],
    [path |-> SystemFile, flags |-> "r", offset |-> 0, cloexec |-> TRUE],
    [path |-> AppSocket, flags |-> "rw", offset |-> 0, cloexec |-> TRUE]>>
=============================================================================
