-------------------------- MODULE BinderProperties -------------------------
(***************************************************************************)
(* What a reader of a file gets: BinderFileService.                        *)
(***************************************************************************)
EXTENDS BinderFileService

Errnos == {"OK", "EPERM", "ENOENT", "EISDIR", "EINVAL", "ENOMEM", "EACCES", "EIO"}

(* Every variable has its type; a reply with bytes has a buffer to free, and one    *)
(* with an error has none and no bytes.                                            *)
TypeOK ==
  /\ file.kind \in {"none", "dir", "file"} /\ file.mtime \in 0..MaxTime
  /\ clock \in 0..MaxTime /\ calls \in 0..MaxCalls
  /\ pc \in {"idle", "stat", "open", "read", "reply", "receive"}
  /\ req.offset \in Int32 /\ req.length \in Int32 /\ len \in Int32
  /\ res.err \in Errnos /\ res.bytesRead \in -1..MaxInt
  /\ buffer \in BOOLEAN /\ leaked \in BOOLEAN
  /\ rewritten \in BOOLEAN /\ raced \in BOOLEAN /\ shrunk \in BOOLEAN
  /\ astray \subseteq {"stat", "open"} /\ strayCopy \in BOOLEAN
  /\ pc = "reply" /\ res.bytesRead > 0 => buffer
  /\ pc = "reply" /\ res.err # "OK" => ~buffer /\ res.bytesRead = -1

(* The service calls a file unchanged (xposed_service.cpp:712) only if the client's   *)
(* copy is what it holds, whatever was written between the stat() and the fread() that *)
(* made the copy, unless the file was written twice within one second; while nobody    *)
(* writes during the request itself, and so long as the freed name still led to the    *)
(* file, when the copy was made and now: where it does not, another file may be called *)
(* unchanged.                                                                          *)
UnchangedMeansSame ==
  pc = "receive" /\ req.whole /\ res.err = "OK" /\ res.bytesRead = -1
  /\ ~raced /\ astray = {} /\ ~strayCopy
    => copy.data = file.data \/ rewritten

(* A reply with bytes holds exactly the part that was asked for, up to the end of the *)
(* file if no length was given, when nobody wrote to the file meanwhile and the name led *)
(* to it; a part beyond the end is only answered, cut off there, if offset + length wraps *)
(* around (xposed_service.cpp:727).                                                    *)
ExactPart ==
  pc = "receive" /\ res.bytesRead > 0 /\ ~raced /\ astray = {} =>
    LET size == Len(file.data)
        end == IF req.length > 0 THEN Offset + req.length ELSE size
    IN  /\ res.data = SubSeq(file.data, Offset + 1, IF end < size THEN end ELSE size)
        /\ end <= MaxInt => end <= size

(* A buffer is lost (xposed_service.cpp:580) only if the file was made shorter between *)
(* stat() and fread(), or one of the two was about another file.                       *)
LeakOnlyIfShrunk == [][leaked' /\ ~leaked => shrunk \/ astray # {}]_vars
=============================================================================
