-------------------------- MODULE LogcatProperties -------------------------
(***************************************************************************)
(* What the log holds: LogcatDaemon.                                       *)
(***************************************************************************)
EXTENDS LogcatDaemon, FiniteSets

LogEntry == [id : 1..MaxEntries, boot : 0..MaxBoots, shape : Shapes \cup {<<FALSE>>}]
Piece == [id : 0..MaxEntries, boot : 0..MaxBoots, dash : BOOLEAN]
IsLogFile(f) == f = NoFile \/ (Len(f) <= MaxSize + 2 /\ \A i \in DOMAIN f : f[i] \in Piece)

(* Every variable has its type, and the log is never more than one piece and the     *)
(* notice beyond the limit: the daemon stops by itself.                              *)
TypeOK ==
  /\ boot \in 0..MaxBoots /\ written \in 0..MaxEntries
  /\ \A i \in DOMAIN log : log[i] \in LogEntry
  /\ daemon \in {"none", "forked", "renamed", "open", "reading", "gone"}
  /\ logcat \in {"none", "forked", "running", "gone"}
  /\ sent \in 0..Len(log)
  /\ Len(pipe) <= PipeSize /\ \A i \in DOMAIN pipe : pipe[i] \in Piece
  /\ foundMarker \in BOOLEAN
  /\ totalSize \in 0..(MaxSize + 1)
  /\ IsLogFile(file) /\ IsLogFile(old)
  /\ failed \subseteq 0..Len(passed)

\* The places, in what was read, of the pieces that came after a marker of boot b and do
\* not begin with '-'.
Wanted(read, b) ==
  {i \in DOMAIN read : ~read[i].dash /\ \E m \in 1..(i - 1) : read[m].boot = b}

\* s begins with the elements of read whose places are in at, in their order.
Selects(s, read, at) ==
  \A i \in at : s[Cardinality({j \in at : j <= i})] = read[i]

(* While the daemon reads, and when it has ended, the log is exactly what came after *)
(* this boot's marker, in order, without the pieces that begin with '-' and those     *)
(* whose write() at xposed_logcat.cpp:108 failed: no older boot's lines, nothing      *)
(* twice, nothing else left out, the last one before the limit included.  Behind them *)
(* stands the notice of line 112, if its write() did not fail, when more than the     *)
(* limit was read, written or not, and only then.                                     *)
LogIsAfterMarker ==
  daemon = "reading" \/ (daemon = "gone" /\ passed # <<>>) =>
    LET wanted == Wanted(passed, boot)
        lines == wanted \ failed
        noticed == Cardinality(wanted) > MaxSize /\ 0 \notin failed
    IN  /\ Selects(file, passed, lines)
        /\ Len(file) = Cardinality(lines) + (IF noticed THEN 1 ELSE 0)
        /\ noticed => file[Len(file)] = Notice

(* The log of the last boot that had one is not lost by any failure or restart       *)
(* between its renaming and the creation of the next one.                            *)
LastLogKept == last # NoFile => last \in {old, file}

(* Once the daemon has found the marker, what the system log then holds is in the    *)
(* log file in the end, unless its write() fails, it is evicted, the limit is reached, *)
(* logcat or the daemon ends, or a boot begins.                                       *)
EntryArrives ==
  \A n \in 1..MaxEntries :
    foundMarker /\ daemon = "reading" /\ (\E i \in DOMAIN log : i > sent /\ log[i].id = n)
      ~> \/ file # NoFile /\ \E j \in DOMAIN file : file[j].id = n
         \/ \E i \in failed \ {0} : passed[i].id = n
         \/ daemon # "reading" \/ logcat = "gone"
         \/ ~\E i \in DOMAIN log : log[i].id = n
=============================================================================
