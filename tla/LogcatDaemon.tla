---------------------------- MODULE LogcatDaemon ---------------------------
(***************************************************************************)
(* The log daemon of xposed_logcat.cpp: at each boot the zygote prints a   *)
(* marker and forks a daemon that puts the last log aside, starts logcat   *)
(* and copies to a new log what logcat prints, from the marker on and up   *)
(* to a limit.                                                             *)
(*                                                                         *)
(* logcat prints all the system log still has, older boots included, while *)
(* programs go on logging, old entries are evicted and the next boot may   *)
(* begin at any moment.  An entry is read in pieces, as long as the buffer *)
(* of fgets(); of a piece only matters whether it begins with '-'.         *)
(***************************************************************************)
EXTENDS Naturals, Sequences

CONSTANTS
  NoFile,      \* the content of a log that does not exist
  Shapes,      \* the pieces of an entry: sequences of BOOLEAN, begins with '-'
  PipeSize,    \* how many pieces the pipe holds
  MaxSize,     \* XPOSEDLOG_MAX_SIZE, in pieces
  MaxBoots,    \* bound: boots
  MaxEntries   \* bound: entries in the system log, over all boots

ASSUME LogAssumption ==
  /\ Shapes \subseteq Seq(BOOLEAN) /\ <<>> \notin Shapes
  /\ \A s \in Shapes : ~Head(s) /\ Len(s) <= PipeSize
  /\ PipeSize \in Nat \ {0} /\ MaxSize \in Nat
  /\ MaxBoots \in Nat /\ MaxEntries \in Nat

VARIABLES
  boot,         \* the boot, which is what the marker tells
  log,          \* the system log: entries [id, boot (0: no marker), shape]
  written,      \* the entries ever written to it
  daemon,       \* "none", "forked", "renamed", "open", "reading", "gone"
  logcat,       \* "none", "forked", "running", "gone"
  sent,         \* how many of the entries in log it has printed
  pipe,         \* pieces [id, boot, dash] between the two
  foundMarker, totalSize,
  file, old,    \* XPOSEDLOG and XPOSEDLOG_OLD
  passed,       \* history: the pieces this boot's daemon has read
  failed,       \* history: the places in passed whose write() failed, and 0 for the notice
  last          \* history: the last log at the end of its boot

system == <<boot, log, written>>
history == <<passed, failed, last>>
vars == <<system, daemon, logcat, sent, pipe, foundMarker, totalSize, file, old, history>>

Entry(b, shape) == [id |-> written + 1, boot |-> b, shape |-> shape]

Init ==
  /\ boot = 0
  /\ log = <<>> /\ written = 0
  /\ daemon = "none" /\ logcat = "none"
  /\ sent = 0 /\ pipe = <<>>
  /\ foundMarker = FALSE /\ totalSize = 0
  /\ file = NoFile /\ old = NoFile
  /\ passed = <<>> /\ failed = {} /\ last = NoFile

----------------------------------------------------------------------------
(* The system *)

\* A boot of the zygote, which ends the processes of the one before it, and
\* printStartupMarker().
Boot ==
  /\ boot < MaxBoots /\ written < MaxEntries
  /\ boot' = boot + 1
  /\ log' = Append(log, Entry(boot', <<FALSE>>))
  /\ written' = written + 1
  /\ daemon' = "none" /\ logcat' = "none"
  /\ sent' = 0 /\ pipe' = <<>>
  /\ foundMarker' = FALSE /\ totalSize' = 0
  /\ passed' = <<>> /\ failed' = {}
  /\ last' = IF file # NoFile THEN file ELSE last
  /\ UNCHANGED <<file, old>>

Log(shape) ==
  /\ boot > 0 /\ written < MaxEntries
  /\ log' = Append(log, Entry(0, shape))
  /\ written' = written + 1
  /\ UNCHANGED <<boot, daemon, logcat, sent, pipe, foundMarker, totalSize, file, old,
                 history>>

\* The system log is a ring: what logcat has not printed may be lost.
Evict ==
  /\ log # <<>>
  /\ log' = Tail(log)
  /\ sent' = IF sent > 0 THEN sent - 1 ELSE 0
  /\ UNCHANGED <<boot, written, daemon, logcat, pipe, foundMarker, totalSize, file, old,
                 history>>

----------------------------------------------------------------------------
(* start() *)

ForkDaemon ==
  /\ boot > 0 /\ daemon = "none"
  /\ daemon' = "forked"
  /\ UNCHANGED <<system, logcat, sent, pipe, foundMarker, totalSize, file, old, history>>

\* Mutant: the last log is left where it is.
RenameNothing ==
  /\ daemon = "forked"
  /\ daemon' = "renamed"
  /\ UNCHANGED <<system, logcat, sent, pipe, foundMarker, totalSize, file, old, history>>

\* rename(XPOSEDLOG, XPOSEDLOG_OLD); that there is none is no error.
Rename ==
  /\ daemon = "forked"
  /\ daemon' = "renamed"
  /\ IF file # NoFile THEN old' = file /\ file' = NoFile ELSE UNCHANGED <<file, old>>
  /\ UNCHANGED <<system, logcat, sent, pipe, foundMarker, totalSize, history>>

ForkLogcat ==
  /\ daemon = "renamed"
  /\ daemon' = "open"
  /\ logcat' = "forked"
  /\ UNCHANGED <<system, sent, pipe, foundMarker, totalSize, file, old, history>>

\* Every failure on the way ends the daemon; the first fork() may fail, too.
DaemonFails ==
  /\ boot > 0
  /\ daemon \in {"none", "forked", "renamed", "open"}
  /\ daemon' = "gone"
  /\ UNCHANGED <<system, logcat, sent, pipe, foundMarker, totalSize, file, old, history>>

----------------------------------------------------------------------------
(* execLogcat() and logcat *)

\* logcat prints where a buffer of the log begins.
Beginning == [id |-> 0, boot |-> 0, dash |-> TRUE]

ExecLogcat ==
  /\ logcat = "forked"
  /\ logcat' = "running"
  /\ pipe' = <<Beginning>>
  /\ sent' = 0
  /\ UNCHANGED <<system, daemon, foundMarker, totalSize, file, old, history>>

Pieces(e) == [i \in 1..Len(e.shape) |-> [id |-> e.id, boot |-> e.boot, dash |-> e.shape[i]]]

PrintEntry ==
  /\ logcat = "running" /\ daemon \in {"open", "reading"}
  /\ sent < Len(log)
  /\ Len(pipe) + Len(log[sent + 1].shape) <= PipeSize
  /\ pipe' = pipe \o Pieces(log[sent + 1])
  /\ sent' = sent + 1
  /\ UNCHANGED <<system, daemon, logcat, foundMarker, totalSize, file, old, history>>

\* exec() fails, logcat ends, or nobody reads the pipe any more.
LogcatEnds ==
  /\ logcat \in {"forked", "running"}
  /\ logcat' = "gone"
  /\ UNCHANGED <<system, daemon, sent, pipe, foundMarker, totalSize, file, old, history>>

----------------------------------------------------------------------------
(* runDaemon() *)

OpenLog ==
  /\ daemon = "open"
  /\ daemon' = "reading"
  /\ file' = <<>>
  /\ UNCHANGED <<system, logcat, sent, pipe, foundMarker, totalSize, old, history>>

\* One call of fgets().
Gets ==
  /\ daemon = "reading" /\ pipe # <<>>
  /\ pipe' = Tail(pipe)
  /\ passed' = Append(passed, Head(pipe))
  /\ UNCHANGED <<system, logcat, sent, old, last>>

\* Mutant: any marker will do.
AnyMarker(piece) == piece.boot # 0

IsMarker(piece) == piece.boot = boot

\* Mutant: the daemon waits for a marker again.
SkipDashForgetsMarker ==
  /\ Gets
  /\ Head(pipe).dash
  /\ foundMarker' = FALSE
  /\ UNCHANGED <<daemon, totalSize, file, failed>>

SkipDash ==
  /\ Gets
  /\ Head(pipe).dash
  /\ UNCHANGED <<daemon, foundMarker, totalSize, file, failed>>

SkipUntilMarker ==
  /\ Gets
  /\ ~Head(pipe).dash /\ ~foundMarker
  /\ foundMarker' = IsMarker(Head(pipe))
  /\ UNCHANGED <<daemon, totalSize, file, failed>>

\* "Reached maximum log size"
Notice == [id |-> 0, boot |-> 0, dash |-> FALSE]

\* What a write() adds to the file: nobody looks whether it fails. (What a short one,
\* on a full disk, leaves of a piece is not represented.)
Write(text, fails) == IF fails THEN <<>> ELSE <<text>>

\* Mutant: the piece that exceeds the limit is not written.
CopyWithinLimit ==
  /\ Gets
  /\ ~Head(pipe).dash /\ foundMarker
  /\ totalSize' = totalSize + 1
  /\ \E lost, unnoticed \in BOOLEAN :
       IF totalSize' > MaxSize
         THEN /\ daemon' = "gone"
              /\ file' = file \o Write(Notice, unnoticed)
              /\ failed' = failed \cup (IF unnoticed THEN {0} ELSE {})
         ELSE /\ daemon' = "reading"
              /\ file' = file \o Write(Head(pipe), lost)
              /\ failed' = failed \cup (IF lost THEN {Len(passed')} ELSE {})
  /\ UNCHANGED foundMarker

\* A piece is written; once the limit is exceeded, whatever was written of what was
\* read, the daemon says so in the file and ends.
Copy ==
  /\ Gets
  /\ ~Head(pipe).dash /\ foundMarker
  /\ totalSize' = totalSize + 1
  /\ \E lost, unnoticed \in BOOLEAN :
       LET line == Write(Head(pipe), lost)
           unwritten == failed \cup (IF lost THEN {Len(passed')} ELSE {})
       IN  IF totalSize' > MaxSize
             THEN /\ daemon' = "gone"
                  /\ file' = file \o line \o Write(Notice, unnoticed)
                  /\ failed' = unwritten \cup (IF unnoticed THEN {0} ELSE {})
             ELSE /\ daemon' = "reading"
                  /\ file' = file \o line
                  /\ failed' = unwritten
  /\ UNCHANGED foundMarker

BrokenPipe ==
  /\ daemon = "reading" /\ pipe = <<>> /\ logcat = "gone"
  /\ daemon' = "gone"
  /\ UNCHANGED <<system, logcat, sent, pipe, foundMarker, totalSize, file, old, history>>

Start == ForkDaemon \/ Rename \/ ForkLogcat \/ OpenLog
Daemon == SkipDash \/ SkipUntilMarker \/ Copy \/ BrokenPipe
Logcat == ExecLogcat \/ PrintEntry

Next ==
  \/ Boot \/ Evict \/ \E shape \in Shapes : Log(shape)
  \/ Start \/ Daemon \/ Logcat \/ DaemonFails \/ LogcatEnds

Spec == Init /\ [][Next]_vars

\* The three processes run; logcat's first question to the zygote's service is
\* answered (MembasedProperties!EveryCallReturns).
FairSpec == Spec /\ WF_vars(Start) /\ WF_vars(Daemon) /\ WF_vars(Logcat)
=============================================================================
