---------------------------- MODULE LogcatProofs ---------------------------
(***************************************************************************)
(* The log for any entries, pipe, limit and number of boots, wherever a    *)
(* process ends or the next boot begins.                                   *)
(***************************************************************************)
EXTENDS LogcatProperties, FiniteSetTheorems, TLAPS

LEMMA ShapesAreSequences == Shapes \subseteq Seq(BOOLEAN)
BY LogAssumption, Zenon DEF LogAssumption

LEMMA Bounds ==
  /\ PipeSize \in Nat \ {0} /\ MaxSize \in Nat /\ MaxBoots \in Nat /\ MaxEntries \in Nat
BY LogAssumption, Zenon DEF LogAssumption

\* Where the log of the last boot is, as far as this boot's daemon has come.
LastInv ==
  /\ daemon \in {"none", "forked", "renamed", "open", "reading", "gone"}
  /\ daemon \in {"none", "forked"} =>
       IF file # NoFile THEN last = file ELSE last \in {NoFile, old}
  /\ daemon \in {"renamed", "open"} => file = NoFile /\ last \in {NoFile, old}
  /\ daemon = "reading" => last \in {NoFile, old}
  /\ daemon = "gone" => last \in {NoFile, old, file}

LEMMA LastInvariant == Spec => []LastInv
<1>1. ASSUME Init PROVE LastInv
  BY <1>1 DEF Init, LastInv
<1>2. ASSUME LastInv, [Next]_vars PROVE LastInv'
  <2> USE <1>2 DEF LastInv, system, history
  <2>1. CASE Boot
    BY <2>1 DEF Boot
  <2>2. CASE Evict \/ \E shape \in Shapes : Log(shape)
    BY <2>2 DEF Evict, Log
  <2>3. CASE Start
    BY <2>3 DEF Start, ForkDaemon, Rename, ForkLogcat, OpenLog
  <2>4. CASE Daemon
    BY <2>4 DEF Daemon, SkipDash, SkipUntilMarker, Copy, Gets, BrokenPipe
  <2>5. CASE Logcat \/ DaemonFails \/ LogcatEnds
    BY <2>5 DEF Logcat, ExecLogcat, PrintEntry, DaemonFails, LogcatEnds
  <2>6. CASE UNCHANGED vars
    BY <2>6 DEF vars
  <2> QED BY <1>2, <2>1, <2>2, <2>3, <2>4, <2>5, <2>6 DEF Next
<1> QED BY <1>1, <1>2, PTL DEF Spec

(* Each step of start() keeps the last log under one of its two names, and a boot may    *)
(* begin after any of them.                                                              *)
THEOREM LastLogIsKept == Spec => []LastLogKept
<1>1. LastInv => LastLogKept
  BY DEF LastInv, LastLogKept
<1> QED BY <1>1, LastInvariant, PTL

----------------------------------------------------------------------------

\* Markers are entries of one piece, which does not begin with '-'.
OkEntry ==
  {e \in [id : Nat, boot : Nat, shape : Seq(BOOLEAN)] : e.boot # 0 => e.shape = <<FALSE>>}
OkPiece == {p \in [id : Nat, boot : Nat, dash : BOOLEAN] : p.boot # 0 => ~p.dash}

LEMMA EntriesAreOk ==
  ASSUME NEW n \in Nat, NEW b \in Nat, NEW shape \in Seq(BOOLEAN), b # 0 => shape = <<FALSE>>
  PROVE  [id |-> n, boot |-> b, shape |-> shape] \in OkEntry
BY DEF OkEntry

LEMMA PiecesAreOk ==
  ASSUME NEW e \in OkEntry
  PROVE  Pieces(e) \in Seq(OkPiece)
<1>1. e.id \in Nat /\ e.boot \in Nat /\ e.shape \in Seq(BOOLEAN) /\ (e.boot # 0 => e.shape = <<FALSE>>)
  BY DEF OkEntry
<1>2. ASSUME NEW i \in 1..Len(e.shape)
      PROVE  [id |-> e.id, boot |-> e.boot, dash |-> e.shape[i]] \in OkPiece
  <2>1. e.shape[i] \in BOOLEAN
    BY <1>1
  <2>2. e.boot # 0 => e.shape[i] = FALSE
    <3>1. Len(<<FALSE>>) = 1 /\ <<FALSE>>[1] = FALSE
      OBVIOUS
    <3>2. ASSUME e.boot # 0 PROVE i = 1 /\ e.shape[1] = FALSE
      <4>1. e.shape = <<FALSE>>
        BY <1>1, <3>2
      <4> QED BY <3>1, <4>1
    <3> QED BY <3>2
  <2>3. [id |-> e.id, boot |-> e.boot, dash |-> e.shape[i]] \in [id : Nat, boot : Nat, dash : BOOLEAN]
    BY <1>1, <2>1
  <2> QED BY <2>2, <2>3 DEF OkPiece
<1>3. Len(e.shape) \in Nat
  BY <1>1
<1> QED BY <1>2, <1>3 DEF Pieces

LEMMA OkPieceFields ==
  ASSUME NEW p \in OkPiece
  PROVE  p.boot \in Nat /\ p.dash \in BOOLEAN /\ (p.boot # 0 => ~p.dash)
BY DEF OkPiece

----------------------------------------------------------------------------
(* Reading one more piece *)

(* The places that are wanted stay so, and the new one is wanted if it has no '-' and    *)
(* comes after a marker.                                                                 *)
LEMMA WantedGrows ==
  ASSUME NEW read \in Seq(OkPiece), NEW p \in OkPiece, NEW b \in Nat
  PROVE  Wanted(Append(read, p), b) =
           IF ~p.dash /\ \E m \in DOMAIN read : read[m].boot = b
             THEN Wanted(read, b) \cup {Len(read) + 1} ELSE Wanted(read, b)
<1> DEFINE more == Append(read, p)
           n == Len(read) + 1
<1>1. /\ n \in Nat /\ DOMAIN more = 1..n /\ DOMAIN read = 1..(n - 1)
      /\ more[n] = p /\ \A i \in 1..(n - 1) : more[i] = read[i]
  OBVIOUS
<1> HIDE DEF more, n
<1>2. \A i \in 1..(n - 1) : i \in Wanted(more, b) <=> i \in Wanted(read, b)
  BY <1>1 DEF Wanted
<1>3. n \in Wanted(more, b) <=> ~p.dash /\ \E m \in DOMAIN read : read[m].boot = b
  BY <1>1 DEF Wanted
<1>4. Wanted(more, b) \subseteq 1..n /\ Wanted(read, b) \subseteq 1..(n - 1)
  BY <1>1 DEF Wanted
<1>5. n \notin Wanted(read, b) /\ \A i \in 1..n : i \in 1..(n - 1) \/ i = n
  BY <1>1, <1>4
<1> QED BY <1>2, <1>3, <1>4, <1>5 DEF more, n

LEMMA WantedIsFinite ==
  ASSUME NEW read \in Seq(OkPiece), NEW b
  PROVE  Wanted(read, b) \subseteq 1..Len(read) /\ IsFiniteSet(Wanted(read, b))
<1>1. Wanted(read, b) \subseteq 1..Len(read)
  BY DEF Wanted
<1>2. IsFiniteSet(1..Len(read))
  BY FS_Interval
<1> QED BY <1>1, <1>2, FS_Subset

(* What a selection holds stays when more is read that is not wanted, ...                *)
LEMMA SelectionStays ==
  ASSUME NEW read \in Seq(OkPiece), NEW p \in OkPiece, NEW s, NEW at \in SUBSET (1..Len(read)),
         Selects(s, read, at)
  PROVE  Selects(s, Append(read, p), at)
<1>1. \A i \in at : Append(read, p)[i] = read[i]
  OBVIOUS
<1> QED BY <1>1 DEF Selects

(* ... or when more is written, ...                                                      *)
LEMMA SelectionHolds ==
  ASSUME NEW read, NEW p \in OkPiece, NEW s \in Seq(OkPiece),
         NEW at \in SUBSET Nat, IsFiniteSet(at), Len(s) = Cardinality(at), Selects(s, read, at)
  PROVE  Selects(Append(s, p), read, at)
<1> DEFINE Upto(i) == {j \in at : j <= i}
<1>1. ASSUME NEW i \in at PROVE Cardinality(Upto(i)) <= Len(s) /\ Cardinality(Upto(i)) \in Nat
  BY FS_Subset, FS_CardinalityType
<1>2. ASSUME NEW i \in at, i <= i PROVE Cardinality(Upto(i)) # 0
  <2>1. i \in Upto(i) /\ IsFiniteSet(Upto(i))
    BY <1>2, FS_Subset
  <2> QED BY <2>1, FS_EmptySet
<1>3. ASSUME NEW c \in 1..Len(s) PROVE Append(s, p)[c] = s[c]
  OBVIOUS
<1>4. \A i \in at : Cardinality(Upto(i)) \in 1..Len(s)
  <2>1. \A i \in at : i <= i
    OBVIOUS
  <2>2. Len(s) \in Nat
    OBVIOUS
  <2> HIDE DEF Upto
  <2> QED BY <1>1, <1>2, <2>1, <2>2
<1> HIDE DEF Upto
<1> QED BY <1>3, <1>4 DEF Selects, Upto

(* ... and a piece that is wanted goes to its end.                                       *)
LEMMA SelectionGrows ==
  ASSUME NEW read \in Seq(OkPiece), NEW p \in OkPiece, NEW s \in Seq(OkPiece),
         NEW at \in SUBSET (1..Len(read)), Len(s) = Cardinality(at), Selects(s, read, at)
  PROVE  Selects(Append(s, p), Append(read, p), at \cup {Len(read) + 1})
<1> DEFINE n == Len(read) + 1
           now == at \cup {n}
           Upto(set, i) == {j \in set : j <= i}
<1>1. /\ n \in Nat /\ n \notin at /\ \A i \in at : i \in Nat /\ i < n
      /\ Append(read, p)[n] = p /\ \A i \in at : Append(read, p)[i] = read[i]
  OBVIOUS
<1>2. IsFiniteSet(at) /\ Cardinality(at) \in Nat /\ Cardinality(now) = Cardinality(at) + 1
      /\ IsFiniteSet(now)
  <2>1. IsFiniteSet(1..Len(read))
    BY FS_Interval
  <2>2. IsFiniteSet(at)
    BY <2>1, FS_Subset
  <2> QED BY <1>1, <2>2, FS_AddElement, FS_CardinalityType
<1> HIDE DEF n
<1>3. \A i \in at : Upto(now, i) = Upto(at, i)
  BY <1>1
<1>4. Upto(now, n) = now
  <2>1. \A j \in now : j <= n
    BY <1>1
  <2> HIDE DEF now
  <2> QED BY <2>1
<1>5. \A i \in at : /\ Cardinality(Upto(at, i)) \in 1..Cardinality(at)
                    /\ s[Cardinality(Upto(at, i))] = read[i]
  <2>1. ASSUME NEW i \in at PROVE Cardinality(Upto(at, i)) \in 1..Cardinality(at)
    <3>1. Upto(at, i) \subseteq at /\ i \in Upto(at, i)
      BY <1>1
    <3>2. /\ IsFiniteSet(Upto(at, i)) /\ Cardinality(Upto(at, i)) \in Nat
          /\ Cardinality(Upto(at, i)) <= Cardinality(at)
      BY <1>2, <3>1, FS_Subset, FS_CardinalityType
    <3>3. Cardinality(Upto(at, i)) # 0
      BY <3>1, <3>2, FS_EmptySet
    <3> QED BY <1>2, <3>2, <3>3
  <2> QED BY <2>1 DEF Selects
<1>6. Len(s) = Cardinality(at)
  OBVIOUS
<1>7. /\ Len(Append(s, p)) = Cardinality(now)
      /\ Append(s, p)[Cardinality(now)] = p
      /\ \A c \in 1..Cardinality(at) : Append(s, p)[c] = s[c]
  BY <1>2, <1>6
<1> HIDE DEF Upto
<1>8. \A i \in now : Append(s, p)[Cardinality(Upto(now, i))] = Append(read, p)[i]
  <2>1. ASSUME NEW i \in at
        PROVE  Append(s, p)[Cardinality(Upto(now, i))] = Append(read, p)[i]
    BY <1>1, <1>3, <1>5, <1>7
  <2>2. Append(s, p)[Cardinality(Upto(now, n))] = Append(read, p)[n]
    BY <1>1, <1>4, <1>7
  <2> QED BY <2>1, <2>2
<1> QED BY <1>7, <1>8 DEF Selects, Upto, n

----------------------------------------------------------------------------

\* What is on its way to the daemon.
PipeInv ==
  /\ boot \in Nat /\ written \in Nat /\ sent \in Nat
  /\ log \in Seq(OkEntry)
  /\ pipe \in Seq(OkPiece)

LEMMA PipeInvariant == Spec => []PipeInv
<1>1. ASSUME Init PROVE PipeInv
  BY <1>1 DEF Init, PipeInv
<1>2. ASSUME PipeInv, [Next]_vars PROVE PipeInv'
  <2> USE <1>2 DEF PipeInv, system, history
  <2>1. CASE Boot
    <3>1. /\ boot' = boot + 1 /\ written' = written + 1 /\ sent' = 0 /\ pipe' = <<>>
          /\ log' = Append(log, [id |-> written + 1, boot |-> boot', shape |-> <<FALSE>>])
      BY <2>1 DEF Boot, Entry
    <3>2. boot' \in Nat /\ written' \in Nat /\ <<FALSE>> \in Seq(BOOLEAN)
      BY <3>1
    <3>3. [id |-> written + 1, boot |-> boot', shape |-> <<FALSE>>] \in OkEntry
      BY <3>1, <3>2, EntriesAreOk
    <3> QED BY <3>1, <3>2, <3>3
  <2>2. ASSUME NEW shape \in Shapes, Log(shape) PROVE PipeInv'
    <3>1. /\ written' = written + 1 /\ UNCHANGED <<boot, sent, pipe>>
          /\ log' = Append(log, [id |-> written + 1, boot |-> 0, shape |-> shape])
      BY <2>2 DEF Log, Entry
    <3>2. [id |-> written + 1, boot |-> 0, shape |-> shape] \in OkEntry
      <4>1. shape \in Seq(BOOLEAN) /\ written + 1 \in Nat
        BY ShapesAreSequences
      <4>2. 0 # 0 => shape = <<FALSE>>
        OBVIOUS
      <4> QED BY <4>1, <4>2, EntriesAreOk
    <3> QED BY <3>1, <3>2
  <2>3. CASE Evict
    <3>1. log # <<>> /\ log' = Tail(log) /\ sent' \in Nat /\ UNCHANGED <<boot, written, pipe>>
      BY <2>3 DEF Evict
    <3>2. \A s \in Seq(OkEntry) : s # <<>> => Tail(s) \in Seq(OkEntry)
      OBVIOUS
    <3> QED BY <3>1, <3>2
  <2>4. CASE ExecLogcat
    <3>1. Beginning \in OkPiece
      BY DEF Beginning, OkPiece
    <3> QED BY <2>4, <3>1 DEF ExecLogcat
  <2>5. CASE PrintEntry
    <3>1. sent + 1 \in 1..Len(log) /\ pipe' = pipe \o Pieces(log[sent + 1]) /\ sent' = sent + 1
          /\ UNCHANGED system
      BY <2>5 DEF PrintEntry
    <3>2. log[sent + 1] \in OkEntry
      BY <3>1
    <3>3. Pieces(log[sent + 1]) \in Seq(OkPiece)
      BY <3>2, PiecesAreOk
    <3> QED BY <3>1, <3>3
  <2>6. CASE Gets
    <3>1. pipe # <<>> /\ pipe' = Tail(pipe) /\ UNCHANGED <<system, sent>>
      BY <2>6 DEF Gets
    <3>2. \A s \in Seq(OkPiece) : s # <<>> => Tail(s) \in Seq(OkPiece)
      OBVIOUS
    <3> QED BY <3>1, <3>2
  <2>7. CASE Start \/ BrokenPipe \/ DaemonFails \/ LogcatEnds
    BY <2>7 DEF Start, ForkDaemon, Rename, ForkLogcat, OpenLog, BrokenPipe, DaemonFails, LogcatEnds
  <2>8. CASE UNCHANGED vars
    BY <2>8 DEF vars
  <2> QED
    BY <1>2, <2>1, <2>2, <2>3, <2>4, <2>5, <2>6, <2>7, <2>8
    DEF Next, Daemon, Logcat, SkipDash, SkipUntilMarker, Copy
<1> QED BY <1>1, <1>2, PTL DEF Spec

\* The daemon has read something, or is about to.
Reading == daemon = "reading" \/ passed # <<>>

\* What the log holds, as LogIsAfterMarker says.
Lines == Wanted(passed, boot) \ failed
Noticed == Cardinality(Wanted(passed, boot)) > MaxSize /\ 0 \notin failed
LogHolds ==
  /\ Selects(file, passed, Lines)
  /\ Len(file) = Cardinality(Lines) + (IF Noticed THEN 1 ELSE 0)
  /\ Noticed => file[Len(file)] = Notice

\* What the daemon has read, and what it knows of it.
CopyInv ==
  /\ passed \in Seq(OkPiece) /\ failed \in SUBSET (0..Len(passed))
  /\ daemon \in {"none", "forked", "renamed", "open"} =>
       passed = <<>> /\ failed = {} /\ totalSize = 0
  /\ daemon # "none" => boot > 0
  /\ foundMarker <=> \E m \in DOMAIN passed : passed[m].boot = boot
  /\ daemon = "reading" => /\ totalSize = Cardinality(Wanted(passed, boot))
                           /\ totalSize <= MaxSize /\ 0 \notin failed
  /\ Reading => file \in Seq(OkPiece) /\ LogHolds

(* What fgets() returned last is kept in the history.                                    *)
LEMMA GetsOne ==
  ASSUME PipeInv, CopyInv, Gets
  PROVE  /\ Head(pipe) \in OkPiece /\ passed' = Append(passed, Head(pipe))
         /\ passed' \in Seq(OkPiece) /\ passed' # <<>> /\ UNCHANGED boot
         /\ Reading /\ boot > 0
         /\ (\E m \in DOMAIN passed' : passed'[m].boot = boot)
              <=> foundMarker \/ Head(pipe).boot = boot
<1>1. /\ pipe \in Seq(OkPiece) /\ pipe # <<>> /\ passed' = Append(passed, Head(pipe))
      /\ passed \in Seq(OkPiece) /\ UNCHANGED boot /\ Reading /\ boot > 0
  BY DEF PipeInv, CopyInv, Gets, Reading, system
<1>2. Head(pipe) \in OkPiece
  BY <1>1
<1>3. ASSUME NEW p \in OkPiece
      PROVE  /\ Append(passed, p) \in Seq(OkPiece) /\ Append(passed, p) # <<>>
             /\ DOMAIN Append(passed, p) = DOMAIN passed \cup {Len(passed) + 1}
             /\ Append(passed, p)[Len(passed) + 1] = p
             /\ \A m \in DOMAIN passed : Append(passed, p)[m] = passed[m]
  BY <1>1
<1>4. (\E m \in DOMAIN passed' : passed'[m].boot = boot)
        <=> (\E m \in DOMAIN passed : passed[m].boot = boot) \/ Head(pipe).boot = boot
  BY <1>1, <1>2, <1>3
<1> QED BY <1>1, <1>2, <1>3, <1>4 DEF CopyInv

LEMMA CopyInvariant == Spec => []CopyInv
<1>1. ASSUME Init PROVE CopyInv
  BY <1>1 DEF Init, CopyInv, Reading
<1>2. ASSUME PipeInv, CopyInv, LastInv, [Next]_vars PROVE CopyInv'
  <2> USE <1>2 DEF system, history
  <2>0. boot \in Nat
    BY DEF PipeInv
  <2>12. UNCHANGED <<file, passed, failed, boot>> =>
           (LogHolds' <=> LogHolds) /\ Wanted(passed, boot)' = Wanted(passed, boot)
    BY DEF LogHolds, Lines, Noticed, Selects, Wanted
  <2>1. CASE Boot
    BY <2>1 DEF Boot, CopyInv, Reading
  <2>2. CASE Evict \/ (\E shape \in Shapes : Log(shape)) \/ Logcat \/ LogcatEnds
    <3>1. UNCHANGED <<daemon, boot, foundMarker, totalSize, file, passed, failed>>
      BY <2>2 DEF Evict, Log, Logcat, ExecLogcat, PrintEntry, LogcatEnds
    <3> QED BY <2>12, <3>1 DEF CopyInv, Reading
  <2>3. CASE ForkDaemon \/ Rename \/ ForkLogcat
    <3>1. /\ daemon \in {"none", "forked", "renamed"} /\ daemon' \in {"forked", "renamed", "open"}
          /\ UNCHANGED <<boot, foundMarker, totalSize, passed, failed>>
          /\ daemon = "none" => boot > 0
      BY <2>3 DEF ForkDaemon, Rename, ForkLogcat
    <3>2. boot > 0 /\ passed = <<>> /\ failed = {} /\ totalSize = 0
      BY <3>1 DEF CopyInv
    <3>3. ~Reading'
      BY <3>1, <3>2 DEF Reading
    <3> QED BY <3>1, <3>2, <3>3 DEF CopyInv
  <2>4. CASE DaemonFails \/ BrokenPipe
    <3>1. /\ UNCHANGED <<boot, foundMarker, totalSize, file, passed, failed>>
          /\ daemon' = "gone" /\ (daemon = "none" => boot > 0)
          /\ daemon = "reading" \/ daemon \in {"none", "forked", "renamed", "open"}
      BY <2>4 DEF DaemonFails, BrokenPipe
    <3>2. boot > 0 /\ (Reading' => Reading)
      BY <3>1 DEF CopyInv, Reading
    <3> QED BY <2>12, <3>1, <3>2 DEF CopyInv
  <2>5. CASE OpenLog
    <3>1. /\ daemon = "open" /\ passed = <<>> /\ file' = <<>> /\ totalSize = 0 /\ failed = {}
          /\ UNCHANGED <<passed, boot, foundMarker, totalSize, failed>>
      BY <2>5 DEF OpenLog, CopyInv
    <3>2. Wanted(<<>>, boot) = {} /\ Cardinality({}) = 0
      BY FS_EmptySet DEF Wanted
    <3>3. Selects(<<>>, <<>>, {}) /\ Len(<<>>) = 0 /\ <<>> \in Seq(OkPiece)
      BY DEF Selects
    <3>4. Lines' = {} /\ ~Noticed'
      BY <3>1, <3>2, Bounds DEF Lines, Noticed
    <3>5. LogHolds'
      BY <3>1, <3>2, <3>3, <3>4 DEF LogHolds
    <3>6. daemon' = "reading" /\ Cardinality(Wanted(passed, boot))' = 0
      BY <2>5, <3>1, <3>2 DEF OpenLog
    <3> QED BY <3>1, <3>2, <3>3, <3>5, <3>6, Bounds DEF CopyInv, Reading
  <2>6. ASSUME Gets
         PROVE  Wanted(passed', boot) =
                  IF ~Head(pipe).dash /\ foundMarker
                    THEN Wanted(passed, boot) \cup {Len(passed) + 1} ELSE Wanted(passed, boot)
    <3>1. passed \in Seq(OkPiece) /\ Head(pipe) \in OkPiece /\ passed' = Append(passed, Head(pipe))
      BY <2>6, GetsOne DEF CopyInv
    <3>2. foundMarker <=> \E m \in DOMAIN passed : passed[m].boot = boot
      BY DEF CopyInv
    <3>3. Wanted(Append(passed, Head(pipe)), boot) =
            IF ~Head(pipe).dash /\ \E m \in DOMAIN passed : passed[m].boot = boot
              THEN Wanted(passed, boot) \cup {Len(passed) + 1} ELSE Wanted(passed, boot)
      BY <2>0, <3>1, WantedGrows
    <3> QED BY <3>1, <3>2, <3>3, Zenon
  \* What is read is not wanted.
  <2>7. ASSUME Gets, ~foundMarker \/ Head(pipe).dash, UNCHANGED <<daemon, totalSize, file, failed>>,
               foundMarker' <=> foundMarker \/ Head(pipe).boot = boot
        PROVE  CopyInv'
    <3>1. Wanted(passed', boot) = Wanted(passed, boot)
      BY <2>6, <2>7
    <3>2. /\ passed' = Append(passed, Head(pipe)) /\ Head(pipe) \in OkPiece
          /\ Reading /\ boot > 0 /\ UNCHANGED boot /\ passed' \in Seq(OkPiece) /\ passed' # <<>>
          /\ daemon = "reading" /\ passed \in Seq(OkPiece)
      BY <2>7, GetsOne DEF Gets, CopyInv
    <3>3. Lines \in SUBSET (1..Len(passed))
      BY <3>2, WantedIsFinite DEF Lines
    <3>4. LogHolds
      BY <3>2 DEF CopyInv
    <3>5. Selects(file, passed', Lines)
      BY <3>2, <3>3, <3>4, SelectionStays DEF LogHolds
    <3>6. Lines' = Lines /\ Noticed' = Noticed
      BY <2>7, <3>1, <3>2 DEF Lines, Noticed
    <3>7. LogHolds'
      BY <2>7, <3>4, <3>5, <3>6 DEF LogHolds
    <3>8. failed' \in SUBSET (0..Len(passed'))
      BY <2>7, <3>2 DEF CopyInv
    <3>9. foundMarker' <=> \E m \in DOMAIN passed' : passed'[m].boot = boot
      BY <2>7, GetsOne
    <3> QED BY <2>7, <3>1, <3>2, <3>7, <3>8, <3>9 DEF CopyInv, Reading
  <2>8. CASE SkipDash
    <3>1. Gets /\ Head(pipe).dash /\ UNCHANGED <<daemon, foundMarker, totalSize, file, failed>>
      BY <2>8 DEF SkipDash
    <3>2. Head(pipe).boot # boot
      BY <3>1, GetsOne, OkPieceFields
    <3> QED BY <2>7, <3>1, <3>2
  <2>9. CASE SkipUntilMarker
    BY <2>7, <2>9 DEF SkipUntilMarker, IsMarker
  <2>10. CASE Copy
    <3> DEFINE n == Len(passed) + 1
               lines == file \o Write(Head(pipe), n \in failed')
               at == Lines \cup (IF n \in failed' THEN {} ELSE {n})
    <3>1. /\ Gets /\ ~Head(pipe).dash /\ foundMarker /\ UNCHANGED foundMarker
          /\ totalSize' = totalSize + 1 /\ daemon' = (IF totalSize' > MaxSize THEN "gone" ELSE "reading")
      BY <2>10 DEF Copy
    <3>2. /\ passed' = Append(passed, Head(pipe)) /\ Head(pipe) \in OkPiece
          /\ Reading /\ boot > 0 /\ UNCHANGED boot /\ passed' \in Seq(OkPiece) /\ passed' # <<>>
          /\ daemon = "reading" /\ passed \in Seq(OkPiece) /\ Len(passed') = n /\ n \in Nat
          /\ Len(passed) \in Nat
      BY <3>1, GetsOne DEF Gets, CopyInv
    <3>3. /\ failed' \in SUBSET (0..n) /\ n \notin failed /\ 0 \notin failed /\ n # 0
          /\ failed' \ {0, n} = failed
          /\ file' = IF totalSize' > MaxSize THEN lines \o Write(Notice, 0 \in failed') ELSE lines
          /\ totalSize' > MaxSize \/ 0 \notin failed'
      <4>1. failed \in SUBSET (0..Len(passed)) /\ 0 \notin failed
        BY <3>2 DEF CopyInv
      <4>2. n \notin failed /\ n # 0
        BY <3>2, <4>1
      <4> HIDE DEF n
      <4>3. PICK lost \in BOOLEAN, unnoticed \in BOOLEAN :
               /\ failed' = (failed \cup (IF lost THEN {n} ELSE {}))
                              \cup (IF totalSize' > MaxSize /\ unnoticed THEN {0} ELSE {})
               /\ file' = IF totalSize' > MaxSize
                            THEN file \o Write(Head(pipe), lost) \o Write(Notice, unnoticed)
                            ELSE file \o Write(Head(pipe), lost)
        BY <2>10, <3>2 DEF Copy
      <4>4. (n \in failed' <=> lost) /\ (totalSize' > MaxSize => (0 \in failed' <=> unnoticed))
        BY <4>1, <4>2, <4>3
      <4>5. /\ Write(Head(pipe), n \in failed') = Write(Head(pipe), lost)
            /\ totalSize' > MaxSize => Write(Notice, 0 \in failed') = Write(Notice, unnoticed)
        BY <4>4 DEF Write
      <4>6. /\ failed' \ {0, n} = failed /\ (totalSize' > MaxSize \/ 0 \notin failed')
        BY <4>1, <4>2, <4>3
      <4>7. file' = IF totalSize' > MaxSize THEN lines \o Write(Notice, 0 \in failed') ELSE lines
        BY <4>3, <4>5
      <4>8. failed' \in SUBSET (0..n)
        <5>1. \A x \in 0..Len(passed) : x \in 0..n
          BY <3>2 DEF n
        <5>2. n \in 0..n /\ 0 \in 0..n
          BY <3>2
        <5> QED BY <4>1, <4>3, <5>1, <5>2
      <4> QED BY <4>1, <4>2, <4>6, <4>7, <4>8
    <3>4. /\ Wanted(passed', boot) = Wanted(passed, boot) \cup {n}
          /\ Wanted(passed, boot) \in SUBSET (1..Len(passed))
          /\ IsFiniteSet(Wanted(passed, boot)) /\ n \notin Wanted(passed, boot)
      BY <2>6, <3>1, <3>2, WantedIsFinite
    <3>5. /\ file \in Seq(OkPiece) /\ Selects(file, passed, Lines) /\ Len(file) = Cardinality(Lines)
          /\ totalSize = Cardinality(Wanted(passed, boot)) /\ totalSize <= MaxSize
      <4>1. LogHolds /\ totalSize = Cardinality(Wanted(passed, boot)) /\ totalSize <= MaxSize
            /\ file \in Seq(OkPiece)
        BY <3>2 DEF CopyInv
      <4>2. totalSize \in Nat /\ MaxSize \in Nat
        BY <3>4, <4>1, FS_CardinalityType, Bounds
      <4>3. ~Noticed
        BY <4>1, <4>2 DEF Noticed
      <4>4. IsFiniteSet(Lines)
        BY <3>4, FS_Subset DEF Lines
      <4>5. Cardinality(Lines) \in Nat
        BY <4>4, FS_CardinalityType
      <4> QED BY <4>1, <4>3, <4>5 DEF LogHolds
    <3>6. /\ Lines \in SUBSET (1..Len(passed)) /\ IsFiniteSet(Lines) /\ Cardinality(Lines) \in Nat
          /\ at \in SUBSET (1..n) /\ Lines' = at /\ IsFiniteSet(at)
      <4>1. Lines \in SUBSET (1..Len(passed)) /\ IsFiniteSet(Lines)
        BY <3>4, FS_Subset DEF Lines
      <4>2. IsFiniteSet(at)
        BY <4>1, FS_AddElement
      <4>3. Lines' = at
        BY <3>2, <3>3, <3>4 DEF Lines
      <4>4. at \in SUBSET (1..n)
        <5>1. \A x \in 1..Len(passed) : x \in 1..n
          BY <3>2
        <5>2. n \in 1..n
          BY <3>2
        <5> HIDE DEF n
        <5> QED BY <4>1, <5>1, <5>2
      <4> QED BY <4>1, <4>2, <4>3, <4>4, FS_CardinalityType
    <3>7. lines \in Seq(OkPiece) /\ Selects(lines, passed', at) /\ Len(lines) = Cardinality(at)
      <4>1. CASE n \in failed'
        <5>1. lines = file /\ at = Lines
          BY <3>5, <4>1 DEF Write
        <5> HIDE DEF lines, at
        <5> QED BY <3>2, <3>5, <3>6, <5>1, SelectionStays
      <4>2. CASE n \notin failed'
        <5>1. lines = Append(file, Head(pipe)) /\ at = Lines \cup {Len(passed) + 1}
          BY <3>2, <3>5, <4>2 DEF Write
        <5> HIDE DEF lines, at
        <5>2. Selects(Append(file, Head(pipe)), Append(passed, Head(pipe)),
                      Lines \cup {Len(passed) + 1})
          <6>1. /\ passed \in Seq(OkPiece) /\ Head(pipe) \in OkPiece /\ file \in Seq(OkPiece)
                /\ Lines \in SUBSET (1..Len(passed)) /\ Len(file) = Cardinality(Lines)
                /\ Selects(file, passed, Lines)
            BY <3>2, <3>5, <3>6
          <6> HIDE DEF n
          <6> QED BY ONLY <6>1, SelectionGrows
        <5>3. Cardinality(Lines \cup {Len(passed) + 1}) = Cardinality(Lines) + 1
          <6>1. IsFiniteSet(Lines) /\ Len(passed) + 1 \notin Lines
            BY <3>2, <3>6
          <6> QED BY ONLY <6>1, FS_AddElement
        <5> QED BY <3>2, <3>5, <5>1, <5>2, <5>3
      <4> QED BY <4>1, <4>2
    <3>8. /\ totalSize' = Cardinality(Wanted(passed', boot))
          /\ totalSize' \in Nat /\ MaxSize \in Nat
      <4>1. /\ Cardinality(Wanted(passed, boot) \cup {n}) = Cardinality(Wanted(passed, boot)) + 1
            /\ Cardinality(Wanted(passed, boot)) \in Nat
        BY <3>4, FS_AddElement, FS_CardinalityType
      <4> QED BY <3>1, <3>4, <3>5, <4>1, Bounds
    <3>9. Noticed' <=> totalSize' > MaxSize /\ 0 \notin failed'
      BY <3>2, <3>8 DEF Noticed
    <3>10. Notice \in OkPiece
      BY DEF Notice, OkPiece
    <3> HIDE DEF lines, at, n
    <3>11. file' \in Seq(OkPiece) /\ LogHolds'
      <4>1. CASE Noticed'
        <5>1. file' = Append(lines, Notice)
          BY <3>3, <3>7, <3>9, <3>10, <4>1 DEF Write
        <5>2. Selects(Append(lines, Notice), passed', at)
          BY <3>6, <3>7, <3>10, SelectionHolds
        <5>3. /\ Len(Append(lines, Notice)) = Len(lines) + 1 /\ Append(lines, Notice) \in Seq(OkPiece)
              /\ Append(lines, Notice)[Len(lines) + 1] = Notice
          BY <3>7, <3>10
        <5> QED BY <3>6, <3>7, <4>1, <5>1, <5>2, <5>3 DEF LogHolds
      <4>2. CASE ~Noticed'
        <5>1. file' = lines
          BY <3>3, <3>7, <3>9, <4>2 DEF Write
        <5>2. Cardinality(at) \in Nat
          BY <3>6, FS_CardinalityType
        <5> QED BY <3>6, <3>7, <4>2, <5>1, <5>2 DEF LogHolds
      <4> QED BY <4>1, <4>2
    <3>12. foundMarker' <=> \E m \in DOMAIN passed' : passed'[m].boot = boot
      BY <3>1, GetsOne
    <3>13. daemon' \in {"gone", "reading"} /\ (daemon' = "reading" => totalSize' <= MaxSize /\ 0 \notin failed')
      BY <3>1, <3>3, <3>8
    <3> QED BY <3>1, <3>2, <3>3, <3>8, <3>11, <3>12, <3>13 DEF CopyInv, Reading
  <2>11. CASE UNCHANGED vars
    BY <2>11, <2>12 DEF vars, CopyInv, Reading
  <2> QED
    BY <1>2, <2>1, <2>2, <2>3, <2>4, <2>5, <2>8, <2>9, <2>10, <2>11 DEF Next, Start, Daemon
<1> QED BY <1>1, <1>2, PipeInvariant, LastInvariant, PTL DEF Spec

(* The log is the pieces after this boot's marker that could be written, with the notice  *)
(* behind them past the limit, however much of older boots logcat prints first and        *)
(* whatever part of the marker's boot is evicted.                                         *)
THEOREM LogFollowsMarker == Spec => []LogIsAfterMarker
<1>1. CopyInv => LogIsAfterMarker
  BY DEF CopyInv, LogIsAfterMarker, Reading, LogHolds, Lines, Noticed
<1> QED BY <1>1, CopyInvariant, PTL

----------------------------------------------------------------------------
(* Types and limits *)

LogFiles == {f \in Seq(Piece) : Len(f) <= MaxSize + 2} \cup {NoFile}

\* The daemon stops at the first piece beyond the limit, so that it only reads within it.
TypeInv ==
  /\ boot \in 0..MaxBoots /\ written \in 0..MaxEntries
  /\ log \in Seq(LogEntry) /\ sent \in 0..Len(log)
  /\ logcat \in {"none", "forked", "running", "gone"}
  /\ pipe \in Seq(Piece) /\ Len(pipe) <= PipeSize
  /\ foundMarker \in BOOLEAN
  /\ totalSize \in 0..MaxSize + 1
  /\ daemon = "reading" => totalSize <= MaxSize /\ file \in Seq(Piece) /\ Len(file) <= totalSize
  /\ daemon \in {"none", "forked", "renamed", "open"} => totalSize = 0
  /\ file \in LogFiles /\ old \in LogFiles

(* What logcat makes of an entry are pieces, as many as its shape has.                   *)
LEMMA PiecesOfEntry ==
  ASSUME NEW e \in LogEntry
  PROVE  Pieces(e) \in Seq(Piece) /\ Len(Pieces(e)) = Len(e.shape) /\ Len(e.shape) \in Nat
<1>1. e.id \in 0..MaxEntries /\ e.boot \in 0..MaxBoots /\ e.shape \in Shapes \cup {<<FALSE>>}
  <2>1. /\ e.id \in 1..MaxEntries /\ e.boot \in 0..MaxBoots
        /\ e.shape \in Shapes \cup {<<FALSE>>}
    BY Zenon DEF LogEntry
  <2>2. \A n \in 1..MaxEntries : n \in 0..MaxEntries
    BY Bounds
  <2> QED BY <2>1, <2>2
<1>2. e.shape \in Seq(BOOLEAN)
  <2>1. <<FALSE>> \in Seq(BOOLEAN)
    OBVIOUS
  <2> QED BY <1>1, <2>1, ShapesAreSequences
<1>3. Len(e.shape) \in Nat /\ \A i \in 1..Len(e.shape) : e.shape[i] \in BOOLEAN
  BY <1>2
<1>4. \A i \in 1..Len(e.shape) : [id |-> e.id, boot |-> e.boot, dash |-> e.shape[i]] \in Piece
  BY <1>1, <1>3 DEF Piece
<1> QED BY <1>3, <1>4 DEF Pieces

LEMMA TypeInvariant == Spec => []TypeInv
<1>1. ASSUME Init PROVE TypeInv
  <2>1. /\ boot = 0 /\ written = 0 /\ log = <<>> /\ sent = 0 /\ pipe = <<>> /\ totalSize = 0
        /\ daemon = "none" /\ logcat = "none" /\ file = NoFile /\ old = NoFile
    BY <1>1 DEF Init
  <2>2. foundMarker \in BOOLEAN
    BY <1>1, Zenon DEF Init
  <2>3. 0 \in 0..Len(<<>>) /\ Len(<<>>) = 0
    OBVIOUS
  <2> QED BY <2>1, <2>2, <2>3, Bounds DEF TypeInv, LogFiles
<1>2. ASSUME TypeInv, [Next]_vars PROVE TypeInv'
  <2> USE <1>2, Bounds DEF TypeInv, system, history
  <2>0. /\ \A s \in Seq(LogEntry), e \in LogEntry :
             Append(s, e) \in Seq(LogEntry) /\ Len(Append(s, e)) = Len(s) + 1 /\ Len(s) \in Nat
        /\ \A s \in Seq(LogEntry) : s # <<>> =>
             Tail(s) \in Seq(LogEntry) /\ Len(Tail(s)) = Len(s) - 1 /\ Len(s) \in Nat
    OBVIOUS
  <2>1. CASE Boot
    <3>1. /\ boot < MaxBoots /\ written < MaxEntries /\ boot' = boot + 1 /\ written' = written + 1
          /\ log' = Append(log, [id |-> written + 1, boot |-> boot + 1, shape |-> <<FALSE>>])
          /\ daemon' = "none" /\ logcat' = "none" /\ sent' = 0 /\ pipe' = <<>>
          /\ totalSize' = 0 /\ UNCHANGED <<file, old>>
      BY <2>1 DEF Boot, Entry
    <3>2. [id |-> written + 1, boot |-> boot + 1, shape |-> <<FALSE>>] \in LogEntry
      <4>1. written + 1 \in 1..MaxEntries /\ boot + 1 \in 0..MaxBoots
        BY <3>1
      <4> QED BY <4>1 DEF LogEntry
    <3>3. log' \in Seq(LogEntry) /\ sent' \in 0..Len(log')
      BY <2>0, <3>1, <3>2
    <3>4. foundMarker' \in BOOLEAN
      BY <2>1, Zenon DEF Boot
    <3>5. boot' \in 0..MaxBoots /\ written' \in 0..MaxEntries
      BY <3>1
    <3>6. pipe' \in Seq(Piece) /\ Len(pipe') = 0
      BY <3>1
    <3> QED BY <3>1, <3>3, <3>4, <3>5, <3>6
  <2>2. ASSUME NEW shape \in Shapes, Log(shape) PROVE TypeInv'
    <3>1. /\ written < MaxEntries /\ written' = written + 1
          /\ log' = Append(log, [id |-> written + 1, boot |-> 0, shape |-> shape])
          /\ UNCHANGED <<boot, daemon, logcat, sent, pipe, foundMarker, totalSize, file, old>>
      BY <2>2 DEF Log, Entry
    <3>2. [id |-> written + 1, boot |-> 0, shape |-> shape] \in LogEntry
      <4>1. written + 1 \in 1..MaxEntries /\ 0 \in 0..MaxBoots
        BY <3>1
      <4> QED BY <4>1 DEF LogEntry
    <3>3. log' \in Seq(LogEntry) /\ sent' \in 0..Len(log') /\ written' \in 0..MaxEntries
      BY <2>0, <3>1, <3>2
    <3> QED BY <3>1, <3>3
  <2>3. CASE Evict
    <3>1. /\ log # <<>> /\ log' = Tail(log) /\ sent' = (IF sent > 0 THEN sent - 1 ELSE 0)
          /\ UNCHANGED <<boot, written, daemon, logcat, pipe, foundMarker, totalSize, file, old>>
      BY <2>3 DEF Evict
    <3>2. log' \in Seq(LogEntry) /\ sent' \in 0..Len(log')
      BY <2>0, <3>1
    <3> QED BY <3>1, <3>2
  <2>4. CASE Start \/ DaemonFails \/ LogcatEnds \/ BrokenPipe
    <3>1. CASE OpenLog
      <4>1. <<>> \in Seq(Piece) /\ Len(<<>>) = 0 /\ <<>> \in LogFiles
        BY DEF LogFiles
      <4> QED BY <3>1, <4>1 DEF OpenLog
    <3>2. CASE Rename
      BY <3>2 DEF Rename, LogFiles
    <3>3. CASE ForkDaemon \/ ForkLogcat
      BY <3>3 DEF ForkDaemon, ForkLogcat
    <3>4. CASE DaemonFails \/ LogcatEnds \/ BrokenPipe
      BY <3>4 DEF DaemonFails, LogcatEnds, BrokenPipe
    <3> QED BY <2>4, <3>1, <3>2, <3>3, <3>4 DEF Start
  <2>5. CASE ExecLogcat
    <3>1. /\ logcat' = "running" /\ pipe' = <<Beginning>> /\ sent' = 0
          /\ UNCHANGED <<boot, log, written, daemon, foundMarker, totalSize, file, old>>
      BY <2>5 DEF ExecLogcat
    <3>2. Beginning \in Piece
      BY DEF Beginning, Piece
    <3>3. pipe' \in Seq(Piece) /\ Len(pipe') = 1
      BY <3>1, <3>2
    <3> QED BY <3>1, <3>3
  <2>6. CASE PrintEntry
    <3>1. /\ sent < Len(log) /\ Len(pipe) + Len(log[sent + 1].shape) <= PipeSize
          /\ pipe' = pipe \o Pieces(log[sent + 1]) /\ sent' = sent + 1
          /\ UNCHANGED <<boot, log, written, daemon, logcat, foundMarker, totalSize, file, old>>
      BY <2>6 DEF PrintEntry
    <3>2. log[sent + 1] \in LogEntry /\ sent' \in 0..Len(log)
      BY <3>1
    <3>3. /\ Pieces(log[sent + 1]) \in Seq(Piece)
          /\ Len(Pieces(log[sent + 1])) = Len(log[sent + 1].shape)
      BY <3>2, PiecesOfEntry
    <3>4. \A s, t \in Seq(Piece) : s \o t \in Seq(Piece) /\ Len(s \o t) = Len(s) + Len(t)
      OBVIOUS
    <3>5. pipe' \in Seq(Piece) /\ Len(pipe') <= PipeSize
      BY <3>1, <3>3, <3>4
    <3> QED BY <3>1, <3>2, <3>5
  <2>7. ASSUME Gets
        PROVE  /\ pipe' \in Seq(Piece) /\ Len(pipe') <= PipeSize /\ Head(pipe) \in Piece
               /\ UNCHANGED <<boot, log, written, logcat, sent, old>> /\ daemon = "reading"
    <3>1. /\ pipe # <<>> /\ pipe' = Tail(pipe) /\ daemon = "reading"
          /\ UNCHANGED <<boot, log, written, logcat, sent, old>>
      BY <2>7 DEF Gets
    <3>2. \A s \in Seq(Piece) : s # <<>> =>
            Tail(s) \in Seq(Piece) /\ Len(Tail(s)) = Len(s) - 1 /\ Len(s) \in Nat /\ Head(s) \in Piece
      OBVIOUS
    <3> QED BY <3>1, <3>2
  <2>8. CASE SkipDash
    BY <2>7, <2>8 DEF SkipDash
  <2>9. CASE SkipUntilMarker
    <3>1. foundMarker' \in BOOLEAN
      BY <2>9, Zenon DEF SkipUntilMarker, IsMarker
    <3> QED BY <2>7, <2>9, <3>1 DEF SkipUntilMarker
  <2>10. CASE Copy
    <3>1. /\ Gets /\ totalSize' = totalSize + 1 /\ UNCHANGED foundMarker
          /\ daemon' = (IF totalSize' > MaxSize THEN "gone" ELSE "reading")
          /\ \E lost, unnoticed \in BOOLEAN :
               file' = IF totalSize' > MaxSize
                         THEN file \o Write(Head(pipe), lost) \o Write(Notice, unnoticed)
                         ELSE file \o Write(Head(pipe), lost)
      BY <2>10 DEF Copy
    <3>2. /\ pipe' \in Seq(Piece) /\ Len(pipe') <= PipeSize /\ Head(pipe) \in Piece
          /\ UNCHANGED <<boot, log, written, logcat, sent, old>> /\ daemon = "reading"
      BY <2>7, <3>1
    <3>3. ASSUME NEW f \in Seq(Piece), NEW p \in Piece, NEW fails
          PROVE  /\ f \o Write(p, fails) \in Seq(Piece) /\ Len(f \o Write(p, fails)) \in Nat
                 /\ Len(f) \in Nat /\ Len(f \o Write(p, fails)) <= Len(f) + 1
      BY DEF Write
    <3>4. Notice \in Piece
      BY DEF Notice, Piece
    <3>5. /\ file' \in Seq(Piece) /\ Len(file') \in Nat
          /\ IF totalSize' > MaxSize THEN Len(file') <= Len(file) + 2 ELSE Len(file') <= Len(file) + 1
      <4>1. file \in Seq(Piece) /\ Len(file) \in Nat
        BY <3>2
      <4>2. PICK lost \in BOOLEAN, unnoticed \in BOOLEAN :
               file' = IF totalSize' > MaxSize
                         THEN file \o Write(Head(pipe), lost) \o Write(Notice, unnoticed)
                         ELSE file \o Write(Head(pipe), lost)
        BY <3>1
      <4>3. /\ file \o Write(Head(pipe), lost) \in Seq(Piece)
            /\ Len(file \o Write(Head(pipe), lost)) \in Nat
            /\ Len(file \o Write(Head(pipe), lost)) <= Len(file) + 1
        BY <3>2, <3>3, <4>1
      <4>4. /\ (file \o Write(Head(pipe), lost)) \o Write(Notice, unnoticed) \in Seq(Piece)
            /\ Len((file \o Write(Head(pipe), lost)) \o Write(Notice, unnoticed)) \in Nat
            /\ Len((file \o Write(Head(pipe), lost)) \o Write(Notice, unnoticed))
                 <= Len(file \o Write(Head(pipe), lost)) + 1
        BY <3>3, <3>4, <4>3
      <4> QED BY <4>1, <4>2, <4>3, <4>4
    <3>6. totalSize' \in 0..MaxSize + 1 /\ (daemon' = "reading" => totalSize' <= MaxSize)
      BY <3>1, <3>2
    <3>7. Len(file) \in Nat /\ Len(file) <= totalSize /\ totalSize <= MaxSize
      BY <3>2
    <3>8. /\ Len(file') <= MaxSize + 2 /\ (daemon' = "reading" => Len(file') <= totalSize')
      BY <3>1, <3>5, <3>6, <3>7
    <3>9. daemon' \in {"gone", "reading"} /\ file' \in LogFiles
      BY <3>1, <3>5, <3>8 DEF LogFiles
    <3> QED BY <3>1, <3>2, <3>5, <3>6, <3>8, <3>9
  <2>11. CASE UNCHANGED vars
    BY <2>11 DEF vars
  <2> QED
    BY <1>2, <2>1, <2>2, <2>3, <2>4, <2>5, <2>6, <2>8, <2>9, <2>10, <2>11 DEF Next, Daemon, Logcat
<1> QED BY <1>1, <1>2, PTL DEF Spec

(* The pipe keeps its limit, and the log is never more than one piece and the notice      *)
(* beyond its own.                                                                       *)
THEOREM LogcatTypeCorrect == Spec => []TypeOK
<1>1. TypeInv /\ LastInv /\ CopyInv => TypeOK
  <2> SUFFICES ASSUME TypeInv, LastInv, CopyInv PROVE TypeOK
    OBVIOUS
  <2>1. /\ \A i \in DOMAIN log : log[i] \in LogEntry
        /\ \A i \in DOMAIN pipe : pipe[i] \in Piece
    BY DEF TypeInv
  <2>2. IsLogFile(file) /\ IsLogFile(old)
    <3>1. \A s \in Seq(Piece) : \A i \in DOMAIN s : s[i] \in Piece
      OBVIOUS
    <3> QED BY <3>1 DEF TypeInv, LogFiles, IsLogFile
  <2>3. failed \subseteq 0..Len(passed)
    BY DEF CopyInv
  <2> QED BY <2>1, <2>2, <2>3 DEF TypeInv, LastInv, TypeOK
<1> QED BY <1>1, TypeInvariant, LastInvariant, CopyInvariant, PTL
=============================================================================
