----------------------------- MODULE MCProcess -----------------------------
(* Three threads, a bytecode method with a wide argument and a static native *)
(* one; command lines of up to four arguments; XML files of two attributes.  *)
EXTENDS ProcessProperties, TLC

CONSTANTS Wide, Foreign

ArgsOf(m) == IF m = Wide THEN <<"J", "I">> ELSE <<"L">>
LocalsOf(m) == IF m = Wide THEN 1 ELSE 0

NamesGiven == "--nice-name=n" :> "n" @@ "--nice-name=" :> ""

ArgumentsTried ==
  {"--zygote", "--start-system-server", "--application", "--nice-name=n", "--nice-name=",
   "--", "--other", "-X", "start-system-server", ""}

CommandLinesTried ==
  UNION {[1..n -> ArgumentsTried] : n \in 0..4} \cup {<<a>> : a \in XposedOptions}

\* An id of the system, one of an app, one of a package beyond 0x7f.
IdsTried == {3, 14, 16}

AttributesTried ==
  [name : 0..2, isReference : {TRUE}, value : IdsTried]
    \cup [name : {1}, isReference : {FALSE}, value : {14}]

DocumentsTried ==
  [ids : [1..2 -> IdsTried], attrs : UNION {[1..n -> AttributesTried] : n \in 1..2}]

TranslationsTried ==
  {<<n, [i \in IdsTried |-> v]>> : n \in [1..2 -> {Throws, 3, 15}], v \in {Throws, 3, 14, 15}}

ThreadSymmetry == Permutations(Threads)
=============================================================================
