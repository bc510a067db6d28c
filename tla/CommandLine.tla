---------------------------- MODULE CommandLine ----------------------------
(***************************************************************************)
(* How app_process reads its arguments: main() of app_main.cpp, which is   *)
(* built for Android up to 4.4, and of app_main2.cpp for later versions.   *)
(* An argument is one string; argv[0] is left out.                         *)
(***************************************************************************)
EXTENDS Integers, Sequences

CONSTANTS
  NiceNames,    \* the arguments "--nice-name=...", with the name they give
  OtherLong,    \* other arguments that begin with "--"
  OtherShort,   \* those that begin with one "-"
  None          \* no class

ASSUME CommandAssumption == "--zygote" \notin DOMAIN NiceNames /\ None \notin STRING

Internal == {"--zygote", "--start-system-server", "--application"} \cup DOMAIN NiceNames

\* Two options of Xposed, which make handleOptions() do all there is to do.
XposedOptions == {"--xposedversion", "--xposedtestsafemode"}

LongOptions == Internal \cup XposedOptions \cup OtherLong \cup {"--"}
Options == LongOptions \cup OtherShort

\* What main() knows when it has read some arguments; "vm" are the options for the
\* VM, "rest" what comes behind the last argument it has a meaning for.
Unread ==
  [expects |-> "vm option", vm |-> <<>>, zygote |-> FALSE, systemServer |-> FALSE,
   application |-> FALSE, niceName |-> "", class |-> None, rest |-> <<>>]

\* An internal argument.
Noted(s, a) ==
  [s EXCEPT
    !.zygote = @ \/ a = "--zygote",
    !.systemServer = @ \/ a = "--start-system-server",
    !.application = @ \/ a = "--application",
    !.niceName = CASE a = "--zygote" -> "zygote"
                   [] a \in DOMAIN NiceNames -> NiceNames[a]
                   [] OTHER -> @]

\* Mutant: the parent directory is not skipped behind "--".
ReadFirstNoDir(s, a) ==
  CASE a \notin Options \/ a = "--" -> [s EXCEPT !.expects = "internal"]
    [] OTHER -> [s EXCEPT !.vm = Append(@, a)]

\* What is not for the VM is the parent directory, unless "--" comes before it.
ReadFirst(s, a) ==
  CASE a \notin Options -> [s EXCEPT !.expects = "internal"]
    [] a = "--" -> [s EXCEPT !.expects = "parent dir"]
    [] OTHER -> [s EXCEPT !.vm = Append(@, a)]

\* app_main2.cpp tells a class from an unknown option, which it leaves to the zygote;
\* to app_main.cpp both are a class.
ReadLast(main, s, a) ==
  IF main = "app_main2" /\ a \in LongOptions
  THEN [s EXCEPT !.expects = "nothing", !.rest = <<a>>]
  ELSE [s EXCEPT !.expects = "nothing", !.class = a]

Read(main, s, a) ==
  CASE s.expects = "vm option" -> ReadFirst(s, a)
    [] s.expects = "parent dir" -> [s EXCEPT !.expects = "internal"]
    [] s.expects = "internal" -> IF a \in Internal THEN Noted(s, a) ELSE ReadLast(main, s, a)
    [] s.expects = "nothing" -> [s EXCEPT !.rest = Append(@, a)]

\* All arguments, one by one.
Parse(main, argv) ==
  LET upTo[i \in 0..Len(argv)] ==
        IF i = 0 THEN Unread ELSE Read(main, upTo[i - 1], argv[i])
  IN  upTo[Len(argv)]

\* app_main2.cpp: an empty class name is none.
HasClass(main, s) == s.class # None /\ (main = "app_main2" => s.class # "")

\* What the runtime is started with: the arguments of the class that Xposed or Android
\* begins with, and of the main method it is to call.
Launch(main, s) ==
  LET mode == <<IF s.application THEN "application" ELSE "tool">>
      server == IF s.systemServer THEN <<"start-system-server">> ELSE <<>>
      isTool == HasClass(main, s) /\ ~(main = "app_main" /\ s.zygote)
  IN  [args |-> CASE isTool -> mode
                  [] ~isTool /\ main = "app_main" -> server
                  [] OTHER -> server \o <<"--abi-list">> \o s.rest,
       class |-> IF isTool THEN s.class ELSE None,
       mainArgs |-> IF isTool THEN s.rest ELSE <<>>]
=============================================================================
