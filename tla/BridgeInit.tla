----------------------------- MODULE BridgeInit -----------------------------
(***************************************************************************)
(* One app_process, from main() (app_main.cpp, app_main2.cpp) by way of    *)
(* the creation of the VM, in which xposed.cpp loads the library for the   *)
(* runtime, to the initialisation of that library (libxposed_common.cpp,   *)
(* libxposed_dalvik.cpp, libxposed_art.cpp) and what Java is told of it.   *)
(*                                                                         *)
(* A step of the initialisation that fails is logged, its exception is     *)
(* cleared, and the process goes on without the steps behind it.           *)
(* What initialize() decides is XposedStartup; here it is any answer.      *)
(***************************************************************************)
EXTENDS Naturals, Sequences, CommandLine, XmlReferences

CONSTANTS
  CommandLines,   \* the argument lists, without argv[0]
  Documents,      \* XML files, see XmlReferences
  Translations    \* and what Java makes of their ids

ASSUME BridgeAssumption ==
  CommandLines \subseteq Seq(STRING) /\ None \notin {"no errors", "errors", "link error"}

ASSUME DocumentAssumption ==
  Documents \subseteq
    [ids : Seq(Ids), attrs : Seq([name : Nat, isReference : BOOLEAN, value : Ids])]

VARIABLES
  main,         \* which of the two programs this is
  phase,        \* how far it has come
  argv,         \* its arguments, until the VM is there
  parsed,       \* what main() has read in them
  launch,       \* what it hands to the runtime
  loaded,       \* isXposedLoaded
  zygote,       \* whether the VM is a zygote's
  runtime,      \* "dalvik" or "art"
  refs,         \* the classes and methods that have been looked up, the natives
                \* that have been registered
  successful,   \* xposedLoadedSuccessfully
  told,         \* what Java was told about this
  xml           \* a rewritten XML file: what it was, what it became and by what

startVars == <<argv, parsed, launch, loaded, zygote>>
bridgeVars == <<runtime, refs, successful, told, xml>>
bootVars == <<main, phase, startVars, bridgeVars>>

BootInit ==
  /\ main \in {"app_main", "app_main2"}
  /\ phase = "main"
  /\ argv \in CommandLines
  /\ parsed = Unread
  /\ launch = None
  /\ loaded = FALSE
  /\ zygote = FALSE
  /\ runtime = None
  /\ refs = {}
  /\ successful = FALSE
  /\ told = None
  /\ xml = None

----------------------------------------------------------------------------
(* main() *)

\* handleOptions(), and prctl() before it, which is not to fail; app_main2.cpp only.
Begin ==
  /\ phase = "main"
  /\ phase' \in {IF Len(argv) = 1 /\ argv[1] \in XposedOptions THEN "ended" ELSE "read"}
                 \cup IF main = "app_main2" THEN {"ended"} ELSE {}
  /\ UNCHANGED <<main, startVars, bridgeVars>>

\* The arguments; app_main2.cpp prepares a zygote's directory and looks up its ABIs
\* or dies.
ReadArguments ==
  /\ phase = "read"
  /\ parsed' = Parse(main, argv)
  /\ \/ phase' = "initialize"
     \/ main = "app_main2" /\ ~HasClass(main, parsed') /\ phase' = "ended"
  /\ UNCHANGED <<main, argv, launch, loaded, zygote, bridgeVars>>

\* initialize(), which leaves all but zygotes alone, and the start of the runtime.
\* Only app_main.cpp notices that it has neither a class nor a zygote to start.
Start ==
  /\ phase = "initialize"
  /\ loaded' \in IF parsed.zygote THEN BOOLEAN ELSE {FALSE}
  /\ zygote' = parsed.zygote
  /\ IF main = "app_main" /\ ~parsed.zygote /\ parsed.class = None
     THEN phase' = "ended" /\ UNCHANGED launch
     ELSE phase' = "started" /\ launch' = Launch(main, parsed)
  /\ UNCHANGED <<main, argv, parsed, bridgeVars>>

\* app_main2.cpp is built for versions with ART only.
CreateVm ==
  /\ phase = "started"
  /\ phase' = IF loaded THEN "load" ELSE "java"
  /\ runtime' \in IF main = "app_main" THEN {"dalvik", "art"} ELSE {"art"}
  /\ argv' = <<>>
  /\ parsed' = Unread
  /\ launch' = None
  /\ UNCHANGED <<main, loaded, zygote, refs, successful, told, xml>>

----------------------------------------------------------------------------
(* onVmCreated() *)

\* determineRuntime(), dlopen(), dlsym() and xposedInitLib(); a library that cannot be
\* loaded leaves the process to Java, as any failure here.
LoadLibrary ==
  /\ phase = "load"
  /\ phase' \in {"bridge", "java"}
  /\ UNCHANGED <<main, startVars, bridgeVars>>

BridgeRefs == <<"XposedBridge", "XposedBridge natives", "handleHookedMethod">>
ServiceRefs == <<"ZygoteService", "ZygoteService natives", "FileResult", "FileResult()">>
DalvikRefs == <<"contents offset", "invokeOriginalMethodNative", "Object[]">>
ArtRefs == <<"callback of ArtMethod">>
ResourceRefs == <<"XResources", "XResources natives", "translateResId", "translateAttrId">>

\* The steps of a function are done in turn until one fails; "next" is for all done.
Lookups(steps, next, failed) ==
  \E n \in 0..Len(steps) :
    /\ refs' = refs \cup {steps[i] : i \in 1..n}
    /\ phase' = IF n = Len(steps) THEN next ELSE failed

\* initXposedBridge()
InitXposedBridge ==
  /\ phase = "bridge"
  /\ Lookups(BridgeRefs, "service", "java")
  /\ UNCHANGED <<main, startVars, runtime, successful, told, xml>>

\* Mutant: its result is not looked at.
InitZygoteServiceUnchecked ==
  /\ phase = "service"
  /\ Lookups(ServiceRefs, "runtime", "runtime")
  /\ UNCHANGED <<main, startVars, runtime, successful, told, xml>>

\* initZygoteService()
InitZygoteService ==
  /\ phase = "service"
  /\ Lookups(ServiceRefs, "runtime", "java")
  /\ UNCHANGED <<main, startVars, runtime, successful, told, xml>>

\* onVmCreated() of the runtime's library, and the end of onVmCreatedCommon().
\* ART's cannot fail.
InitRuntime ==
  /\ phase = "runtime"
  /\ IF runtime = "dalvik"
     THEN Lookups(DalvikRefs, "successful", "java")
     ELSE /\ refs' = refs \cup {ArtRefs[1]}
          /\ phase' = "successful"
  /\ UNCHANGED <<main, startVars, runtime, successful, told, xml>>

OnVmCreatedReturns ==
  /\ phase = "successful"
  /\ phase' = "java"
  /\ successful' = TRUE
  /\ UNCHANGED <<main, startVars, runtime, refs, told, xml>>

----------------------------------------------------------------------------
(* Java code asks and uses the natives *)

\* XposedBridge.hadInitErrors(): not even this native may be there.
HadInitErrors ==
  /\ phase = "java"
  /\ told = None
  /\ loaded
  /\ told' = IF "XposedBridge natives" \notin refs THEN "link error"
             ELSE IF successful THEN "no errors" ELSE "errors"
  /\ UNCHANGED <<main, phase, startVars, runtime, refs, successful, xml>>

\* initXResourcesNative(), asked once by a Java side that was told there were no errors.
InitXResourcesNative ==
  /\ phase = "java"
  /\ told = "no errors"
  /\ Lookups(ResourceRefs, "resources", "no resources")
  /\ UNCHANGED <<main, startVars, runtime, successful, told, xml>>

\* rewriteXmlReferencesNative()
RewriteXml ==
  /\ phase = "resources"
  /\ phase' = "rewritten"
  /\ \E doc \in Documents, by \in Translations :
       xml' = [doc |-> doc, by |-> by, result |-> Rewrite(by, doc)]
  /\ UNCHANGED <<main, startVars, runtime, refs, successful, told>>

BootNext ==
  \/ Begin \/ ReadArguments \/ Start \/ CreateVm
  \/ LoadLibrary \/ InitXposedBridge \/ InitZygoteService \/ InitRuntime
  \/ OnVmCreatedReturns \/ HadInitErrors \/ InitXResourcesNative \/ RewriteXml
=============================================================================
