------------------------- MODULE ProcessProperties -------------------------
(***************************************************************************)
(* What a process does with its arguments and what its natives rely on:    *)
(* AppProcess.                                                             *)
(***************************************************************************)
EXTENDS AppProcess, HookProperties, FiniteSets

RangeOf(s) == {s[i] : i \in DOMAIN s}

\* The position of the first argument behind i that is not in S, or the one behind all.
FirstNotIn(S, i) ==
  CHOOSE k \in i + 1..Len(argv) + 1 :
    /\ k = Len(argv) + 1 \/ argv[k] \notin S
    /\ \A j \in i + 1..k - 1 : argv[j] \in S

From(k) == SubSeq(argv, k, Len(argv))

\* Where the options for the VM end, where the parent directory is, and where the internal
\* arguments behind it end.
VmEnd == FirstNotIn(Options \ {"--"}, 0)
ParentDir == IF VmEnd <= Len(argv) /\ argv[VmEnd] = "--" THEN VmEnd + 1 ELSE VmEnd
OwnEnd == IF ParentDir > Len(argv) THEN Len(argv) + 1 ELSE FirstNotIn(Internal, ParentDir)

\* The positions before k of those internal arguments that are in S.
Own(S, k) == {i \in ParentDir + 1..k - 1 : argv[i] \in S}

Names == {"--zygote"} \cup DOMAIN NiceNames

(* Arguments go where the comment at app_main2.cpp:251 says: everything up to "--" or  *)
(* the first that is no option to the VM, the next is skipped, internal ones are       *)
(* obeyed, then a class is given all the rest, or the zygote is.  An argument behind   *)
(* that point changes nothing, and none is lost or used twice.  Excepted are the       *)
(* arguments from the class on if a zygote is given one: line 268 says they go to the  *)
(* zygote, but they go to nobody.  Nor is said where the rest goes if there is         *)
(* neither zygote nor class for app_main.cpp.                                          *)
ArgumentsGoWhereDescribed ==
  phase = "started" =>
    LET has(a) == Own({a}, OwnEnd) # {}
    IN  /\ parsed.vm = SubSeq(argv, 1, VmEnd - 1)
        /\ zygote <=> has("--zygote")
        /\ loaded => zygote
        /\ \A i \in Own(Names, OwnEnd) : (\A j \in Own(Names, OwnEnd) : j <= i) =>
             parsed.niceName = IF argv[i] = "--zygote" THEN "zygote" ELSE NiceNames[argv[i]]
        /\ launch.class # None /\ ~zygote =>
             /\ OwnEnd <= Len(argv) /\ launch.class = argv[OwnEnd]
             /\ launch.args = <<IF has("--application") THEN "application" ELSE "tool">>
             /\ launch.mainArgs = From(OwnEnd + 1)
        /\ launch.class = None =>
             /\ launch.args # <<>> /\ launch.args[1] = "start-system-server" <=>
                  has("--start-system-server")
             /\ main = "app_main2" /\ parsed.class = None =>
                  From(OwnEnd) =
                    SubSeq(launch.args, Len(launch.args) - Len(argv) + OwnEnd, Len(launch.args))

(* A native that Java uses finds what it needs, whatever failed before: the callback   *)
(* its handler and array class, the file natives their result class, the rewriting     *)
(* its translators.  Natives are registered before those are looked up, so it takes    *)
(* the answers of hadInitErrors() and initXResourcesNative() to keep Java from them.   *)
NativesFindWhatTheyNeed ==
  /\ told = "no errors" => RangeOf(BridgeRefs) \cup RangeOf(ServiceRefs) \subseteq refs
  /\ infos # <<>> => RangeOf(BridgeRefs) \cup RangeOf(DalvikRefs) \subseteq refs
  /\ xml # None => RangeOf(ResourceRefs) \subseteq refs

\* A name of an attribute, and a reference, that are an app's; how a translation fails.
MapsName(doc, k) ==
  doc.attrs[k].name \in DOMAIN doc.ids /\ doc.ids[doc.attrs[k].name] >= MinAppId
RefersToApp(doc, k) == doc.attrs[k].isReference /\ doc.attrs[k].value >= MinAppId
NameFails(doc, by, k) == MapsName(doc, k) /\ by[1][doc.attrs[k].name] = Throws
AttributeFails(doc, by, k) ==
  NameFails(doc, by, k) \/ (RefersToApp(doc, k) /\ by[2][doc.attrs[k].value] = Throws)

IsReached(doc, by, k) == \A j \in 1..k - 1 : ~AttributeFails(doc, by, j)
GivesName(doc, by, k, n) ==
  IsReached(doc, by, k) /\ doc.attrs[k].name = n /\ MapsName(doc, k) /\ ~NameFails(doc, by, k)

\* What becomes of a document, said of each attribute and each name by itself.
IsTranslated(doc, by, result) ==
  /\ \A k \in DOMAIN doc.attrs :
       result.attrs[k] =
         IF IsReached(doc, by, k) /\ ~AttributeFails(doc, by, k) /\ RefersToApp(doc, k)
         THEN [doc.attrs[k] EXCEPT !.value = by[2][@]] ELSE doc.attrs[k]
  /\ \A n \in DOMAIN doc.ids :
       result.ids[n] = IF \E k \in DOMAIN doc.attrs : GivesName(doc, by, k, n)
                       THEN by[1][n] ELSE doc.ids[n]

\* No reference of the document is negative as a jint; names may be.
HasPositiveReferences(doc) ==
  \A k \in DOMAIN doc.attrs : doc.attrs[k].isReference => doc.attrs[k].value < SignBit

(* In a document without references at or above 0x80000000, each reference to an app's *)
(* resource is translated once, each name of an attribute that occurs, whatever its id, *)
(* is translated however often it occurs, and nothing else is changed; an exception    *)
(* leaves all that comes before it translated, and nothing behind it.  A document with  *)
(* such a reference is excepted: libxposed_common.cpp:242 says that the references to   *)
(* app packages are translated, but line 247 takes those for negative and leaves them.  *)
ReferencesAreTranslated ==
  xml # None /\ HasPositiveReferences(xml.doc) => IsTranslated(xml.doc, xml.by, xml.result)
=============================================================================
