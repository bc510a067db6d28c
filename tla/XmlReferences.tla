--------------------------- MODULE XmlReferences ---------------------------
(***************************************************************************)
(* rewriteXmlReferencesNative() of libxposed_common.cpp: a binary XML file *)
(* of a module is made to refer to the resources of the hooked app.        *)
(*                                                                         *)
(* "ids" are the resource ids of the attribute names, which the tags share;*)
(* "attrs" the attributes of all start tags in the order of the parser.    *)
(* Java code translates: by[1] gives the id for a name, by[2] for a        *)
(* reference; it may throw.                                                *)
(***************************************************************************)
EXTENDS Integers, Sequences

CONSTANTS
  MinAppId,   \* 0x7f000000
  SignBit,    \* 0x80000000
  Throws      \* the outcome of a translation that throws

ASSUME IdAssumption ==
  MinAppId \in Nat \ {0} /\ SignBit \in Nat /\ MinAppId < SignBit

\* What an id, or a jint, can be.
Ids == 0..(2 * SignBit - 1)

\* Mutant: the first id of an app's is left out.
IsAppReferenceAbove(v) == (IF v >= SignBit THEN v - 2 * SignBit ELSE v) > MinAppId

\* Ids of names are compared as uint32_t, references as jint.
IsAppName(id) == id >= MinAppId
IsAppReference(v) == (IF v >= SignBit THEN v - 2 * SignBit ELSE v) >= MinAppId

\* One attribute; "left" is set by the jump to the end.
RewriteAttribute(by, s, k) ==
  LET a == s.attrs[k]
      renames == a.name \in DOMAIN s.ids /\ IsAppName(s.ids[a.name])
      refers == a.isReference /\ IsAppReference(a.value)
      named == IF renames THEN [s EXCEPT !.ids[a.name] = by[1][a.name]] ELSE s
  IN  CASE s.left -> s
        [] ~s.left /\ renames /\ by[1][a.name] = Throws -> [s EXCEPT !.left = TRUE]
        [] OTHER -> IF ~refers THEN named
                    ELSE IF by[2][a.value] = Throws THEN [named EXCEPT !.left = TRUE]
                    ELSE [named EXCEPT !.attrs[k].value = by[2][a.value]]

\* The whole document; at the end the parser is restarted.
Rewrite(by, doc) ==
  LET upTo[k \in 0..Len(doc.attrs)] ==
        IF k = 0 THEN [ids |-> doc.ids, attrs |-> doc.attrs, left |-> FALSE]
        ELSE RewriteAttribute(by, upTo[k - 1], k)
  IN  upTo[Len(doc.attrs)]
=============================================================================
