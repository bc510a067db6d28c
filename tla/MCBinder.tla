------------------------------ MODULE MCBinder -----------------------------
(* Empty, short and longer files; some contents differ only in their letters.  With *)
(* an offset of 2 the longest part wraps around, and the last second does not fit into int32_t.       *)
EXTENDS BinderProperties

SomeContents == {<<>>, <<"a", "b">>, <<"b", "b">>, <<"a", "b", "c">>}
SomeOffsets == {-1, 0, 1, 2}
SomeLengths == {0, 2}
OtherFiles == {[kind |-> "none", data |-> <<>>, mtime |-> 0],
               [kind |-> "file", data |-> <<"b", "b">>, mtime |-> 1]}
=============================================================================
