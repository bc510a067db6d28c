---------------------------- MODULE MCMembased ----------------------------
(***************************************************************************)
(* Values for the constants of MembasedService.  Files are as large as the *)
(* chunk size makes interesting: nothing, a chunk, more than one or two.   *)
(***************************************************************************)
EXTENDS MembasedProperties

Missing == [exists |-> FALSE, readable |-> FALSE, bytes |-> <<>>]
Holding(b) == [exists |-> TRUE, readable |-> TRUE, bytes |-> b]
Secret == [exists |-> TRUE, readable |-> FALSE, bytes |-> <<1>>]

PresentOrNot == {Missing, Holding(<<1>>)}
SomeSizes == {Missing, Secret, Holding(<<1, 2>>), Holding(<<1, 2, 3>>)}
Growing == {Missing, Holding(<<>>), Holding(<<1, 2, 3>>), Holding(<<4, 5, 6, 7, 8>>)}
=============================================================================
