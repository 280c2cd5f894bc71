---------------------------- MODULE MCObjectStore ---------------------------
(* A small instance of ObjectStore: bodies of one byte, and two parts that *)
(* differ, of which the first looks like space not written yet.            *)
EXTENDS ObjectStore, TLC

MCContents == {<<1>>}
MCParts == {1, 2}
MCPartBody == [i \in MCParts |-> {<<i - 1>>}]
Symmetry == Permutations(Tasks)
=============================================================================
