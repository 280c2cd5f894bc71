----------------------------- MODULE BlockStore -----------------------------
(***************************************************************************)
(* What a storage backend (storage/backend.py) promises: blocks by id with *)
(* a content and a reference count, changed by one call at a time.  A call *)
(* that fails, or that a crash interrupts, leaves its own block in doubt   *)
(* and no other.                                                           *)
(***************************************************************************)
EXTENDS Integers

CONSTANTS Ids, Contents, None, Unknown

VARIABLE blocks

Init == blocks = [i \in Ids |-> None]

(* write_block: the same content again is one more reference.              *)
Written(b, c) ==
  IF b # None /\ b.content = c THEN [content |-> c, refs |-> b.refs + 1]
  ELSE [content |-> c, refs |-> 1]

Write(i, c) ==
  /\ blocks[i] # Unknown
  /\ blocks' = [blocks EXCEPT ![i] = Written(blocks[i], c)]

(* delete_block: the block goes with its last reference.                   *)
Dropped(b) == IF b.refs <= 1 THEN None ELSE [content |-> b.content, refs |-> b.refs - 1]

Delete(i) ==
  /\ blocks[i] \notin {None, Unknown}
  /\ blocks' = [blocks EXCEPT ![i] = Dropped(blocks[i])]

Fault(i) == blocks' = [blocks EXCEPT ![i] = Unknown]

Next == \E i \in Ids : Delete(i) \/ Fault(i) \/ \E c \in Contents : Write(i, c)

Spec == Init /\ [][Next]_blocks
=============================================================================
