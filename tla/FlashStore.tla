----------------------------- MODULE FlashStore -----------------------------
(***************************************************************************)
(* What DirectFlashSimulator promises to the client of write, read and     *)
(* delete: a write is given a fresh address, its content is what a read    *)
(* returns until the address is deleted, and a write that fails leaves     *)
(* nothing behind.  Where the data lives, garbage collection and wear      *)
(* levelling are invisible.                                                *)
(***************************************************************************)
EXTENDS Integers

CONSTANTS MaxAddr, Data, NoData

VARIABLES store,    \* what a read of each address returns
          next,     \* the next fresh address
          pending,  \* the data of a write still looking for room, or NoData
          op        \* "busy" while an operation or the collector runs

vars == <<store, next, pending, op>>

Init == /\ store = [a \in 0 .. MaxAddr - 1 |-> NoData]
        /\ next = 0
        /\ pending = NoData
        /\ op = "idle"

Write(d) == /\ op = "idle" /\ op' \in {"idle", "busy"}
            /\ pending = NoData
            /\ next < MaxAddr
            /\ next' = next + 1
            /\ store' = [store EXCEPT ![next] = d]
            /\ UNCHANGED pending

Wait(d) == /\ op = "idle" /\ op' = "busy"
           /\ pending = NoData
           /\ next < MaxAddr
           /\ next' = next + 1
           /\ pending' = d
           /\ UNCHANGED store

Resume == /\ op = "busy" /\ op' \in {"idle", "busy"}
          /\ pending # NoData
          /\ pending' = NoData
          /\ store' = [store EXCEPT ![next - 1] = pending]
          /\ UNCHANGED next

Fail == /\ op = "busy" /\ op' = "idle"
        /\ pending # NoData
        /\ pending' = NoData
        /\ UNCHANGED <<store, next>>

Delete(a) == /\ op = "idle"
             /\ pending = NoData
             /\ store[a] # NoData
             /\ store' = [store EXCEPT ![a] = NoData]
             /\ UNCHANGED <<next, pending, op>>

(* Collection and levelling begin and end, and nothing else is seen.       *)
Background == /\ pending = NoData
              /\ op' \in {"idle", "busy"}
              /\ UNCHANGED <<store, next, pending>>

Next == \/ \E d \in Data : Write(d) \/ Wait(d)
        \/ Resume \/ Fail \/ Background
        \/ \E a \in 0 .. MaxAddr - 1 : Delete(a)

Spec == Init /\ [][Next]_vars
=============================================================================
