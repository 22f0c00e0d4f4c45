------------------------------ MODULE IdPoolFifo ------------------------------
(***************************************************************************)
(* What id_pool.h promises its callers, without the linked array: a pool   *)
(* of the IDs FirstId .. SlotCount - 1 that hands out the ID that has been *)
(* free for the longest time and takes an allocated ID back at the end of  *)
(* the line.  Nothing is said of how the free IDs are stored.              *)
(***************************************************************************)
EXTENDS Integers, Sequences

CONSTANTS SlotCount,  \* capacity of the pool, the two metadata slots included
          Requests    \* the integers callers pass to release

VARIABLES free,     \* the free IDs, the oldest first
          result    \* what the last call returned to its caller

fifoVars == <<free, result>>

FirstId == 2
Ids == FirstId .. SlotCount - 1
FreeIds == {free[i] : i \in DOMAIN free}

Init == /\ free = [i \in 1 .. SlotCount - FirstId |-> i + FirstId - 1]
        /\ result = [op |-> "create", id |-> -1]

\* "Pop the oldest free ID ...; return -1 when the initialized pool is empty."
Alloc == \/ /\ free # <<>>
            /\ free' = Tail(free)
            /\ result' = [op |-> "alloc", id |-> Head(free)]
         \/ /\ free = <<>>
            /\ free' = free
            /\ result' = [op |-> "alloc", id |-> -1]

\* "Append an allocated ID ...; return false if it is out of range or already free."
Release(id) == \/ /\ id \in Ids \ FreeIds
                  /\ free' = Append(free, id)
                  /\ result' = [op |-> "released", id |-> id]
               \/ /\ id \notin Ids \ FreeIds
                  /\ free' = free
                  /\ result' = [op |-> "refused", id |-> id]

Next == Alloc \/ \E id \in Requests : Release(id)

Spec == Init /\ [][Next]_fifoVars
===============================================================================
