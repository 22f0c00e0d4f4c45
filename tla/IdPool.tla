-------------------------------- MODULE IdPool --------------------------------
(***************************************************************************)
(* Lab5/c/src/id_pool.c: the fixed array of links that the kernel's pools  *)
(* of small IDs (threads, timer events) are kept in.  Slot 0 holds the     *)
(* first free ID and slot 1 the last one; every other slot is an ID.  The  *)
(* link of a free ID is the next free ID or End, that of an allocated ID   *)
(* is 0.  The callers mask interrupts, so a call is one step.              *)
(***************************************************************************)
EXTENDS Integers, Sequences, FiniteSets

CONSTANTS SlotCount,  \* pool->slot_count: both metadata slots and all the IDs
          Requests    \* the integers callers pass to id_pool_release

\* id_pool_create refuses fewer than 3 slots and more than 2^16 (uint16_t links).
ASSUME SlotCountAssumption == SlotCount \in Nat /\ SlotCount >= 3 /\ SlotCount <= 2^16
ASSUME RequestsAssumption == Requests \subseteq Int

VARIABLES links,   \* pool->links
          result   \* what the last call returned to its caller

vars == <<links, result>>

Head0 == 0        \* ID_POOL_HEAD
Tail0 == 1        \* ID_POOL_TAIL
End == Tail0      \* ID_POOL_END: no next free ID
FirstId == 2      \* ID_POOL_FIRST
Allocated == 0    \* ID_POOL_ALLOCATED

Slots == 0 .. SlotCount - 1
Ids == FirstId .. SlotCount - 1
FreeIds == {s \in Ids : links[s] # Allocated}
-------------------------------------------------------------------------------
\* Mutation: the loop links the last slot too and nothing ends the list.
CreateUnterminated == /\ links = [s \in Slots |-> IF s = Head0 THEN FirstId
                                                  ELSE IF s = Tail0 THEN SlotCount - 1
                                                  ELSE s + 1]
                      /\ result = [op |-> "create", id |-> -1]

\* id_pool_create: every ID is free, in increasing order.
Create == /\ links = [s \in Slots |-> IF s = Head0 THEN FirstId
                                      ELSE IF s = Tail0 THEN SlotCount - 1
                                      ELSE IF s < SlotCount - 1 THEN s + 1 ELSE End]
          /\ result = [op |-> "create", id |-> -1]

\* id_pool_alloc on a non-empty list: pop the head and mark it allocated.
AllocOldest == /\ links[Head0] # End
               /\ links' = [links EXCEPT ![Head0] = links[links[Head0]],
                                         ![links[Head0]] = Allocated]
               /\ result' = [op |-> "alloc", id |-> links[Head0]]

\* id_pool_alloc on an empty list.
AllocNone == /\ links[Head0] = End
             /\ result' = [op |-> "alloc", id |-> -1]
             /\ UNCHANGED links

\* Mutation: the empty list is recognised but the tail is left where it was.
AppendForgetsTail(id) ==
    links' = IF links[Head0] = End
             THEN [links EXCEPT ![id] = End, ![Head0] = id]
             ELSE [links EXCEPT ![id] = End, ![links[Tail0]] = id, ![Tail0] = id]

\* Mutation: the returned ID is pushed in front, as a stack of free IDs would.
AppendAtHead(id) ==
    links' = [links EXCEPT ![id] = links[Head0], ![Head0] = id]

\* The update of id_pool_release.  "When empty, tail is unspecified; the returned
\* slot becomes the head": the old tail is read only when the list is not empty.
AppendFree(id) ==
    links' = IF links[Head0] = End
             THEN [links EXCEPT ![id] = End, ![Head0] = id, ![Tail0] = id]
             ELSE [links EXCEPT ![id] = End, ![links[Tail0]] = id, ![Tail0] = id]

\* Mutation: the check that the ID is allocated is missing.
AcceptsAnyId(id) == id \in Ids

\* The two early returns of id_pool_release: out of range, and already free.
Accepts(id) == id \in Ids /\ links[id] = Allocated

Release(id) ==
    \/ /\ Accepts(id)
       /\ AppendFree(id)
       /\ result' = [op |-> "released", id |-> id]
    \/ /\ ~Accepts(id)
       /\ result' = [op |-> "refused", id |-> id]
       /\ UNCHANGED links

Init == Create
Next == AllocOldest \/ AllocNone \/ \E id \in Requests : Release(id)
Spec == Init /\ [][Next]_vars
-------------------------------------------------------------------------------
\* Every link names a slot of the array: id_pool.c never reads or writes outside links[].
TypeOK == /\ links \in [Slots -> Slots]
          /\ result \in [op : {"create", "alloc", "released", "refused"}, id : Int]

(***************************************************************************)
(* The free IDs form one list: it starts at the head, ends at the tail,    *)
(* no two IDs have the same successor and none leads back to the head.     *)
(***************************************************************************)
HeadIsFree == links[Head0] \in FreeIds \cup {End}
LinksAreFree == \A s \in FreeIds : links[s] \in FreeIds \cup {End}
LinksDiffer == \A r, s \in FreeIds : links[r] = links[s] => r = s
HeadHasNoPredecessor == \A s \in FreeIds : links[s] # links[Head0]
TailIsLast == links[Head0] # End => /\ links[Tail0] \in FreeIds
                                    /\ links[links[Tail0]] = End
\* No ring of free IDs beside the list: a nonempty set of them has a way out.
NoDetachedRing == \A S \in SUBSET FreeIds : S # {} => \E s \in S : links[s] \notin S

\* However alloc and release alternate, the links hold every free ID in exactly one list.
LinkInv == /\ HeadIsFree
           /\ LinksAreFree
           /\ LinksDiffer
           /\ HeadHasNoPredecessor
           /\ TailIsLast
           /\ NoDetachedRing

\* id_pool_alloc returns -1 only when every ID is allocated, however the calls were
\* interleaved: no release ever detaches the free IDs from the head (id_pool.c:61).
ExhaustedOnlyWhenAllAllocated == links[Head0] = End => FreeIds = {}
-------------------------------------------------------------------------------
(***************************************************************************)
(* The pool implements the FIFO of IdPoolFifo: the free IDs in the order   *)
(* of the walk from the head.                                              *)
(***************************************************************************)
Walk == LET node[n \in 0 .. SlotCount] == IF n = 0 THEN Head0
                                          ELSE IF node[n - 1] = End THEN End
                                          ELSE links[node[n - 1]]
        IN  node
FreeList == LET length == Cardinality({n \in 1 .. SlotCount : Walk[n] # End})
            IN  [n \in 1 .. length |-> Walk[n]]

Fifo == INSTANCE IdPoolFifo WITH free <- FreeList

\* id_pool.h: alloc pops "the oldest free ID" and release appends; every call of the
\* linked array returns what the FIFO returns.
ImplementsFifo == Fifo!Spec
===============================================================================
