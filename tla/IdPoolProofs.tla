----------------------------- MODULE IdPoolProofs -----------------------------
(***************************************************************************)
(* For every capacity of the pool: its links stay in range, the free IDs   *)
(* form a single list from head to tail, and allocation fails only when    *)
(* every ID is allocated.                                                  *)
(***************************************************************************)
EXTENDS IdPool, SequenceTheorems, FiniteSetTheorems, WellFoundedInduction, TLAPS

USE DEF Head0, Tail0, End, FirstId, Allocated

\* The inductive invariant: the parts of LinkInv already say it all.
IInv == TypeOK /\ LinkInv

\* A nonempty set of slots has a greatest element.
LEMMA GreatestSlot ==
    ASSUME NEW S \in SUBSET Slots, S # {}
    PROVE  \E m \in S : \A s \in S : s <= m
<1> DEFINE T == {SlotCount - s : s \in S}
           Less == {ss \in Nat \X Nat : ss[1] < ss[2]}
<1>1. T \subseteq Nat
  BY SlotCountAssumption DEF Slots
<1>2. T # {}
  OBVIOUS
<1>3. IsWellFoundedOn(Less, Nat)
  BY NatLessThanWellFounded DEF OpToRel
<1>4. \E t \in T : \A u \in T : ~ (<<u, t>> \in Less)
  <2> HIDE DEF Less, T
  <2> QED
    BY <1>1, <1>2, <1>3, WFMin
<1>5. PICK t \in T : \A u \in T : ~ (u < t)
  <2>1. ASSUME NEW u \in T, NEW v \in T PROVE v < u => <<v, u>> \in Less
    <3>1. u \in Nat /\ v \in Nat
      BY <1>1
    <3> QED
      BY <3>1
  <2> QED
    BY <1>4, <2>1
<1>6. PICK m \in S : t = SlotCount - m
  OBVIOUS
<1>7. ASSUME NEW s \in S PROVE s <= m
  <2>1. SlotCount - s \in T
    OBVIOUS
  <2>2. ~ (SlotCount - s < t)
    BY <1>5, <2>1
  <2> QED
    BY <1>6, <2>2, SlotCountAssumption DEF Slots
<1> QED
  BY <1>7

\* id_pool_create links the IDs in ascending order.
LEMMA CreateInv == Init => IInv
<1> SUFFICES ASSUME Init PROVE IInv
  OBVIOUS
<1>0. /\ links \in [Slots -> Slots]
      /\ links[Head0] = FirstId /\ links[Tail0] = SlotCount - 1
      /\ \A s \in FirstId .. SlotCount - 2 : links[s] = s + 1
      /\ links[SlotCount - 1] = End
  BY SlotCountAssumption DEF Init, Create, Slots
<1> USE SlotCountAssumption DEF Slots, Ids
<1>1. TypeOK
  BY <1>0 DEF TypeOK, Init, Create
<1>2. FreeIds = Ids
  BY <1>0 DEF FreeIds
<1>3. HeadIsFree /\ LinksAreFree /\ HeadHasNoPredecessor /\ TailIsLast
  BY <1>0, <1>2 DEF HeadIsFree, LinksAreFree, HeadHasNoPredecessor, TailIsLast
<1>4. LinksDiffer
  BY <1>0, <1>2 DEF LinksDiffer
<1>5. NoDetachedRing
  <2> SUFFICES ASSUME NEW S \in SUBSET Ids, S # {}
               PROVE  \E s \in S : links[s] \notin S
    BY <1>2 DEF NoDetachedRing
  <2>1. PICK m \in S : \A s \in S : s <= m
    BY GreatestSlot
  <2>2. links[m] = m + 1 \/ links[m] = End
    BY <1>0
  <2> QED
    BY <2>1, <2>2
<1> QED
  BY <1>1, <1>3, <1>4, <1>5 DEF IInv, LinkInv

\* id_pool_alloc takes the first element off the list.
LEMMA AllocOldestInv == IInv /\ AllocOldest => IInv'
<1> SUFFICES ASSUME IInv, AllocOldest PROVE IInv'
  OBVIOUS
<1> USE SlotCountAssumption DEF Slots, Ids
<1> DEFINE h == links[Head0]
<1>0. TypeOK /\ LinkInv
  BY DEF IInv
<1>1. h \in FreeIds /\ h \in Ids /\ links[h] \in FreeIds \cup {End}
  BY <1>0 DEF AllocOldest, LinkInv, HeadIsFree, LinksAreFree, FreeIds
<1>2. /\ links' \in [Slots -> Slots]
      /\ links'[Head0] = links[h] /\ links'[h] = Allocated
      /\ \A s \in Slots \ {Head0, h} : links'[s] = links[s]
  BY <1>0, <1>1 DEF AllocOldest, TypeOK, FreeIds
<1>3. TypeOK'
  BY <1>0, <1>1, <1>2, SMTT(30) DEF AllocOldest, TypeOK
<1>4. FreeIds' = FreeIds \ {h}
  BY <1>1, <1>2 DEF FreeIds
<1>5. \A s \in FreeIds' : s \in FreeIds /\ s \in Slots /\ links'[s] = links[s]
  BY <1>2, <1>4 DEF FreeIds
<1>6. \A s \in FreeIds : links[s] # h
  BY <1>0 DEF LinkInv, HeadHasNoPredecessor
<1>7. HeadIsFree'
  BY <1>1, <1>2, <1>4, <1>6 DEF HeadIsFree
<1>8. LinksAreFree'
  BY <1>0, <1>4, <1>5, <1>6 DEF LinkInv, LinksAreFree
<1>9. LinksDiffer'
  BY <1>0, <1>5 DEF LinkInv, LinksDiffer
<1>10. HeadHasNoPredecessor'
  BY <1>0, <1>1, <1>2, <1>4, <1>5 DEF LinkInv, HeadHasNoPredecessor, LinksDiffer
<1>11. TailIsLast'
  <2>1. CASE links[h] = End
    BY <1>2, <2>1 DEF TailIsLast
  <2>2. CASE links[h] # End
    <3>1. links[Tail0] \in FreeIds /\ links[links[Tail0]] = End
      BY <1>0, <1>1 DEF LinkInv, TailIsLast, AllocOldest
    <3>2. links'[Tail0] = links[Tail0]
      BY <1>1, <1>2
    <3> QED
      BY <1>1, <1>4, <1>5, <2>2, <3>1, <3>2 DEF TailIsLast
  <2> QED
    BY <2>1, <2>2
<1>12. NoDetachedRing'
  BY <1>0, <1>4, <1>5 DEF LinkInv, NoDetachedRing
<1> QED
  BY <1>3, <1>7, <1>8, <1>9, <1>10, <1>11, <1>12 DEF IInv, LinkInv

\* The list is empty only if there is no free ID: otherwise the free IDs would be a
\* set without a way out.
LEMMA EmptyListMeansNoneFree == LinkInv => ExhaustedOnlyWhenAllAllocated
<1> SUFFICES ASSUME LinkInv, links[Head0] = End, FreeIds # {} PROVE FALSE
  BY DEF ExhaustedOnlyWhenAllAllocated
<1>1. PICK s \in FreeIds : links[s] \notin FreeIds
  BY DEF LinkInv, NoDetachedRing
<1>2. links[s] = End
  BY <1>1 DEF LinkInv, LinksAreFree
<1> QED
  BY <1>1, <1>2 DEF LinkInv, HeadHasNoPredecessor

\* id_pool_free appends an allocated ID and refuses everything else.
LEMMA ReleaseInv == ASSUME NEW id \in Requests, IInv, Release(id) PROVE IInv'
<1> USE SlotCountAssumption DEF Slots, Ids
<1>0. TypeOK /\ LinkInv
  BY DEF IInv
<1>1. CASE ~Accepts(id)
  <2>1. links' = links /\ TypeOK'
    BY <1>0, <1>1, RequestsAssumption DEF Release, TypeOK
  <2> QED
    BY <1>0, <2>1 DEF IInv, LinkInv, HeadIsFree, LinksAreFree, LinksDiffer, FreeIds,
                      HeadHasNoPredecessor, TailIsLast, NoDetachedRing
<1>2. CASE Accepts(id)
  <2>1. id \in Ids /\ links[id] = Allocated /\ AppendFree(id)
    BY <1>2 DEF Accepts, Release
  <2>2. id \notin FreeIds
    BY <2>1 DEF FreeIds
  <2>3. CASE links[Head0] = End
    <3>1. FreeIds = {}
      BY <1>0, <2>3, EmptyListMeansNoneFree DEF ExhaustedOnlyWhenAllAllocated
    <3>2. /\ links' \in [Slots -> Slots]
          /\ links'[Head0] = id /\ links'[Tail0] = id /\ links'[id] = End
          /\ \A s \in Ids \ {id} : links'[s] = links[s]
      <4>1. links' = [links EXCEPT ![id] = End, ![Head0] = id, ![Tail0] = id]
        BY <2>1, <2>3 DEF AppendFree
      <4>2. links \in [Slots -> Slots] /\ id \in Slots /\ id # 0 /\ id # 1 /\ 0 \in Slots /\ 1 \in Slots
        BY <1>0, <2>1 DEF TypeOK
      <4>3. links' \in [Slots -> Slots]
        BY <4>1, <4>2
      <4>4. \A s \in Ids \ {id} : links'[s] = links[s]
        BY <4>1, <4>2
      <4>5. links'[id] = End /\ links'[Tail0] = id
        BY <4>1, <4>2
      <4>6. links'[Head0] = id
        BY <4>1, <4>2
      <4> QED
        BY <4>3, <4>4, <4>5, <4>6
    <3>3. TypeOK'
      BY <1>0, <1>2, <3>2, RequestsAssumption DEF Release, TypeOK
    <3>4. FreeIds' = {id}
      BY <2>1, <3>1, <3>2 DEF FreeIds
    <3>5. HeadIsFree' /\ LinksAreFree' /\ LinksDiffer'
      BY <3>2, <3>4 DEF HeadIsFree, LinksAreFree, LinksDiffer
    <3>6. HeadHasNoPredecessor' /\ TailIsLast'
      BY <2>1, <3>2, <3>4 DEF HeadHasNoPredecessor, TailIsLast
    <3>7. NoDetachedRing'
      <4> SUFFICES ASSUME NEW S \in SUBSET {id}, S # {}
                   PROVE  \E s \in S : links'[s] \notin S
        BY <3>4 DEF NoDetachedRing
      <4>1. id \in S /\ S = {id}
        OBVIOUS
      <4>2. links'[id] = End /\ End # id
        BY <2>1, <3>2
      <4> QED
        BY <4>1, <4>2
    <3> QED
      BY <3>3, <3>5, <3>6, <3>7 DEF IInv, LinkInv
  <2>4. CASE links[Head0] # End
    <3> DEFINE t == links[Tail0]
    <3>1. t \in FreeIds /\ t \in Ids /\ links[t] = End /\ t # id
      BY <1>0, <2>2, <2>4 DEF LinkInv, TailIsLast, FreeIds
    <3>2. /\ links' \in [Slots -> Slots]
          /\ links'[Head0] = links[Head0] /\ links'[Tail0] = id
          /\ links'[id] = End /\ links'[t] = id
          /\ \A s \in Ids \ {id, t} : links'[s] = links[s]
      <4>1. links' = [links EXCEPT ![id] = End, ![links[Tail0]] = id, ![Tail0] = id]
        BY <2>1, <2>4 DEF AppendFree
      <4>2. links \in [Slots -> Slots] /\ id \in Slots /\ id # 0 /\ id # 1 /\ 0 \in Slots /\ 1 \in Slots
        BY <1>0, <2>1 DEF TypeOK
      <4>3. links' \in [Slots -> Slots]
        BY <4>1, <4>2, <3>1
      <4>4. \A s \in Ids \ {id, t} : links'[s] = links[s]
        BY <4>1, <4>2, <3>1
      <4>5. links'[id] = End /\ links'[Tail0] = id
        BY <4>1, <4>2, <3>1
      <4>6. links'[Head0] = links[Head0] /\ links'[t] = id
        BY <4>1, <4>2, <3>1
      <4> QED
        BY <4>3, <4>4, <4>5, <4>6
    <3>3. TypeOK'
      BY <1>0, <1>2, <3>2, RequestsAssumption, SMTT(30) DEF Release, TypeOK
    <3>4. FreeIds' = FreeIds \cup {id}
      <4>1. FreeIds \subseteq Ids /\ id \in Ids /\ id # t
        BY <2>1, <3>1 DEF FreeIds
      <4>2. links'[id] # Allocated /\ links'[t] # Allocated
        BY <2>1, <3>2
      <4>3. \A s \in Ids \ {id, t} : links'[s] # Allocated <=> links[s] # Allocated
        BY <3>2
      <4> QED BY ONLY <3>1, <4>1, <4>2, <4>3 DEF FreeIds
    <3>5. \A s \in FreeIds \ {t} : s \in Ids \ {id, t} /\ links'[s] = links[s]
      BY <2>2, <3>1, <3>2 DEF FreeIds
    <3>6. \A s \in FreeIds : links[s] \in FreeIds \cup {End} /\ links[s] # links[Head0]
      BY <1>0 DEF LinkInv, LinksAreFree, HeadHasNoPredecessor
    <3>7. \A r, s \in FreeIds : links[r] = links[s] => r = s
      BY <1>0 DEF LinkInv, LinksDiffer
    <3>8. id # End /\ links[Head0] \in FreeIds
      BY <1>0, <2>1, <2>4 DEF LinkInv, HeadIsFree
    <3>9. HeadIsFree' /\ LinksAreFree'
      BY <3>2, <3>4, <3>5, <3>6, <3>8 DEF HeadIsFree, LinksAreFree
    <3>10. LinksDiffer'
      <4> SUFFICES ASSUME NEW r \in FreeIds \cup {id}, NEW s \in FreeIds \cup {id},
                          links'[r] = links'[s]
                   PROVE  r = s
        BY <3>4 DEF LinksDiffer
      <4>1. \A x \in FreeIds \ {t} : links'[x] \in FreeIds
        BY <3>1, <3>5, <3>6, <3>7
      <4>2. links'[t] \notin FreeIds /\ links'[id] \notin FreeIds /\ links'[t] # links'[id]
        BY <2>2, <3>2, <3>8 DEF FreeIds
      <4>3. CASE r \in FreeIds \ {t} /\ s \in FreeIds \ {t}
        BY <3>5, <3>7, <4>3
      <4> QED
        BY <4>1, <4>2, <4>3
    <3>11. HeadHasNoPredecessor'
      <4> SUFFICES ASSUME NEW s \in FreeIds \cup {id} PROVE links'[s] # links[Head0]
        BY <3>2, <3>4 DEF HeadHasNoPredecessor
      <4>1. CASE s \in FreeIds \ {t}
        BY <3>5, <3>6, <4>1
      <4>2. CASE s = t
        BY <2>2, <3>2, <3>8, <4>2
      <4>3. CASE s = id
        BY <2>4, <3>2, <4>3
      <4> QED
        BY <4>1, <4>2, <4>3
    <3>12. TailIsLast'
      BY <3>2, <3>4 DEF TailIsLast
    <3>13. NoDetachedRing'
      <4> SUFFICES ASSUME NEW S \in SUBSET (FreeIds \cup {id}), S # {}
                   PROVE  \E s \in S : links'[s] \notin S
        BY <3>4 DEF NoDetachedRing
      <4>1. CASE id \in S
        <5>1. End \notin S
          BY <3>8 DEF FreeIds
        <5> QED
          BY <4>1, <5>1, <3>2
      <4>2. CASE id \notin S
        <5>1. PICK s \in S : links[s] \notin S
          BY <4>2, <1>0 DEF LinkInv, NoDetachedRing
        <5> QED
          BY <4>2, <5>1, <3>2, <3>5
      <4> QED
        BY <4>1, <4>2
    <3> QED
      BY <3>3, <3>9, <3>10, <3>11, <3>12, <3>13 DEF IInv, LinkInv
  <2> QED
    BY <2>3, <2>4
<1> QED
  BY <1>1, <1>2

\* The free IDs always form one list, whatever calls were made in whatever order.
THEOREM InductiveInvariant == Spec => []IInv
<1>1. Init => IInv
  BY CreateInv
<1>2. IInv /\ [Next]_vars => IInv'
  <2> SUFFICES ASSUME IInv, [Next]_vars PROVE IInv'
    OBVIOUS
  <2>1. CASE AllocOldest
    BY <2>1, AllocOldestInv
  <2>2. CASE links' = links /\ (AllocNone \/ UNCHANGED vars)
    <3>1. TypeOK'
      BY <2>2 DEF IInv, TypeOK, AllocNone, vars
    <3> QED
      BY <2>2, <3>1 DEF IInv, LinkInv, HeadIsFree, LinksAreFree, LinksDiffer, FreeIds,
                        HeadHasNoPredecessor, TailIsLast, NoDetachedRing
  <2>3. CASE \E id \in Requests : Release(id)
    BY <2>3, ReleaseInv
  <2> QED
    BY <2>1, <2>2, <2>3 DEF Next, AllocNone, vars
<1> QED
  BY <1>1, <1>2, PTL DEF Spec

\* Links and results stay in range (id_pool.c indexes the array without a check).
THEOREM TypeCorrect == Spec => []TypeOK
<1>1. IInv => TypeOK
  BY DEF IInv
<1> QED
  BY <1>1, InductiveInvariant, PTL

\* The list from head to tail: the link structure of id_pool.c, for every capacity.
THEOREM LinksCorrect == Spec => []LinkInv
<1>1. IInv => LinkInv
  BY DEF IInv
<1> QED
  BY <1>1, InductiveInvariant, PTL

\* No free ID is ever lost: id_pool_alloc fails only when all of them are allocated.
THEOREM NoIdIsLost == Spec => []ExhaustedOnlyWhenAllAllocated
<1>1. IInv => ExhaustedOnlyWhenAllAllocated
  BY EmptyListMeansNoneFree DEF IInv
<1> QED
  BY <1>1, InductiveInvariant, PTL

-------------------------------------------------------------------------------
(* The list as a sequence *)

\* s is the list of the free IDs that the links f hold: what id_pool.c calls its queue.
Lists(f, s) ==
    /\ s \in Seq(Ids)
    /\ \A i, j \in 1 .. Len(s) : s[i] = s[j] => i = j
    /\ f[Head0] = IF s = <<>> THEN End ELSE s[1]
    /\ \A i \in 1 .. Len(s) - 1 : f[s[i]] = s[i + 1]
    /\ s # <<>> => f[s[Len(s)]] = End

\* Every free ID is on it.
Holds(f, s) == Lists(f, s) /\ {s[i] : i \in 1 .. Len(s)} = {x \in Ids : f[x] # Allocated}

\* The walk of the links f, and the list it gives.
Node(f, node) == node = [n \in 0 .. SlotCount |-> IF n = 0 THEN Head0
                                                  ELSE IF node[n - 1] = End THEN End
                                                  ELSE f[node[n - 1]]]
WalkOf(f) == CHOOSE node : Node(f, node)
ListOf(f) == LET length == Cardinality({n \in 1 .. SlotCount : WalkOf(f)[n] # End})
             IN  [n \in 1 .. length |-> WalkOf(f)[n]]

\* A set of numbers has a smallest one.
LEMMA SmallestOf ==
    ASSUME NEW T \in SUBSET Nat, T # {}
    PROVE  \E x \in T : \A y \in T : x <= y
<1>1. \E x \in T : \A y \in T : ~(<<y, x>> \in OpToRel(<, Nat))
  BY NatLessThanWellFounded, WFMin
<1>2. \A x, y \in Nat : <<y, x>> \in OpToRel(<, Nat) <=> y < x
  BY DEF OpToRel
<1>3. \A x, y \in Nat : ~(y < x) => x <= y
  OBVIOUS
<1> QED BY <1>1, <1>2, <1>3

\* A list of different IDs is no longer than the array.
LEMMA ListsFit ==
    ASSUME NEW s \in Seq(Ids), \A i, j \in 1 .. Len(s) : s[i] = s[j] => i = j
    PROVE  Len(s) \in Nat /\ Len(s) < SlotCount
<1> DEFINE n == Len(s)
<1>1. n \in Nat /\ s \in [1 .. n -> Ids] /\ SlotCount \in Nat /\ SlotCount >= 3
  BY SlotCountAssumption
<1> HIDE DEF n
<1>2. IsFiniteSet(Ids) /\ Cardinality(Ids) = SlotCount - 2
  <2>1. Ids = 2 .. SlotCount - 1
    BY DEF Ids
  <2> QED BY <1>1, <2>1, FS_Interval
<1>3. IsFiniteSet(1 .. n) /\ Cardinality(1 .. n) = n
  BY <1>1, FS_Interval
<1>4. s \in Injection(1 .. n, Ids)
  <2>1. \A i, j \in 1 .. n : s[i] = s[j] => i = j
    BY DEF n
  <2> QED BY <1>1, <2>1 DEF Injection, IsInjective
<1>5. Cardinality(1 .. n) <= Cardinality(Ids)
  BY <1>2, <1>3, <1>4, FS_Injection DEF ExistsInjection
<1> QED BY <1>1, <1>2, <1>3, <1>5 DEF n

\* The walk along a list visits it and then stays at the end.
LEMMA WalkVisits ==
    ASSUME NEW f, NEW s, Lists(f, s), NEW w, Node(f, w)
    PROVE  \A n \in 0 .. SlotCount : w[n] = IF n = 0 THEN Head0 ELSE IF n <= Len(s) THEN s[n] ELSE End
<1> DEFINE len == Len(s)
           At(n) == IF n = 0 THEN Head0 ELSE IF n <= len THEN s[n] ELSE End
           Wrong == {n \in 0 .. SlotCount : w[n] # At(n)}
<1> SUFFICES ASSUME Wrong # {} PROVE FALSE
  OBVIOUS
<1>1. SlotCount \in Nat /\ len \in Nat /\ s \in Seq(Ids)
  BY SlotCountAssumption DEF Lists
<1>2. PICK n \in Wrong : \A k \in Wrong : n <= k
  <2>1. Wrong \in SUBSET Nat
    BY <1>1
  <2> HIDE DEF Wrong
  <2> QED BY <2>1, SmallestOf
<1>3. n \in 0 .. SlotCount /\ w[n] # At(n)
  OBVIOUS
<1>4. n # 0
  BY <1>1, <1>3 DEF Node
<1>5. n - 1 \in 0 .. SlotCount /\ w[n - 1] = At(n - 1)
  <2>1. n - 1 \in 0 .. SlotCount /\ ~(n <= n - 1)
    BY <1>1, <1>3, <1>4
  <2> QED BY <1>2, <2>1
<1>6. w[n] = IF w[n - 1] = End THEN End ELSE f[w[n - 1]]
  BY <1>3, <1>4 DEF Node
<1>7. \A i \in 1 .. len : s[i] \in Ids /\ s[i] # End
  BY <1>1 DEF Ids
<1>8. s = <<>> <=> len = 0
  BY <1>1, EmptySeq
<1> HIDE DEF Wrong, len
<1>9. CASE n = 1
  <2>1. w[n] = f[Head0]
    BY <1>5, <1>6, <1>9
  <2>2. f[Head0] = IF s = <<>> THEN End ELSE s[1]
    BY DEF Lists
  <2> QED BY <1>1, <1>3, <1>8, <1>9, <2>1, <2>2
<1>10. CASE n # 1 /\ n - 1 <= len
  <2>1. n - 1 \in 1 .. len /\ w[n - 1] = s[n - 1]
    BY <1>1, <1>3, <1>4, <1>5, <1>10
  <2>2. w[n] = f[s[n - 1]]
    BY <1>6, <1>7, <2>1
  <2>3. CASE n <= len
    <3>1. n - 1 \in 1 .. len - 1 /\ (n - 1) + 1 = n
      BY <1>1, <1>3, <2>1, <2>3
    <3>2. f[s[n - 1]] = s[n]
      BY <3>1 DEF Lists, len
    <3> QED BY <1>3, <1>4, <2>2, <2>3, <3>2
  <2>4. CASE ~(n <= len)
    <3>1. n - 1 = len /\ s # <<>>
      BY <1>1, <1>3, <1>8, <2>1, <2>4
    <3>2. f[s[n - 1]] = End
      BY <3>1 DEF Lists, len
    <3> QED BY <1>3, <1>4, <2>2, <2>4, <3>2
  <2> QED BY <2>3, <2>4
<1>11. CASE n # 1 /\ ~(n - 1 <= len)
  <2>1. n - 1 # 0 /\ ~(n <= len)
    BY <1>1, <1>3, <1>4, <1>11
  <2> QED BY <1>3, <1>4, <1>5, <1>6, <1>11, <2>1
<1> QED BY <1>9, <1>10, <1>11

\* There is such a walk.
LEMMA WalkExists ==
    ASSUME NEW f, NEW s, Lists(f, s)
    PROVE  \E w : Node(f, w)
<1> DEFINE len == Len(s)
           at(n) == IF n = 0 THEN Head0 ELSE IF n <= len THEN s[n] ELSE End
           w == [n \in 0 .. SlotCount |-> at(n)]
           next(n) == IF n = 0 THEN Head0 ELSE IF w[n - 1] = End THEN End ELSE f[w[n - 1]]
<1>1. SlotCount \in Nat /\ len \in Nat /\ s \in Seq(Ids)
  BY SlotCountAssumption DEF Lists
<1>2. \A i \in 1 .. len : s[i] \in Ids /\ s[i] # End
  BY <1>1 DEF Ids
<1>3. s = <<>> <=> len = 0
  BY <1>1, EmptySeq
<1>4. ASSUME NEW n \in 0 .. SlotCount PROVE at(n) = next(n)
  <2>1. CASE n = 0
    BY <2>1
  <2>2. CASE n = 1
    <3>1. f[Head0] = IF s = <<>> THEN End ELSE s[1]
      BY DEF Lists
    <3>2. w[n - 1] = Head0
      BY <1>1, <2>2
    <3> HIDE DEF w, len
    <3> QED BY <1>1, <1>3, <2>2, <3>1, <3>2
  <2>3. CASE n > 1
    <3>1. n - 1 \in 0 .. SlotCount /\ n - 1 # 0
      BY <1>1, <2>3
    <3>2. w[n - 1] = IF n - 1 <= len THEN s[n - 1] ELSE End
      BY <3>1
    <3> HIDE DEF w, len
    <3>3. CASE n <= len
      <4>1. n - 1 \in 1 .. len - 1 /\ n - 1 \in 1 .. len /\ (n - 1) + 1 = n /\ n - 1 <= len
        BY <1>1, <2>3, <3>3
      <4>2. f[s[n - 1]] = s[n]
        BY <4>1 DEF Lists, len
      <4> QED BY <1>2, <2>3, <3>2, <3>3, <4>1, <4>2
    <3>4. CASE n = len + 1
      <4>1. n - 1 = len /\ n - 1 \in 1 .. len /\ n - 1 <= len /\ ~(n <= len) /\ s # <<>>
        BY <1>1, <1>3, <2>3, <3>4
      <4>2. f[s[n - 1]] = End
        BY <4>1 DEF Lists, len
      <4> QED BY <1>2, <2>3, <3>2, <4>1, <4>2
    <3>5. CASE n > len + 1
      <4>1. ~(n - 1 <= len) /\ ~(n <= len)
        BY <1>1, <3>5
      <4> QED BY <2>3, <3>2, <4>1
    <3> QED BY <1>1, <3>3, <3>4, <3>5
  <2> QED BY <2>1, <2>2, <2>3
<1>5. w = [n \in 0 .. SlotCount |-> next(n)]
  BY <1>4
<1> HIDE DEF w
<1>6. Node(f, w)
  BY <1>5 DEF Node
<1> QED BY <1>6

\* So the links determine the list.
LEMMA ListOfIs ==
    ASSUME NEW f, NEW s, Lists(f, s)
    PROVE  ListOf(f) = s
<1> DEFINE w == WalkOf(f)
           len == Len(s)
           Before == {n \in 1 .. SlotCount : w[n] # End}
<1>1. SlotCount \in Nat /\ len \in Nat /\ len < SlotCount /\ s \in Seq(Ids)
  BY SlotCountAssumption, ListsFit DEF Lists
<1>2. Node(f, w)
  BY WalkExists DEF WalkOf
<1> HIDE DEF w
<1>3. \A n \in 0 .. SlotCount : w[n] = IF n = 0 THEN Head0 ELSE IF n <= Len(s) THEN s[n] ELSE End
  BY <1>2, WalkVisits
<1>4. \A i \in 1 .. len : s[i] # End
  BY <1>1 DEF Ids
<1>5. \A n \in 1 .. SlotCount : w[n] = IF n <= len THEN s[n] ELSE End
  <2>1. \A n \in 1 .. SlotCount : n \in 0 .. SlotCount /\ n # 0
    BY <1>1
  <2> QED BY <1>3, <2>1
<1> HIDE DEF len
<1>6. Before = 1 .. len
  <2>1. \A n : n \in 1 .. len <=> n \in 1 .. SlotCount /\ n <= len
    BY <1>1
  <2> QED BY <1>4, <1>5, <2>1
<1>7. Cardinality(Before) = len
  <2>1. Cardinality(1 .. len) = len
    BY <1>1, FS_Interval
  <2> HIDE DEF Before
  <2> QED BY <1>6, <2>1
<1>8. \A n \in 1 .. len : w[n] = s[n]
  BY <1>1, <1>5
<1>9. ListOf(f) = [n \in 1 .. len |-> w[n]]
  BY <1>7 DEF ListOf, w
<1>10. s = [n \in 1 .. len |-> s[n]]
  BY <1>1 DEF len
<1> HIDE DEF Before
<1> QED BY <1>8, <1>9, <1>10

-------------------------------------------------------------------------------
(* The refinement *)

\* A sequence is empty when it has no elements, and its last element is one of them.
LEMMA Nonempty ==
    ASSUME NEW S, NEW s \in Seq(S)
    PROVE  /\ Len(s) \in Nat /\ (s = <<>> <=> Len(s) = 0)
           /\ \A i \in 1 .. Len(s) : s[i] \in S
           /\ s # <<>> => Len(s) \in 1 .. Len(s) /\ 1 \in 1 .. Len(s)
<1>1. Len(s) \in Nat /\ (s = <<>> <=> Len(s) = 0) /\ \A i \in 1 .. Len(s) : s[i] \in S
  BY EmptySeq
<1>2. \A n \in Nat : n # 0 => n \in 1 .. n /\ 1 \in 1 .. n
  OBVIOUS
<1> QED BY <1>1, <1>2

\* id_pool_create: the list is FirstId .. SlotCount - 1.
LEMMA CreateHolds ==
    ASSUME Init
    PROVE  Holds(links, [i \in 1 .. SlotCount - FirstId |-> i + FirstId - 1])
<1> DEFINE n == SlotCount - 2
           s == [i \in 1 .. n |-> i + 1]
<1>1. n \in Nat \ {0} /\ SlotCount = n + 2 /\ n + 1 = SlotCount - 1
  BY SlotCountAssumption
<1>2. [i \in 1 .. SlotCount - FirstId |-> i + FirstId - 1] = s
  OBVIOUS
<1>3. /\ links[0] = 2
      /\ \A x \in Ids : links[x] = IF x < SlotCount - 1 THEN x + 1 ELSE End
  BY <1>1 DEF Init, Create, Ids, Slots
<1> HIDE DEF n
<1>4. s \in Seq(Ids) /\ Len(s) = n /\ \A i \in 1 .. n : s[i] = i + 1
  BY <1>1 DEF Ids
<1> HIDE DEF s
<1>5. s # <<>> /\ 1 \in 1 .. n /\ n \in 1 .. n
  BY <1>1, <1>4, EmptySeq
<1>6. \A i, j \in 1 .. Len(s) : s[i] = s[j] => i = j
  BY <1>1, <1>4
<1>7. links[0] = s[1]
  BY <1>3, <1>4, <1>5
<1>8. ASSUME NEW i \in 1 .. n - 1 PROVE links[s[i]] = s[i + 1]
  <2>1. i \in 1 .. n /\ i + 1 \in 1 .. n /\ i + 1 \in Ids /\ i + 1 < SlotCount - 1
    BY <1>1 DEF Ids
  <2> QED BY <1>3, <1>4, <2>1
<1>9. links[s[n]] = End
  <2>1. n + 1 \in Ids /\ ~(n + 1 < SlotCount - 1)
    BY <1>1 DEF Ids
  <2> QED BY <1>3, <1>4, <1>5, <2>1
<1>10. Lists(links, s)
  BY <1>4, <1>5, <1>6, <1>7, <1>8, <1>9 DEF Lists
<1>11. {s[i] : i \in 1 .. Len(s)} = {x \in Ids : links[x] # Allocated}
  <2>1. \A x \in Ids : links[x] # Allocated
    BY <1>3 DEF Ids
  <2>2. \A x \in Ids : x - 1 \in 1 .. n /\ s[x - 1] = x
    BY <1>1, <1>4 DEF Ids
  <2>3. \A i \in 1 .. n : s[i] \in Ids
    BY <1>4
  <2> QED BY <1>4, <2>1, <2>2, <2>3
<1> QED BY <1>2, <1>10, <1>11 DEF Holds

\* id_pool_alloc takes the first of the list.
LEMMA AllocTakes ==
    ASSUME IInv, AllocOldest, NEW s, Holds(links, s)
    PROVE  s # <<>> /\ links[Head0] = Head(s) /\ Holds(links', Tail(s))
<1> DEFINE len == Len(s)
           h == links[Head0]
           t == Tail(s)
<1>1. s \in Seq(Ids) /\ s # <<>> /\ h = s[1] /\ h # End
  BY DEF Holds, Lists, AllocOldest
<1>2. /\ len \in Nat /\ len # 0 /\ 1 \in 1 .. len /\ len \in 1 .. len
      /\ \A i \in 1 .. len : s[i] \in Ids /\ s[i] \in Slots /\ s[i] # 0
  <2>1. len \in Nat /\ len # 0 /\ 1 \in 1 .. len /\ len \in 1 .. len /\ \A i \in 1 .. len : s[i] \in Ids
    BY <1>1, Nonempty
  <2> QED BY <2>1, SlotCountAssumption DEF Ids, Slots
<1>3. t \in Seq(Ids) /\ Len(t) = len - 1 /\ \A i \in 1 .. len - 1 : t[i] = s[i + 1]
  BY <1>1, <1>2, HeadTailProperties
<1> HIDE DEF t
<1>4. \A i, j \in 1 .. len : s[i] = s[j] => i = j
  BY DEF Holds, Lists
<1>5. /\ links'[Head0] = links[h] /\ links'[h] = Allocated
      /\ \A x \in Ids : x # h => links'[x] = links[x]
  <2>1. links \in [Slots -> Slots] /\ h \in Ids /\ 0 \in Slots /\ h \in Slots /\ h # 0
    BY <1>1, <1>2, SlotCountAssumption DEF IInv, TypeOK, Slots
  <2>2. \A x \in Ids : x \in Slots /\ x # 0
    BY SlotCountAssumption DEF Ids, Slots
  <2>3. links' = [links EXCEPT ![Head0] = links[h], ![h] = Allocated]
    BY DEF AllocOldest
  <2> HIDE DEF h
  <2> QED BY <2>1, <2>2, <2>3
<1> HIDE DEF h, len
<1>6. \A i \in 1 .. len - 1 : /\ i \in 1 .. len /\ i + 1 \in 1 .. len
                              /\ t[i] = s[i + 1] /\ t[i] # h /\ t[i] \in Ids
  <2>1. \A i \in 1 .. len - 1 : i \in 1 .. len /\ i + 1 \in 1 .. len /\ i + 1 # 1
    BY <1>2
  <2> QED BY <1>1, <1>2, <1>3, <1>4, <2>1
<1>7. Lists(links', t)
  <2>1. \A i, j \in 1 .. Len(t) : t[i] = t[j] => i = j
    <3> SUFFICES ASSUME NEW i \in 1 .. len - 1, NEW j \in 1 .. len - 1, t[i] = t[j] PROVE i = j
      BY <1>3
    <3>1. i + 1 = j + 1
      BY <1>4, <1>6
    <3> QED BY <1>2, <3>1
  <2>2. links'[Head0] = IF t = <<>> THEN End ELSE t[1]
    <3>1. CASE len = 1
      <4>1. t = <<>> /\ links[s[1]] = End
        BY <1>1, <1>3, <3>1, EmptySeq DEF Holds, Lists, len
      <4> QED BY <1>1, <1>5, <4>1
    <3>2. CASE len # 1
      <4>1. 1 \in 1 .. len - 1 /\ t # <<>>
        BY <1>2, <1>3, <3>2, EmptySeq
      <4>2. links[s[1]] = s[2]
        BY <4>1 DEF Holds, Lists, len
      <4> QED BY <1>1, <1>3, <1>5, <4>1, <4>2
    <3> QED BY <3>1, <3>2
  <2>3. ASSUME NEW i \in 1 .. Len(t) - 1 PROVE links'[t[i]] = t[i + 1]
    <3>1. i \in 1 .. len - 1 /\ i + 1 \in 1 .. len - 1
      BY <1>2, <1>3
    <3>2. links[s[i + 1]] = s[i + 1 + 1]
      BY <3>1 DEF Holds, Lists, len
    <3> QED BY <1>3, <1>5, <1>6, <3>1, <3>2
  <2>4. ASSUME t # <<>> PROVE links'[t[Len(t)]] = End
    <3>1. len - 1 # 0 /\ len - 1 \in 1 .. len - 1 /\ (len - 1) + 1 = len
      BY <1>2, <1>3, <2>4, EmptySeq
    <3>2. links[s[len]] = End
      BY <1>1 DEF Holds, Lists, len
    <3> QED BY <1>3, <1>5, <1>6, <3>1, <3>2
  <2> QED BY <1>3, <2>1, <2>2, <2>3, <2>4 DEF Lists
<1>8. {t[i] : i \in 1 .. Len(t)} = {x \in Ids : links'[x] # Allocated}
  <2>1. ASSUME NEW x \in Ids, links'[x] # Allocated PROVE \E i \in 1 .. len - 1 : t[i] = x
    <3>1. x # h /\ links[x] # Allocated
      BY <1>5, <2>1
    <3>2. PICK j \in 1 .. len : s[j] = x
      BY <3>1 DEF Holds, len
    <3>3. j - 1 \in 1 .. len - 1 /\ (j - 1) + 1 = j
      BY <1>1, <1>2, <3>1, <3>2
    <3> QED BY <1>6, <3>2, <3>3
  <2>2. ASSUME NEW i \in 1 .. len - 1 PROVE t[i] \in Ids /\ links'[t[i]] # Allocated
    <3>1. s[i + 1] \in {x \in Ids : links[x] # Allocated}
      BY <1>6 DEF Holds, len
    <3> QED BY <1>5, <1>6, <3>1
  <2> QED BY <1>3, <2>1, <2>2
<1>9. h = Head(s)
  BY <1>1
<1> QED BY <1>1, <1>7, <1>8, <1>9 DEF Holds, t, h

\* id_pool_release appends to it.
LEMMA ReleaseAppends ==
    ASSUME IInv, NEW id, Accepts(id), AppendFree(id), NEW s, Holds(links, s)
    PROVE  Holds(links', Append(s, id))
<1> DEFINE len == Len(s)
           t == Append(s, id)
           tail == links[Tail0]
<1>1. s \in Seq(Ids) /\ id \in Ids /\ links[id] = Allocated /\ links \in [Slots -> Slots]
  BY DEF Holds, Lists, Accepts, IInv, TypeOK
<1>2. /\ len \in Nat /\ (s = <<>> <=> len = 0)
      /\ \A i \in 1 .. len : s[i] \in Ids /\ s[i] # End
      /\ s # <<>> => len \in 1 .. len /\ 1 \in 1 .. len
  <2>1. /\ len \in Nat /\ (s = <<>> <=> len = 0) /\ \A i \in 1 .. len : s[i] \in Ids
        /\ s # <<>> => len \in 1 .. len /\ 1 \in 1 .. len
    BY <1>1, Nonempty
  <2> QED BY <2>1 DEF Ids
<1>3. /\ t \in Seq(Ids) /\ Len(t) = len + 1 /\ t[len + 1] = id
      /\ \A i \in 1 .. len : t[i] = s[i]
  BY <1>1, <1>2, AppendProperties
<1> HIDE DEF t
<1>4. {s[i] : i \in 1 .. len} = {x \in Ids : links[x] # Allocated}
  BY DEF Holds
<1>5. \A i \in 1 .. len : s[i] # id
  BY <1>1, <1>4
<1>6. \A x \in Ids : x \in Slots /\ x # 0 /\ x # 1
  BY SlotCountAssumption DEF Ids, Slots
<1>7. 0 \in Slots /\ 1 \in Slots
  BY SlotCountAssumption DEF Slots
<1>8. links[Head0] = End <=> s = <<>>
  BY <1>2 DEF Holds, Lists
<1>9. ASSUME s # <<>> PROVE tail = s[len]
  <2>1. tail \in Ids /\ links[tail] = End /\ links[tail] # Allocated
    BY <1>8, <1>9 DEF IInv, LinkInv, TailIsLast, FreeIds
  <2>2. PICK i \in 1 .. len : s[i] = tail
    BY <1>4, <2>1
  <2>3. i \in 1 .. len - 1 => links[s[i]] = s[i + 1] /\ i + 1 \in 1 .. len
    BY <1>2 DEF Holds, Lists
  <2>4. i \notin 1 .. len - 1
    BY <1>2, <2>1, <2>2, <2>3
  <2>5. i = len
    BY <1>2, <2>4
  <2> QED BY <2>2, <2>5
<1>10. /\ links'[id] = End
       /\ links'[Head0] = IF s = <<>> THEN id ELSE links[Head0]
       /\ \A x \in Ids : x # id => links'[x] = IF s # <<>> /\ x = tail THEN id ELSE links[x]
  <2>1. CASE s = <<>>
    <3>1. links' = [links EXCEPT ![id] = End, ![Head0] = id, ![Tail0] = id]
      BY <1>8, <2>1 DEF AppendFree
    <3> QED BY <1>1, <1>6, <1>7, <2>1, <3>1
  <2>2. CASE s # <<>>
    <3>1. links' = [links EXCEPT ![id] = End, ![tail] = id, ![Tail0] = id]
      BY <1>8, <2>2 DEF AppendFree
    <3>2. tail \in Ids /\ tail # id
      BY <1>2, <1>5, <1>9, <2>2
    <3> HIDE DEF tail
    <3> QED BY <1>1, <1>6, <1>7, <2>2, <3>1, <3>2
  <2> QED BY <2>1, <2>2
<1> HIDE DEF len, tail
<1>11. \A i \in 1 .. len : t[i] = s[i] /\ t[i] # id /\ s[i] \in Ids
  BY <1>2, <1>3, <1>5
<1>12. \A i : i \in 1 .. len + 1 <=> i \in 1 .. len \/ i = len + 1
  BY <1>2
<1>13. Lists(links', t)
  <2>1. \A i, j \in 1 .. Len(t) : t[i] = t[j] => i = j
    <3>1. \A i, j \in 1 .. len : s[i] = s[j] => i = j
      BY DEF Holds, Lists, len
    <3> QED BY <1>3, <1>11, <1>12, <3>1
  <2>2. t # <<>>
    BY <1>2, <1>3, EmptySeq
  <2>3. links'[Head0] = t[1]
    <3>1. CASE s = <<>>
      BY <1>2, <1>3, <1>10, <3>1
    <3>2. CASE s # <<>>
      <4>1. links[Head0] = s[1]
        BY <3>2 DEF Holds, Lists
      <4> QED BY <1>2, <1>3, <1>10, <3>2, <4>1
    <3> QED BY <3>1, <3>2
  <2>4. ASSUME NEW i \in 1 .. Len(t) - 1 PROVE links'[t[i]] = t[i + 1]
    <3>1. i \in 1 .. len /\ s # <<>>
      BY <1>2, <1>3
    <3>2. CASE i = len
      BY <1>3, <1>9, <1>10, <1>11, <3>1, <3>2
    <3>3. CASE i # len
      <4>1. i \in 1 .. len - 1 /\ i + 1 \in 1 .. len /\ len \in 1 .. len
        BY <1>2, <3>1, <3>3
      <4>2. links[s[i]] = s[i + 1] /\ s[i] # s[len]
        BY <3>3, <4>1, <3>1 DEF Holds, Lists, len
      <4> QED BY <1>3, <1>9, <1>10, <1>11, <3>1, <4>1, <4>2
    <3> QED BY <3>2, <3>3
  <2>5. links'[t[Len(t)]] = End
    BY <1>3, <1>10
  <2> QED BY <1>3, <2>1, <2>2, <2>3, <2>4, <2>5 DEF Lists
<1>14. {t[i] : i \in 1 .. Len(t)} = {x \in Ids : links'[x] # Allocated}
  <2>1. ASSUME NEW x \in Ids, links'[x] # Allocated PROVE \E i \in 1 .. len + 1 : t[i] = x
    <3>1. CASE x = id
      BY <1>3, <1>12, <3>1
    <3>2. CASE x # id
      <4>1. links[x] # Allocated
        <5>1. CASE s # <<>> /\ x = tail
          BY <1>2, <1>4, <1>9, <5>1 DEF len
        <5>2. CASE ~(s # <<>> /\ x = tail)
          BY <1>10, <2>1, <3>2, <5>2
        <5> QED BY <5>1, <5>2
      <4>2. PICK i \in 1 .. len : s[i] = x
        BY <1>4, <4>1
      <4> QED BY <1>3, <1>12, <4>2
    <3> QED BY <3>1, <3>2
  <2>2. ASSUME NEW i \in 1 .. len PROVE t[i] \in Ids /\ links'[t[i]] # Allocated
    <3>1. links[s[i]] # Allocated
      BY <1>4
    <3>2. id # Allocated
      BY <1>1 DEF Ids
    <3> QED BY <1>10, <1>11, <3>1, <3>2
  <2>3. id \in Ids /\ links'[id] # Allocated
    BY <1>1, <1>10
  <2> QED BY <1>3, <1>12, <2>1, <2>2, <2>3
<1> QED BY <1>13, <1>14 DEF Holds, t

\* The links hold the list of all free IDs.
Listed == Holds(links, FreeList)

\* FreeList is what the links hold, before a call and after it.
LEMMA FreeListIs ==
    /\ \A s : Lists(links, s) => FreeList = s
    /\ \A s : Lists(links', s) => FreeList' = s
<1>1. FreeList = ListOf(links)
  BY DEF FreeList, Walk, ListOf, WalkOf, Node
<1>2. FreeList' = ListOf(links')
  BY DEF FreeList, Walk, ListOf, WalkOf, Node
<1> QED BY <1>1, <1>2, ListOfIs

\* "Pop the oldest free ID", "append an allocated ID": the linked array of id_pool.c returns
\* what a queue returns, for every capacity and every sequence of calls (id_pool.h).
THEOREM Refinement == Spec => ImplementsFifo
<1>1. Init => Listed /\ Fifo!Init
  <2> SUFFICES ASSUME Init PROVE Listed /\ Fifo!Init
    OBVIOUS
  <2> DEFINE s == [i \in 1 .. SlotCount - FirstId |-> i + FirstId - 1]
  <2>1. Holds(links, s)
    BY CreateHolds
  <2> HIDE DEF s
  <2>2. FreeList = s
    BY <2>1, FreeListIs DEF Holds
  <2>3. result = [op |-> "create", id |-> -1]
    BY DEF Init, Create
  <2> QED BY <2>1, <2>2, <2>3 DEF Listed, Fifo!Init, Fifo!FirstId, s
<1>2. IInv /\ Listed /\ [Next]_vars => Listed' /\ [Fifo!Next]_Fifo!fifoVars
  <2> SUFFICES ASSUME IInv, Listed, [Next]_vars PROVE Listed' /\ [Fifo!Next]_Fifo!fifoVars
    OBVIOUS
  <2> DEFINE s == FreeList
  <2>1. Holds(links, s)
    BY DEF Listed
  <2>2. ASSUME NEW t, Holds(links', t) PROVE FreeList' = t /\ Listed'
    BY <2>2, FreeListIs DEF Holds, Listed
  <2>3. s \in Seq(Ids) /\ (links[Head0] = End <=> s = <<>>)
    <3>1. s \in Seq(Ids) /\ \A i \in 1 .. Len(s) : s[i] # End
      BY <2>1, SMTT(30) DEF Holds, Lists, Ids
    <3>2. links[Head0] = IF s = <<>> THEN End ELSE s[1]
      BY <2>1 DEF Holds, Lists
    <3>3. s # <<>> => s[1] # End
      BY <3>1, Nonempty
    <3> QED BY <3>1, <3>2, <3>3
  <2>4. Fifo!FreeIds = {x \in Ids : links[x] # Allocated} /\ Fifo!Ids = Ids
    <3>1. Fifo!FreeIds = {s[i] : i \in 1 .. Len(s)}
      BY <2>3 DEF Fifo!FreeIds
    <3> QED BY <2>1, <3>1 DEF Holds, Ids, Fifo!Ids, Fifo!FirstId
  <2>5. CASE AllocOldest
    <3>1. s # <<>> /\ links[Head0] = Head(s) /\ Holds(links', Tail(s))
      BY <2>1, <2>5, AllocTakes
    <3>2. FreeList' = Tail(s) /\ Listed'
      BY <2>2, <3>1
    <3>3. result' = [op |-> "alloc", id |-> Head(s)]
      BY <2>5, <3>1 DEF AllocOldest
    <3> QED BY <3>1, <3>2, <3>3 DEF Fifo!Next, Fifo!Alloc
  <2>6. CASE AllocNone
    <3>1. s = <<>> /\ links' = links /\ result' = [op |-> "alloc", id |-> -1]
      BY <2>3, <2>6 DEF AllocNone
    <3>2. FreeList' = s /\ Listed'
      BY <2>1, <2>2, <3>1
    <3> QED BY <3>1, <3>2 DEF Fifo!Next, Fifo!Alloc
  <2>7. ASSUME NEW id \in Requests, Release(id) PROVE Listed' /\ Fifo!Next
    <3>1. Accepts(id) <=> id \in Fifo!Ids \ Fifo!FreeIds
      BY <2>4 DEF Accepts
    <3>2. CASE Accepts(id)
      <4>1. AppendFree(id) /\ result' = [op |-> "released", id |-> id]
        BY <2>7, <3>2 DEF Release
      <4>2. Holds(links', Append(s, id))
        BY <2>1, <3>2, <4>1, ReleaseAppends
      <4>3. FreeList' = Append(s, id) /\ Listed'
        BY <2>2, <4>2
      <4>4. Fifo!Release(id)
        BY <3>1, <3>2, <4>1, <4>3 DEF Fifo!Release
      <4> QED BY <4>3, <4>4 DEF Fifo!Next
    <3>3. CASE ~Accepts(id)
      <4>1. links' = links /\ result' = [op |-> "refused", id |-> id]
        BY <2>7, <3>3 DEF Release
      <4>2. FreeList' = s /\ Listed'
        BY <2>1, <2>2, <4>1
      <4>3. Fifo!Release(id)
        BY <3>1, <3>3, <4>1, <4>2 DEF Fifo!Release
      <4> QED BY <4>2, <4>3 DEF Fifo!Next
    <3> QED BY <3>2, <3>3
  <2>8. CASE UNCHANGED vars
    <3>1. FreeList' = s /\ Listed' /\ result' = result
      BY <2>1, <2>2, <2>8 DEF vars
    <3> QED BY <3>1 DEF Fifo!fifoVars
  <2> QED BY <2>5, <2>6, <2>7, <2>8 DEF Next
<1> QED BY <1>1, <1>2, InductiveInvariant, PTL DEF Spec, ImplementsFifo, Fifo!Spec
===============================================================================
