---------------------------- MODULE ThreadProofs ----------------------------
(***************************************************************************)
(* Theorems about Thread for every number of threads, images and IDs.      *)
(***************************************************************************)
EXTENDS Thread, FiniteSetTheorems, TLAPS

-------------------------------------------------------------------------------
(* The lists: what appending, taking the head and removing does to them *)

\* Appending an element that is not in a list of distinct elements keeps them distinct.
LEMMA AppendDistinct ==
    ASSUME NEW S, NEW q \in Seq(S), NEW x \in S, Distinct(q), x \notin InQueue(q)
    PROVE  /\ Append(q, x) \in Seq(S)
           /\ InQueue(Append(q, x)) = InQueue(q) \cup {x}
           /\ Distinct(Append(q, x))
<1>1. Append(q, x) \in Seq(S) /\ Len(Append(q, x)) = Len(q) + 1
  OBVIOUS
<1>2. \A i \in 1 .. Len(q) : Append(q, x)[i] = q[i]
  OBVIOUS
<1>3. Append(q, x)[Len(q) + 1] = x
  OBVIOUS
<1>4. DOMAIN Append(q, x) = 1 .. Len(q) + 1 /\ DOMAIN q = 1 .. Len(q) /\ Len(q) \in Nat
  BY <1>1
<1>5. InQueue(Append(q, x)) = InQueue(q) \cup {x}
  BY <1>2, <1>3, <1>4 DEF InQueue
<1>6. Distinct(Append(q, x))
  BY <1>2, <1>3, <1>4 DEF InQueue, Distinct
<1> QED BY <1>1, <1>5, <1>6

\* Taking the head off a list of distinct elements leaves the others.
LEMMA TailDistinct ==
    ASSUME NEW S, NEW q \in Seq(S), q # <<>>, Distinct(q)
    PROVE  /\ Head(q) \in S /\ Tail(q) \in Seq(S)
           /\ Head(q) \in InQueue(q)
           /\ InQueue(Tail(q)) = InQueue(q) \ {Head(q)}
           /\ Distinct(Tail(q))
<1>1. Len(q) \in Nat /\ Len(q) >= 1 /\ DOMAIN q = 1 .. Len(q)
  OBVIOUS
<1>2. Tail(q) \in Seq(S) /\ DOMAIN Tail(q) = 1 .. Len(q) - 1
  OBVIOUS
<1>3. \A i \in 1 .. Len(q) - 1 : Tail(q)[i] = q[i + 1]
  OBVIOUS
<1>4. Head(q) = q[1] /\ Head(q) \in S
  OBVIOUS
<1>5. InQueue(Tail(q)) \subseteq InQueue(q) \ {Head(q)}
  BY <1>1, <1>2, <1>3, <1>4 DEF InQueue, Distinct
<1>6. ASSUME NEW x \in InQueue(q), x # Head(q) PROVE x \in InQueue(Tail(q))
  <2>1. PICK i \in 1 .. Len(q) : q[i] = x
    BY <1>1 DEF InQueue
  <2>2. i - 1 \in 1 .. Len(q) - 1 /\ Tail(q)[i - 1] = x
    BY <1>1, <1>3, <1>4, <1>6, <2>1
  <2> QED BY <1>2, <2>2 DEF InQueue
<1>7. Distinct(Tail(q))
  BY <1>1, <1>2, <1>3 DEF Distinct
<1>8. Head(q) \in InQueue(q)
  BY <1>1, <1>4 DEF InQueue
<1> QED BY <1>2, <1>4, <1>5, <1>6, <1>7, <1>8

\* Unlinking an element of a list of distinct elements leaves the others.
LEMMA WithoutDistinct ==
    ASSUME NEW S, NEW q \in Seq(S), NEW t \in InQueue(q), Distinct(q)
    PROVE  /\ Without(q, t) \in Seq(S)
           /\ InQueue(Without(q, t)) = InQueue(q) \ {t}
           /\ Distinct(Without(q, t))
<1>1. Len(q) \in Nat /\ DOMAIN q = 1 .. Len(q) /\ \A i \in 1 .. Len(q) : q[i] \in S
  OBVIOUS
<1> DEFINE p == CHOOSE i \in DOMAIN q : q[i] = t
           w == [i \in 1 .. Len(q) - 1 |-> IF i < p THEN q[i] ELSE q[i + 1]]
<1>2. p \in 1 .. Len(q) /\ q[p] = t
  BY <1>1 DEF InQueue
<1>3. Without(q, t) = w
  BY DEF Without
<1> HIDE DEF p
<1>4. w \in Seq(S)
  <2>1. \A i \in 1 .. Len(q) - 1 : w[i] \in S
    BY <1>1, <1>2
  <2>2. Len(q) - 1 \in Nat
    BY <1>1, <1>2
  <2> QED BY <2>1, <2>2
<1>5. DOMAIN w = 1 .. Len(q) - 1
  OBVIOUS
<1>6. \A i \in 1 .. Len(q) - 1 : w[i] = IF i < p THEN q[i] ELSE q[i + 1]
  OBVIOUS
<1> HIDE DEF w
<1>7. InQueue(w) \subseteq InQueue(q) \ {t}
  <2>1. ASSUME NEW k \in 1 .. Len(q) - 1 PROVE w[k] \in InQueue(q) /\ w[k] # t
    <3>1. PICK j \in 1 .. Len(q) : w[k] = q[j] /\ j # p
      <4>1. k \in 1 .. Len(q) /\ k + 1 \in 1 .. Len(q) /\ (k < p => k # p) /\ (~(k < p) => k + 1 # p)
        BY ONLY <1>1, <1>2, <2>1
      <4> QED BY <1>6, <4>1
    <3> QED BY <1>1, <1>2, <3>1 DEF InQueue, Distinct
  <2> QED BY <1>5, <2>1 DEF InQueue
<1>8. ASSUME NEW x \in InQueue(q), x # t PROVE x \in InQueue(w)
  <2>1. PICK i \in 1 .. Len(q) : q[i] = x
    BY <1>1 DEF InQueue
  <2>2. CASE i < p
    <3>1. i \in 1 .. Len(q) - 1
      BY ONLY <1>1, <1>2, <2>1, <2>2
    <3>2. w[i] = x
      BY <1>6, <2>1, <2>2, <3>1
    <3> QED BY <1>5, <3>1, <3>2 DEF InQueue
  <2>3. CASE i > p
    <3>1. i - 1 \in 1 .. Len(q) - 1 /\ w[i - 1] = x
      BY <1>1, <1>2, <1>6, <2>1, <2>3
    <3> QED BY <1>5, <3>1 DEF InQueue
  <2> QED BY <1>1, <1>2, <1>8, <2>1, <2>2, <2>3
<1>9. ASSUME NEW i \in DOMAIN w, NEW j \in DOMAIN w, w[i] = w[j] PROVE i = j
  <2>1. /\ i \in 1 .. Len(q) /\ i + 1 \in 1 .. Len(q)
        /\ j \in 1 .. Len(q) /\ j + 1 \in 1 .. Len(q)
    BY <1>1, <1>5
  <2>2. \A k, l \in 1 .. Len(q) : q[k] = q[l] => k = l
    BY <1>1 DEF Distinct
  <2>3. CASE i < p /\ j < p
    BY <1>5, <1>6, <1>9, <2>1, <2>2, <2>3
  <2>4. CASE i < p /\ ~(j < p)
    <3>1. i = j + 1
      BY <1>5, <1>6, <1>9, <2>1, <2>2, <2>4
    <3> QED BY <1>2, <1>5, <2>1, <2>4, <3>1
  <2>5. CASE ~(i < p) /\ j < p
    <3>1. j = i + 1
      BY <1>5, <1>6, <1>9, <2>1, <2>2, <2>5
    <3> QED BY <1>2, <1>5, <2>1, <2>5, <3>1
  <2>6. CASE ~(i < p) /\ ~(j < p)
    <3>1. i + 1 = j + 1
      BY <1>5, <1>6, <1>9, <2>1, <2>2, <2>6
    <3> QED BY <1>5, <2>1, <3>1
  <2> QED BY <2>3, <2>4, <2>5, <2>6
<1>10. Distinct(w)
  BY <1>9 DEF Distinct
<1> QED BY <1>3, <1>4, <1>7, <1>8, <1>10
-------------------------------------------------------------------------------
(* The inductive invariant and the steps that leave the life of every thread alone *)

\* Types, lists, modes, IDs and reference counts support one another: reclaiming is only
\* typed because zombies are dead, exits only because boot and idle are not user threads.
IInv == TypeOK /\ QueueIntegrity /\ Modes /\ IdAccounting /\ ImageAccounting

\* A thread table in which every thread is what it is in thread, up to what it is doing.
Same(table) ==
    /\ table \in [All -> ThreadObjects]
    /\ \A t \in All : /\ table[t].state = thread[t].state
                      /\ table[t].id = thread[t].id
                      /\ table[t].user = thread[t].user
                      /\ table[t].image = thread[t].image
                      /\ table[t].phase \in UserPhases => table[t].user

\* The threads whose code is in an image.
ImageUsers(i) == {t \in Created : thread[t].image = i}

\* The sets that the invariant counts do not change in such a step.
LEMMA SameSets ==
    ASSUME Same(thread')
    PROVE  /\ Live' = Live /\ Dead' = Dead /\ Created' = Created
           /\ \A i : ImageUsers(i)' = ImageUsers(i)
BY DEF Same, Live, Dead, Created, ImageUsers, All

\* Boot and idle have all the rights of a live thread but are not blocks of the heap.
LEMMA FiniteCreated == IsFiniteSet(Created) /\ \A i : IsFiniteSet(ImageUsers(i))
BY FiniteAssumption, FS_Subset DEF Created, ImageUsers

\* What a step that keeps every thread and the accounts does to the invariant, apart
\* from the run queue.
LEMMA KeepAccounts ==
    ASSUME IInv, Same(thread'),
           UNCHANGED <<zombies, thread_ids, allocated_threads, image_refs>>,
           heap' \subseteq Kinds \X Threads,
           preemption_started' \in BOOLEAN,
           reaped' \in 0 .. ReapLimit,
           current' \in Live, run_queue' \in Seq(All), Distinct(run_queue'),
           InQueue(run_queue') = Live \ {current'}
    PROVE  IInv'
<1>1. Live' = Live /\ Dead' = Dead /\ Created' = Created
  BY SameSets
<1>2. TypeOK'
  BY <1>1 DEF IInv, TypeOK, Same, Live
<1>3. QueueIntegrity'
  BY <1>1 DEF IInv, QueueIntegrity
<1>4. Modes'
  BY DEF IInv, Modes, Same, All
<1>5. IdAccounting'
  <2>1. \A t \in Live \cup Dead : thread'[t].id = thread[t].id
    BY DEF Same, Live, Dead
  <2>2. {thread'[t].id : t \in Live} = {thread[t].id : t \in Live}
    BY <2>1
  <2>3. thread'[Boot].id = thread[Boot].id /\ thread'[Idle].id = thread[Idle].id
    BY DEF Same, All
  <2> QED BY <1>1, <2>1, <2>2, <2>3 DEF IInv, IdAccounting
<1>6. ImageAccounting'
  BY SameSets DEF IInv, ImageAccounting, ImageUsers
<1> QED BY <1>2, <1>3, <1>4, <1>5, <1>6 DEF IInv

\* Such a step without a switch.
LEMMA KeepInv ==
    ASSUME IInv, Same(thread'),
           UNCHANGED <<zombies, thread_ids, queues, allocated_threads, image_refs>>,
           heap' \subseteq Kinds \X Threads,
           preemption_started' \in BOOLEAN,
           reaped' \in 0 .. ReapLimit
    PROVE  IInv'
BY KeepAccounts DEF IInv, TypeOK, QueueIntegrity, queues

\* Such a step that ends in schedule(): the running thread goes to the end of the queue
\* and the first one runs, which may be the same.
LEMMA ScheduleInv ==
    ASSUME IInv, Same(thread'), Schedule(thread),
           UNCHANGED <<zombies, thread_ids, storage>>,
           preemption_started' \in BOOLEAN,
           reaped' \in 0 .. ReapLimit
    PROVE  IInv'
<1> DEFINE q == Append(run_queue, current)
<1>1. current \in Live /\ run_queue \in Seq(All) /\ current \notin InQueue(run_queue)
  BY DEF IInv, TypeOK, QueueIntegrity
<1>2. current' = Head(q) /\ run_queue' = Tail(q)
  BY <1>1 DEF Schedule, Live
<1>3. q \in Seq(All) /\ InQueue(q) = Live /\ Distinct(q)
  <2>1. Distinct(run_queue) /\ InQueue(run_queue) = Live \ {current}
    BY DEF IInv, QueueIntegrity
  <2>2. /\ q \in Seq(All) /\ InQueue(q) = InQueue(run_queue) \cup {current} /\ Distinct(q)
    BY <1>1, <2>1, AppendDistinct DEF Live
  <2> QED BY <1>1, <2>1, <2>2
<1>4. q # <<>>
  <2>1. Len(q) = Len(run_queue) + 1 /\ Len(run_queue) \in Nat
    BY <1>1
  <2> QED BY <2>1
<1> HIDE DEF q
<1>5. /\ current' \in Live /\ run_queue' \in Seq(All) /\ Distinct(run_queue')
      /\ InQueue(run_queue') = Live \ {current'}
  BY <1>2, <1>3, <1>4, TailDistinct
<1> QED BY <1>5, KeepAccounts DEF IInv, TypeOK, storage
-------------------------------------------------------------------------------
(* The steps that begin or end a life *)

\* The pool after its oldest ID was taken and perhaps released again.
LEMMA TakenId ==
    ASSUME IInv, thread_ids # <<>>
    PROVE  LET id == Head(thread_ids)
           IN  /\ id \in Ids /\ id \in InQueue(thread_ids)
               /\ \A t \in Live : thread[t].id # id
               /\ Tail(thread_ids) \in Seq(Ids) /\ Distinct(Tail(thread_ids))
               /\ InQueue(Tail(thread_ids)) = InQueue(thread_ids) \ {id}
               /\ ReleaseId(Tail(thread_ids), id) = Append(Tail(thread_ids), id)
<1>1. thread_ids \in Seq(Ids) /\ Distinct(thread_ids)
  BY DEF IInv, TypeOK, IdAccounting
<1>2. /\ Head(thread_ids) \in Ids /\ Tail(thread_ids) \in Seq(Ids)
      /\ Head(thread_ids) \in InQueue(thread_ids)
      /\ InQueue(Tail(thread_ids)) = InQueue(thread_ids) \ {Head(thread_ids)}
      /\ Distinct(Tail(thread_ids))
  BY <1>1, TailDistinct
<1>3. \A t \in Live : thread[t].id # Head(thread_ids)
  BY <1>2 DEF IInv, IdAccounting
<1>4. ReleaseId(Tail(thread_ids), Head(thread_ids)) = Append(Tail(thread_ids), Head(thread_ids))
  BY <1>2 DEF ReleaseId
<1> QED BY <1>2, <1>3, <1>4

\* Publishing a new thread: it is queued, counted and holds the ID and one reference.
LEMMA PublishInv ==
    ASSUME IInv, NEW table, Same(table), NEW t \in Unused, NEW object \in ThreadObjects,
           NEW taken \in SUBSET (Kinds \X Threads),
           thread_ids # <<>>, Publish(table, t, object, taken),
           object.state = "runnable", object.id = Head(thread_ids),
           object.phase \in UserPhases => object.user,
           image_refs' \in [Images -> Int],
           \A i \in Images : image_refs'[i] = image_refs[i] + (IF object.image = i THEN 1 ELSE 0)
    PROVE  IInv'
<1>1. t \in Threads /\ t \in All /\ t \notin Live /\ t \notin Created /\ t \notin Dead
  BY DEF Unused, Live, Created, Dead, All
<1>2. /\ thread' \in [All -> ThreadObjects] /\ thread'[t] = object
      /\ \A u \in All \ {t} : thread'[u] = table[u]
  BY <1>1 DEF Publish, Same
<1>3. /\ Live' = Live \cup {t} /\ Dead' = Dead /\ Created' = Created \cup {t}
      /\ \A u \in Live \cup Dead : u # t /\ thread'[u].id = thread[u].id
  BY <1>1, <1>2 DEF Same, Live, Dead, Created, All
<1>4. \A i : ImageUsers(i)' = ImageUsers(i) \cup (IF object.image = i THEN {t} ELSE {})
  BY <1>1, <1>2 DEF Same, Created, ImageUsers, All
<1>5. allocated_threads' = Cardinality(Created')
  BY <1>1, <1>3, FiniteCreated, FS_AddElement DEF Publish, IInv, TypeOK
<1>6. heap' \subseteq Kinds \X Threads
  BY DEF Publish, IInv, TypeOK
<1>7. /\ run_queue' \in Seq(All) /\ Distinct(run_queue')
      /\ InQueue(run_queue') = (Live \ {current}) \cup {t}
  BY <1>1, AppendDistinct DEF Publish, IInv, TypeOK, QueueIntegrity
<1>8. TypeOK'
  BY <1>2, <1>5, <1>6, <1>7, TakenId DEF Publish, IInv, TypeOK, idling
<1>9. QueueIntegrity'
  BY <1>1, <1>3, <1>7 DEF Publish, IInv, QueueIntegrity
<1>10. Modes'
  BY <1>1, <1>2, ThreadsAssumption DEF Same, IInv, Modes, All
<1>11. IdAccounting'
  <2>1. thread_ids' = Tail(thread_ids) /\ thread'[t].id = Head(thread_ids)
    BY <1>2 DEF Publish
  <2>2. Distinct(thread_ids')
    BY <2>1, TakenId
  <2>3. InQueue(thread_ids') = Ids \ {thread'[u].id : u \in Live'}
    <3>1. {thread'[u].id : u \in Live'} = {thread[u].id : u \in Live} \cup {Head(thread_ids)}
      BY <1>3, <2>1
    <3>2. InQueue(thread_ids) = Ids \ {thread[u].id : u \in Live}
      BY DEF IInv, IdAccounting
    <3>3. InQueue(thread_ids') = InQueue(thread_ids) \ {Head(thread_ids)}
      BY <2>1, TakenId
    <3> QED BY <3>1, <3>2, <3>3
  <2>4. \A u, v \in Live' : thread'[u].id = thread'[v].id => u = v
    BY <1>3, <2>1, TakenId DEF IInv, IdAccounting
  <2>5. \A u \in Live' \cap Threads : thread'[u].id \in Ids
    BY <1>3, <2>1, TakenId DEF IInv, IdAccounting
  <2>6. thread'[Boot].id = 0 /\ thread'[Idle].id = 1
    BY <1>1, <1>3 DEF IInv, IdAccounting, QueueIntegrity
  <2>7. \A u \in Dead' : thread'[u].id = -1
    BY <1>3 DEF IInv, IdAccounting
  <2> QED BY <2>2, <2>3, <2>4, <2>5, <2>6, <2>7 DEF IdAccounting
<1>12. ImageAccounting'
  <2> SUFFICES ASSUME NEW i \in Images
               PROVE  image_refs'[i] = Cardinality(ImageUsers(i)')
    BY DEF ImageAccounting, ImageUsers
  <2>1. image_refs[i] = Cardinality(ImageUsers(i))
    BY DEF IInv, ImageAccounting, ImageUsers
  <2>2. t \notin ImageUsers(i)
    BY <1>1 DEF ImageUsers
  <2>3. IsFiniteSet(ImageUsers(i))
    BY FiniteCreated
  <2>4. CASE object.image = i
    <3>1. ImageUsers(i)' = ImageUsers(i) \cup {t}
      BY <1>4, <2>4
    <3>2. Cardinality(ImageUsers(i) \cup {t}) = Cardinality(ImageUsers(i)) + 1
      BY <2>2, <2>3, FS_AddElement
    <3> QED BY <2>1, <2>4, <3>1, <3>2
  <2>5. CASE object.image # i
    <3>1. ImageUsers(i)' = ImageUsers(i)
      BY <1>4, <2>5
    <3>2. image_refs[i] \in Int /\ image_refs'[i] = image_refs[i] + 0
      BY <2>5 DEF IInv, TypeOK
    <3> QED BY <2>1, <3>1, <3>2
  <2> QED BY <2>4, <2>5
<1> QED BY <1>8, <1>9, <1>10, <1>11, <1>12 DEF IInv

\* Every way a creation or a fork fails after it has taken an ID.
Fails == AllocFails \/ \E t \in Unused : PrepareFails(t) \/ LoadFails(t) \/ CloneFails(t)

\* The fields of the object tell thread_discard to free what was taken: it has the new ID
\* and never an image.
LEMMA FailsCases ==
    ASSUME Fails
    PROVE  \/ AllocFails
           \/ \E t \in Unused : \E object, taken :
                 /\ Discard(t, object, taken)
                 /\ object.id = NextId /\ object.image = NULL
                 /\ taken \subseteq BlocksOf(t, object)
<1>1. /\ KernelThread(NextId).id = NextId /\ KernelThread(NextId).image = NULL
      /\ ~KernelThread(NextId).user
  BY DEF KernelThread, Zeroed
<1> DEFINE child == UserThread(NextId, NULL)
           copied == [child EXCEPT !.context = cur.context]
<1>2. /\ child.id = NextId /\ child.image = NULL /\ child.user
      /\ copied.id = NextId /\ copied.image = NULL /\ copied.user
      /\ copied.context = cur.context
  BY DEF UserThread, Zeroed
<1> HIDE DEF copied
<1>3. SUFFICES ASSUME NEW t \in Unused, PrepareFails(t) \/ LoadFails(t) \/ CloneFails(t)
               PROVE  \E object, taken : /\ Discard(t, object, taken)
                                         /\ object.id = NextId /\ object.image = NULL
                                         /\ taken \subseteq BlocksOf(t, object)
  BY DEF Fails
<1>4. KernelBlocks(t) \subseteq BlocksOf(t, KernelThread(NextId))
  BY <1>1 DEF BlocksOf
<1>5. UserBlocks(t) \subseteq BlocksOf(t, child)
  BY <1>2 DEF BlocksOf
<1> HIDE DEF child
<1>6. CASE PrepareFails(t)
  BY <1>1, <1>4, <1>6 DEF PrepareFails
<1>7. CASE LoadFails(t)
  BY <1>2, <1>5, <1>7 DEF LoadFails, child
<1>8. CASE CloneFails(t)
  <2>1. ASSUME NEW taken \in ContextFails(t, UserBlocks(t)) PROVE taken \subseteq UserBlocks(t)
    BY <2>1 DEF ContextFails
  <2>2. CASE Discard(t, child, UserBlocks(t))
    BY <1>2, <1>5, <2>2
  <2>3. CASE \E taken \in ContextFails(t, UserBlocks(t)) : Discard(t, child, taken)
    BY <1>2, <1>5, <2>1, <2>3
  <2>4. CASE /\ cur.context # NoContext
             /\ Discard(t, copied, UserBlocks(t) \cup SignalBlocks(t))
    <3>1. UserBlocks(t) \cup SignalBlocks(t) \subseteq BlocksOf(t, copied)
      BY <1>2, <2>4 DEF BlocksOf, ContextBlocks
    <3> QED BY <1>2, <2>4, <3>1
  <2> QED BY <1>8, <2>2, <2>3, <2>4 DEF CloneFails, child, copied
<1> QED BY <1>3, <1>6, <1>7, <1>8

\* The blocks of a thread are blocks of the heap that belong to it.
LEMMA BlocksOwned ==
    ASSUME NEW t, NEW object
    PROVE  BlocksOf(t, object) \subseteq Kinds \X {t}
BY DEF BlocksOf, KernelBlocks, UserBlocks, ContextBlocks, SignalBlocks, Kinds

\* So the ID is free again, no reference moves, and what is freed includes what was taken.
LEMMA FailsFacts ==
    ASSUME Fails
    PROVE  /\ thread_ids' = ReleaseId(Tail(thread_ids), Head(thread_ids))
           /\ UNCHANGED <<queues, zombies, allocated_threads, image_refs, idling>>
           /\ \E freed \in SUBSET (Kinds \X Unused) : \E taken \in SUBSET freed :
                 heap' = (heap \cup taken) \ freed
<1>1. CASE AllocFails
  <2>1. PICK taken \in {{}} \cup {{<<"thread", t>>} : t \in Unused} :
           heap' = (heap \cup taken) \ taken
    BY <1>1 DEF AllocFails
  <2>2. taken \in SUBSET (Kinds \X Unused)
    BY <2>1 DEF Kinds
  <2> QED BY <1>1, <2>1, <2>2 DEF AllocFails, NextId
<1>2. ASSUME NEW t \in Unused, NEW object, NEW taken, Discard(t, object, taken),
             object.id = NextId, object.image = NULL, taken \subseteq BlocksOf(t, object)
      PROVE  /\ thread_ids' = ReleaseId(Tail(thread_ids), Head(thread_ids))
             /\ UNCHANGED <<queues, zombies, allocated_threads, image_refs, idling>>
             /\ \E freed \in SUBSET (Kinds \X Unused) : \E b \in SUBSET freed :
                   heap' = (heap \cup b) \ freed
  <2>1. heap' = (heap \cup taken) \ BlocksOf(t, object) /\ image_refs' = image_refs
    BY <1>2 DEF Discard, ReleaseImage
  <2>2. BlocksOf(t, object) \in SUBSET (Kinds \X Unused)
    BY BlocksOwned
  <2> QED BY <1>2, <2>1, <2>2 DEF Discard, NextId
<1> QED BY <1>1, <1>2, FailsCases

\* A creation that fails: only the order of the free IDs changes.
LEMMA FailsInv ==
    ASSUME IInv, Same(thread'), thread_ids # <<>>, Fails
    PROVE  IInv'
<1> DEFINE id == Head(thread_ids)
<1>1. thread_ids' = Append(Tail(thread_ids), id)
  BY TakenId, FailsFacts
<1>2. id \in Ids /\ id \in InQueue(thread_ids) /\ id \notin InQueue(Tail(thread_ids))
  BY TakenId
<1>3. /\ thread_ids' \in Seq(Ids) /\ Distinct(thread_ids')
      /\ InQueue(thread_ids') = InQueue(thread_ids)
  <2>1. /\ Tail(thread_ids) \in Seq(Ids) /\ Distinct(Tail(thread_ids))
        /\ InQueue(Tail(thread_ids)) = InQueue(thread_ids) \ {id}
    BY TakenId
  <2> DEFINE pool == Tail(thread_ids)
  <2>2. pool \in Seq(Ids) /\ Distinct(pool) /\ id \in Ids /\ id \notin InQueue(pool)
    BY <1>2, <2>1
  <2>3. thread_ids' = Append(pool, id) /\ InQueue(pool) \cup {id} = InQueue(thread_ids)
    BY <1>1, <1>2, <2>1
  <2> HIDE DEF id, pool
  <2>4. /\ Append(pool, id) \in Seq(Ids) /\ Distinct(Append(pool, id))
        /\ InQueue(Append(pool, id)) = InQueue(pool) \cup {id}
    BY <2>2, AppendDistinct
  <2> QED BY <2>3, <2>4
<1>4. /\ heap' \subseteq heap
      /\ UNCHANGED <<queues, zombies, allocated_threads, image_refs, idling>>
  BY FailsFacts
<1>5. Live' = Live /\ Dead' = Dead /\ Created' = Created
  BY SameSets
<1>6. TypeOK'
  BY <1>3, <1>4, <1>5 DEF IInv, TypeOK, Same, queues, idling
<1>7. QueueIntegrity'
  BY <1>4, <1>5 DEF IInv, QueueIntegrity, queues
<1>8. Modes'
  BY DEF IInv, Modes, Same, All
<1>9. IdAccounting'
  <2>1. \A t \in Live \cup Dead : thread'[t].id = thread[t].id
    BY DEF Same, Live, Dead
  <2>2. {thread'[t].id : t \in Live} = {thread[t].id : t \in Live}
    BY <2>1
  <2>3. thread'[Boot].id = thread[Boot].id /\ thread'[Idle].id = thread[Idle].id
    BY DEF Same, All
  <2> QED BY <1>3, <1>5, <2>1, <2>2, <2>3 DEF IInv, IdAccounting
<1>10. ImageAccounting'
  BY <1>4, SameSets DEF IInv, ImageAccounting, ImageUsers
<1> QED BY <1>6, <1>7, <1>8, <1>9, <1>10 DEF IInv

\* Releasing the ID of a live created thread.
LEMMA ReleasedId ==
    ASSUME IInv, NEW t \in Live \cap Threads
    PROVE  LET pool == ReleaseId(thread_ids, thread[t].id)
           IN  /\ pool \in Seq(Ids) /\ Distinct(pool)
               /\ InQueue(pool) = InQueue(thread_ids) \cup {thread[t].id}
               /\ thread[t].id \in Ids
<1>1. thread[t].id \in Ids /\ thread[t].id \notin InQueue(thread_ids)
  BY DEF IInv, IdAccounting
<1>2. thread_ids \in Seq(Ids) /\ Distinct(thread_ids)
  BY DEF IInv, TypeOK, IdAccounting
<1>3. ReleaseId(thread_ids, thread[t].id) = Append(thread_ids, thread[t].id)
  BY <1>1 DEF ReleaseId
<1> QED BY <1>1, <1>2, <1>3, AppendDistinct

\* A freed block and a zombie are typed.
LEMMA ZeroedType == Zeroed \in ThreadObjects
<1>1. [s \in Signals |-> NULL] \in [Signals -> Code \cup {NULL}]
  OBVIOUS
<1>2. [code |-> KernelText, at |-> 0] \in Frames
  BY DEF Frames, Code
<1>3. -1 \in -1 .. IdCount - 1
  BY IdCountAssumption
<1> QED BY <1>1, <1>2, <1>3 DEF Zeroed, ThreadObjects, Phases

\* A buried thread keeps its type.
LEMMA BuriedType ==
    ASSUME NEW object \in ThreadObjects
    PROVE  Buried(object) \in ThreadObjects
<1>1. /\ object.user \in BOOLEAN /\ object.image \in Images \cup {NULL}
      /\ object.context \in Frames \cup {NoContext}
  BY DEF ThreadObjects
<1>2. -1 \in -1 .. IdCount - 1
  BY IdCountAssumption
<1> QED BY <1>1, <1>2, ZeroedType DEF Buried, ThreadObjects

\* A thread ends: it becomes a zombie that still owns its blocks and its reference, and
\* its ID is free.  The lemma leaves open who runs next.
LEMMA EndInv ==
    ASSUME IInv, NEW table, Same(table), NEW t \in Live \cap Threads,
           thread' = [table EXCEPT ![t] = Buried(@)],
           zombies' = Append(zombies, t),
           thread_ids' = ReleaseId(thread_ids, thread[t].id),
           UNCHANGED <<allocated_threads, image_refs, idling>>, heap' \subseteq Kinds \X Threads,
           current' \in Live \ {t}, run_queue' \in Seq(All), Distinct(run_queue'),
           InQueue(run_queue') = Live \ {t, current'}
    PROVE  IInv'
<1>1. t \in Threads /\ t \in All /\ t \notin Dead /\ t # Boot /\ t # Idle
  BY ThreadsAssumption DEF Live, Dead, All
<1>2. /\ thread' \in [All -> ThreadObjects] /\ thread'[t] = Buried(table[t])
      /\ \A u \in All \ {t} : thread'[u] = table[u]
  <2>1. table[t] \in ThreadObjects
    BY <1>1 DEF Same
  <2> QED BY <1>1, <2>1, BuriedType DEF Same
<1>3. /\ thread'[t].state = "dead" /\ thread'[t].id = -1 /\ thread'[t].phase = "kernel"
      /\ thread'[t].image = thread[t].image
  BY <1>1, <1>2 DEF Buried, Zeroed, Same
<1>4. /\ Live' = Live \ {t} /\ Dead' = Dead \cup {t} /\ Created' = Created
      /\ \A u \in Live' \cup Dead : u # t /\ thread'[u].id = thread[u].id
  BY <1>1, <1>2, <1>3 DEF Same, Live, Dead, Created, All
<1>5. \A i : ImageUsers(i)' = ImageUsers(i)
  BY <1>1, <1>2, <1>3 DEF Same, Created, ImageUsers, Live, All
<1>6. zombies' \in Seq(Threads) /\ Distinct(zombies') /\ InQueue(zombies') = Dead'
  BY <1>1, <1>4, AppendDistinct DEF IInv, TypeOK, QueueIntegrity
<1>7. TypeOK'
  BY <1>2, <1>4, <1>6, ReleasedId DEF IInv, TypeOK, Live, idling
<1>8. QueueIntegrity'
  BY <1>1, <1>4, <1>6 DEF IInv, QueueIntegrity
<1>9. Modes'
  BY <1>1, <1>2, <1>3 DEF Same, IInv, Modes, All, UserPhases
<1>10. IdAccounting'
  <2>1. Distinct(thread_ids') /\ InQueue(thread_ids') = InQueue(thread_ids) \cup {thread[t].id}
    BY ReleasedId
  <2>2. \A u, v \in Live : thread[u].id = thread[v].id => u = v
    BY DEF IInv, IdAccounting
  <2>3. {thread'[u].id : u \in Live'} = {thread[u].id : u \in Live} \ {thread[t].id}
    BY <1>4, <2>2
  <2>4. InQueue(thread_ids') = Ids \ {thread'[u].id : u \in Live'}
    BY <2>1, <2>3, ReleasedId DEF IInv, IdAccounting
  <2>5. thread'[Boot].id = 0 /\ thread'[Idle].id = 1
    BY <1>1, <1>4 DEF IInv, IdAccounting, QueueIntegrity
  <2>6. \A u, v \in Live' : thread'[u].id = thread'[v].id => u = v
    BY <1>4, <2>2
  <2>7. \A u \in Live' \cap Threads : thread'[u].id \in Ids
    <3>1. \A u \in Live \cap Threads : thread[u].id \in Ids
      BY DEF IInv, IdAccounting
    <3> QED BY <1>4, <3>1
  <2>8. \A u \in Dead' : thread'[u].id = -1
    <3>1. \A u \in Dead : thread[u].id = -1
      BY DEF IInv, IdAccounting
    <3> QED BY <1>3, <1>4, <3>1
  <2> QED BY <2>1, <2>4, <2>5, <2>6, <2>7, <2>8 DEF IdAccounting
<1>11. ImageAccounting'
  BY <1>5 DEF IInv, ImageAccounting, ImageUsers
<1> QED BY <1>7, <1>8, <1>9, <1>10, <1>11 DEF IInv

\* thread_exit of the running thread, whatever blocks it leaves.
LEMMA LeaveInv ==
    ASSUME IInv, current \in Threads, NEW blocks \in SUBSET (Kinds \X Threads), Ends(blocks)
    PROVE  IInv'
<1> DEFINE table == [thread EXCEPT ![current] = Buried(@)]
<1>1. current \in Live \cap Threads /\ thread \in [All -> ThreadObjects] /\ current \in All
  BY DEF IInv, TypeOK, QueueIntegrity
<1>2. table[current].state = "dead"
  BY <1>1 DEF Buried, Zeroed
<1>3. current' = Head(run_queue) /\ run_queue' = Tail(run_queue)
  BY <1>2 DEF Ends, Schedule
<1>4. /\ run_queue \in Seq(All) /\ Distinct(run_queue) /\ run_queue # <<>>
      /\ InQueue(run_queue) = Live \ {current}
  BY <1>1, ThreadsAssumption DEF IInv, TypeOK, QueueIntegrity, InQueue
<1>5. /\ current' \in Live \ {current} /\ run_queue' \in Seq(All) /\ Distinct(run_queue')
      /\ InQueue(run_queue') = Live \ {current, current'}
  BY <1>3, <1>4, TailDistinct
<1>6. Same(thread)
  BY DEF Same, IInv, TypeOK, Modes
<1>7. /\ thread' = [thread EXCEPT ![current] = Buried(@)] /\ zombies' = Append(zombies, current)
      /\ thread_ids' = ReleaseId(thread_ids, thread[current].id)
      /\ UNCHANGED <<allocated_threads, image_refs, idling>> /\ heap' \subseteq Kinds \X Threads
  BY DEF Ends, cur
<1> QED BY <1>1, <1>5, <1>6, <1>7, EndInv

\* It leaves them all.
LEMMA ExitInv ==
    ASSUME IInv, current \in Threads, Exit
    PROVE  IInv'
BY LeaveInv DEF Exit, IInv, TypeOK

\* thread_terminate of a queued thread.
LEMMA TerminateInv ==
    ASSUME IInv, NEW table, Same(table), NEW t \in InQueue(run_queue) \cap Threads,
           Terminate(table, t)
    PROVE  IInv'
<1>1. /\ run_queue \in Seq(All) /\ Distinct(run_queue)
      /\ InQueue(run_queue) = Live \ {current} /\ current \in Live
  BY DEF IInv, TypeOK, QueueIntegrity
<1>2. t \in Live \cap Threads /\ t # current
  BY <1>1
<1>3. /\ run_queue' \in Seq(All) /\ Distinct(run_queue')
      /\ InQueue(run_queue') = Live \ {t, current}
  BY <1>1, WithoutDistinct DEF Terminate
<1>4. thread_ids' = ReleaseId(thread_ids, thread[t].id)
  BY <1>2 DEF Terminate, Same, All
<1>5. current' \in Live \ {t} /\ InQueue(run_queue') = Live \ {t, current'}
  BY <1>1, <1>2, <1>3 DEF Terminate
<1>6. UNCHANGED <<allocated_threads, image_refs, idling>> /\ heap' \subseteq Kinds \X Threads
  BY DEF Terminate, storage, IInv, TypeOK
<1> QED BY <1>2, <1>3, <1>4, <1>5, <1>6, EndInv DEF Terminate

\* Reclaiming the oldest zombie: it is no longer counted and gives its reference back.
LEMMA ReapInv == IInv /\ Reap => IInv'
<1> SUFFICES ASSUME IInv, Reap PROVE IInv'
  OBVIOUS
<1> DEFINE t == Head(zombies)
<1>1. t \in Dead /\ t \in Threads /\ t \in All /\ t \notin Live /\ t \in Created
  <2>1. zombies \in Seq(Threads) /\ zombies # <<>> /\ Distinct(zombies) /\ InQueue(zombies) = Dead
    BY DEF Reap, IInv, TypeOK, QueueIntegrity
  <2>2. t \in Threads /\ t \in InQueue(zombies)
    BY <2>1, TailDistinct
  <2> QED BY <2>1, <2>2 DEF Dead, Live, Created, All
<1>2. /\ zombies' \in Seq(Threads) /\ Distinct(zombies') /\ InQueue(zombies') = Dead \ {t}
  <2>1. zombies \in Seq(Threads) /\ zombies # <<>> /\ Distinct(zombies) /\ InQueue(zombies) = Dead
    BY DEF Reap, IInv, TypeOK, QueueIntegrity
  <2> QED BY <2>1, TailDistinct DEF Reap
<1>3. /\ thread' = [thread EXCEPT ![t] = Zeroed]
      /\ heap' \subseteq heap
      /\ image_refs' = ReleaseImage(image_refs, thread[t].image)
      /\ allocated_threads' = allocated_threads - 1
  BY DEF Reap
<1> HIDE DEF t
<1>4. /\ thread' \in [All -> ThreadObjects] /\ thread'[t] = Zeroed
      /\ \A u \in All \ {t} : thread'[u] = thread[u]
  BY <1>1, <1>3, ZeroedType DEF IInv, TypeOK
<1>5. /\ Live' = Live /\ Dead' = Dead \ {t} /\ Created' = Created \ {t}
      /\ \A u \in Live' \cup Dead' : u # t /\ thread'[u] = thread[u]
  BY <1>1, <1>4 DEF Zeroed, Live, Dead, Created, All
<1>6. \A i : ImageUsers(i)' = ImageUsers(i) \ {t}
  BY <1>1, <1>4, <1>5 DEF ImageUsers, Created, All
<1>7. allocated_threads' = Cardinality(Created')
  BY <1>1, <1>3, <1>5, FiniteCreated, FS_RemoveElement, FS_CardinalityType DEF IInv, TypeOK
<1>8. thread[t].image \in Images \cup {NULL} /\ image_refs \in [Images -> Int]
  BY <1>1 DEF IInv, TypeOK, ThreadObjects
<1>9. TypeOK'
  <2>1. image_refs' \in [Images -> Int]
    BY <1>3, <1>8 DEF ReleaseImage
  <2> QED BY <1>2, <1>3, <1>4, <1>7, <2>1, ReapLimitAssumption DEF Reap, IInv, TypeOK, queues
<1>10. QueueIntegrity'
  BY <1>2, <1>5 DEF Reap, IInv, QueueIntegrity, queues
<1>11. Modes'
  BY <1>4 DEF Zeroed, IInv, Modes, All, UserPhases
<1>12. IdAccounting'
  <2>1. thread'[Boot].id = 0 /\ thread'[Idle].id = 1
    BY <1>5 DEF IInv, IdAccounting, QueueIntegrity
  <2>2. {thread'[u].id : u \in Live'} = {thread[u].id : u \in Live}
    BY <1>5
  <2> QED BY <1>5, <2>1, <2>2 DEF Reap, IInv, IdAccounting
<1>13. ImageAccounting'
  <2> SUFFICES ASSUME NEW i \in Images
               PROVE  image_refs'[i] = Cardinality(ImageUsers(i)')
    BY DEF ImageAccounting, ImageUsers
  <2>1. image_refs[i] = Cardinality(ImageUsers(i)) /\ IsFiniteSet(ImageUsers(i))
    BY FiniteCreated DEF IInv, ImageAccounting, ImageUsers
  <2>2. CASE thread[t].image = i
    <3>1. t \in ImageUsers(i)
      BY <1>1, <2>2 DEF ImageUsers
    <3>2. Cardinality(ImageUsers(i) \ {t}) = Cardinality(ImageUsers(i)) - 1
      BY <2>1, <3>1, FS_RemoveElement
    <3>3. image_refs'[i] = image_refs[i] - 1
      BY <1>3, <1>8, <2>2, ImagesAssumption DEF ReleaseImage
    <3> QED BY <1>6, <2>1, <3>2, <3>3
  <2>3. CASE thread[t].image # i
    <3>1. ImageUsers(i) \ {t} = ImageUsers(i)
      BY <2>3 DEF ImageUsers
    <3>2. image_refs'[i] = image_refs[i]
      BY <1>3, <1>8, <2>3 DEF ReleaseImage
    <3> QED BY <1>6, <2>1, <3>1, <3>2
  <2> QED BY <2>2, <2>3
<1> QED BY <1>9, <1>10, <1>11, <1>12, <1>13 DEF IInv

\* Replacing the program of the running thread: the old reference is given back, the new
\* image, which nobody used, has one.
LEMMA ExecInv ==
    ASSUME IInv, NEW i \in Images, SysExec(i)
    PROVE  IInv'
<1> DEFINE new == [cur EXCEPT !.image = i, !.frame = [code |-> i, at |-> 0],
                              !.handlers = Zeroed.handlers, !.pending = {},
                              !.context = NoContext, !.phase = "leaving"]
<1>1. /\ current \in Live /\ current \in All /\ thread \in [All -> ThreadObjects]
      /\ cur \in ThreadObjects /\ cur.phase = "syscall" /\ cur.user
      /\ image_refs \in [Images -> Int] /\ image_refs[i] = 0
  BY DEF SysExec, IInv, TypeOK, QueueIntegrity, Modes, UserPhases, cur, Live
<1>2. current \in Threads /\ current \in Created
  BY <1>1 DEF IInv, Modes, All, cur, Live, Created
<1>3. thread' = [thread EXCEPT ![current] = new]
  BY <1>1 DEF SysExec, Served, cur
<1>4. new \in ThreadObjects /\ new.image = i /\ new.state = cur.state /\ new.id = cur.id /\ new.user
  <2>1. Zeroed.handlers \in [Signals -> Code \cup {NULL}] /\ [code |-> i, at |-> 0] \in Frames
    BY DEF Zeroed, Frames, Code
  <2> QED BY <1>1, <2>1 DEF ThreadObjects, Phases
<1> HIDE DEF new
<1>5. /\ thread' \in [All -> ThreadObjects] /\ thread'[current] = new
      /\ \A u \in All \ {current} : thread'[u] = thread[u]
  BY <1>1, <1>3, <1>4
<1>6. \A u \in All : thread'[u].state = thread[u].state /\ thread'[u].id = thread[u].id
  BY <1>4, <1>5 DEF cur
<1>7. Live' = Live /\ Dead' = Dead /\ Created' = Created
  BY <1>6 DEF Live, Dead, Created, All
<1>8. /\ image_refs' = ReleaseImage([image_refs EXCEPT ![i] = 1], cur.image)
      /\ heap' \subseteq heap
      /\ UNCHANGED <<zombies, thread_ids, queues, allocated_threads, idling>>
  BY DEF SysExec, LoadImage
<1>9. cur.image \in Images \cup {NULL}
  BY <1>1 DEF ThreadObjects
<1>10. \A j \in Images : image_refs[j] = Cardinality(ImageUsers(j)) /\ IsFiniteSet(ImageUsers(j))
  BY FiniteCreated DEF IInv, ImageAccounting, ImageUsers
<1>11. ImageUsers(i) = {} /\ cur.image # i
  <2>1. ImageUsers(i) = {}
    BY <1>1, <1>10, FS_EmptySet
  <2> QED BY <1>2, <2>1 DEF ImageUsers, cur
<1>12. TypeOK'
  <2>1. image_refs' \in [Images -> Int]
    BY <1>1, <1>8, <1>9 DEF ReleaseImage
  <2> QED BY <1>5, <1>7, <1>8, <2>1 DEF IInv, TypeOK, queues, idling
<1>13. QueueIntegrity'
  BY <1>7, <1>8 DEF IInv, QueueIntegrity, queues
<1>14. Modes'
  BY <1>1, <1>2, <1>4, <1>5, ThreadsAssumption DEF IInv, Modes, All
<1>15. IdAccounting'
  <2>1. {thread'[u].id : u \in Live} = {thread[u].id : u \in Live}
    BY <1>6 DEF Live
  <2>2. thread'[Boot].id = thread[Boot].id /\ thread'[Idle].id = thread[Idle].id
    BY <1>6 DEF All
  <2>3. \A t \in Live \cup Dead : thread'[t].id = thread[t].id
    BY <1>6 DEF Live, Dead
  <2> QED BY <1>7, <1>8, <2>1, <2>2, <2>3 DEF IInv, IdAccounting
<1>16. ImageAccounting'
  <2> SUFFICES ASSUME NEW j \in Images
               PROVE  image_refs'[j] = Cardinality(ImageUsers(j)')
    BY DEF ImageAccounting, ImageUsers
  <2>1. \A k : ImageUsers(k)' = (ImageUsers(k) \ {current}) \cup (IF k = i THEN {current} ELSE {})
    BY <1>1, <1>2, <1>4, <1>5, <1>7 DEF ImageUsers, Created, All
  <2>2. CASE j = i
    <3>1. ImageUsers(j)' = {current}
      BY <1>11, <2>1, <2>2
    <3>2. image_refs'[j] = 1
      BY <1>1, <1>8, <1>9, <1>11, <2>2 DEF ReleaseImage
    <3> QED BY <3>1, <3>2, FS_Singleton
  <2>3. CASE j = cur.image
    <3>1. ImageUsers(j)' = ImageUsers(j) \ {current} /\ current \in ImageUsers(j)
      BY <1>2, <1>11, <2>1, <2>3 DEF ImageUsers, cur
    <3>2. Cardinality(ImageUsers(j) \ {current}) = Cardinality(ImageUsers(j)) - 1
      BY <1>10, <3>1, FS_RemoveElement
    <3>3. image_refs'[j] = image_refs[j] - 1
      BY <1>1, <1>8, <1>11, <2>3, ImagesAssumption DEF ReleaseImage
    <3> QED BY <1>10, <3>1, <3>2, <3>3
  <2>4. CASE j # i /\ j # cur.image
    <3>1. ImageUsers(j)' = ImageUsers(j)
      BY <2>1, <2>4 DEF ImageUsers, cur
    <3>2. image_refs'[j] = image_refs[j]
      BY <1>1, <1>8, <1>9, <2>4 DEF ReleaseImage
    <3> QED BY <1>10, <3>1, <3>2
  <2> QED BY <2>2, <2>3, <2>4
<1> QED BY <1>12, <1>13, <1>14, <1>15, <1>16 DEF IInv
-------------------------------------------------------------------------------
(* The actions *)

\* The objects that creation publishes are typed.
LEMMA KernelThreadType ==
    ASSUME NEW id \in Ids \cup {0, 1} PROVE KernelThread(id) \in ThreadObjects
<1>1. id \in -1 .. IdCount - 1
  BY IdCountAssumption DEF Ids
<1> QED BY <1>1, ZeroedType DEF KernelThread, ThreadObjects

\* A new user thread has its type.
LEMMA UserThreadType ==
    ASSUME NEW id \in Ids, NEW image \in Images \cup {NULL}
    PROVE  UserThread(id, image) \in ThreadObjects
<1>1. id \in -1 .. IdCount - 1
  BY IdCountAssumption DEF Ids
<1>2. [code |-> RegionOf(image), at |-> 0] \in Frames
  BY DEF RegionOf, Frames, Code
<1> QED BY <1>1, <1>2, ZeroedType DEF UserThread, ThreadObjects, Phases

\* A change of what the running thread does keeps every thread.
LEMMA ChangedSame ==
    ASSUME IInv, NEW changed \in ThreadObjects,
           changed.state = cur.state, changed.id = cur.id, changed.user = cur.user,
           changed.image = cur.image, changed.phase \in UserPhases => cur.user
    PROVE  Same([thread EXCEPT ![current] = changed])
BY DEF IInv, TypeOK, Modes, Same, cur

\* In particular the effect of a system call.
LEMMA ServedSame ==
    ASSUME IInv, cur.phase = "syscall", NEW changed \in ThreadObjects,
           changed.state = cur.state, changed.id = cur.id, changed.user = cur.user,
           changed.image = cur.image
    PROVE  Same(Served(changed)) /\ current \in Threads
<1>1. cur \in ThreadObjects /\ cur.user /\ current \in Threads
  BY DEF IInv, TypeOK, Modes, UserPhases, All, cur
<1> DEFINE leaving == [changed EXCEPT !.phase = "leaving"]
<1>2. /\ leaving \in ThreadObjects /\ leaving.state = cur.state /\ leaving.id = cur.id
      /\ leaving.user = cur.user /\ leaving.image = cur.image
  BY DEF ThreadObjects, Phases
<1> HIDE DEF leaving
<1>3. Same([thread EXCEPT ![current] = leaving])
  BY <1>1, <1>2, ChangedSame
<1> QED BY <1>1, <1>3 DEF Served, leaving

\* Moving the running thread to a phase that its kind allows.
LEMMA PhaseSame ==
    ASSUME IInv, NEW p \in Phases, p \in UserPhases => cur.user
    PROVE  Same([thread EXCEPT ![current].phase = p])
<1>1. cur \in ThreadObjects /\ thread \in [All -> ThreadObjects] /\ current \in All
  BY DEF IInv, TypeOK, cur
<1> DEFINE moved == [cur EXCEPT !.phase = p]
<1>2. /\ moved \in ThreadObjects /\ moved.state = cur.state /\ moved.id = cur.id
      /\ moved.user = cur.user /\ moved.image = cur.image /\ moved.phase = p
  BY <1>1 DEF ThreadObjects
<1>3. [thread EXCEPT ![current].phase = p] = [thread EXCEPT ![current] = moved]
  BY <1>1 DEF cur
<1> HIDE DEF moved
<1> QED BY <1>2, <1>3, ChangedSame

\* What every action may use.
LEMMA Facts ==
    ASSUME IInv
    PROVE  /\ Same(thread) /\ thread \in [All -> ThreadObjects]
           /\ current \in Live /\ current \in All /\ cur \in ThreadObjects
           /\ heap \subseteq Kinds \X Threads
           /\ preemption_started \in BOOLEAN /\ reaped \in 0 .. ReapLimit
           /\ cur.phase \in UserPhases => cur.user /\ current \in Threads
           /\ \A t \in Live : thread[t].user => t \in Threads
BY DEF IInv, TypeOK, QueueIntegrity, Modes, Same, Live, All, cur

\* Initially the inductive invariant holds.
LEMMA InitInv == Init => IInv
<1> SUFFICES ASSUME Init PROVE IInv
  OBVIOUS
<1>1. /\ thread \in [All -> ThreadObjects]
      /\ thread[Boot] = KernelThread(0) /\ thread[Idle] = KernelThread(1)
      /\ \A t \in Threads : thread[t] = Zeroed
  BY ThreadsAssumption, ZeroedType, KernelThreadType DEF Init, All
<1>2. Live = {Boot, Idle} /\ Dead = {} /\ Created = {}
  <2>1. \A t \in Threads : thread[t].state = "free"
    BY <1>1 DEF Zeroed
  <2>2. thread[Boot].state = "runnable" /\ thread[Idle].state = "runnable"
    BY <1>1 DEF KernelThread, Zeroed
  <2> QED BY <2>1, <2>2 DEF Live, Dead, Created, All
<1>3. thread_ids \in Seq(Ids) /\ DOMAIN thread_ids = 1 .. IdCount - 2
  <2>1. IdCount - 2 \in Nat /\ \A k \in 1 .. IdCount - 2 : k + 1 \in Ids
    BY IdCountAssumption DEF Ids
  <2>2. thread_ids = [k \in 1 .. IdCount - 2 |-> k + 1]
    BY DEF Init
  <2> HIDE DEF Ids
  <2> QED BY <2>1, <2>2
<1>4. Distinct(thread_ids) /\ InQueue(thread_ids) = Ids
  <2>1. \A k \in 1 .. IdCount - 2 : thread_ids[k] = k + 1
    BY DEF Init
  <2>2. Distinct(thread_ids)
    BY <1>3, <2>1, IdCountAssumption DEF Distinct
  <2>3. InQueue(thread_ids) \subseteq Ids
    BY <1>3, <2>1, IdCountAssumption DEF InQueue, Ids
  <2>4. ASSUME NEW id \in Ids PROVE id \in InQueue(thread_ids)
    <3>1. id - 1 \in 1 .. IdCount - 2 /\ thread_ids[id - 1] = id
      BY <2>1, IdCountAssumption DEF Ids
    <3> QED BY <1>3, <3>1 DEF InQueue
  <2> QED BY <2>2, <2>3, <2>4
<1>5. TypeOK
  <2>1. current \in All /\ run_queue \in Seq(All) /\ zombies \in Seq(Threads)
    BY DEF Init, All
  <2>2. allocated_threads = Cardinality(Created)
    BY <1>2, FS_EmptySet DEF Init
  <2>3. /\ image_refs \in [Images -> Int] /\ heap \subseteq Kinds \X Threads
        /\ preemption_started \in BOOLEAN /\ reaped \in 0 .. ReapLimit
    BY ReapLimitAssumption DEF Init
  <2> QED BY <1>1, <1>3, <2>1, <2>2, <2>3 DEF TypeOK
<1>6. QueueIntegrity
  BY <1>2, ThreadsAssumption DEF Init, QueueIntegrity, Distinct, InQueue
<1>7. Modes
  BY <1>1 DEF KernelThread, Zeroed, Modes, All, UserPhases
<1>8. IdAccounting
  <2>1. thread[Boot].id = 0 /\ thread[Idle].id = 1
    BY <1>1 DEF KernelThread, Zeroed
  <2>2. 0 \notin Ids /\ 1 \notin Ids
    BY IdCountAssumption DEF Ids
  <2> QED BY <1>2, <1>4, <2>1, <2>2, ThreadsAssumption DEF IdAccounting
<1>9. ImageAccounting
  BY <1>2, FS_EmptySet DEF Init, ImageAccounting
<1> QED BY <1>5, <1>6, <1>7, <1>8, <1>9 DEF IInv

\* Scheduling.
LEMMA SchedulingInv == IInv /\ Scheduling => IInv'
<1> SUFFICES ASSUME IInv, Scheduling PROVE IInv'
  OBVIOUS
<1>1. CASE Yield
  <2>1. Same(thread')
    BY <1>1, Facts DEF Yield
  <2> QED BY <1>1, <2>1, Facts, ScheduleInv DEF Yield, idling
<1>2. CASE Preempt
  <2>1. Same(thread')
    <3>1. CASE cur.phase = "user"
      <4>1. thread' = [thread EXCEPT ![current].phase = "return"]
        BY <1>2, <3>1, Facts DEF Preempt, cur
      <4> QED BY <3>1, <4>1, Facts, PhaseSame DEF Phases, UserPhases
    <3>2. CASE cur.phase # "user"
      <4>1. thread' = thread
        BY <1>2, <3>2, Facts DEF Preempt, ThreadObjects, cur
      <4> QED BY <4>1, Facts
    <3> QED BY <3>1, <3>2
  <2> QED BY <1>2, <2>1, Facts, ScheduleInv DEF Preempt, idling
<1>3. CASE StartPreemption
  <2>1. Same(thread')
    BY <1>3, Facts DEF StartPreemption
  <2> QED BY <1>3, <2>1, Facts, KeepInv DEF StartPreemption, storage
<1> QED BY <1>1, <1>2, <1>3 DEF Scheduling

\* Creation by a kernel thread.
LEMMA CreationInv ==
    ASSUME IInv, ThreadCreate \/ ThreadCreateUser \/ ThreadCreateProgram
    PROVE  IInv'
<1> DEFINE id == Head(thread_ids)
<1>1. /\ thread_ids # <<>> /\ id \in Ids /\ id \in Ids \cup {0, 1} /\ Same(thread)
      /\ image_refs \in [Images -> Int]
  <2>1. thread_ids # <<>>
    BY DEF ThreadCreate, ThreadCreateUser, ThreadCreateProgram
  <2> QED BY <2>1, TakenId, Facts DEF IInv, TypeOK
<1>2. ASSUME Fails, UNCHANGED thread PROVE IInv'
  <2>1. Same(thread')
    BY <1>1, <1>2
  <2> QED BY <1>1, <1>2, <2>1, FailsInv
<1>3. CASE ThreadCreate
  <2>1. ASSUME NEW t \in Unused, Publish(thread, t, KernelThread(id), KernelBlocks(t)),
               UNCHANGED image_refs
        PROVE  IInv'
    <3> DEFINE object == KernelThread(id)
    <3>1. object \in ThreadObjects
      BY <1>1, KernelThreadType
    <3>2. object.state = "runnable" /\ object.id = id /\ object.image = NULL /\ object.phase = "kernel"
      BY DEF KernelThread, Zeroed
    <3>3. \A i \in Images : image_refs'[i] = image_refs[i] + (IF object.image = i THEN 1 ELSE 0)
      BY <1>1, <2>1, <3>2, ImagesAssumption
    <3> HIDE DEF object
    <3>4. Publish(thread, t, object, KernelBlocks(t)) /\ t \in Threads
      BY <2>1 DEF object, Unused
    <3>5. KernelBlocks(t) \in SUBSET (Kinds \X Threads)
      BY <3>4 DEF KernelBlocks, Kinds
    <3> QED BY <1>1, <2>1, <3>1, <3>2, <3>3, <3>4, <3>5, PublishInv DEF UserPhases
  <2> QED BY <1>2, <1>3, <2>1 DEF ThreadCreate, Fails, NextId
<1>4. ASSUME NEW t \in Unused, NEW image \in Images \cup {NULL},
             Publish(thread, t, UserThread(id, image), UserBlocks(t)),
             image_refs' \in [Images -> Int],
             \A i \in Images : image_refs'[i] = image_refs[i] + (IF image = i THEN 1 ELSE 0)
      PROVE  IInv'
  <2> DEFINE object == UserThread(id, image)
  <2>1. object \in ThreadObjects
    BY <1>1, UserThreadType
  <2>2. object.state = "runnable" /\ object.id = id /\ object.image = image /\ object.user
    BY DEF UserThread, Zeroed
  <2>3. \A i \in Images : image_refs'[i] = image_refs[i] + (IF object.image = i THEN 1 ELSE 0)
    BY <1>4, <2>2
  <2> HIDE DEF object
  <2>4. Publish(thread, t, object, UserBlocks(t)) /\ t \in Threads
    BY <1>4 DEF object, Unused
  <2>5. UserBlocks(t) \in SUBSET (Kinds \X Threads)
    BY <2>4 DEF UserBlocks, Kinds
  <2> QED BY <1>1, <1>4, <2>1, <2>2, <2>3, <2>4, <2>5, PublishInv
<1>5. CASE ThreadCreateUser
  <2>1. ASSUME NEW t \in Unused, Publish(thread, t, UserThread(id, NULL), UserBlocks(t)),
               UNCHANGED image_refs
        PROVE  IInv'
    <3>1. \A i \in Images : image_refs'[i] = image_refs[i] + (IF NULL = i THEN 1 ELSE 0)
      BY <1>1, <2>1, ImagesAssumption
    <3> QED BY <1>1, <1>4, <2>1, <3>1
  <2> QED BY <1>2, <1>5, <2>1 DEF ThreadCreateUser, Fails, NextId
<1>6. CASE ThreadCreateProgram
  <2>1. ASSUME NEW t \in Unused, NEW i \in Images, image_refs[i] = 0,
               image_refs' = LoadImage(image_refs, i),
               Publish(thread, t, UserThread(id, i), UserBlocks(t))
        PROVE  IInv'
    <3>1. /\ image_refs' \in [Images -> Int]
          /\ \A j \in Images : image_refs'[j] = image_refs[j] + (IF i = j THEN 1 ELSE 0)
      BY <1>1, <2>1 DEF LoadImage
    <3> QED BY <1>1, <1>4, <2>1, <3>1
  <2> QED BY <1>2, <1>6, <2>1 DEF ThreadCreateProgram, Fails, NextId
<1> QED BY <1>3, <1>5, <1>6

\* The other calls of kernel threads.
LEMMA KernelCallsInv == IInv /\ KernelCalls => IInv'
<1> SUFFICES ASSUME IInv, KernelCalls PROVE IInv'
  OBVIOUS
<1>1. CASE ThreadCreate \/ ThreadCreateUser \/ ThreadCreateProgram
  BY <1>1, CreationInv
<1>2. CASE ThreadReturn
  <2>1. current \in Threads
    BY <1>2, Facts DEF ThreadReturn, InKernel, All
  <2> QED BY <1>2, <2>1, ExitInv DEF ThreadReturn
<1>3. CASE KillAllUsers
  <2>1. Same(thread')
    BY <1>3, PhaseSame DEF KillAllUsers, Phases, UserPhases
  <2> QED BY <1>3, <2>1, Facts, KeepInv DEF KillAllUsers, storage, idling
<1>4. CASE KillNextUser
  <2>1. PICK i \in QueuedUsers : Terminate(thread, run_queue[i])
    BY <1>4 DEF KillNextUser
  <2>2. run_queue[i] \in InQueue(run_queue) /\ thread[run_queue[i]].user
    BY DEF QueuedUsers, InQueue
  <2>3. run_queue[i] \in InQueue(run_queue) \cap Threads
    BY <2>2, Facts DEF IInv, QueueIntegrity
  <2> QED BY <2>1, <2>3, Facts, TerminateInv
<1>5. CASE AllUsersKilled
  <2>1. Same(thread')
    BY <1>5, PhaseSame DEF AllUsersKilled, Phases, UserPhases
  <2> QED BY <1>5, <2>1, Facts, KeepInv DEF AllUsersKilled, storage, idling
<1> QED BY <1>1, <1>2, <1>3, <1>4, <1>5 DEF KernelCalls

\* The idle thread.
LEMMA ReclamationInv == IInv /\ Reclamation => IInv'
<1> SUFFICES ASSUME IInv, Reclamation PROVE IInv'
  OBVIOUS
<1>1. CASE Reap
  BY <1>1, ReapInv
<1>2. CASE ReapNone
  <2>1. Same(thread') /\ reaped' \in 0 .. ReapLimit
    BY <1>2, Facts, ReapLimitAssumption DEF ReapNone
  <2> QED BY <1>2, <2>1, Facts, KeepInv DEF ReapNone, storage
<1>3. CASE IdleYield
  <2>1. Same(thread') /\ reaped' \in 0 .. ReapLimit
    BY <1>3, Facts, ReapLimitAssumption DEF IdleYield
  <2> QED BY <1>3, <2>1, Facts, ScheduleInv DEF IdleYield
<1> QED BY <1>1, <1>2, <1>3 DEF Reclamation

\* kill and the default action of SIGKILL.
LEMMA EndsInv ==
    ASSUME IInv, cur.phase = "syscall", NEW id, NEW t \in FindUser(id), End(t)
    PROVE  IInv'
<1>1. t \in {current} \cup InQueue(run_queue) /\ thread[t].user
  BY DEF FindUser
<1>2. CASE t = current
  BY <1>2, Facts, ExitInv DEF End, UserPhases
<1>3. CASE t # current
  <2>1. t \in InQueue(run_queue) \cap Threads
    BY <1>1, <1>3, Facts DEF IInv, QueueIntegrity
  <2>2. Same(Served(cur))
    BY Facts, ServedSame
  <2>3. Terminate(Served(cur), t)
    BY <1>3 DEF End
  <2> QED BY <2>1, <2>2, <2>3, TerminateInv
<1> QED BY <1>2, <1>3

\* fork: the child has the image of its parent, which has one reference more.
LEMMA ForkInv == IInv /\ SysFork => IInv'
<1> SUFFICES ASSUME IInv, SysFork PROVE IInv'
  OBVIOUS
<1> DEFINE id == Head(thread_ids)
           object == [UserThread(id, cur.image) EXCEPT !.frame = cur.frame,
                          !.handlers = cur.handlers, !.context = cur.context]
<1>1. /\ cur.phase = "syscall" /\ cur \in ThreadObjects /\ thread_ids # <<>>
      /\ id \in Ids /\ image_refs \in [Images -> Int]
  BY Facts, TakenId DEF SysFork, IInv, TypeOK
<1>2. Same(Served(cur))
  BY <1>1, ServedSame
<1>3. ASSUME NEW t \in Unused, Publish(Served(cur), t, object, UserBlocks(t) \cup ContextBlocks(t, cur)),
             image_refs' = IF cur.image = NULL THEN image_refs
                           ELSE [image_refs EXCEPT ![cur.image] = @ + 1]
      PROVE  IInv'
  <2>1. UserThread(id, cur.image) \in ThreadObjects /\ cur.image \in Images \cup {NULL}
    BY <1>1, UserThreadType DEF ThreadObjects
  <2>2. object \in ThreadObjects
    BY <1>1, <2>1 DEF ThreadObjects
  <2>3. object.state = "runnable" /\ object.id = id /\ object.image = cur.image /\ object.user
    BY DEF UserThread, Zeroed
  <2>4. /\ image_refs' \in [Images -> Int]
        /\ \A i \in Images : image_refs'[i] = image_refs[i] + (IF cur.image = i THEN 1 ELSE 0)
    BY <1>1, <1>3, <2>1, ImagesAssumption
  <2> HIDE DEF object
  <2>5. \A i \in Images : image_refs'[i] = image_refs[i] + (IF object.image = i THEN 1 ELSE 0)
    BY <2>3, <2>4
  <2>6. UserBlocks(t) \cup ContextBlocks(t, cur) \in SUBSET (Kinds \X Threads)
    BY DEF UserBlocks, ContextBlocks, SignalBlocks, Kinds, Unused
  <2> QED BY <1>1, <1>2, <1>3, <2>2, <2>3, <2>4, <2>5, <2>6, PublishInv
<1>4. ASSUME Fails, thread' = Served(cur) PROVE IInv'
  <2>1. Same(thread')
    BY <1>2, <1>4
  <2> QED BY <1>1, <1>4, <2>1, FailsInv
<1> QED BY <1>3, <1>4 DEF SysFork, Fails, NextId

\* System calls.
LEMMA SystemCallsInv == IInv /\ SystemCalls => IInv'
<1> SUFFICES ASSUME IInv, SystemCalls PROVE IInv'
  OBVIOUS
<1>1. CASE SysNoEffect
  <2>1. Same(thread')
    BY <1>1, Facts, ServedSame DEF SysNoEffect
  <2> QED BY <1>1, <2>1, Facts, KeepInv DEF SysNoEffect, storage, idling
<1>2. CASE SysExit
  BY <1>2, Facts, ExitInv DEF SysExit, UserPhases
<1>3. CASE SysFork
  BY <1>3, ForkInv
<1>4. CASE SysSigreturn
  <2> DEFINE changed == [cur EXCEPT !.frame = cur.context, !.context = NoContext]
  <2>1. cur.context \in Frames /\ cur \in ThreadObjects /\ cur.phase = "syscall"
    BY <1>4, Facts DEF SysSigreturn, ThreadObjects
  <2>2. changed \in ThreadObjects
    BY <2>1 DEF ThreadObjects
  <2>3. /\ changed.state = cur.state /\ changed.id = cur.id /\ changed.user = cur.user
        /\ changed.image = cur.image
    OBVIOUS
  <2>4. thread' = Served(changed) /\ heap' \subseteq heap
    BY <1>4 DEF SysSigreturn
  <2> HIDE DEF changed
  <2>5. Same(thread')
    BY <2>1, <2>2, <2>3, <2>4, ServedSame
  <2> QED BY <1>4, <2>4, <2>5, Facts, KeepInv DEF SysSigreturn, idling
<1>5. ASSUME NEW i \in Images, SysExec(i) PROVE IInv'
  BY <1>5, ExecInv
<1>6. ASSUME NEW id \in Ids, SysKill(id) PROVE IInv'
  BY <1>6, EndsInv DEF SysKill
<1>7. ASSUME NEW s \in Signals, NEW handler \in Code \cup {NULL}, SysSignalRegister(s, handler)
      PROVE  IInv'
  <2> DEFINE changed == [cur EXCEPT !.handlers[s] = handler]
  <2>1. cur \in ThreadObjects /\ cur.phase = "syscall"
    BY <1>7, Facts DEF SysSignalRegister
  <2>2. changed = [cur EXCEPT !.handlers = [cur.handlers EXCEPT ![s] = handler]]
    BY <2>1 DEF ThreadObjects
  <2>3. [cur.handlers EXCEPT ![s] = handler] \in [Signals -> Code \cup {NULL}]
    BY <2>1 DEF ThreadObjects
  <2>4. changed \in ThreadObjects
    BY <2>1, <2>2, <2>3 DEF ThreadObjects
  <2>5. /\ changed.state = cur.state /\ changed.id = cur.id /\ changed.user = cur.user
        /\ changed.image = cur.image
    BY <2>2
  <2>6. thread' = Served(changed)
    BY <1>7 DEF SysSignalRegister
  <2> HIDE DEF changed
  <2>7. Same(thread')
    BY <2>1, <2>4, <2>5, <2>6, ServedSame
  <2> QED BY <1>7, <2>7, Facts, KeepInv DEF SysSignalRegister, storage, idling
<1>8. ASSUME NEW id \in Ids, NEW s \in Signals, SysSignalKill(id, s) PROVE IInv'
  <2>1. cur.phase = "syscall"
    BY <1>8 DEF SysSignalKill
  <2>2. PICK t \in FindUser(id) :
           IF s = SIGKILL /\ thread[t].handlers[s] = NULL
           THEN End(t)
           ELSE /\ thread' = [Served(cur) EXCEPT ![t].pending = @ \cup {s}]
                /\ UNCHANGED <<zombies, thread_ids, queues, storage, idling>>
    BY <1>8 DEF SysSignalKill
  <2>3. CASE End(t)
    BY <2>1, <2>3, EndsInv
  <2>4. CASE /\ thread' = [Served(cur) EXCEPT ![t].pending = @ \cup {s}]
             /\ UNCHANGED <<zombies, thread_ids, queues, storage, idling>>
    <3>1. Same(Served(cur))
      BY <2>1, Facts, ServedSame
    <3> DEFINE table == Served(cur)
               marked == [table[t] EXCEPT !.pending = table[t].pending \cup {s}]
    <3>2. t \in All /\ table[t] \in ThreadObjects /\ table \in [All -> ThreadObjects]
      BY <3>1, Facts DEF FindUser, IInv, QueueIntegrity, Live, Same
    <3>3. /\ marked \in ThreadObjects /\ marked.state = table[t].state /\ marked.id = table[t].id
          /\ marked.user = table[t].user /\ marked.image = table[t].image
          /\ marked.phase = table[t].phase
      BY <3>2 DEF ThreadObjects
    <3>4. thread' = [table EXCEPT ![t] = marked]
      BY <2>4, <3>2
    <3> HIDE DEF table, marked
    <3>5. Same(table)
      BY <3>1 DEF table
    <3>6. Same(thread')
      BY <3>2, <3>3, <3>4, <3>5 DEF Same
    <3> QED BY <2>4, <3>6, Facts, KeepInv DEF storage, idling
  <2> QED BY <2>2, <2>3, <2>4
<1> QED BY <1>1, <1>2, <1>3, <1>4, <1>5, <1>6, <1>7, <1>8 DEF SystemCalls

\* What happens at EL0 and on the way back to it.
LEMMA UserCodeInv == IInv /\ UserCode => IInv'
<1> SUFFICES ASSUME IInv, UserCode PROVE IInv'
  OBVIOUS
<1>1. CASE Svc
  <2>1. Same(thread')
    BY <1>1, Facts, PhaseSame DEF Svc, Phases, UserPhases
  <2> QED BY <1>1, <2>1, Facts, KeepInv DEF Svc, storage, idling
<1>2. CASE Fault
  BY <1>2, Facts, ExitInv DEF Fault, UserPhases
<1>3. CASE ExceptionReturn
  <2> DEFINE changed == [cur EXCEPT !.phase = "user",
                            !.pending = IF cur.context = NoContext THEN {} ELSE cur.pending]
  <2>1. cur \in ThreadObjects /\ cur.user
    BY <1>3, Facts DEF ExceptionReturn, Returning
  <2>2. /\ changed \in ThreadObjects
        /\ changed.state = cur.state /\ changed.id = cur.id /\ changed.user = cur.user
        /\ changed.image = cur.image
    BY <2>1 DEF ThreadObjects, Phases
  <2>3. thread' = [thread EXCEPT ![current] = changed]
    BY <1>3, Facts DEF ExceptionReturn, cur
  <2> HIDE DEF changed
  <2>4. Same(thread')
    BY <2>1, <2>2, <2>3, ChangedSame
  <2> QED BY <1>3, <2>4, Facts, KeepInv DEF ExceptionReturn, storage, idling
<1>4. ASSUME NEW s \in Signals, Deliver(s) PROVE IInv'
  <2>1. cur \in ThreadObjects /\ cur.user /\ current \in Threads /\ s \in Deliverable
    BY <1>4, Facts DEF Deliver, Returning, UserPhases
  <2>2. CASE \E blocks \in {heap} \cup ContextFails(current, heap) : Ends(blocks)
    <3>1. PICK blocks \in {heap} \cup ContextFails(current, heap) : Ends(blocks)
      BY <2>2
    <3>2. blocks \in SUBSET (Kinds \X Threads)
      BY <3>1 DEF ContextFails, IInv, TypeOK, Kinds
    <3> QED BY <2>1, <3>1, <3>2, LeaveInv
  <2>3. CASE cur.handlers[s] # NULL /\ Enter(s)
    <3> DEFINE changed == [cur EXCEPT !.phase = "user", !.context = cur.frame,
                              !.pending = {p \in cur.pending : p > s},
                              !.frame = [code |-> cur.handlers[s], at |-> s]]
    <3>1. cur.handlers[s] \in Code
      BY <2>1, <2>3 DEF ThreadObjects
    <3>2. [code |-> cur.handlers[s], at |-> s] \in Frames
      BY <3>1 DEF Frames
    <3>3. /\ changed \in ThreadObjects
          /\ changed.state = cur.state /\ changed.id = cur.id /\ changed.user = cur.user
          /\ changed.image = cur.image
      BY <2>1, <3>2 DEF ThreadObjects, Phases
    <3>4. /\ thread' = [thread EXCEPT ![current] = changed]
          /\ heap' \subseteq Kinds \X Threads
      BY <2>1, <2>3, Facts DEF Enter, SignalBlocks, Kinds, cur, IInv, TypeOK
    <3> HIDE DEF changed
    <3>5. Same(thread')
      BY <2>1, <3>3, <3>4, ChangedSame
    <3> QED BY <2>3, <3>4, <3>5, Facts, KeepInv DEF Enter, idling
  <2> QED BY <1>4, <2>2, <2>3 DEF Deliver, Exit
<1> QED BY <1>1, <1>2, <1>3, <1>4 DEF UserCode

\* Every step keeps the inductive invariant.
LEMMA StepInv == IInv /\ [Next]_vars => IInv'
<1> SUFFICES ASSUME IInv, [Next]_vars PROVE IInv'
  OBVIOUS
<1>1. CASE Next
  BY <1>1, SchedulingInv, KernelCallsInv, ReclamationInv, SystemCallsInv, UserCodeInv DEF Next
<1>2. CASE UNCHANGED vars
  <2>1. Same(thread')
    BY <1>2, Facts DEF vars
  <2> QED BY <1>2, <2>1, Facts, KeepInv DEF vars, storage, idling
<1> QED BY <1>1, <1>2
-------------------------------------------------------------------------------
(* What threads own and where they stand *)

\* The heap holds the blocks of every thread object in the table that is in use.
Owns(table, blocks) ==
    /\ blocks \subseteq Kinds \X Threads
    /\ \A t \in Threads, k \in Kinds :
          <<k, t>> \in blocks <=> table[t].state # "free" /\ <<k, t>> \in BlocksOf(t, table[t])

\* What OwnContext says of one user thread.
InOwnCode(me) ==
    /\ me.frame.code = RegionOf(me.image)
    /\ me.frame.at # 0 <=> me.context # NoContext
    /\ me.context # NoContext => me.context = [code |-> RegionOf(me.image), at |-> 0]
    /\ \A s \in Signals : me.handlers[s] \in {NULL, RegionOf(me.image)}

\* What holds of every thread object; a block that is not in use holds nothing.
Proper(me) ==
    /\ me.state = "runnable" /\ me.user => InOwnCode(me)
    /\ me.state = "runnable" /\ me.phase = "user" /\ me.context = NoContext => me.pending = {}
    /\ me.state = "free" => me = Zeroed

\* Only the running thread is at EL0: this is why a signal sent by another thread always
\* finds its receiver on the kernel side, where it will pass thread_signal_deliver.
Sound(table, blocks, running) ==
    /\ table \in [All -> ThreadObjects]
    /\ Owns(table, blocks)
    /\ \A t \in All : Proper(table[t])
    /\ \A t \in All : table[t].phase = "user" => t = running

\* The second inductive invariant: IInv, and what the threads own and where they stand.
FullInv == IInv /\ Sound(thread, heap, current)

\* Replacing one thread object and its blocks.
LEMMA SoundUpdate ==
    ASSUME NEW table, NEW blocks, NEW running, Sound(table, blocks, running),
           NEW t \in All, NEW object \in ThreadObjects, Proper(object),
           object.phase = "user" => t = running,
           NEW after \in SUBSET (Kinds \X Threads),
           \A u \in Threads, k \in Kinds :
              <<k, u>> \in after <=> IF u = t THEN object.state # "free" /\ <<k, t>> \in BlocksOf(t, object)
                                              ELSE <<k, u>> \in blocks
    PROVE  Sound([table EXCEPT ![t] = object], after, running)
<1> DEFINE new == [table EXCEPT ![t] = object]
<1>1. /\ new \in [All -> ThreadObjects] /\ new[t] = object
      /\ \A u \in All \ {t} : new[u] = table[u]
  BY DEF Sound
<1> HIDE DEF new
<1>2. Owns(new, after)
  <2> SUFFICES ASSUME NEW u \in Threads, NEW k \in Kinds
               PROVE  <<k, u>> \in after
                         <=> new[u].state # "free" /\ <<k, u>> \in BlocksOf(u, new[u])
    BY DEF Owns
  <2>1. CASE u = t
    BY <1>1, <2>1
  <2>2. CASE u # t
    BY <1>1, <2>2 DEF Sound, Owns, All
  <2> QED BY <2>1, <2>2
<1>3. \A u \in All : Proper(new[u])
  BY <1>1 DEF Sound
<1>4. \A u \in All : new[u].phase = "user" => u = running
  BY <1>1 DEF Sound
<1> QED BY <1>1, <1>2, <1>3, <1>4 DEF Sound, new

\* Replacing an object by one that owns the same blocks.
LEMMA SoundKeep ==
    ASSUME NEW table, NEW blocks, NEW running, Sound(table, blocks, running),
           NEW t \in All, NEW object \in ThreadObjects, Proper(object),
           object.phase = "user" => t = running,
           object.state = "free" <=> table[t].state = "free",
           object.user = table[t].user,
           object.context = NoContext <=> table[t].context = NoContext
    PROVE  Sound([table EXCEPT ![t] = object], blocks, running)
<1>1. blocks \subseteq Kinds \X Threads
  BY DEF Sound, Owns
<1>2. BlocksOf(t, object) = BlocksOf(t, table[t])
  BY DEF BlocksOf, ContextBlocks
<1>3. ASSUME NEW u \in Threads, NEW k \in Kinds
      PROVE  <<k, u>> \in blocks
                <=> IF u = t THEN object.state # "free" /\ <<k, t>> \in BlocksOf(t, object)
                             ELSE <<k, u>> \in blocks
  BY <1>2 DEF Sound, Owns
<1> QED BY <1>1, <1>3, SoundUpdate

\* A switch away from a thread that is not at EL0.
LEMMA SoundSwitch ==
    ASSUME NEW table, NEW blocks, NEW running, Sound(table, blocks, running),
           running \in All, table[running].phase # "user"
    PROVE  \A next : Sound(table, blocks, next)
BY DEF Sound
-------------------------------------------------------------------------------
\* fork and creation: an unused block takes the new thread.
LEMMA PublishSound ==
    ASSUME IInv, NEW table, Sound(table, heap, current),
           NEW t \in Threads, table[t].state = "free", NEW object \in ThreadObjects,
           Publish(table, t, object, BlocksOf(t, object)), object.state = "runnable", Proper(object),
           object.phase # "user"
    PROVE  Sound(thread', heap', current')
<1>1. /\ heap' = heap \cup BlocksOf(t, object) /\ current' = current
      /\ thread' = [table EXCEPT ![t] = object]
  BY DEF Publish
<1>2. t \in All /\ heap \subseteq Kinds \X Threads
  BY DEF All, Sound, Owns
<1>3. heap' \in SUBSET (Kinds \X Threads)
  BY <1>1, <1>2, BlocksOwned
<1>4. \A k \in Kinds : <<k, t>> \notin heap
  BY DEF Sound, Owns
<1>5. \A u \in Threads, k \in Kinds : u # t => <<k, u>> \notin BlocksOf(t, object)
  BY BlocksOwned
<1>6. ASSUME NEW u \in Threads, NEW k \in Kinds
      PROVE  <<k, u>> \in heap'
                <=> IF u = t THEN object.state # "free" /\ <<k, t>> \in BlocksOf(t, object)
                             ELSE <<k, u>> \in heap
  BY <1>1, <1>4, <1>5
<1> QED BY <1>1, <1>2, <1>3, <1>6, SoundUpdate

\* A creation that fails leaves the heap as it was: what it allocated was free.
LEMMA FailsHeap ==
    ASSUME Sound(thread, heap, current), Fails
    PROVE  heap' = heap
<1>1. PICK freed \in SUBSET (Kinds \X Unused) : \E taken \in SUBSET freed :
         heap' = (heap \cup taken) \ freed
  BY FailsFacts
<1>2. heap \cap freed = {}
  BY DEF Unused, Sound, Owns
<1> QED BY <1>1, <1>2

\* Nor does the failure to allocate a context for a thread that has none.
LEMMA ContextFailsHeap ==
    ASSUME Sound(thread, heap, current), current \in Threads, cur.context = NoContext,
           NEW blocks \in ContextFails(current, heap)
    PROVE  blocks = heap
<1>1. <<"signal_context", current>> \notin BlocksOf(current, cur)
  BY DEF BlocksOf, KernelBlocks, UserBlocks, ContextBlocks
<1>2. <<"signal_context", current>> \notin heap
  BY <1>1 DEF Sound, Owns, Kinds, cur
<1> QED BY <1>2 DEF ContextFails

\* A thread ends: it keeps its blocks until idle frees them.
LEMMA BurySound ==
    ASSUME NEW table, NEW running, Sound(table, heap, running),
           NEW t \in All, table[t].state = "runnable",
           thread' = [table EXCEPT ![t] = Buried(@)], UNCHANGED heap,
           current' = running \/ t = running
    PROVE  Sound(thread', heap', current')
<1>1. table[t] \in ThreadObjects /\ table \in [All -> ThreadObjects]
  BY DEF Sound
<1> DEFINE object == Buried(table[t])
<1>2. object \in ThreadObjects
  BY <1>1, BuriedType
<1>3. /\ object.state = "dead" /\ object.user = table[t].user
      /\ object.context = table[t].context /\ object.phase = "kernel"
  BY DEF Buried, Zeroed
<1>4. thread' = [table EXCEPT ![t] = object]
  OBVIOUS
<1> HIDE DEF object
<1>5. Proper(object)
  BY <1>3 DEF Proper
<1>6. Sound(thread', heap', running)
  <2>1. heap' = heap
    OBVIOUS
  <2>2. Sound([table EXCEPT ![t] = object], heap, running)
    BY <1>1, <1>2, <1>3, <1>5, SoundKeep
  <2> QED BY <1>4, <2>1, <2>2
<1>7. CASE current' = running
  BY <1>6, <1>7
<1>8. CASE t = running
  <2>1. thread'[running].phase # "user" /\ running \in All
    BY <1>1, <1>3, <1>4, <1>8
  <2> QED BY <1>6, <2>1, SoundSwitch
<1> QED BY <1>7, <1>8
-------------------------------------------------------------------------------
\* The running thread changes what it is doing without leaving or entering its program.
LEMMA KeepProper ==
    ASSUME NEW me, Proper(me), me.state = "runnable", NEW changed,
           changed.state = "runnable", changed.phase # "user",
           changed.user = me.user, changed.image = me.image, changed.frame = me.frame,
           changed.context = me.context, changed.handlers = me.handlers
    PROVE  Proper(changed)
BY DEF Proper, InOwnCode

\* What every step may use of the running thread.
LEMMA CurrentFacts ==
    ASSUME FullInv
    PROVE  /\ thread \in [All -> ThreadObjects] /\ current \in All /\ cur \in ThreadObjects
           /\ cur.state = "runnable" /\ Proper(cur) /\ cur = thread[current]
           /\ cur.user => InOwnCode(cur) /\ current \in Threads
           /\ cur.phase \in UserPhases => cur.user
           /\ Sound(thread, heap, current)
BY Facts DEF FullInv, IInv, Sound, Live, Proper, cur, TypeOK, QueueIntegrity

\* A change of the running thread that leaves its blocks alone.
LEMMA ChangedSound ==
    ASSUME FullInv, NEW changed, changed \in ThreadObjects, Proper(changed),
           changed.state = "runnable", changed.user = cur.user,
           changed.context = NoContext <=> cur.context = NoContext
    PROVE  Sound([thread EXCEPT ![current] = changed], heap, current)
BY CurrentFacts, SoundKeep

\* In particular a system call without an effect on the thread itself.
LEMMA ServedSound ==
    ASSUME FullInv, cur.phase = "syscall"
    PROVE  /\ Sound(Served(cur), heap, current)
           /\ \A t \in All : Served(cur)[t].state = thread[t].state
<1> DEFINE changed == [cur EXCEPT !.phase = "leaving"]
<1>1. /\ changed \in ThreadObjects /\ changed.state = "runnable" /\ changed.phase = "leaving"
      /\ changed.user = cur.user /\ changed.image = cur.image /\ changed.frame = cur.frame
      /\ changed.context = cur.context /\ changed.handlers = cur.handlers
  BY CurrentFacts DEF ThreadObjects, Phases
<1>2. Served(cur) = [thread EXCEPT ![current] = changed]
  BY DEF Served
<1> HIDE DEF changed
<1>3. Proper(changed)
  BY <1>1, CurrentFacts, KeepProper
<1>4. Sound([thread EXCEPT ![current] = changed], heap, current)
  BY <1>1, <1>3, ChangedSound
<1>5. \A t \in All : [thread EXCEPT ![current] = changed][t].state = thread[t].state
  BY <1>1, CurrentFacts
<1> QED BY <1>2, <1>4, <1>5

\* A change of phase only.
LEMMA PhaseSound ==
    ASSUME FullInv, NEW p \in Phases \ {"user"}
    PROVE  Sound([thread EXCEPT ![current].phase = p], heap, current)
<1> DEFINE changed == [cur EXCEPT !.phase = p]
<1>1. /\ changed \in ThreadObjects /\ changed.state = "runnable" /\ changed.phase = p
      /\ changed.user = cur.user /\ changed.image = cur.image /\ changed.frame = cur.frame
      /\ changed.context = cur.context /\ changed.handlers = cur.handlers
  BY CurrentFacts DEF ThreadObjects
<1>2. [thread EXCEPT ![current].phase = p] = [thread EXCEPT ![current] = changed]
  BY CurrentFacts DEF cur
<1> HIDE DEF changed
<1>3. Proper(changed)
  BY <1>1, CurrentFacts, KeepProper
<1> QED BY <1>1, <1>2, <1>3, ChangedSound

\* thread_exit.
LEMMA ExitSound ==
    ASSUME FullInv, current \in Threads, Exit
    PROVE  Sound(thread', heap', current')
<1>1. thread' = [thread EXCEPT ![current] = Buried(@)] /\ UNCHANGED heap
  BY DEF Exit, Ends
<1> QED BY <1>1, CurrentFacts, BurySound DEF cur

\* A switch moves the CPU and changes states; nobody's blocks or contexts move.
LEMMA SchedulingSound == FullInv /\ Scheduling => Sound(thread', heap', current')
<1> SUFFICES ASSUME FullInv, Scheduling PROVE Sound(thread', heap', current')
  OBVIOUS
<1>1. CASE Yield
  <2>1. thread' = thread /\ heap' = heap /\ cur.phase = "kernel"
    BY <1>1 DEF Yield, storage
  <2> QED BY <2>1, CurrentFacts, SoundSwitch
<1>2. CASE Preempt
  <2> DEFINE p == IF cur.phase = "user" THEN "return" ELSE cur.phase
             table == [thread EXCEPT ![current].phase = p]
  <2>1. p \in Phases \ {"user"}
    BY CurrentFacts DEF ThreadObjects, Phases
  <2>2. thread' = table /\ heap' = heap
    BY <1>2, CurrentFacts DEF Preempt, storage, cur
  <2>3. Sound(table, heap, current)
    BY <2>1, PhaseSound
  <2>4. table[current].phase # "user"
    BY <2>1, CurrentFacts DEF ThreadObjects
  <2> HIDE DEF table
  <2> QED BY <2>2, <2>3, <2>4, CurrentFacts, SoundSwitch
<1>3. CASE StartPreemption
  BY <1>3, CurrentFacts DEF StartPreemption, queues, storage
<1> QED BY <1>1, <1>2, <1>3 DEF Scheduling

\* The objects of new threads.
LEMMA NewProper ==
    ASSUME NEW id
    PROVE  /\ Proper(KernelThread(id)) /\ KernelThread(id).phase = "kernel"
           /\ KernelThread(id).state = "runnable"
           /\ \A image \in Images \cup {NULL} :
                 /\ Proper(UserThread(id, image)) /\ UserThread(id, image).phase = "return"
                 /\ UserThread(id, image).state = "runnable"
<1>1. Proper(KernelThread(id)) /\ KernelThread(id).phase = "kernel"
      /\ KernelThread(id).state = "runnable"
  BY DEF KernelThread, Zeroed, Proper
<1>2. ASSUME NEW image \in Images \cup {NULL}
      PROVE  /\ Proper(UserThread(id, image)) /\ UserThread(id, image).phase = "return"
             /\ UserThread(id, image).state = "runnable"
  <2> DEFINE me == UserThread(id, image)
  <2>1. /\ me.state = "runnable" /\ me.phase = "return" /\ me.image = image
        /\ me.frame = [code |-> RegionOf(image), at |-> 0] /\ me.context = NoContext
        /\ me.handlers = [s \in Signals |-> NULL]
    BY DEF UserThread, Zeroed
  <2> HIDE DEF me
  <2>2. InOwnCode(me)
    BY <2>1 DEF InOwnCode
  <2>3. Proper(me)
    BY <2>1, <2>2 DEF Proper
  <2> QED BY <2>1, <2>3 DEF me
<1> QED BY <1>1, <1>2

\* Their fields name the blocks that were allocated for them.
LEMMA NewBlocks ==
    ASSUME NEW t, NEW id
    PROVE  /\ KernelBlocks(t) = BlocksOf(t, KernelThread(id))
           /\ \A image : UserBlocks(t) = BlocksOf(t, UserThread(id, image))
<1>1. ~KernelThread(id).user /\ KernelThread(id).context = NoContext
  BY DEF KernelThread, Zeroed
<1>2. \A image : UserThread(id, image).user /\ UserThread(id, image).context = NoContext
  BY DEF UserThread, Zeroed
<1> QED BY <1>1, <1>2 DEF BlocksOf, ContextBlocks

\* thread_create and user_thread_create: a new object and its blocks appear together.
LEMMA CreationSound ==
    ASSUME FullInv, ThreadCreate \/ ThreadCreateUser \/ ThreadCreateProgram
    PROVE  Sound(thread', heap', current')
<1> DEFINE id == Head(thread_ids)
<1>1. id \in Ids /\ id \in Ids \cup {0, 1} /\ Sound(thread, heap, current) /\ IInv
  BY TakenId DEF FullInv, ThreadCreate, ThreadCreateUser, ThreadCreateProgram
<1>2. ASSUME Fails, UNCHANGED thread
      PROVE  Sound(thread', heap', current')
  BY <1>1, <1>2, FailsHeap, FailsFacts DEF queues
<1>3. ASSUME NEW t \in Unused, NEW object \in ThreadObjects,
             Publish(thread, t, object, BlocksOf(t, object)),
             Proper(object), object.state = "runnable", object.phase # "user"
      PROVE  Sound(thread', heap', current')
  BY <1>1, <1>3, PublishSound DEF Unused
<1>4. CASE ThreadCreate
  <2>1. ASSUME NEW t \in Unused, Publish(thread, t, KernelThread(id), KernelBlocks(t))
        PROVE  Sound(thread', heap', current')
    <3>1. Publish(thread, t, KernelThread(id), BlocksOf(t, KernelThread(id)))
      BY <2>1, NewBlocks
    <3> QED BY <1>1, <1>3, <3>1, KernelThreadType, NewProper
  <2> QED BY <1>2, <1>4, <2>1 DEF ThreadCreate, Fails, NextId
<1>5. ASSUME NEW t \in Unused, NEW image \in Images \cup {NULL},
             Publish(thread, t, UserThread(id, image), UserBlocks(t))
      PROVE  Sound(thread', heap', current')
  <2>1. Publish(thread, t, UserThread(id, image), BlocksOf(t, UserThread(id, image)))
    BY <1>5, NewBlocks
  <2> QED BY <1>1, <1>3, <2>1, UserThreadType, NewProper
<1>6. CASE ThreadCreateUser
  BY <1>2, <1>5, <1>6 DEF ThreadCreateUser, Fails, NextId
<1>7. CASE ThreadCreateProgram
  BY <1>2, <1>5, <1>7 DEF ThreadCreateProgram, Fails, NextId
<1> QED BY <1>4, <1>6, <1>7

\* The calls of kernel threads: creation, exit and yielding.
LEMMA KernelCallsSound == FullInv /\ KernelCalls => Sound(thread', heap', current')
<1> SUFFICES ASSUME FullInv, KernelCalls PROVE Sound(thread', heap', current')
  OBVIOUS
<1>1. CASE ThreadCreate \/ ThreadCreateUser \/ ThreadCreateProgram
  BY <1>1, CreationSound
<1>2. CASE ThreadReturn
  <2>1. current \in Threads
    BY <1>2, CurrentFacts DEF ThreadReturn, InKernel, All
  <2> QED BY <1>2, <2>1, ExitSound DEF ThreadReturn
<1>3. CASE KillAllUsers
  BY <1>3, PhaseSound DEF KillAllUsers, queues, storage, Phases
<1>4. CASE KillNextUser
  <2>1. PICK i \in QueuedUsers : Terminate(thread, run_queue[i])
    BY <1>4 DEF KillNextUser
  <2>2. run_queue[i] \in InQueue(run_queue)
    BY DEF QueuedUsers, InQueue
  <2>3. run_queue[i] \in All /\ thread[run_queue[i]].state = "runnable"
    BY <2>2 DEF FullInv, IInv, QueueIntegrity, Live
  <2>4. /\ thread' = [thread EXCEPT ![run_queue[i]] = Buried(@)] /\ UNCHANGED heap
        /\ current' = current
    BY <2>1 DEF Terminate, storage
  <2> QED BY <2>3, <2>4, CurrentFacts, BurySound
<1>5. CASE AllUsersKilled
  BY <1>5, PhaseSound DEF AllUsersKilled, queues, storage, Phases
<1> QED BY <1>1, <1>2, <1>3, <1>4, <1>5 DEF KernelCalls

\* Reclaiming a zombie frees all its blocks.
LEMMA ReapSound == FullInv /\ Reap => Sound(thread', heap', current')
<1> SUFFICES ASSUME FullInv, Reap PROVE Sound(thread', heap', current')
  OBVIOUS
<1> DEFINE t == Head(zombies)
<1>1. t \in Dead /\ t \in Threads /\ t \in All
  <2>1. zombies \in Seq(Threads) /\ zombies # <<>> /\ Distinct(zombies) /\ InQueue(zombies) = Dead
    BY DEF Reap, FullInv, IInv, TypeOK, QueueIntegrity
  <2>2. t \in Threads /\ t \in InQueue(zombies)
    BY <2>1, TailDistinct
  <2> QED BY <2>1, <2>2 DEF All
<1>2. /\ thread' = [thread EXCEPT ![t] = Zeroed] /\ current' = current
      /\ heap' = heap \ BlocksOf(t, thread[t])
  BY DEF Reap, queues
<1>3. thread[t].state = "dead"
  BY <1>1 DEF Dead
<1> HIDE DEF t
<1>4. Proper(Zeroed) /\ Zeroed \in ThreadObjects /\ Zeroed.state = "free" /\ Zeroed.phase = "kernel"
  BY ZeroedType DEF Proper, Zeroed
<1>5. Sound(thread, heap, current) /\ heap' \in SUBSET (Kinds \X Threads)
  BY <1>2 DEF FullInv, Sound, Owns
<1>6. ASSUME NEW u \in Threads, NEW k \in Kinds
      PROVE  <<k, u>> \in heap'
                <=> IF u = t THEN Zeroed.state # "free" /\ <<k, t>> \in BlocksOf(t, Zeroed)
                             ELSE <<k, u>> \in heap
  <2>1. CASE u = t
    <3>1. <<k, t>> \in heap <=> <<k, t>> \in BlocksOf(t, thread[t])
      BY <1>1, <1>3, <1>5 DEF Sound, Owns
    <3> QED BY <1>2, <1>4, <2>1, <3>1
  <2>2. CASE u # t
    <3>1. <<k, u>> \notin BlocksOf(t, thread[t])
      BY <2>2, BlocksOwned
    <3> QED BY <1>2, <2>2, <3>1
  <2> QED BY <2>1, <2>2
<1>7. Sound([thread EXCEPT ![t] = Zeroed], heap', current)
  BY <1>1, <1>4, <1>5, <1>6, SoundUpdate
<1> QED BY <1>2, <1>7

\* idle frees the blocks of a dead thread and its object, step by step.
LEMMA ReclamationSound == FullInv /\ Reclamation => Sound(thread', heap', current')
<1> SUFFICES ASSUME FullInv, Reclamation PROVE Sound(thread', heap', current')
  OBVIOUS
<1>1. CASE Reap
  BY <1>1, ReapSound
<1>2. CASE ReapNone
  BY <1>2, CurrentFacts DEF ReapNone, queues, storage
<1>3. CASE IdleYield
  <2>1. thread' = thread /\ heap' = heap /\ current = Idle
    BY <1>3 DEF IdleYield, storage
  <2>2. cur.phase # "user"
    BY <2>1, CurrentFacts, ThreadsAssumption DEF UserPhases, FullInv, IInv, Modes
  <2> QED BY <2>1, <2>2, CurrentFacts, SoundSwitch
<1> QED BY <1>1, <1>2, <1>3 DEF Reclamation

\* The running thread gives up the context that a handler interrupted.
LEMMA DropContextSound ==
    ASSUME FullInv, current \in Threads, NEW changed \in ThreadObjects, Proper(changed),
           changed.state = "runnable", changed.user = cur.user, changed.context = NoContext,
           heap' = heap \ ContextBlocks(current, cur)
    PROVE  Sound([thread EXCEPT ![current] = changed], heap', current)
<1>1. /\ Sound(thread, heap, current) /\ cur.state = "runnable" /\ cur = thread[current]
      /\ current \in All
  BY CurrentFacts
<1>2. heap' \in SUBSET (Kinds \X Threads)
  BY <1>1 DEF Sound, Owns
<1>3. ASSUME NEW u \in Threads, NEW k \in Kinds
      PROVE  <<k, u>> \in heap'
                <=> IF u = current
                    THEN changed.state # "free" /\ <<k, current>> \in BlocksOf(current, changed)
                    ELSE <<k, u>> \in heap
  <2>1. CASE u = current
    <3>1. <<k, current>> \in heap <=> <<k, current>> \in BlocksOf(current, cur)
      BY <1>1 DEF Sound, Owns
    <3>2. BlocksOf(current, changed) = BlocksOf(current, cur) \ ContextBlocks(current, cur)
      BY DEF BlocksOf, KernelBlocks, UserBlocks, ContextBlocks, SignalBlocks
    <3> QED BY <2>1, <3>1, <3>2
  <2>2. CASE u # current
    BY <2>2 DEF ContextBlocks, SignalBlocks
  <2> QED BY <2>1, <2>2
<1> QED BY <1>1, <1>2, <1>3, SoundUpdate

\* syscall_exec: a thread drops its old program with its handlers and saved context.
LEMMA ExecSound ==
    ASSUME FullInv, NEW i \in Images, SysExec(i)
    PROVE  Sound(thread', heap', current')
<1> DEFINE new == [cur EXCEPT !.image = i, !.frame = [code |-> i, at |-> 0],
                              !.handlers = Zeroed.handlers, !.pending = {},
                              !.context = NoContext, !.phase = "leaving"]
<1>1. cur.phase = "syscall" /\ cur \in ThreadObjects /\ cur.user /\ current \in Threads
      /\ cur.state = "runnable"
  BY CurrentFacts DEF SysExec, UserPhases
<1>2. /\ thread' = [thread EXCEPT ![current] = new] /\ current' = current
      /\ heap' = heap \ ContextBlocks(current, cur)
  BY DEF SysExec, Served, queues
<1>3. /\ new \in ThreadObjects /\ new.state = "runnable" /\ new.user = cur.user
      /\ new.image = i /\ new.frame = [code |-> i, at |-> 0] /\ new.context = NoContext
      /\ new.handlers = [s \in Signals |-> NULL] /\ new.phase = "leaving"
  <2>1. Zeroed.handlers = [s \in Signals |-> NULL] /\ [code |-> i, at |-> 0] \in Frames
    BY DEF Zeroed, Frames, Code
  <2>2. Zeroed.handlers \in [Signals -> Code \cup {NULL}]
    BY <2>1
  <2> QED BY <1>1, <2>1, <2>2 DEF ThreadObjects, Phases
<1> HIDE DEF new
<1>4. RegionOf(i) = i
  BY ImagesAssumption DEF RegionOf
<1>5. Proper(new)
  BY <1>3, <1>4 DEF Proper, InOwnCode
<1>6. Sound([thread EXCEPT ![current] = new], heap', current)
  BY <1>1, <1>2, <1>3, <1>5, DropContextSound
<1> QED BY <1>2, <1>6

\* syscall_sigreturn: the interrupted context comes back, the user stack goes.
LEMMA SigreturnSound == FullInv /\ SysSigreturn => Sound(thread', heap', current')
<1> SUFFICES ASSUME FullInv, SysSigreturn PROVE Sound(thread', heap', current')
  OBVIOUS
<1> DEFINE new == [cur EXCEPT !.frame = cur.context, !.context = NoContext, !.phase = "leaving"]
<1>1. /\ cur.phase = "syscall" /\ cur \in ThreadObjects /\ cur.user /\ current \in Threads
      /\ cur.state = "runnable" /\ cur.context # NoContext /\ InOwnCode(cur)
  BY CurrentFacts DEF SysSigreturn, UserPhases
<1>2. /\ thread' = [thread EXCEPT ![current] = new] /\ current' = current
      /\ heap' = heap \ ContextBlocks(current, cur)
  BY DEF SysSigreturn, Served, queues
<1>3. cur.context \in Frames /\ cur.context = [code |-> RegionOf(cur.image), at |-> 0]
  BY <1>1 DEF ThreadObjects, InOwnCode
<1>4. /\ new \in ThreadObjects /\ new.state = "runnable" /\ new.user = cur.user
      /\ new.image = cur.image /\ new.frame = cur.context /\ new.context = NoContext
      /\ new.handlers = cur.handlers /\ new.phase = "leaving"
  BY <1>1, <1>3 DEF ThreadObjects, Phases
<1> HIDE DEF new
<1>5. Proper(new)
  BY <1>1, <1>3, <1>4 DEF Proper, InOwnCode
<1>6. Sound([thread EXCEPT ![current] = new], heap', current)
  BY <1>1, <1>2, <1>4, <1>5, DropContextSound
<1> QED BY <1>2, <1>6

\* fork: the child is a copy of its parent up to the pending signals.
LEMMA ForkSound == FullInv /\ SysFork => Sound(thread', heap', current')
<1> SUFFICES ASSUME FullInv, SysFork PROVE Sound(thread', heap', current')
  OBVIOUS
<1> DEFINE id == Head(thread_ids)
           object == [UserThread(id, cur.image) EXCEPT !.frame = cur.frame,
                          !.handlers = cur.handlers, !.context = cur.context]
<1>1. /\ IInv /\ cur.phase = "syscall" /\ cur \in ThreadObjects /\ id \in Ids
      /\ cur.user /\ InOwnCode(cur) /\ Sound(thread, heap, current)
  BY CurrentFacts, TakenId DEF SysFork, FullInv, UserPhases
<1>2. /\ Sound(Served(cur), heap, current)
      /\ \A t \in All : Served(cur)[t].state = thread[t].state
  BY <1>1, ServedSound
<1>3. ASSUME NEW t \in Unused, Publish(Served(cur), t, object, UserBlocks(t) \cup ContextBlocks(t, cur))
      PROVE  Sound(thread', heap', current')
  <2>1. UserThread(id, cur.image) \in ThreadObjects
    BY <1>1, UserThreadType DEF ThreadObjects
  <2>2. object \in ThreadObjects
    BY <1>1, <2>1 DEF ThreadObjects
  <2>3. /\ object.state = "runnable" /\ object.image = cur.image /\ object.user
        /\ object.frame = cur.frame /\ object.handlers = cur.handlers
        /\ object.context = cur.context /\ object.phase = "return"
    BY DEF UserThread, Zeroed
  <2>4. t \in Threads /\ Served(cur)[t].state = "free"
    BY <1>2 DEF Unused, All
  <2> HIDE DEF object
  <2>5. Proper(object)
    BY <1>1, <2>3 DEF Proper, InOwnCode
  <2>6. UserBlocks(t) \cup ContextBlocks(t, cur) = BlocksOf(t, object)
    BY <2>3 DEF BlocksOf, ContextBlocks
  <2>7. Publish(Served(cur), t, object, BlocksOf(t, object))
    BY <1>3, <2>6
  <2> QED BY <1>1, <1>2, <2>2, <2>3, <2>4, <2>5, <2>7, PublishSound
<1>4. ASSUME Fails, thread' = Served(cur)
      PROVE  Sound(thread', heap', current')
  BY <1>1, <1>2, <1>4, FailsHeap, FailsFacts DEF queues
<1> QED BY <1>3, <1>4 DEF SysFork, Fails, NextId

\* kill and the default action of SIGKILL.
LEMMA EndsSound ==
    ASSUME FullInv, cur.phase = "syscall", NEW id, NEW t \in FindUser(id), End(t)
    PROVE  Sound(thread', heap', current')
<1>1. t \in All /\ thread[t].state = "runnable"
  BY DEF FindUser, FullInv, IInv, QueueIntegrity, Live
<1>2. CASE t = current
  BY <1>2, CurrentFacts, ExitSound DEF End, UserPhases
<1>3. CASE t # current
  <2>1. /\ thread' = [Served(cur) EXCEPT ![t] = Buried(@)] /\ UNCHANGED heap
        /\ current' = current
    BY <1>3 DEF End, Terminate, storage
  <2>2. Sound(Served(cur), heap, current) /\ Served(cur)[t].state = "runnable"
    BY <1>1, ServedSound
  <2> QED BY <1>1, <2>1, <2>2, BurySound
<1> QED BY <1>2, <1>3

\* A handler that thread_handler_valid accepts.
LEMMA RegisterSound ==
    ASSUME FullInv, NEW s \in Signals, NEW handler \in Code \cup {NULL},
           SysSignalRegister(s, handler)
    PROVE  Sound(thread', heap', current')
<1>1. /\ cur.phase = "syscall" /\ cur \in ThreadObjects /\ cur.user
      /\ cur.state = "runnable" /\ InOwnCode(cur) /\ handler \in {NULL, RegionOf(cur.image)}
  BY CurrentFacts DEF SysSignalRegister, UserPhases, HandlerValid
<1> DEFINE handlers == [cur.handlers EXCEPT ![s] = handler]
           new == [cur EXCEPT !.handlers = handlers, !.phase = "leaving"]
<1>2. thread' = [thread EXCEPT ![current] = new] /\ current' = current /\ heap' = heap
  BY <1>1 DEF SysSignalRegister, Served, queues, storage, ThreadObjects
<1>3. /\ handlers \in [Signals -> Code \cup {NULL}]
      /\ \A p \in Signals : handlers[p] \in {NULL, RegionOf(cur.image)}
  BY <1>1 DEF ThreadObjects, InOwnCode
<1> HIDE DEF handlers
<1>4. /\ new \in ThreadObjects /\ new.state = "runnable" /\ new.user = cur.user
      /\ new.image = cur.image /\ new.frame = cur.frame /\ new.context = cur.context
      /\ new.handlers = handlers /\ new.phase = "leaving"
  BY <1>1, <1>3 DEF ThreadObjects, Phases
<1> HIDE DEF new
<1>5. Proper(new)
  BY <1>1, <1>3, <1>4 DEF Proper, InOwnCode
<1>6. Sound([thread EXCEPT ![current] = new], heap, current)
  BY <1>4, <1>5, ChangedSound
<1> QED BY <1>2, <1>6

\* A signal becomes pending: its receiver is not at EL0, the sender is in a system call.
LEMMA SendSound ==
    ASSUME FullInv, NEW id \in Ids, NEW s \in Signals, SysSignalKill(id, s)
    PROVE  Sound(thread', heap', current')
<1>1. cur.phase = "syscall"
  BY DEF SysSignalKill
<1>2. PICK t \in FindUser(id) :
         IF s = SIGKILL /\ thread[t].handlers[s] = NULL
         THEN End(t)
         ELSE /\ thread' = [Served(cur) EXCEPT ![t].pending = @ \cup {s}]
              /\ UNCHANGED <<zombies, thread_ids, queues, storage, idling>>
  BY DEF SysSignalKill
<1>3. CASE End(t)
  BY <1>1, <1>3, EndsSound
<1>4. CASE /\ thread' = [Served(cur) EXCEPT ![t].pending = @ \cup {s}]
           /\ UNCHANGED <<zombies, thread_ids, queues, storage, idling>>
  <2> DEFINE table == Served(cur)
             marked == [table[t] EXCEPT !.pending = table[t].pending \cup {s}]
  <2>1. Sound(table, heap, current) /\ t \in All /\ table[t].state = "runnable"
    BY <1>1, ServedSound DEF FindUser, FullInv, IInv, QueueIntegrity, Live
  <2>2. table[t] \in ThreadObjects /\ Proper(table[t])
    BY <2>1 DEF Sound
  <2>3. table[t].phase # "user"
    <3>1. table[current].phase = "leaving" /\ current \in All
      BY CurrentFacts DEF Served, ThreadObjects
    <3> QED BY <2>1, <3>1 DEF Sound
  <2>4. thread' = [table EXCEPT ![t] = marked] /\ heap' = heap /\ current' = current
    BY <1>4, <2>1 DEF Sound, queues, storage
  <2> HIDE DEF table
  <2>5. /\ marked \in ThreadObjects /\ marked.state = "runnable" /\ marked.phase # "user"
        /\ marked.user = table[t].user /\ marked.image = table[t].image
        /\ marked.frame = table[t].frame /\ marked.context = table[t].context
        /\ marked.handlers = table[t].handlers
    BY <2>1, <2>2, <2>3 DEF ThreadObjects
  <2> HIDE DEF marked
  <2>6. Proper(marked)
    BY <2>1, <2>2, <2>5, KeepProper
  <2>7. Sound([table EXCEPT ![t] = marked], heap, current)
    BY <2>1, <2>5, <2>6, SoundKeep
  <2> QED BY <2>4, <2>7
<1> QED BY <1>2, <1>3, <1>4

\* Every system call keeps ownership and contexts.
LEMMA SystemCallsSound == FullInv /\ SystemCalls => Sound(thread', heap', current')
<1> SUFFICES ASSUME FullInv, SystemCalls PROVE Sound(thread', heap', current')
  OBVIOUS
<1>1. CASE SysNoEffect
  BY <1>1, ServedSound DEF SysNoEffect, queues, storage
<1>2. CASE SysExit
  BY <1>2, CurrentFacts, ExitSound DEF SysExit, UserPhases
<1>3. CASE SysFork \/ SysSigreturn
  BY <1>3, ForkSound, SigreturnSound
<1>4. ASSUME NEW i \in Images, SysExec(i) PROVE Sound(thread', heap', current')
  BY <1>4, ExecSound
<1>5. ASSUME NEW id \in Ids, SysKill(id) PROVE Sound(thread', heap', current')
  BY <1>5, EndsSound DEF SysKill
<1>6. ASSUME NEW s \in Signals, NEW handler \in Code \cup {NULL}, SysSignalRegister(s, handler)
      PROVE  Sound(thread', heap', current')
  BY <1>6, RegisterSound
<1>7. ASSUME NEW id \in Ids, NEW s \in Signals, SysSignalKill(id, s)
      PROVE  Sound(thread', heap', current')
  BY <1>7, SendSound
<1> QED BY <1>1, <1>2, <1>3, <1>4, <1>5, <1>6, <1>7 DEF SystemCalls

\* Entering a handler: the interrupted frame is saved in a context of its own.
LEMMA EnterSound ==
    ASSUME FullInv, NEW s \in Signals, Returning, s \in Deliverable,
           cur.handlers[s] # NULL, Enter(s)
    PROVE  Sound(thread', heap', current')
<1>1. /\ cur \in ThreadObjects /\ cur.user /\ current \in Threads /\ current \in All
      /\ cur.state = "runnable" /\ InOwnCode(cur) /\ cur = thread[current]
      /\ Sound(thread, heap, current)
  BY CurrentFacts DEF Returning
<1>2. cur.context = NoContext
  BY DEF Deliverable
<1> DEFINE new == [cur EXCEPT !.phase = "user", !.context = cur.frame,
                              !.pending = {p \in cur.pending : p > s},
                              !.frame = [code |-> cur.handlers[s], at |-> s]]
<1>3. /\ cur.frame \in Frames /\ cur.frame.code = RegionOf(cur.image) /\ cur.frame.at = 0
      /\ cur.handlers[s] \in Code /\ cur.handlers[s] = RegionOf(cur.image)
  BY <1>1, <1>2 DEF InOwnCode, ThreadObjects
<1>4. cur.frame = [code |-> RegionOf(cur.image), at |-> 0]
  BY <1>3 DEF Frames
<1>5. cur.frame # NoContext
  BY <1>3, ImagesAssumption DEF NoContext, Code
<1>6. /\ new \in ThreadObjects /\ new.state = "runnable" /\ new.user = cur.user
      /\ new.image = cur.image /\ new.frame = [code |-> RegionOf(cur.image), at |-> s]
      /\ new.context = cur.frame /\ new.handlers = cur.handlers /\ new.phase = "user"
  <2>1. [code |-> cur.handlers[s], at |-> s] \in Frames
    BY <1>3 DEF Frames
  <2> QED BY <1>1, <1>3, <2>1 DEF ThreadObjects, Phases
<1>7. /\ thread' = [thread EXCEPT ![current] = new] /\ current' = current
      /\ heap' = heap \cup SignalBlocks(current)
  BY <1>1 DEF Enter, queues
<1> HIDE DEF new
<1>8. s # 0
  BY SignalsAssumption
<1>9. InOwnCode(new)
  BY <1>1, <1>4, <1>5, <1>6, <1>8 DEF InOwnCode
<1>10. Proper(new)
  BY <1>5, <1>6, <1>9 DEF Proper
<1>11. heap' \in SUBSET (Kinds \X Threads)
  BY <1>1, <1>7 DEF Sound, Owns, Kinds, SignalBlocks
<1>12. ASSUME NEW u \in Threads, NEW k \in Kinds
       PROVE  <<k, u>> \in heap'
                 <=> IF u = current
                     THEN new.state # "free" /\ <<k, current>> \in BlocksOf(current, new)
                     ELSE <<k, u>> \in heap
  <2>1. CASE u = current
    <3>1. <<k, current>> \in heap <=> <<k, current>> \in BlocksOf(current, cur)
      BY <1>1 DEF Sound, Owns
    <3>2. BlocksOf(current, new) = BlocksOf(current, cur) \cup SignalBlocks(current)
      BY <1>2, <1>5, <1>6 DEF BlocksOf, ContextBlocks
    <3> QED BY <1>6, <1>7, <2>1, <3>1, <3>2
  <2>2. CASE u # current
    BY <1>7, <2>2 DEF SignalBlocks
  <2> QED BY <2>1, <2>2
<1>13. Sound([thread EXCEPT ![current] = new], heap', current)
  BY <1>1, <1>6, <1>10, <1>11, <1>12, SoundUpdate
<1> QED BY <1>7, <1>13

\* A delivery enters a handler or ends the thread with all its blocks.
LEMMA DeliverCases ==
    ASSUME FullInv, NEW s \in Signals, Deliver(s)
    PROVE  /\ current \in Threads /\ Returning /\ s \in Deliverable
           /\ Exit \/ (cur.handlers[s] # NULL /\ Enter(s))
<1>1. current \in Threads /\ Returning /\ s \in Deliverable /\ cur.context = NoContext
  BY CurrentFacts DEF Deliver, Returning, Deliverable
<1>2. ASSUME NEW blocks \in ContextFails(current, heap), Ends(blocks) PROVE Exit
  <2>1. blocks = heap
    BY <1>1, CurrentFacts, ContextFailsHeap
  <2> QED BY <1>2, <2>1 DEF Exit
<1> QED BY <1>1, <1>2 DEF Deliver

\* So does every step between EL0 and the kernel, with the delivery of signals.
LEMMA UserCodeSound == FullInv /\ UserCode => Sound(thread', heap', current')
<1> SUFFICES ASSUME FullInv, UserCode PROVE Sound(thread', heap', current')
  OBVIOUS
<1>1. CASE Svc
  BY <1>1, PhaseSound DEF Svc, queues, storage, Phases
<1>2. CASE Fault
  BY <1>2, CurrentFacts, ExitSound DEF Fault, UserPhases
<1>3. CASE ExceptionReturn
  <2> DEFINE new == [cur EXCEPT !.phase = "user",
                        !.pending = IF cur.context = NoContext THEN {} ELSE cur.pending]
  <2>1. cur \in ThreadObjects /\ cur.user /\ cur.state = "runnable" /\ InOwnCode(cur)
        /\ cur = thread[current]
    BY <1>3, CurrentFacts DEF ExceptionReturn, Returning
  <2>2. /\ new \in ThreadObjects /\ new.state = "runnable" /\ new.user = cur.user
        /\ new.image = cur.image /\ new.frame = cur.frame /\ new.context = cur.context
        /\ new.handlers = cur.handlers /\ (new.context = NoContext => new.pending = {})
    BY <2>1 DEF ThreadObjects, Phases
  <2>3. thread' = [thread EXCEPT ![current] = new] /\ heap' = heap /\ current' = current
    BY <1>3, CurrentFacts DEF ExceptionReturn, queues, storage
  <2> HIDE DEF new
  <2>4. Proper(new)
    BY <2>1, <2>2 DEF Proper, InOwnCode
  <2>5. Sound([thread EXCEPT ![current] = new], heap, current)
    BY <2>2, <2>4, ChangedSound
  <2> QED BY <2>3, <2>5
<1>4. ASSUME NEW s \in Signals, Deliver(s) PROVE Sound(thread', heap', current')
  BY <1>4, DeliverCases, ExitSound, EnterSound
<1> QED BY <1>1, <1>2, <1>3, <1>4 DEF UserCode

\* FullInv is inductive, and holds at first.
LEMMA StepSound == FullInv /\ [Next]_vars => FullInv'
<1> SUFFICES ASSUME FullInv, [Next]_vars PROVE FullInv'
  OBVIOUS
<1>1. IInv'
  BY StepInv DEF FullInv
<1>2. CASE Next
  <2>1. Sound(thread', heap', current')
    BY <1>2, SchedulingSound, KernelCallsSound, ReclamationSound, SystemCallsSound,
       UserCodeSound DEF Next
  <2> QED BY <1>1, <2>1 DEF FullInv
<1>3. CASE UNCHANGED vars
  <2>1. Sound(thread', heap', current')
    BY <1>3 DEF vars, queues, storage, FullInv
  <2> QED BY <1>1, <2>1 DEF FullInv
<1> QED BY <1>2, <1>3

\* Initially the full invariant holds.
LEMMA InitSound == Init => FullInv
<1> SUFFICES ASSUME Init PROVE FullInv
  OBVIOUS
<1>1. IInv
  BY InitInv
<1>2. /\ thread \in [All -> ThreadObjects]
      /\ thread[Boot] = KernelThread(0) /\ thread[Idle] = KernelThread(1)
      /\ \A t \in Threads : thread[t] = Zeroed
  BY <1>1, ThreadsAssumption DEF Init, All, IInv, TypeOK
<1>3. Zeroed.state = "free" /\ Zeroed.phase = "kernel" /\ Proper(Zeroed)
  BY DEF Zeroed, Proper
<1>4. Owns(thread, heap)
  BY <1>2, <1>3 DEF Init, Owns
<1>5. \A t \in All : Proper(thread[t]) /\ thread[t].phase = "kernel"
  BY <1>2, <1>3, NewProper DEF All
<1>6. Sound(thread, heap, current)
  BY <1>2, <1>4, <1>5 DEF Sound
<1> QED BY <1>1, <1>6 DEF FullInv
-------------------------------------------------------------------------------
(* What the invariant says in the terms of the module *)

\* FullInv gives the properties the runs check.
LEMMA SoundMemory == FullInv => MemoryAccounting
<1> SUFFICES ASSUME FullInv PROVE MemoryAccounting
  OBVIOUS
<1> DEFINE owned == UNION {BlocksOf(t, thread[t]) : t \in Created}
<1>1. Owns(thread, heap)
  BY DEF FullInv, Sound
<1>2. ASSUME NEW b \in heap PROVE b \in owned
  <2>1. PICK k \in Kinds, t \in Threads : b = <<k, t>>
    BY <1>1 DEF Owns
  <2>2. t \in Created /\ b \in BlocksOf(t, thread[t])
    BY <1>1, <2>1 DEF Owns, Created
  <2> QED BY <2>2
<1>3. ASSUME NEW b \in owned PROVE b \in heap
  <2>1. PICK t \in Created : b \in BlocksOf(t, thread[t])
    OBVIOUS
  <2>2. t \in Threads /\ thread[t].state # "free"
    BY DEF Created
  <2>3. PICK k \in Kinds : b = <<k, t>>
    BY <2>1, BlocksOwned
  <2> QED BY <1>1, <2>1, <2>2, <2>3 DEF Owns
<1> QED BY <1>2, <1>3 DEF MemoryAccounting

\* The full invariant implies the properties of contexts and signals.
LEMMA SoundContext == FullInv => OwnContext /\ NothingPendingAtEl0
<1> SUFFICES ASSUME FullInv PROVE OwnContext /\ NothingPendingAtEl0
  OBVIOUS
<1>1. \A t \in Live : thread[t].state = "runnable" /\ Proper(thread[t])
  BY DEF FullInv, Sound, Live
<1> QED BY <1>1 DEF OwnContext, NothingPendingAtEl0, Proper, InOwnCode

\* What a step takes from the heap.
LEMMA StepFrees ==
    ASSUME FullInv, Next, NEW t \in Threads,
           (heap \ heap') \cap ({"thread", "stack", "user_stack"} \X {t}) # {}
    PROVE  current = Idle /\ thread[t].state = "dead"
<1>1. PICK k \in {"thread", "stack", "user_stack"} : <<k, t>> \in heap /\ <<k, t>> \notin heap'
  OBVIOUS
<1>2. ~UNCHANGED heap /\ ~(\E u : heap' = heap \cup u)
  BY <1>1
<1>3. ~(heap' = heap \ ContextBlocks(current, cur))
  BY <1>1 DEF ContextBlocks, SignalBlocks
<1>4. ~Fails
  BY <1>2, FailsHeap DEF FullInv
<1>5. ASSUME NEW table, NEW u, NEW object, NEW taken, Publish(table, u, object, taken) PROVE FALSE
  BY <1>2, <1>5 DEF Publish
<1>6. ASSUME Exit PROVE FALSE
  BY <1>2, <1>6 DEF Exit, Ends
<1>7. ASSUME NEW table, NEW u, Terminate(table, u) PROVE FALSE
  BY <1>2, <1>7 DEF Terminate, storage
<1>8. ~Scheduling
  BY <1>2 DEF Scheduling, Yield, Preempt, StartPreemption, storage
<1>9. ~KernelCalls
  <2>1. ~ThreadCreate /\ ~ThreadCreateUser /\ ~ThreadCreateProgram
    BY <1>4, <1>5 DEF Fails, ThreadCreate, ThreadCreateUser, ThreadCreateProgram
  <2>2. ~ThreadReturn /\ ~KillNextUser
    BY <1>6, <1>7 DEF ThreadReturn, KillNextUser
  <2>3. ~KillAllUsers /\ ~AllUsersKilled
    BY <1>2 DEF KillAllUsers, AllUsersKilled, storage
  <2> QED BY <2>1, <2>2, <2>3 DEF KernelCalls
<1>10. ~SystemCalls
  <2>1. ASSUME NEW u, End(u) PROVE FALSE
    BY <1>6, <1>7, <2>1 DEF End
  <2>2. ~SysNoEffect /\ ~SysExit
    BY <1>2, <1>6 DEF SysNoEffect, SysExit, storage
  <2>3. ~SysFork
    BY <1>4, <1>5 DEF Fails, SysFork
  <2>4. ~SysSigreturn /\ \A i \in Images : ~SysExec(i)
    BY <1>3 DEF SysSigreturn, SysExec
  <2>5. \A id \in Ids : ~SysKill(id)
    BY <2>1 DEF SysKill
  <2>6. \A s \in Signals, handler \in Code \cup {NULL} : ~SysSignalRegister(s, handler)
    BY <1>2 DEF SysSignalRegister, storage
  <2>7. \A id \in Ids, s \in Signals : ~SysSignalKill(id, s)
    BY <1>2, <2>1 DEF SysSignalKill, storage
  <2> QED BY <2>2, <2>3, <2>4, <2>5, <2>6, <2>7 DEF SystemCalls
<1>11. ~UserCode
  <2>1. ~Svc /\ ~Fault /\ ~ExceptionReturn
    BY <1>2, <1>6 DEF Svc, Fault, ExceptionReturn, storage
  <2>2. \A s \in Signals : ~Deliver(s)
    BY <1>2, <1>6, DeliverCases DEF Enter
  <2> QED BY <2>1, <2>2 DEF UserCode
<1>12. Reap
  BY <1>2, <1>8, <1>9, <1>10, <1>11 DEF Next, Reclamation, ReapNone, IdleYield, storage
<1> DEFINE u == Head(zombies)
<1>13. u \in Dead
  <2>1. zombies \in Seq(Threads) /\ zombies # <<>> /\ Distinct(zombies) /\ InQueue(zombies) = Dead
    BY <1>12 DEF Reap, FullInv, IInv, TypeOK, QueueIntegrity
  <2> QED BY <2>1, TailDistinct
<1>14. <<k, t>> \in BlocksOf(u, thread[u]) /\ current = Idle
  BY <1>1, <1>12 DEF Reap
<1> HIDE DEF u
<1>15. t = u
  BY <1>14, BlocksOwned
<1> QED BY <1>13, <1>14, <1>15 DEF Dead
-------------------------------------------------------------------------------
(* Pending signals *)

\* How a thread object may lose a pending signal in one step.
Loses(me, after) ==
    \A s \in me.pending \ after.pending :
       \/ me.handlers[s] = NULL
       \/ after.state # "runnable"
       \/ after.image # me.image
       \/ after.frame.at = s /\ after.context = me.frame

\* The same for every thread object of a table.
LosesOnly(table) == \A t \in Threads : Loses(thread[t], table[t])

\* A change of one object that loses only what Loses allows.
LEMMA LosesUpdate ==
    ASSUME FullInv, NEW table, table \in [All -> ThreadObjects], LosesOnly(table),
           NEW u \in All, NEW object, Loses(thread[u], object)
    PROVE  LosesOnly([table EXCEPT ![u] = object])
BY DEF LosesOnly, All

\* A change that keeps the pending signals of the running thread.
LEMMA LosesNothing ==
    ASSUME FullInv
    PROVE  /\ LosesOnly(thread) /\ thread \in [All -> ThreadObjects]
           /\ \A changed : changed.pending = cur.pending
                 => LosesOnly([thread EXCEPT ![current] = changed])
           /\ \A p : LosesOnly([thread EXCEPT ![current].phase = p])
           /\ LosesOnly(Served(cur))
<1>1. LosesOnly(thread) /\ thread \in [All -> ThreadObjects]
  BY CurrentFacts DEF LosesOnly, Loses
<1>2. ASSUME NEW changed, changed.pending = cur.pending
      PROVE  LosesOnly([thread EXCEPT ![current] = changed])
  <2>1. Loses(thread[current], changed)
    BY <1>2 DEF Loses, cur
  <2> QED BY <1>1, <2>1, CurrentFacts, LosesUpdate
<1>3. ASSUME NEW p PROVE LosesOnly([thread EXCEPT ![current].phase = p])
  <2> DEFINE changed == [cur EXCEPT !.phase = p]
  <2>1. [thread EXCEPT ![current].phase = p] = [thread EXCEPT ![current] = changed]
    BY CurrentFacts DEF cur
  <2>2. changed.pending = cur.pending
    BY CurrentFacts DEF ThreadObjects
  <2> HIDE DEF changed
  <2> QED BY <1>2, <2>1, <2>2
<1>4. LosesOnly(Served(cur))
  <2> DEFINE changed == [cur EXCEPT !.phase = "leaving"]
  <2>1. Served(cur) = [thread EXCEPT ![current] = changed]
    BY DEF Served
  <2>2. changed.pending = cur.pending
    BY CurrentFacts DEF ThreadObjects
  <2> HIDE DEF changed
  <2> QED BY <1>2, <2>1, <2>2
<1> QED BY <1>1, <1>2, <1>3, <1>4

\* A thread that ends has nothing to lose.
LEMMA LosesDead ==
    ASSUME FullInv, NEW table, table \in [All -> ThreadObjects], LosesOnly(table), NEW u \in All,
           thread' = [table EXCEPT ![u] = Buried(@)]
    PROVE  LosesOnly(thread')
<1> DEFINE object == Buried(table[u])
<1>1. thread' = [table EXCEPT ![u] = object]
  OBVIOUS
<1>2. object.state = "dead"
  BY DEF Buried, Zeroed
<1> HIDE DEF object
<1>3. Loses(thread[u], object)
  BY <1>2 DEF Loses
<1>4. LosesOnly([table EXCEPT ![u] = object])
  BY <1>3, LosesUpdate
<1> QED BY <1>1, <1>4

\* thread_exit and thread_terminate end the thread; its signals end with it.
LEMMA ExitLoses == ASSUME FullInv, Exit PROVE LosesOnly(thread')
<1>1. thread' = [thread EXCEPT ![current] = Buried(@)]
  BY DEF Exit, Ends
<1> QED BY <1>1, CurrentFacts, LosesNothing, LosesDead

\* A new thread takes a block that held nothing.
LEMMA PublishLoses ==
    ASSUME FullInv, NEW table, table \in [All -> ThreadObjects], LosesOnly(table),
           NEW t \in Unused, NEW object, NEW taken, Publish(table, t, object, taken)
    PROVE  LosesOnly(thread')
<1>1. t \in All /\ thread[t] = Zeroed
  BY DEF Unused, FullInv, Sound, Proper, All
<1>2. Loses(thread[t], object)
  BY <1>1 DEF Loses, Zeroed
<1> QED BY <1>1, <1>2, LosesUpdate DEF Publish

\* Ending a thread loses the signals of that thread only.
LEMMA EndLoses ==
    ASSUME FullInv, cur.phase = "syscall", NEW id, NEW t \in FindUser(id), End(t)
    PROVE  LosesOnly(thread')
<1>1. t \in All /\ Served(cur) \in [All -> ThreadObjects]
  BY ServedSound DEF FindUser, FullInv, IInv, QueueIntegrity, Live, Sound
<1>2. CASE t = current
  BY <1>2, ExitLoses DEF End
<1>3. CASE t # current
  <2>1. thread' = [Served(cur) EXCEPT ![t] = Buried(@)]
    BY <1>3 DEF End, Terminate
  <2> QED BY <1>1, <2>1, LosesNothing, LosesDead
<1> QED BY <1>2, <1>3

\* exec replaces the program: the new image was not in use, so it is another one.
LEMMA ExecLoses ==
    ASSUME FullInv, NEW i \in Images, SysExec(i)
    PROVE  LosesOnly(thread')
<1> DEFINE new == [cur EXCEPT !.image = i, !.frame = [code |-> i, at |-> 0],
                              !.handlers = Zeroed.handlers, !.pending = {},
                              !.context = NoContext, !.phase = "leaving"]
<1>1. thread' = [thread EXCEPT ![current] = new] /\ image_refs[i] = 0
  BY DEF SysExec, Served
<1>2. new.image = i
  BY CurrentFacts DEF ThreadObjects
<1> HIDE DEF new
<1>3. current \in Created
  BY CurrentFacts DEF SysExec, UserPhases, Created
<1>4. cur.image # i
  <2>1. ImageUsers(i) = {}
    BY <1>1, FiniteCreated, FS_EmptySet DEF FullInv, IInv, ImageAccounting, ImageUsers
  <2> QED BY <1>3, <2>1 DEF ImageUsers, cur
<1>5. Loses(thread[current], new)
  BY <1>2, <1>4 DEF Loses, cur
<1> QED BY <1>1, <1>5, CurrentFacts, LosesNothing, LosesUpdate

\* Delivery takes the lowest actionable signal and drops only those below it, which are
\* not actionable; a return without delivery drops only signals without a handler.
LEMMA UserCodeLoses == FullInv /\ UserCode => LosesOnly(thread')
<1> SUFFICES ASSUME FullInv, UserCode PROVE LosesOnly(thread')
  OBVIOUS
<1>1. CASE Svc
  BY <1>1, LosesNothing DEF Svc
<1>2. CASE Fault
  BY <1>2, ExitLoses DEF Fault
<1>3. CASE ExceptionReturn
  <2> DEFINE new == [cur EXCEPT !.phase = "user",
                        !.pending = IF cur.context = NoContext THEN {} ELSE cur.pending]
  <2>1. thread' = [thread EXCEPT ![current] = new] /\ cur \in ThreadObjects /\ Deliverable = {}
    BY <1>3, CurrentFacts DEF ExceptionReturn
  <2>2. new.pending = IF cur.context = NoContext THEN {} ELSE cur.pending
    BY <2>1 DEF ThreadObjects
  <2> HIDE DEF new
  <2>3. Loses(thread[current], new)
    <3> SUFFICES ASSUME NEW s \in cur.pending, s \notin new.pending
                 PROVE  cur.handlers[s] = NULL
      BY DEF Loses, cur
    <3>1. cur.context = NoContext
      BY <2>2
    <3>2. Actionable = {}
      BY <2>1, <3>1 DEF Deliverable
    <3> QED BY <3>2 DEF Actionable
  <2> QED BY <2>1, <2>3, CurrentFacts, LosesNothing, LosesUpdate
<1>4. ASSUME NEW s \in Signals, Deliver(s) PROVE LosesOnly(thread')
  <2>1. CASE Exit
    BY <2>1, ExitLoses
  <2>2. CASE Enter(s)
    <3> DEFINE new == [cur EXCEPT !.phase = "user", !.context = cur.frame,
                                  !.pending = {p \in cur.pending : p > s},
                                  !.frame = [code |-> cur.handlers[s], at |-> s]]
    <3>1. /\ thread' = [thread EXCEPT ![current] = new] /\ cur \in ThreadObjects
          /\ s \in Deliverable /\ \A p \in Deliverable : s <= p
      BY <1>4, <2>2, CurrentFacts DEF Enter, Deliver
    <3>2. /\ new.pending = {p \in cur.pending : p > s} /\ new.frame.at = s
          /\ new.context = cur.frame
      BY <3>1 DEF ThreadObjects
    <3> HIDE DEF new
    <3>3. Loses(thread[current], new)
      <4> SUFFICES ASSUME NEW p \in cur.pending, p \notin new.pending, p # s
                   PROVE  cur.handlers[p] = NULL
        BY <3>2 DEF Loses, cur
      <4>1. p \in 1 .. 63 /\ s \in 1 .. 63
        BY <3>1, SignalsAssumption DEF ThreadObjects
      <4>2. p < s
        BY <3>2, <4>1
      <4>3. p \notin Deliverable
        BY <3>1, <4>1, <4>2
      <4>4. Deliverable = Actionable
        BY <3>1 DEF Deliverable
      <4> QED BY <4>3, <4>4 DEF Actionable
    <3> QED BY <3>1, <3>3, CurrentFacts, LosesNothing, LosesUpdate
  <2> QED BY <1>4, <2>1, <2>2, DeliverCases
<1> QED BY <1>1, <1>2, <1>3, <1>4 DEF UserCode

\* No system call loses a pending signal of a live program.
LEMMA SystemCallsLose == FullInv /\ SystemCalls => LosesOnly(thread')
<1> SUFFICES ASSUME FullInv, SystemCalls PROVE LosesOnly(thread')
  OBVIOUS
<1>1. CASE SysNoEffect
  BY <1>1, LosesNothing DEF SysNoEffect
<1>2. CASE SysExit
  BY <1>2, ExitLoses DEF SysExit
<1>3. CASE SysFork
  <2>1. Served(cur) \in [All -> ThreadObjects]
    BY <1>3, ServedSound DEF SysFork, Sound
  <2> QED BY <1>3, <2>1, LosesNothing, PublishLoses DEF SysFork
<1>4. CASE SysSigreturn
  <2> DEFINE new == [cur EXCEPT !.frame = cur.context, !.context = NoContext, !.phase = "leaving"]
  <2>1. thread' = [thread EXCEPT ![current] = new]
    BY <1>4 DEF SysSigreturn, Served
  <2>2. new.pending = cur.pending
    BY CurrentFacts DEF ThreadObjects
  <2> HIDE DEF new
  <2> QED BY <2>1, <2>2, LosesNothing
<1>5. ASSUME NEW i \in Images, SysExec(i) PROVE LosesOnly(thread')
  BY <1>5, ExecLoses
<1>6. ASSUME NEW id \in Ids, SysKill(id) PROVE LosesOnly(thread')
  BY <1>6, EndLoses DEF SysKill
<1>7. ASSUME NEW s \in Signals, NEW handler \in Code \cup {NULL}, SysSignalRegister(s, handler)
      PROVE  LosesOnly(thread')
  <2> DEFINE new == [[cur EXCEPT !.handlers[s] = handler] EXCEPT !.phase = "leaving"]
  <2>1. thread' = [thread EXCEPT ![current] = new]
    BY <1>7 DEF SysSignalRegister, Served
  <2>2. new.pending = cur.pending
    BY CurrentFacts DEF ThreadObjects
  <2> HIDE DEF new
  <2> QED BY <2>1, <2>2, LosesNothing
<1>8. ASSUME NEW id \in Ids, NEW s \in Signals, SysSignalKill(id, s) PROVE LosesOnly(thread')
  <2>1. cur.phase = "syscall"
    BY <1>8 DEF SysSignalKill
  <2>2. PICK t \in FindUser(id) :
           End(t) \/ thread' = [Served(cur) EXCEPT ![t].pending = @ \cup {s}]
    BY <1>8 DEF SysSignalKill
  <2>3. CASE End(t)
    BY <2>1, <2>3, EndLoses
  <2>4. CASE thread' = [Served(cur) EXCEPT ![t].pending = @ \cup {s}]
    <3> DEFINE table == Served(cur)
               marked == [table[t] EXCEPT !.pending = table[t].pending \cup {s}]
    <3>1. table \in [All -> ThreadObjects] /\ LosesOnly(table) /\ t \in All
      BY <2>1, ServedSound, LosesNothing DEF Sound, FindUser, FullInv, IInv, QueueIntegrity, Live
    <3>2. t \in Threads
      BY CurrentFacts, <2>1 DEF FindUser, FullInv, IInv, Modes, QueueIntegrity, Live, All
    <3>3. thread' = [table EXCEPT ![t] = marked]
      BY <2>4, <3>1
    <3> HIDE DEF table
    <3>4. /\ marked.pending = table[t].pending \cup {s} /\ marked.state = table[t].state
          /\ marked.image = table[t].image /\ marked.frame = table[t].frame
          /\ marked.context = table[t].context
      BY <3>1 DEF ThreadObjects
    <3> HIDE DEF marked
    <3>5. Loses(thread[t], marked)
      BY <3>1, <3>2, <3>4 DEF LosesOnly, Loses
    <3> QED BY <3>1, <3>3, <3>5, LosesUpdate
  <2> QED BY <2>2, <2>3, <2>4
<1> QED BY <1>1, <1>2, <1>3, <1>4, <1>5, <1>6, <1>7, <1>8 DEF SystemCalls

\* Nor does any other step.
LEMMA StepLoses == FullInv /\ Next => LosesOnly(thread')
<1> SUFFICES ASSUME FullInv, Next PROVE LosesOnly(thread')
  OBVIOUS
<1>1. CASE Scheduling
  <2>1. CASE Yield \/ StartPreemption
    BY <2>1, LosesNothing DEF Yield, StartPreemption
  <2>2. CASE Preempt
    <3>1. thread' = [thread EXCEPT ![current].phase = IF cur.phase = "user" THEN "return" ELSE cur.phase]
      BY <2>2, CurrentFacts DEF Preempt
    <3> QED BY <3>1, LosesNothing
  <2> QED BY <1>1, <2>1, <2>2 DEF Scheduling
<1>2. CASE KernelCalls
  <2>1. CASE ThreadCreate \/ ThreadCreateUser \/ ThreadCreateProgram
    BY <2>1, LosesNothing, PublishLoses
    DEF ThreadCreate, ThreadCreateUser, ThreadCreateProgram
  <2>2. CASE ThreadReturn
    BY <2>2, ExitLoses DEF ThreadReturn
  <2>3. CASE KillAllUsers \/ AllUsersKilled
    BY <2>3, LosesNothing DEF KillAllUsers, AllUsersKilled
  <2>4. CASE KillNextUser
    <3>1. PICK i \in QueuedUsers : Terminate(thread, run_queue[i])
      BY <2>4 DEF KillNextUser
    <3>2. run_queue[i] \in InQueue(run_queue)
      BY DEF QueuedUsers, InQueue
    <3>3. run_queue[i] \in All
      BY <3>2 DEF FullInv, IInv, QueueIntegrity, Live
    <3> QED BY <3>1, <3>3, LosesNothing, LosesDead DEF Terminate
  <2> QED BY <1>2, <2>1, <2>2, <2>3, <2>4 DEF KernelCalls
<1>3. CASE Reclamation
  <2>1. CASE ReapNone \/ IdleYield
    BY <2>1, LosesNothing DEF ReapNone, IdleYield
  <2>2. CASE Reap
    <3> DEFINE t == Head(zombies)
    <3>1. zombies \in Seq(Threads) /\ zombies # <<>>
      BY <2>2 DEF Reap, FullInv, IInv, TypeOK
    <3>2. t \in All
      BY <3>1 DEF All
    <3>3. thread' = [thread EXCEPT ![t] = Zeroed]
      BY <2>2 DEF Reap
    <3>4. Zeroed.state = "free"
      BY DEF Zeroed
    <3> HIDE DEF t
    <3>5. Loses(thread[t], Zeroed)
      BY <3>4 DEF Loses
    <3> QED BY <3>2, <3>3, <3>5, LosesNothing, LosesUpdate
  <2> QED BY <1>3, <2>1, <2>2 DEF Reclamation
<1> QED BY <1>1, <1>2, <1>3, SystemCallsLose, UserCodeLoses DEF Next
-------------------------------------------------------------------------------
(* The table of IDs *)

\* The table counts as this module does.
LEMMA SameCardinality == \A S : Table!Cardinality(S) = Cardinality(S)
BY DEF Table!Cardinality, Cardinality

\* The IDs the two bitmaps hold in the abstract table.
KernelIds == LiveIds(FALSE)
\* The IDs of user threads.
UserIds == LiveIds(TRUE)

\* The IDs of the table are those of the live threads, which are told apart by them.
LEMMA TableFacts ==
    ASSUME IInv
    PROVE  /\ KernelIds \cup UserIds = {thread[t].id : t \in Live \cap Threads}
           /\ Table!Live = {thread[t].id : t \in Live}
           /\ Live = {Boot, Idle} \cup (Live \cap Threads)
           /\ thread[Boot].id = 0 /\ thread[Idle].id = 1
           /\ Cardinality(KernelIds \cup UserIds) <= Cardinality(Live \cap Threads)
           /\ Cardinality(KernelIds \cup UserIds) \in Nat
<1>1. thread[Boot].id = 0 /\ thread[Idle].id = 1 /\ {Boot, Idle} \subseteq Live
  BY DEF IInv, IdAccounting, QueueIntegrity
<1>2. Live = {Boot, Idle} \cup (Live \cap Threads)
  BY <1>1 DEF Live, All
<1>3. \A t \in Live : thread[t].user \in BOOLEAN
  BY DEF IInv, TypeOK, Live, ThreadObjects
<1> DEFINE S == Live \cap Threads
           T == {thread[t].id : t \in S}
<1>4. KernelIds \cup UserIds = T
  BY <1>3 DEF KernelIds, UserIds, LiveIds
<1>5. Table!Live = {thread[t].id : t \in Live}
  <2>1. {thread[t].id : t \in Live} = {0, 1} \cup T
    BY <1>1, <1>2
  <2>2. Table!Live = {0, 1} \cup (KernelIds \cup UserIds)
    BY DEF Table!Live, Table!BootId, Table!IdleId, KernelIds, UserIds
  <2> QED BY <1>4, <2>1, <2>2
<1>6. IsFiniteSet(S)
  BY FiniteAssumption, FS_Subset
<1>7. [t \in S |-> thread[t].id] \in Surjection(S, T)
  BY DEF Surjection
<1>8. Cardinality(T) <= Cardinality(S) /\ IsFiniteSet(T)
  BY <1>6, <1>7, FS_Surjection
<1>9. Cardinality(T) \in Nat
  BY <1>8, FS_CardinalityType
<1> QED BY <1>1, <1>2, <1>4, <1>5, <1>8, <1>9

\* A step that begins and ends no life.
LivesKept(table) ==
    \A t \in All : /\ table[t].state = thread[t].state
                   /\ table[t].id = thread[t].id
                   /\ table[t].user = thread[t].user

\* Such a step is at most a switch of the table.
LEMMA SwitchStep ==
    ASSUME IInv, IInv', LivesKept(thread'), UNCHANGED allocated_threads
    PROVE  Table!Next
<1>1. Live' = Live
  BY DEF LivesKept, Live, All
<1>2. \A t \in Live : thread'[t].id = thread[t].id /\ thread'[t].user = thread[t].user
  BY DEF LivesKept, Live
<1>3. \A b : LiveIds(b)' = LiveIds(b)
  BY <1>1, <1>2 DEF LiveIds
<1>4. current' \in Live
  BY <1>1 DEF IInv, QueueIntegrity
<1>5. thread'[current'].id \in Table!Live
  BY <1>2, <1>4, TableFacts
<1>6. Table!Switch
  BY <1>3, <1>5 DEF Table!Switch
<1> QED BY <1>6 DEF Table!Next

\* A creation takes an ID that no live thread holds.
LEMMA SpawnStep ==
    ASSUME IInv, NEW table, table \in [All -> ThreadObjects], LivesKept(table),
           NEW t \in Unused, NEW object, object.user \in BOOLEAN, object.state = "runnable",
           NEW taken, thread_ids # <<>>, object.id = Head(thread_ids),
           Publish(table, t, object, taken)
    PROVE  Table!Next
<1> DEFINE id == Head(thread_ids)
<1>1. id \in Ids /\ \A u \in Live : thread[u].id # id
  BY TakenId
<1>2. t \in Threads /\ t \in All /\ t \notin Live
  BY DEF Unused, Live, All
<1>3. /\ thread'[t] = object /\ \A u \in All \ {t} : thread'[u] = table[u]
  BY <1>2 DEF Publish
<1>4. /\ Live' = Live \cup {t}
      /\ \A u \in Live : u # t /\ thread'[u].id = thread[u].id /\ thread'[u].user = thread[u].user
  BY <1>2, <1>3 DEF LivesKept, Live, All
<1>5. \A b : LiveIds(b)' = IF object.user = b THEN LiveIds(b) \cup {id} ELSE LiveIds(b)
  BY <1>2, <1>3, <1>4 DEF LiveIds
<1>6. thread'[current'].id = thread[current].id /\ allocated_threads' = allocated_threads + 1
  BY <1>4 DEF Publish, IInv, QueueIntegrity
<1>7. id \notin Table!Live
  BY <1>1, TableFacts
<1> HIDE DEF id
<1>8. CASE object.user
  BY <1>1, <1>5, <1>6, <1>7, <1>8 DEF Table!SpawnUser, Table!Next, Ids
<1>9. CASE ~object.user
  BY <1>1, <1>5, <1>6, <1>7, <1>9 DEF Table!SpawnKernel, Table!Next, Ids
<1> QED BY <1>8, <1>9

\* A thread that ends takes its ID out of the table.
LEMMA EndIds ==
    ASSUME IInv, NEW table, table \in [All -> ThreadObjects], LivesKept(table),
           NEW t \in Live \cap Threads, thread' = [table EXCEPT ![t] = Buried(@)]
    PROVE  /\ \A b : LiveIds(b)' = LiveIds(b) \ {thread[t].id}
           /\ thread[t].user => LiveIds(FALSE)' = LiveIds(FALSE)
           /\ \A u \in Live \ {t} : thread'[u].id = thread[u].id
<1>1. t \in All
  BY DEF Live
<1>2. /\ \A u \in All \ {t} : thread'[u] = table[u]
      /\ thread'[t].state = "dead"
  BY <1>1 DEF Buried, Zeroed
<1>3. /\ Live' = Live \ {t}
      /\ \A u \in Live' : u # t /\ thread'[u].id = thread[u].id /\ thread'[u].user = thread[u].user
  BY <1>1, <1>2 DEF LivesKept, Live, All
<1>4. \A u \in Live \ {t} : thread[u].id # thread[t].id
  BY DEF IInv, IdAccounting
<1>5. ASSUME NEW b PROVE LiveIds(b)' = LiveIds(b) \ {thread[t].id}
  <2>1. LiveIds(b)' = {thread[u].id : u \in {v \in Live' \cap Threads : thread[v].user = b}}
    BY <1>3 DEF LiveIds
  <2> QED BY <1>3, <1>4, <2>1 DEF LiveIds
<1>6. ASSUME thread[t].user PROVE thread[t].id \notin LiveIds(FALSE)
  BY <1>4, <1>6 DEF LiveIds
<1> QED BY <1>3, <1>5, <1>6

\* thread_exit and thread_terminate are End steps of the table.
LEMMA ExitStep ==
    ASSUME IInv, IInv', current \in Threads, Exit
    PROVE  Table!Next
<1>1. /\ thread' = [thread EXCEPT ![current] = Buried(@)] /\ UNCHANGED allocated_threads
      /\ current \in Live \cap Threads /\ thread \in [All -> ThreadObjects]
  BY DEF Exit, Ends, IInv, QueueIntegrity, TypeOK
<1>2. LivesKept(thread)
  BY DEF LivesKept
<1>3. /\ \A b : LiveIds(b)' = LiveIds(b) \ {thread[current].id}
      /\ \A u \in Live \ {current} : thread'[u].id = thread[u].id
  BY <1>1, <1>2, EndIds
<1>4. current' \in Live /\ current' # current
  <2>1. thread'[current].state = "dead"
    BY <1>1 DEF Buried, Zeroed, Live
  <2>2. current' \in Live'
    BY DEF IInv, QueueIntegrity
  <2>3. \A u \in All \ {current} : thread'[u] = thread[u]
    BY <1>1
  <2> QED BY <2>1, <2>2, <2>3 DEF Live
<1>5. thread'[current'].id \in Table!Live \ {thread[current].id}
  BY <1>1, <1>3, <1>4, TableFacts DEF IInv, IdAccounting
<1>6. thread[current].id \notin {0, 1}
  BY <1>1, ThreadsAssumption DEF IInv, IdAccounting, QueueIntegrity
<1>7. Table!Exit
  BY <1>1, <1>3, <1>5, <1>6 DEF Table!Exit, Table!BootId, Table!IdleId
<1> QED BY <1>7 DEF Table!Next

\* Terminating a thread of the run queue is an exit of the process table.
LEMMA TerminateStep ==
    ASSUME IInv, NEW table, table \in [All -> ThreadObjects], LivesKept(table),
           NEW t \in InQueue(run_queue), thread[t].user, t \in Threads, Terminate(table, t)
    PROVE  Table!Next
<1>1. /\ thread' = [table EXCEPT ![t] = Buried(@)] /\ UNCHANGED <<allocated_threads, current>>
      /\ t \in Live \cap Threads /\ t # current /\ current \in Live
  BY DEF Terminate, storage, IInv, QueueIntegrity
<1>2. /\ \A b : LiveIds(b)' = LiveIds(b) \ {thread[t].id}
      /\ LiveIds(FALSE)' = LiveIds(FALSE)
      /\ \A u \in Live \ {t} : thread'[u].id = thread[u].id
  BY <1>1, EndIds
<1>3. thread[t].id \in LiveIds(TRUE) /\ thread[t].id # thread[current].id /\ thread[t].id \in Ids
  BY <1>1 DEF LiveIds, IInv, IdAccounting
<1>4. thread'[current'].id = thread[current].id
  BY <1>1, <1>2
<1>5. Table!Kill(thread[t].id)
  BY <1>1, <1>2, <1>3, <1>4 DEF Table!Kill
<1> QED BY <1>3, <1>5 DEF Table!Next, Ids

\* Idle reclaims a thread whose ID is no longer in the table: while one is dead, more
\* threads are outstanding than live.
LEMMA ReclaimStep == ASSUME IInv, Reap PROVE Table!Next
<1> DEFINE t == Head(zombies)
<1>1. zombies \in Seq(Threads) /\ zombies # <<>> /\ Distinct(zombies) /\ InQueue(zombies) = Dead
  BY DEF Reap, IInv, TypeOK, QueueIntegrity
<1>2. t \in Threads /\ t \in Dead
  BY <1>1, TailDistinct
<1>3. thread' = [thread EXCEPT ![t] = Zeroed] /\ current = Idle /\ current' = current
      /\ allocated_threads' = allocated_threads - 1
  BY DEF Reap, queues
<1> HIDE DEF t
<1>4. t \notin Live /\ t \in Created /\ t \in All
  BY <1>2 DEF Dead, Live, Created
<1>5. /\ \A u \in All \ {t} : thread'[u] = thread[u]
      /\ thread'[t].state = "free"
  BY <1>3, <1>4 DEF Zeroed, IInv, TypeOK
<1>6. Live' = Live /\ \A u \in Live : thread'[u] = thread[u]
  BY <1>4, <1>5 DEF Live, All
<1>7. \A b : LiveIds(b)' = LiveIds(b)
  BY <1>6 DEF LiveIds
<1>8. thread[current].id = 1 /\ thread'[current'].id = thread[current].id
  BY <1>3, <1>6 DEF IInv, IdAccounting, QueueIntegrity
<1>9. Table!Zombies > 0
  <2>1. Live \cap Threads \subseteq Created \ {t}
    BY <1>4 DEF Live, Created
  <2>2. /\ IsFiniteSet(Created \ {t}) /\ Cardinality(Created \ {t}) = Cardinality(Created) - 1
        /\ Cardinality(Created) \in Nat
    BY <1>4, FiniteCreated, FS_RemoveElement, FS_CardinalityType
  <2>3. Cardinality(Live \cap Threads) <= Cardinality(Created) - 1
        /\ Cardinality(Live \cap Threads) \in Nat
    BY <2>1, <2>2, FS_Subset, FS_CardinalityType
  <2>4. /\ Cardinality(KernelIds \cup UserIds) <= Cardinality(Live \cap Threads)
        /\ Cardinality(KernelIds \cup UserIds) \in Nat
    BY TableFacts
  <2>5. allocated_threads = Cardinality(Created)
    BY DEF IInv, TypeOK
  <2>6. Table!Zombies = allocated_threads - Cardinality(KernelIds \cup UserIds)
    BY SameCardinality DEF Table!Zombies, KernelIds, UserIds
  <2> DEFINE ids == Cardinality(KernelIds \cup UserIds)
             live == Cardinality(Live \cap Threads)
             outstanding == Cardinality(Created)
  <2>7. ids \in Nat /\ live \in Nat /\ outstanding \in Nat /\ ids <= live /\ live <= outstanding - 1
    BY <2>2, <2>3, <2>4
  <2>8. Table!Zombies = outstanding - ids
    BY <2>5, <2>6
  <2> HIDE DEF ids, live, outstanding
  <2> QED BY <2>7, <2>8
<1>10. Table!Reclaim
  BY <1>3, <1>7, <1>8, <1>9 DEF Table!Reclaim, Table!IdleId
<1> QED BY <1>10 DEF Table!Next

\* What the running thread does to itself without ending keeps all lives.
LEMMA CurrentLives ==
    ASSUME FullInv
    PROVE  /\ LivesKept(thread)
           /\ \A changed : changed.state = cur.state /\ changed.id = cur.id /\ changed.user = cur.user
                 => LivesKept([thread EXCEPT ![current] = changed])
           /\ \A p : LivesKept([thread EXCEPT ![current].phase = p])
           /\ LivesKept(Served(cur))
<1>1. LivesKept(thread)
  BY DEF LivesKept
<1>2. ASSUME NEW changed,
             changed.state = cur.state /\ changed.id = cur.id /\ changed.user = cur.user
      PROVE  LivesKept([thread EXCEPT ![current] = changed])
  BY <1>2, CurrentFacts DEF LivesKept
<1>3. ASSUME NEW p PROVE LivesKept([thread EXCEPT ![current].phase = p])
  <2> DEFINE changed == [cur EXCEPT !.phase = p]
  <2>1. [thread EXCEPT ![current].phase = p] = [thread EXCEPT ![current] = changed]
    BY CurrentFacts DEF cur
  <2>2. changed.state = cur.state /\ changed.id = cur.id /\ changed.user = cur.user
    BY CurrentFacts DEF ThreadObjects
  <2> HIDE DEF changed
  <2> QED BY <1>2, <2>1, <2>2
<1>4. LivesKept(Served(cur))
  <2> DEFINE changed == [cur EXCEPT !.phase = "leaving"]
  <2>1. Served(cur) = [thread EXCEPT ![current] = changed]
    BY DEF Served
  <2>2. changed.state = cur.state /\ changed.id = cur.id /\ changed.user = cur.user
    BY CurrentFacts DEF ThreadObjects
  <2> HIDE DEF changed
  <2> QED BY <1>2, <2>1, <2>2
<1> QED BY <1>1, <1>2, <1>3, <1>4

\* The steps that keep all lives, whatever else they do.
LEMMA KeepStep ==
    ASSUME FullInv, Next,
           \/ Scheduling
           \/ Fails /\ (UNCHANGED thread \/ thread' = Served(cur))
           \/ KillAllUsers \/ AllUsersKilled \/ ReapNone \/ IdleYield
           \/ SysNoEffect \/ SysSigreturn \/ (\E i \in Images : SysExec(i))
           \/ \E s \in Signals, handler \in Code \cup {NULL} : SysSignalRegister(s, handler)
           \/ Svc \/ ExceptionReturn \/ (\E s \in Signals : Enter(s))
    PROVE  LivesKept(thread') /\ UNCHANGED allocated_threads
<1>1. CASE Scheduling
  <2>1. CASE Preempt
    <3>1. thread' = [thread EXCEPT ![current].phase = IF cur.phase = "user" THEN "return" ELSE cur.phase]
      BY <2>1, CurrentFacts DEF Preempt
    <3>2. UNCHANGED allocated_threads
      BY <2>1 DEF Preempt, storage
    <3> HIDE DEF cur
    <3> QED BY <3>1, <3>2, CurrentLives
  <2> QED BY <1>1, <2>1, CurrentLives DEF Scheduling, Yield, StartPreemption, storage
<1>2. CASE Fails /\ (UNCHANGED thread \/ thread' = Served(cur))
  BY <1>2, CurrentLives, FailsFacts
<1>3. CASE KillAllUsers \/ AllUsersKilled
  BY <1>3, CurrentLives DEF KillAllUsers, AllUsersKilled, storage
<1>4. CASE ReapNone \/ IdleYield
  BY <1>4, CurrentLives DEF ReapNone, IdleYield, storage
<1>5. CASE SysNoEffect \/ Svc
  BY <1>5, CurrentLives DEF SysNoEffect, Svc, storage
<1>6. ASSUME NEW changed, thread' = [thread EXCEPT ![current] = changed],
             changed.state = cur.state, changed.id = cur.id, changed.user = cur.user
      PROVE  LivesKept(thread')
  <2>1. LivesKept([thread EXCEPT ![current] = changed])
    BY <1>6, CurrentLives
  <2> QED BY <1>6, <2>1
<1>7. CASE SysSigreturn
  <2> DEFINE new == [cur EXCEPT !.frame = cur.context, !.context = NoContext, !.phase = "leaving"]
  <2>1. thread' = [thread EXCEPT ![current] = new] /\ UNCHANGED allocated_threads
    BY <1>7 DEF SysSigreturn, Served
  <2>2. new.state = cur.state /\ new.id = cur.id /\ new.user = cur.user
    BY CurrentFacts DEF ThreadObjects
  <2> HIDE DEF new
  <2> QED BY <1>6, <2>1, <2>2
<1>8. ASSUME NEW i \in Images, SysExec(i) PROVE LivesKept(thread') /\ UNCHANGED allocated_threads
  <2> DEFINE new == [cur EXCEPT !.image = i, !.frame = [code |-> i, at |-> 0],
                                !.handlers = Zeroed.handlers, !.pending = {},
                                !.context = NoContext, !.phase = "leaving"]
  <2>1. thread' = [thread EXCEPT ![current] = new] /\ UNCHANGED allocated_threads
    BY <1>8 DEF SysExec, Served
  <2>2. new.state = cur.state /\ new.id = cur.id /\ new.user = cur.user
    BY CurrentFacts DEF ThreadObjects
  <2> HIDE DEF new
  <2> QED BY <1>6, <2>1, <2>2
<1>9. ASSUME NEW s \in Signals, NEW handler \in Code \cup {NULL}, SysSignalRegister(s, handler)
      PROVE  LivesKept(thread') /\ UNCHANGED allocated_threads
  <2> DEFINE new == [[cur EXCEPT !.handlers[s] = handler] EXCEPT !.phase = "leaving"]
  <2>1. thread' = [thread EXCEPT ![current] = new] /\ UNCHANGED allocated_threads
    BY <1>9 DEF SysSignalRegister, Served, storage
  <2>2. new.state = cur.state /\ new.id = cur.id /\ new.user = cur.user
    BY CurrentFacts DEF ThreadObjects
  <2> HIDE DEF new
  <2> QED BY <1>6, <2>1, <2>2
<1>10. CASE ExceptionReturn
  <2> DEFINE new == [cur EXCEPT !.phase = "user",
                        !.pending = IF cur.context = NoContext THEN {} ELSE cur.pending]
  <2>1. thread' = [thread EXCEPT ![current] = new] /\ UNCHANGED allocated_threads
    BY <1>10, CurrentFacts DEF ExceptionReturn, storage
  <2>2. new.state = cur.state /\ new.id = cur.id /\ new.user = cur.user
    BY CurrentFacts DEF ThreadObjects
  <2> HIDE DEF new
  <2> QED BY <1>6, <2>1, <2>2
<1>11. ASSUME NEW s \in Signals, Enter(s) PROVE LivesKept(thread') /\ UNCHANGED allocated_threads
  <2> DEFINE new == [cur EXCEPT !.phase = "user", !.context = cur.frame,
                                !.pending = {p \in cur.pending : p > s},
                                !.frame = [code |-> cur.handlers[s], at |-> s]]
  <2>1. thread' = [thread EXCEPT ![current] = new] /\ UNCHANGED allocated_threads
    BY <1>11, CurrentFacts DEF Enter
  <2>2. new.state = cur.state /\ new.id = cur.id /\ new.user = cur.user
    BY CurrentFacts DEF ThreadObjects
  <2> HIDE DEF new
  <2> QED BY <1>6, <2>1, <2>2
<1> QED BY <1>1, <1>2, <1>3, <1>4, <1>5, <1>7, <1>8, <1>9, <1>10, <1>11

\* Every action is a step of the table, or leaves it alone.
LEMMA StepTable == FullInv /\ Next => Table!Next
<1> SUFFICES ASSUME FullInv, Next PROVE Table!Next
  OBVIOUS
<1>1. IInv /\ IInv'
  BY StepInv DEF FullInv
<1>2. ASSUME LivesKept(thread'), UNCHANGED allocated_threads PROVE Table!Next
  BY <1>1, <1>2, SwitchStep
<1>3. ASSUME Fails, UNCHANGED thread \/ thread' = Served(cur)
      PROVE  Table!Next
  <2>1. LivesKept(thread') /\ UNCHANGED allocated_threads
    BY <1>3, KeepStep
  <2> QED BY <1>2, <2>1
<1>4. ASSUME current \in Threads, Exit PROVE Table!Next
  BY <1>1, <1>4, ExitStep
<1>5. ASSUME cur.phase = "syscall", NEW id, NEW t \in FindUser(id), End(t) PROVE Table!Next
  <2>1. CASE t = current
    BY <1>4, <1>5, <2>1, CurrentFacts DEF End, UserPhases
  <2>2. CASE t # current
    <3>1. t \in InQueue(run_queue) /\ thread[t].user /\ t \in All
      BY <1>1, <1>5, <2>2 DEF FindUser, IInv, QueueIntegrity, Live
    <3>2. t \in Threads
      BY <1>1, <3>1 DEF IInv, Modes, All
    <3>3. Served(cur) \in [All -> ThreadObjects] /\ LivesKept(Served(cur))
      BY <1>5, ServedSound, CurrentLives DEF Sound
    <3> QED BY <1>1, <1>5, <2>2, <3>1, <3>2, <3>3, TerminateStep DEF End
  <2> QED BY <2>1, <2>2
<1>6. CASE Scheduling
  BY <1>2, <1>6, KeepStep
<1>7. CASE KernelCalls
  <2> DEFINE id == Head(thread_ids)
  <2>1. ASSUME NEW t \in Unused, NEW object, NEW taken, thread_ids # <<>>,
               Publish(thread, t, object, taken), object.user \in BOOLEAN,
               object.state = "runnable", object.id = id
        PROVE  Table!Next
    BY <1>1, <2>1, CurrentFacts, CurrentLives, SpawnStep
  <2>2. /\ KernelThread(id).user = FALSE /\ KernelThread(id).state = "runnable"
        /\ KernelThread(id).id = id
        /\ \A image : /\ UserThread(id, image).user = TRUE
                      /\ UserThread(id, image).state = "runnable" /\ UserThread(id, image).id = id
    BY DEF KernelThread, UserThread, Zeroed
  <2>3. CASE ThreadCreate
    BY <1>3, <2>1, <2>2, <2>3 DEF ThreadCreate, Fails, NextId
  <2>4. CASE ThreadCreateUser
    BY <1>3, <2>1, <2>2, <2>4 DEF ThreadCreateUser, Fails, NextId
  <2>5. CASE ThreadCreateProgram
    BY <1>3, <2>1, <2>2, <2>5 DEF ThreadCreateProgram, Fails, NextId
  <2>6. CASE ThreadReturn
    BY <1>4, <2>6, CurrentFacts DEF ThreadReturn, InKernel, All
  <2>7. CASE KillAllUsers \/ AllUsersKilled
    BY <1>2, <2>7, KeepStep
  <2>8. CASE KillNextUser
    <3>1. PICK i \in QueuedUsers : Terminate(thread, run_queue[i])
      BY <2>8 DEF KillNextUser
    <3>2. run_queue[i] \in InQueue(run_queue) /\ thread[run_queue[i]].user
      BY DEF QueuedUsers, InQueue
    <3>3. run_queue[i] \in Threads
      BY <1>1, <3>2 DEF IInv, Modes, QueueIntegrity, Live, All
    <3> QED BY <1>1, <3>1, <3>2, <3>3, CurrentFacts, CurrentLives, TerminateStep
  <2> QED BY <1>7, <2>3, <2>4, <2>5, <2>6, <2>7, <2>8 DEF KernelCalls
<1>8. CASE Reclamation
  BY <1>1, <1>2, <1>8, KeepStep, ReclaimStep DEF Reclamation
<1>9. CASE SystemCalls
  <2>1. CASE SysNoEffect \/ SysSigreturn
    BY <1>2, <2>1, KeepStep
  <2>2. CASE SysExit
    BY <1>4, <2>2, CurrentFacts DEF SysExit, UserPhases
  <2>3. CASE SysFork
    <3> DEFINE id == Head(thread_ids)
               object == [UserThread(id, cur.image) EXCEPT !.frame = cur.frame,
                              !.handlers = cur.handlers, !.context = cur.context]
    <3>1. thread_ids # <<>> /\ cur.phase = "syscall"
      BY <2>3 DEF SysFork
    <3>2. ASSUME NEW t \in Unused, NEW taken, Publish(Served(cur), t, object, taken)
          PROVE  Table!Next
      <4>1. object.user \in BOOLEAN /\ object.state = "runnable" /\ object.id = Head(thread_ids)
        BY DEF UserThread, Zeroed
      <4>2. Served(cur) \in [All -> ThreadObjects] /\ LivesKept(Served(cur))
        BY <3>1, ServedSound, CurrentLives DEF Sound
      <4> HIDE DEF object
      <4> QED BY <1>1, <3>1, <3>2, <4>1, <4>2, SpawnStep
    <3> QED BY <1>3, <2>3, <3>2 DEF SysFork, Fails, NextId
  <2>4. ASSUME NEW i \in Images, SysExec(i) PROVE Table!Next
    BY <1>2, <2>4, KeepStep
  <2>5. ASSUME NEW id \in Ids, SysKill(id) PROVE Table!Next
    BY <1>5, <2>5 DEF SysKill
  <2>6. ASSUME NEW s \in Signals, NEW handler \in Code \cup {NULL}, SysSignalRegister(s, handler)
        PROVE  Table!Next
    BY <1>2, <2>6, KeepStep
  <2>7. ASSUME NEW id \in Ids, NEW s \in Signals, SysSignalKill(id, s) PROVE Table!Next
    <3>1. cur.phase = "syscall"
      BY <2>7 DEF SysSignalKill
    <3>2. PICK t \in FindUser(id) :
             \/ End(t)
             \/ /\ thread' = [Served(cur) EXCEPT ![t].pending = @ \cup {s}]
                /\ UNCHANGED storage
      BY <2>7 DEF SysSignalKill
    <3>3. CASE /\ thread' = [Served(cur) EXCEPT ![t].pending = @ \cup {s}]
               /\ UNCHANGED storage
      <4> DEFINE table == Served(cur)
                 marked == [table[t] EXCEPT !.pending = table[t].pending \cup {s}]
      <4>1. table \in [All -> ThreadObjects] /\ LivesKept(table) /\ t \in All
        BY <1>1, <3>1, ServedSound, CurrentLives
        DEF Sound, FindUser, IInv, QueueIntegrity, Live
      <4>2. thread' = [table EXCEPT ![t] = marked]
        BY <3>3, <4>1
      <4> HIDE DEF table
      <4>3. marked.state = table[t].state /\ marked.id = table[t].id /\ marked.user = table[t].user
        BY <4>1 DEF ThreadObjects
      <4> HIDE DEF marked
      <4>4. LivesKept(thread')
        BY <4>1, <4>2, <4>3 DEF LivesKept
      <4> QED BY <1>2, <3>3, <4>4 DEF storage
    <3> QED BY <1>5, <3>1, <3>2, <3>3
  <2> QED BY <1>9, <2>1, <2>2, <2>3, <2>4, <2>5, <2>6, <2>7 DEF SystemCalls
<1>10. CASE UserCode
  <2>1. CASE Svc \/ ExceptionReturn
    BY <1>2, <2>1, KeepStep
  <2>2. CASE Fault
    BY <1>4, <2>2, CurrentFacts DEF Fault, UserPhases
  <2>3. ASSUME NEW s \in Signals, Deliver(s) PROVE Table!Next
    BY <1>2, <1>4, <2>3, DeliverCases, KeepStep
  <2> QED BY <1>10, <2>1, <2>2, <2>3 DEF UserCode
<1> QED BY <1>6, <1>7, <1>8, <1>9, <1>10 DEF Next

\* At first only the boot thread has an ID.
LEMMA InitTable == Init => Table!Init
<1> SUFFICES ASSUME Init PROVE Table!Init
  OBVIOUS
<1>1. IInv /\ Live \cap Threads = {}
  BY InitInv, ThreadsAssumption DEF Init, Live, Zeroed, All
<1>2. thread[current].id = 0
  BY <1>1 DEF Init, IInv, IdAccounting
<1>3. \A b : LiveIds(b) = {}
  BY <1>1 DEF LiveIds
<1> QED BY <1>2, <1>3 DEF Init, Table!Init, Table!BootId
-------------------------------------------------------------------------------
(* Theorems *)

\* The invariant of lists, lives, IDs and images.
THEOREM InductiveInvariant == Spec => []IInv
<1>1. Init => IInv
  BY InitInv
<1>2. IInv /\ [Next]_vars => IInv'
  BY StepInv
<1> QED BY <1>1, <1>2, PTL DEF Spec

\* Every variable keeps its type, and thread_count() is the number of outstanding threads.
THEOREM TypeCorrect == Spec => []TypeOK
<1>1. IInv => TypeOK
  BY DEF IInv
<1> QED BY <1>1, InductiveInvariant, PTL

\* The running thread, the run queue and the zombie list partition the threads.
THEOREM QueuesCorrect == Spec => []QueueIntegrity
<1>1. IInv => QueueIntegrity
  BY DEF IInv
<1> QED BY <1>1, InductiveInvariant, PTL

\* No ID is lost or held twice.
THEOREM IdsCorrect == Spec => []IdAccounting
<1>1. IInv => IdAccounting
  BY DEF IInv
<1> QED BY <1>1, InductiveInvariant, PTL

\* No image is freed under a thread or leaked.
THEOREM ImagesCorrect == Spec => []ImageAccounting
<1>1. IInv => ImageAccounting
  BY DEF IInv
<1> QED BY <1>1, InductiveInvariant, PTL

\* The invariant with what threads own, where they stand, and what they have pending.
THEOREM FullInvariant == Spec => []FullInv
<1>1. Init => FullInv
  BY InitSound
<1>2. FullInv /\ [Next]_vars => FullInv'
  BY StepSound
<1> QED BY <1>1, <1>2, PTL DEF Spec

\* The heap holds exactly the blocks of the created threads: nothing leaks, nothing is
\* freed twice.
THEOREM MemoryCorrect == Spec => []MemoryAccounting
<1>1. FullInv => MemoryAccounting
  BY SoundMemory
<1> QED BY <1>1, FullInvariant, PTL

\* A user thread and its handlers stay in their own program.
THEOREM ContextsCorrect == Spec => []OwnContext
<1>1. FullInv => OwnContext
  BY SoundContext
<1> QED BY <1>1, FullInvariant, PTL

\* No program code runs while a signal is pending for it.
THEOREM SignalsHandledFirst == Spec => []NothingPendingAtEl0
<1>1. FullInv => NothingPendingAtEl0
  BY SoundContext
<1> QED BY <1>1, FullInvariant, PTL

\* Only idle frees a thread_t or a stack, and only of a dead thread.
THEOREM FreesCorrect == Spec => OnlyIdleFrees
<1> DEFINE Frees == \A t \in Threads :
                       (heap \ heap') \cap ({"thread", "stack", "user_stack"} \X {t}) # {}
                          => current = Idle /\ thread[t].state = "dead"
<1>1. FullInv /\ [Next]_vars => [Frees]_vars
  BY StepFrees
<1> QED BY <1>1, FullInvariant, PTL DEF Spec, OnlyIdleFrees

\* A pending signal with a handler is not lost.
THEOREM SignalsKept == Spec => PendingKept
<1>1. FullInv /\ [Next]_vars =>
         [\A t \in Threads : \A s \in thread[t].pending \ thread'[t].pending :
             \/ thread[t].handlers[s] = NULL
             \/ thread'[t].state # "runnable"
             \/ thread'[t].image # thread[t].image
             \/ thread'[t].frame.at = s /\ thread'[t].context = thread[t].frame]_vars
  BY StepLoses DEF LosesOnly, Loses
<1> QED BY <1>1, FullInvariant, PTL DEF Spec, PendingKept

\* Every step of the module is a step of the table of IDs, or none.
THEOREM Refinement == Spec => ImplementsProcessTable
<1>1. Init => Table!Init
  BY InitTable
<1>2. FullInv /\ [Next]_vars => [Table!Next]_(Table!tableVars)
  <2>1. ASSUME UNCHANGED vars PROVE UNCHANGED Table!tableVars
    BY <2>1 DEF vars, queues, storage, Table!tableVars, LiveIds, Live
  <2> QED BY <2>1, StepTable
<1> QED BY <1>1, <1>2, FullInvariant, PTL DEF Spec, ImplementsProcessTable, Table!Spec
===============================================================================
