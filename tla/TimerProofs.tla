------------------------------- MODULE TimerProofs -------------------------------
(***************************************************************************)
(* Theorems about Timer, for every counter, frequency, set of IDs and set  *)
(* of requests.                                                            *)
(***************************************************************************)
EXTENDS Timer, FiniteSetTheorems, TLAPS

-------------------------------------------------------------------------------
(* The inductive invariant *)

\* The elements of a list, and that none is in it twice.
Listed(queue) == {queue[k] : k \in DOMAIN queue}
Distinct(queue) == \A j, k \in DOMAIN queue : queue[j] = queue[k] => j = k

\* Nothing is queued before timer_init.
NothingBefore == counter_frequency = 0 => waiting_events = <<>> /\ running_events = <<>>

\* An event is in one list, once.
ListedOnce == /\ Distinct(waiting_events) /\ Distinct(running_events)
              /\ Listed(waiting_events) \cap Listed(running_events) = {}

\* Events have IDs and arguments of their own, and the rest is free.
Owners(events, free, owned) ==
    /\ \A e, f \in events : e.id = f.id => e = f
    /\ \A e, f \in events : e.args = f.args /\ e.args # NoArgument => e = f
    /\ Distinct(free) /\ Listed(free) = Ids \ {e.id : e \in events}
    /\ owned = {e.args : e \in events} \ {NoArgument}

\* Waiting events are in the order of their deadlines.
InOrder(queue) == \A j, k \in DOMAIN queue : j < k => queue[j].expires_at <= queue[k].expires_at

\* A stopped event is still linked, and will not repeat.
StoppedOnce == \A id \in stopped : \E e \in Linked : e.id = id /\ e.interval_ticks = 0

\* A deadline is no earlier than the first one can be.
LaterThanInterval == \A e \in Linked : e.expires_at >= e.interval_ticks

\* The inductive invariant.
IInv == /\ TypeOK /\ NothingBefore /\ ListedOnce /\ Owners(Linked, free_ids, owned_args)
        /\ InOrder(waiting_events) /\ StoppedOnce /\ LaterThanInterval /\ ArmedInTime
-------------------------------------------------------------------------------
(* The lists: what putting in and taking out does to them *)

\* Appending an element that is not in a list of distinct elements keeps them distinct.
LEMMA AppendDistinct ==
    ASSUME NEW S, NEW q \in Seq(S), NEW x \in S, Distinct(q), x \notin Listed(q)
    PROVE  /\ Append(q, x) \in Seq(S)
           /\ Listed(Append(q, x)) = Listed(q) \cup {x}
           /\ Distinct(Append(q, x))
<1>1. Append(q, x) \in Seq(S) /\ Len(Append(q, x)) = Len(q) + 1
  OBVIOUS
<1>2. \A i \in 1 .. Len(q) : Append(q, x)[i] = q[i]
  OBVIOUS
<1>3. Append(q, x)[Len(q) + 1] = x
  OBVIOUS
<1>4. DOMAIN Append(q, x) = 1 .. Len(q) + 1 /\ DOMAIN q = 1 .. Len(q) /\ Len(q) \in Nat
  BY <1>1
<1>5. Listed(Append(q, x)) = Listed(q) \cup {x}
  BY <1>2, <1>3, <1>4 DEF Listed
<1>6. Distinct(Append(q, x))
  BY <1>2, <1>3, <1>4 DEF Listed, Distinct
<1> QED BY <1>1, <1>5, <1>6

\* Taking the head off a list of distinct elements leaves the others.
LEMMA TailDistinct ==
    ASSUME NEW S, NEW q \in Seq(S), q # <<>>, Distinct(q)
    PROVE  /\ Head(q) \in S /\ Tail(q) \in Seq(S)
           /\ Head(q) \in Listed(q)
           /\ Listed(Tail(q)) = Listed(q) \ {Head(q)}
           /\ Distinct(Tail(q))
<1>1. Len(q) \in Nat /\ Len(q) >= 1 /\ DOMAIN q = 1 .. Len(q)
  OBVIOUS
<1>2. Tail(q) \in Seq(S) /\ DOMAIN Tail(q) = 1 .. Len(q) - 1
  OBVIOUS
<1>3. \A i \in 1 .. Len(q) - 1 : Tail(q)[i] = q[i + 1]
  OBVIOUS
<1>4. Head(q) = q[1] /\ Head(q) \in S
  OBVIOUS
<1>5. Listed(Tail(q)) \subseteq Listed(q) \ {Head(q)}
  BY <1>1, <1>2, <1>3, <1>4 DEF Listed, Distinct
<1>6. ASSUME NEW x \in Listed(q), x # Head(q) PROVE x \in Listed(Tail(q))
  <2>1. PICK i \in 1 .. Len(q) : q[i] = x
    BY <1>1 DEF Listed
  <2>2. i - 1 \in 1 .. Len(q) - 1 /\ Tail(q)[i - 1] = x
    BY <1>1, <1>3, <1>4, <1>6, <2>1
  <2> QED BY <1>2, <2>2 DEF Listed
<1>7. Distinct(Tail(q))
  BY <1>1, <1>2, <1>3 DEF Distinct
<1>8. Head(q) \in Listed(q)
  BY <1>1, <1>4 DEF Listed
<1> QED BY <1>2, <1>4, <1>5, <1>6, <1>7, <1>8

\* A list of distinct elements is as long as it has elements.
LEMMA ListSize ==
    ASSUME NEW S, NEW q \in Seq(S), Distinct(q)
    PROVE  IsFiniteSet(Listed(q)) /\ Cardinality(Listed(q)) = Len(q)
<1> DEFINE f == [k \in 1 .. Len(q) |-> q[k]]
<1>1. Len(q) \in Nat /\ DOMAIN q = 1 .. Len(q)
  OBVIOUS
<1>2. f \in Bijection(1 .. Len(q), Listed(q))
  BY <1>1, SMTT(30) DEF Bijection, Injection, Surjection, IsInjective, Distinct, Listed
<1>3. IsFiniteSet(1 .. Len(q)) /\ Cardinality(1 .. Len(q)) = Len(q)
  BY <1>1, FS_Interval, SMTT(30)
<1>4. IsFiniteSet(Listed(q)) /\ Cardinality(Listed(q)) = Cardinality(1 .. Len(q))
  <2> HIDE DEF f
  <2> QED BY <1>2, <1>3, FS_Bijection DEF ExistsBijection
<1> QED BY <1>3, <1>4

\* Every set of natural numbers that is not empty has a least element.
LEMMA SmallestOf ==
    ASSUME NEW T \in SUBSET Nat, T # {}
    PROVE  \E x \in T : \A y \in T : x <= y
<1>1. \E x \in T : \A y \in T : ~(<<y, x>> \in OpToRel(<, Nat))
  BY NatLessThanWellFounded, WFMin
<1>2. \A x, y \in Nat : <<y, x>> \in OpToRel(<, Nat) <=> y < x
  BY DEF OpToRel
<1>3. \A x, y \in Nat : ~(y < x) => x <= y
  OBVIOUS
<1> QED BY <1>1, <1>2, <1>3

\* Taking the last element off a list of distinct elements leaves the others.
LEMMA FrontDistinct ==
    ASSUME NEW S, NEW q \in Seq(S), q # <<>>, Distinct(q)
    PROVE  LET last == q[Len(q)]
               front == SubSeq(q, 1, Len(q) - 1)
           IN /\ last \in S /\ front \in Seq(S)
              /\ last \in Listed(q)
              /\ Listed(front) = Listed(q) \ {last}
              /\ Distinct(front)
<1> DEFINE n == Len(q)
           front == SubSeq(q, 1, n - 1)
<1>1. n \in Nat /\ n >= 1 /\ DOMAIN q = 1 .. n
  OBVIOUS
<1>2. front \in Seq(S) /\ DOMAIN front = 1 .. n - 1
  <2>1. \A i \in 1 .. n - 1 : q[i] \in S
    OBVIOUS
  <2> QED BY <1>1, <2>1
<1>3. \A i \in 1 .. n - 1 : front[i] = q[i]
  BY <1>1
<1>4. q[n] \in S
  BY <1>1
<1> HIDE DEF n, front
<1>5. Listed(front) = Listed(q) \ {q[n]}
  <2>1. Listed(front) \subseteq Listed(q) \ {q[n]}
    BY <1>1, <1>2, <1>3 DEF Listed, Distinct
  <2>2. ASSUME NEW i \in 1 .. n, q[i] # q[n] PROVE q[i] \in Listed(front)
    <3>1. i \in 1 .. n - 1
      BY <1>1, <2>2
    <3> QED BY <1>2, <1>3, <3>1 DEF Listed
  <2> QED BY <1>1, <2>1, <2>2 DEF Listed
<1>6. Distinct(front)
  BY <1>1, <1>2, <1>3 DEF Distinct
<1>7. q[n] \in Listed(q)
  BY <1>1 DEF Listed
<1> QED BY <1>2, <1>4, <1>5, <1>6, <1>7 DEF n, front

\* One list behind another.
LEMMA ConcatFacts ==
    ASSUME NEW S, NEW s \in Seq(S), NEW t \in Seq(S)
    PROVE  /\ s \o t \in Seq(S) /\ Len(s \o t) = Len(s) + Len(t)
           /\ \A i \in 1 .. Len(s) : (s \o t)[i] = s[i]
           /\ \A i \in 1 .. Len(t) : (s \o t)[Len(s) + i] = t[i]
OBVIOUS

\* An element put between two parts of a list.
PutAt(q, x, k) == SubSeq(q, 1, k - 1) \o <<x>> \o SubSeq(q, k, Len(q))

\* The elements before it stay, and those behind it move up.
LEMMA PutFacts ==
    ASSUME NEW S, NEW q \in Seq(S), NEW x \in S, NEW k \in 1 .. Len(q) + 1
    PROVE  LET r == PutAt(q, x, k)
           IN /\ r \in Seq(S) /\ Len(r) = Len(q) + 1 /\ r[k] = x
              /\ \A i \in 1 .. k - 1 : r[i] = q[i]
              /\ \A i \in k .. Len(q) : r[i + 1] = q[i]
<1> DEFINE n == Len(q)
           a == SubSeq(q, 1, k - 1)
           c == SubSeq(q, k, n)
           ab == a \o <<x>>
           r == ab \o c
<1>1. n \in Nat /\ \A i \in 1 .. n : q[i] \in S
  OBVIOUS
<1>2. a \in Seq(S) /\ Len(a) = k - 1 /\ \A i \in 1 .. k - 1 : a[i] = q[i]
  BY <1>1
<1>3. c \in Seq(S) /\ Len(c) = n - k + 1 /\ \A i \in 1 .. n - k + 1 : c[i] = q[k + i - 1]
  BY <1>1
<1> HIDE DEF a, c
<1>4. <<x>> \in Seq(S) /\ Len(<<x>>) = 1 /\ <<x>>[1] = x
  OBVIOUS
<1>5. ab \in Seq(S) /\ Len(ab) = k /\ ab[k] = x /\ \A i \in 1 .. k - 1 : ab[i] = q[i]
  BY <1>2, <1>4
<1> HIDE DEF ab
<1>6. r \in Seq(S) /\ Len(r) = n + 1
  <2>1. r \in Seq(S) /\ Len(r) = Len(ab) + Len(c)
    BY <1>3, <1>5, ConcatFacts
  <2> HIDE DEF r, n
  <2> QED BY <1>1, <1>3, <1>5, <2>1
<1>7. \A i \in 1 .. k : r[i] = ab[i]
  BY <1>3, <1>5
<1>8. \A i \in 1 .. n - k + 1 : r[k + i] = c[i]
  BY <1>3, <1>5
<1> HIDE DEF r, n
<1>9. ASSUME NEW i \in k .. n PROVE r[i + 1] = q[i]
  <2>1. i - k + 1 \in 1 .. n - k + 1 /\ k + (i - k + 1) = i + 1 /\ k + (i - k + 1) - 1 = i
    BY <1>1
  <2> QED BY <1>3, <1>8, <2>1
<1>10. r[k] = x /\ \A i \in 1 .. k - 1 : r[i] = q[i]
  BY <1>5, <1>7
<1> QED BY <1>6, <1>9, <1>10 DEF r, ab, a, c, n, PutAt

\* timer_insert_event keeps a list in order, and puts the event behind those it is not before.
LEMMA InsertFacts ==
    ASSUME NEW q \in Seq(TimerEvents), NEW event \in TimerEvents,
           InOrder(q), Distinct(q), event \notin Listed(q)
    PROVE  LET r == Insert(q, event)
           IN /\ r \in Seq(TimerEvents) /\ Len(r) = Len(q) + 1
              /\ Listed(r) = Listed(q) \cup {event}
              /\ Distinct(r) /\ InOrder(r)
              /\ r[1] # event => q # <<>> /\ r[1] = Head(q) /\ Head(q).expires_at <= event.expires_at
<1> DEFINE n == Len(q)
           later == {k \in DOMAIN q : q[k].expires_at > event.expires_at}
           k == IF later = {} THEN n + 1 ELSE CHOOSE j \in later : \A l \in later : j <= l
           r == Insert(q, event)
<1>1. n \in Nat /\ DOMAIN q = 1 .. n /\ \A i \in 1 .. n : q[i] \in TimerEvents
  OBVIOUS
<1>2. /\ event.expires_at \in Int /\ \A i \in 1 .. n : q[i].expires_at \in Int
  BY <1>1 DEF TimerEvents, Counters
<1>3. /\ k \in 1 .. n + 1
      /\ \A i \in 1 .. k - 1 : q[i].expires_at <= event.expires_at
      /\ k <= n => q[k].expires_at > event.expires_at
  <2>1. CASE later = {}
    <3>1. k = n + 1
      BY <2>1
    <3>2. \A i \in 1 .. n : ~(q[i].expires_at > event.expires_at)
      BY <1>1, <2>1
    <3> HIDE DEF k, later, n
    <3> QED BY <1>1, <1>2, <3>1, <3>2
  <2>2. CASE later # {}
    <3>1. later \in SUBSET Nat
      BY <1>1
    <3>2. PICK first \in later : \A l \in later : first <= l
      BY <2>2, <3>1, SmallestOf
    <3>3. k \in later /\ \A l \in later : k <= l
      BY <2>2, <3>2
    <3>4. k \in 1 .. n /\ q[k].expires_at > event.expires_at
      BY <1>1, <3>3
    <3>5. \A i \in 1 .. n : q[i].expires_at > event.expires_at => i \in later
      BY <1>1
    <3> HIDE DEF k, later, n
    <3> QED BY <1>1, <1>2, <3>3, <3>4, <3>5
  <2> QED BY <2>1, <2>2
<1>4. r = SubSeq(q, 1, k - 1) \o <<event>> \o SubSeq(q, k, n)
  BY DEF Insert
<1> HIDE DEF k, r, n
<1>5. /\ r \in Seq(TimerEvents) /\ Len(r) = n + 1 /\ r[k] = event
      /\ \A i \in 1 .. k - 1 : r[i] = q[i]
      /\ \A i \in k .. n : r[i + 1] = q[i]
  <2>1. k \in 1 .. Len(q) + 1
    BY <1>3 DEF n
  <2>2. r = PutAt(q, event, k)
    BY <1>4 DEF PutAt, n
  <2> QED BY <2>1, <2>2, PutFacts DEF n
<1>6. DOMAIN r = 1 .. n + 1
  BY <1>5
<1>7. ASSUME NEW i \in 1 .. n + 1
      PROVE  /\ i < k => i \in 1 .. n /\ r[i] = q[i]
             /\ i > k => i - 1 \in 1 .. n /\ r[i] = q[i - 1]
             /\ i < k \/ i = k \/ i > k
  <2>1. i > k => i - 1 \in k .. n /\ (i - 1) + 1 = i
    BY <1>1, <1>3
  <2> QED BY <1>1, <1>3, <1>5, <2>1
<1>8. Listed(r) = Listed(q) \cup {event}
  <2>1. Listed(r) \subseteq Listed(q) \cup {event}
    BY <1>1, <1>5, <1>6, <1>7 DEF Listed
  <2>2. event \in Listed(r)
    BY <1>1, <1>3, <1>5, <1>6 DEF Listed
  <2>3. ASSUME NEW i \in 1 .. n PROVE q[i] \in Listed(r)
    <3>1. CASE i < k
      <4>1. i \in 1 .. n + 1 /\ i \in 1 .. k - 1
        BY <1>1, <1>3, <3>1
      <4>2. r[i] = q[i] /\ i \in DOMAIN r
        BY <1>5, <1>6, <4>1
      <4> QED BY <4>2 DEF Listed
    <3>2. CASE i >= k
      <4>1. i + 1 \in 1 .. n + 1 /\ r[i + 1] = q[i]
        BY <1>1, <1>3, <1>5, <3>2
      <4> QED BY <1>6, <4>1 DEF Listed
    <3> QED BY <1>1, <1>3, <3>1, <3>2
  <2> QED BY <1>1, <2>1, <2>2, <2>3 DEF Listed
<1>9. Distinct(r)
  <2>1. ASSUME NEW i \in 1 .. n + 1, NEW j \in 1 .. n + 1, i < j, r[i] = r[j] PROVE FALSE
    <3>1. CASE i < k /\ j < k
      BY <1>1, <1>7, <2>1, <3>1 DEF Distinct
    <3>2. CASE i < k /\ j > k
      <4>1. i = j - 1
        BY <1>1, <1>7, <2>1, <3>2 DEF Distinct
      <4> QED BY <1>3, <3>2, <4>1
    <3>3. CASE i > k /\ j > k
      <4>1. i - 1 = j - 1
        BY <1>1, <1>7, <2>1, <3>3 DEF Distinct
      <4> QED BY <2>1, <4>1
    <3>4. CASE i = k \/ j = k
      BY <1>1, <1>3, <1>5, <1>7, <2>1, <3>4 DEF Listed
    <3> QED BY <1>3, <1>7, <2>1, <3>1, <3>2, <3>3, <3>4
  <2>2. \A i, j \in 1 .. n + 1 : i < j \/ i = j \/ j < i
    BY <1>1
  <2> QED BY <1>6, <2>1, <2>2 DEF Distinct
<1>10. InOrder(r)
  <2>1. ASSUME NEW i \in 1 .. n + 1, NEW j \in 1 .. n + 1, i < j
        PROVE  r[i].expires_at <= r[j].expires_at
    <3>1. CASE i < k /\ j < k
      BY <1>1, <1>7, <2>1, <3>1 DEF InOrder
    <3>2. CASE i < k /\ j = k
      <4>1. i \in 1 .. k - 1
        BY <1>3, <3>2
      <4> QED BY <1>3, <1>5, <3>2, <4>1
    <3>3. CASE i < k /\ j > k
      <4>1. i \in 1 .. n /\ j - 1 \in 1 .. n /\ i < j - 1 /\ r[i] = q[i] /\ r[j] = q[j - 1]
        BY <1>3, <1>7, <3>3
      <4> QED BY <1>1, <4>1 DEF InOrder
    <3>4. CASE i = k /\ j > k
      <4>1. j - 1 \in 1 .. n /\ r[j] = q[j - 1] /\ k <= j - 1 /\ k \in 1 .. n
        BY <1>1, <1>3, <1>7, <3>4
      <4>2. q[k].expires_at <= q[j - 1].expires_at
        <5>1. CASE k = j - 1
          BY <1>2, <4>1, <5>1
        <5>2. CASE k < j - 1
          BY <1>1, <4>1, <5>2 DEF InOrder
        <5> QED BY <1>3, <4>1, <5>1, <5>2
      <4>3. /\ q[k].expires_at > event.expires_at
            /\ event.expires_at \in Int /\ q[k].expires_at \in Int /\ q[j - 1].expires_at \in Int
        BY <1>2, <1>3, <4>1
      <4>4. event.expires_at <= q[j - 1].expires_at
        BY <4>2, <4>3
      <4> QED BY <1>5, <3>4, <4>1, <4>4
    <3>5. CASE i > k /\ j > k
      <4>1. i - 1 \in 1 .. n /\ j - 1 \in 1 .. n /\ i - 1 < j - 1 /\ r[i] = q[i - 1] /\ r[j] = q[j - 1]
        BY <1>7, <2>1, <3>5
      <4> QED BY <1>1, <4>1 DEF InOrder
    <3> QED BY <1>3, <2>1, <3>1, <3>2, <3>3, <3>4, <3>5
  <2> QED BY <1>6, <2>1 DEF InOrder
<1>11. r[1] # event => q # <<>> /\ r[1] = Head(q) /\ Head(q).expires_at <= event.expires_at
  <2> SUFFICES ASSUME r[1] # event PROVE q # <<>> /\ r[1] = Head(q) /\ Head(q).expires_at <= event.expires_at
    OBVIOUS
  <2>1. k # 1
    BY <1>5
  <2>2. 1 \in 1 .. k - 1 /\ n >= 1
    BY <1>1, <1>3, <2>1
  <2>3. r[1] = q[1] /\ q[1].expires_at <= event.expires_at
    BY <1>3, <1>5, <2>2
  <2>4. q # <<>> /\ Head(q) = q[1]
    BY <2>2 DEF n
  <2> QED BY <2>3, <2>4
<1> QED BY <1>5, <1>8, <1>9, <1>10, <1>11 DEF r, n
-------------------------------------------------------------------------------
(* What the operations do to the parts of the invariant *)

\* The events that wait or run.
LEMMA LinkedSets == Linked = Listed(waiting_events) \cup Listed(running_events)
  BY DEF Linked, Listed

\* What a type says of an event.
LEMMA EventFacts ==
    ASSUME NEW e \in TimerEvents
    PROVE  /\ e.id \in Ids /\ e.expires_at \in Counters /\ e.interval_ticks \in Counters
           /\ e.expires_at \in Nat /\ e.interval_ticks \in Nat
           /\ e.args \in Arguments \cup {NoArgument}
  BY CounterAssumption DEF TimerEvents, Counters

\* The elements of a list of events are events.
LEMMA ListedEvents == ASSUME NEW q \in Seq(TimerEvents) PROVE Listed(q) \subseteq TimerEvents
  BY DEF Listed

\* An event with another deadline or interval stands for the old one.
LEMMA OwnersReplaced ==
    ASSUME NEW events, NEW e \in events, NEW g, g.id = e.id, g.args = e.args,
           NEW free, NEW owned, Owners(events, free, owned)
    PROVE  Owners((events \ {e}) \cup {g}, free, owned)
<1> DEFINE new == (events \ {e}) \cup {g}
<1>1. {x.id : x \in new} = {x.id : x \in events} /\ {x.args : x \in new} = {x.args : x \in events}
  OBVIOUS
<1>2. \A x, y \in new : x.id = y.id => x = y
  BY DEF Owners
<1>3. \A x, y \in new : x.args = y.args /\ x.args # NoArgument => x = y
  BY DEF Owners
<1> HIDE DEF new
<1>4. Owners(new, free, owned)
  BY <1>1, <1>2, <1>3 DEF Owners
<1> QED BY <1>4 DEF new

\* timer_alloc_event: a new event takes the first free ID and the arguments passed.
LEMMA OwnersAdded ==
    ASSUME NEW events, NEW event, NEW free \in Seq(Ids), free # <<>>, NEW owned,
           Owners(events, free, owned), event.id = Head(free), event.args \notin owned
    PROVE  /\ Owners(events \cup {event}, Tail(free), owned \cup ({event.args} \ {NoArgument}))
           /\ \A e \in events : e.id # event.id
<1>1. /\ Head(free) \in Ids /\ Tail(free) \in Seq(Ids) /\ Head(free) \in Listed(free)
      /\ Listed(Tail(free)) = Listed(free) \ {Head(free)} /\ Distinct(Tail(free))
  BY TailDistinct DEF Owners
<1>2. \A e \in events : e.id # event.id
  BY <1>1 DEF Owners
<1>3. \A e \in events : e.args = event.args => e.args = NoArgument
  BY DEF Owners
<1> DEFINE new == events \cup {event}
<1>4. /\ {x.id : x \in new} = {x.id : x \in events} \cup {event.id}
      /\ {x.args : x \in new} = {x.args : x \in events} \cup {event.args}
  OBVIOUS
<1>5. \A x, y \in new : x.id = y.id => x = y
  BY <1>2 DEF Owners
<1>6. \A x, y \in new : x.args = y.args /\ x.args # NoArgument => x = y
  BY <1>3 DEF Owners
<1> HIDE DEF new
<1>7. Listed(Tail(free)) = Ids \ {x.id : x \in new}
  BY <1>1, <1>4 DEF Owners
<1>8. owned \cup ({event.args} \ {NoArgument}) = {x.args : x \in new} \ {NoArgument}
  BY <1>4 DEF Owners
<1>9. Owners(new, Tail(free), owned \cup ({event.args} \ {NoArgument}))
  BY <1>1, <1>5, <1>6, <1>7, <1>8 DEF Owners
<1> QED BY <1>2, <1>9 DEF new

\* timer_free_event: the ID is free again, and the arguments are freed.
LEMMA OwnersFreed ==
    ASSUME NEW events, NEW event \in events, event.id \in Ids, NEW free \in Seq(Ids), NEW owned,
           Owners(events, free, owned)
    PROVE  Owners(events \ {event}, Append(free, event.id), owned \ {event.args})
<1> DEFINE new == events \ {event}
<1>1. event.id \notin Listed(free)
  BY DEF Owners
<1>2. /\ Listed(Append(free, event.id)) = Listed(free) \cup {event.id}
      /\ Distinct(Append(free, event.id))
  BY <1>1, AppendDistinct DEF Owners
<1>3. {x.id : x \in new} = {x.id : x \in events} \ {event.id}
  BY DEF Owners
<1>4. {x.args : x \in new} \ {NoArgument} = ({x.args : x \in events} \ {NoArgument}) \ {event.args}
  BY DEF Owners
<1>5. /\ \A x, y \in new : x.id = y.id => x = y
      /\ \A x, y \in new : x.args = y.args /\ x.args # NoArgument => x = y
  BY DEF Owners
<1> HIDE DEF new
<1>6. Listed(Append(free, event.id)) = Ids \ {x.id : x \in new}
  BY <1>2, <1>3 DEF Owners
<1>7. owned \ {event.args} = {x.args : x \in new} \ {NoArgument}
  BY <1>4 DEF Owners
<1>8. Owners(new, Append(free, event.id), owned \ {event.args})
  BY <1>2, <1>5, <1>6, <1>7 DEF Owners
<1> QED BY <1>8 DEF new

\* timer_alloc_event that fails: the first free ID becomes the last.
LEMMA OwnersRotated ==
    ASSUME NEW events, NEW free \in Seq(Ids), free # <<>>, NEW owned, Owners(events, free, owned)
    PROVE  Owners(events, Append(Tail(free), Head(free)), owned)
<1>1. /\ Head(free) \in Ids /\ Tail(free) \in Seq(Ids) /\ Head(free) \in Listed(free)
      /\ Listed(Tail(free)) = Listed(free) \ {Head(free)} /\ Distinct(Tail(free))
  BY TailDistinct DEF Owners
<1>2. /\ Listed(Append(Tail(free), Head(free))) = Listed(Tail(free)) \cup {Head(free)}
      /\ Distinct(Append(Tail(free), Head(free)))
  <2> DEFINE h == Head(free)
             t == Tail(free)
  <2>1. h \in Ids /\ t \in Seq(Ids) /\ Distinct(t) /\ h \notin Listed(t)
    BY <1>1
  <2> HIDE DEF h, t
  <2>2. Listed(Append(t, h)) = Listed(t) \cup {h} /\ Distinct(Append(t, h))
    BY <2>1, AppendDistinct
  <2> QED BY <2>2 DEF h, t
<1> QED BY <1>1, <1>2 DEF Owners

\* An event with another interval or deadline is an event.
LEMMA EventWith ==
    ASSUME NEW e \in TimerEvents, NEW n \in Counters
    PROVE  /\ [e EXCEPT !.interval_ticks = n] \in TimerEvents
           /\ [e EXCEPT !.interval_ticks = n].id = e.id
           /\ [e EXCEPT !.interval_ticks = n].args = e.args
           /\ [e EXCEPT !.interval_ticks = n].expires_at = e.expires_at
           /\ [e EXCEPT !.interval_ticks = n].interval_ticks = n
           /\ [e EXCEPT !.expires_at = n] \in TimerEvents
           /\ [e EXCEPT !.expires_at = n].id = e.id
           /\ [e EXCEPT !.expires_at = n].args = e.args
           /\ [e EXCEPT !.expires_at = n].expires_at = n
           /\ [e EXCEPT !.expires_at = n].interval_ticks = e.interval_ticks
  BY DEF TimerEvents

\* timer_stop_periodic on a list: the event with the ID, if it is there, loses its interval.
LEMMA OnceFacts ==
    ASSUME NEW q \in Seq(TimerEvents), Distinct(q),
           \A e, f \in Listed(q) : e.id = f.id => e = f, NEW id
    PROVE  /\ Once(q, id) \in Seq(TimerEvents) /\ Len(Once(q, id)) = Len(q)
           /\ InOrder(q) => InOrder(Once(q, id))
           /\ Distinct(Once(q, id))
           /\ \A k \in DOMAIN q : Once(q, id)[k].expires_at = q[k].expires_at
           /\ (\A e \in Listed(q) : e.id # id) => Once(q, id) = q
           /\ \A e \in Listed(q) : e.id = id =>
                 Listed(Once(q, id)) = (Listed(q) \ {e}) \cup {[e EXCEPT !.interval_ticks = 0]}
<1> DEFINE n == Len(q)
           once(e) == [e EXCEPT !.interval_ticks = 0]
           r == [k \in DOMAIN q |-> IF q[k].id = id THEN [q[k] EXCEPT !.interval_ticks = 0] ELSE q[k]]
<1>1. n \in Nat /\ DOMAIN q = 1 .. n /\ \A k \in 1 .. n : q[k] \in TimerEvents /\ q[k] \in Listed(q)
  BY DEF Listed
<1>2. \A e \in TimerEvents : /\ once(e) \in TimerEvents /\ once(e).id = e.id
                             /\ once(e).expires_at = e.expires_at
  <2>1. 0 \in Counters
    BY CounterAssumption DEF Counters
  <2> QED BY <2>1, EventWith
<1>3. r = Once(q, id)
  BY DEF Once
<1>4. \A k \in 1 .. n : r[k] = IF q[k].id = id THEN once(q[k]) ELSE q[k]
  BY <1>1
<1> HIDE DEF once
<1>5. DOMAIN r = 1 .. n
  BY <1>1
<1>6. r \in Seq(TimerEvents) /\ Len(r) = n
  <2>1. \A k \in 1 .. n : r[k] \in TimerEvents
    BY <1>1, <1>2, <1>4
  <2>2. r = [k \in 1 .. n |-> r[k]]
    BY <1>1
  <2> HIDE DEF r, n
  <2>3. r \in [1 .. n -> TimerEvents]
    BY <2>1, <2>2
  <2> QED BY <1>1, <2>3
<1>7. (\A e \in Listed(q) : e.id # id) => r = q
  <2> SUFFICES ASSUME \A e \in Listed(q) : e.id # id PROVE r = q
    OBVIOUS
  <2>1. \A k \in 1 .. n : r[k] = q[k]
    BY <1>1, <1>4
  <2> HIDE DEF r
  <2> QED BY <1>1, <1>5, <1>6, <2>1
<1> HIDE DEF r, n
<1>8. \A k \in 1 .. n : r[k].expires_at = q[k].expires_at /\ r[k].id = q[k].id
  BY <1>1, <1>2, <1>4
<1>9. InOrder(q) => InOrder(r)
  BY <1>1, <1>5, <1>8 DEF InOrder
<1>10. Distinct(r)
  <2>1. ASSUME NEW i \in 1 .. n, NEW j \in 1 .. n, r[i] = r[j] PROVE i = j
    <3>1. q[i].id = q[j].id
      BY <1>8, <2>1
    <3>2. q[i] = q[j]
      BY <1>1, <3>1
    <3> QED BY <1>1, <3>2 DEF Distinct
  <2> QED BY <1>5, <2>1 DEF Distinct
<1>11. ASSUME NEW e \in Listed(q), e.id = id
       PROVE  Listed(r) = (Listed(q) \ {e}) \cup {once(e)}
  <2>1. \A k \in 1 .. n : q[k].id = id <=> q[k] = e
    BY <1>1, <1>11
  <2>2. \A k \in 1 .. n : r[k] = IF q[k] = e THEN once(e) ELSE q[k]
    BY <1>4, <2>1
  <2>3. PICK k \in 1 .. n : q[k] = e
    BY <1>1 DEF Listed
  <2>4. once(e) \in Listed(r)
    BY <1>5, <2>2, <2>3 DEF Listed
  <2>5. \A j \in 1 .. n : q[j] # e => q[j] \in Listed(r)
    BY <1>5, <2>2 DEF Listed
  <2>6. Listed(r) \subseteq (Listed(q) \ {e}) \cup {once(e)}
    BY <1>1, <1>5, <2>2 DEF Listed
  <2>7. ASSUME NEW x \in Listed(q) \ {e} PROVE x \in Listed(r)
    <3>1. PICK j \in 1 .. n : q[j] = x
      BY <1>1 DEF Listed
    <3> QED BY <2>5, <3>1
  <2> QED BY <2>4, <2>6, <2>7
<1> QED BY <1>1, <1>3, <1>6, <1>7, <1>8, <1>9, <1>10, <1>11 DEF once, n

\* timer_program_next_event: the countdown ends in time for every event of a list in order.
LEMMA ProgramFacts ==
    ASSUME NEW queue \in Seq(TimerEvents), InOrder(queue),
           NEW counter \in 0 .. Horizon, Program(queue, counter)
    PROVE  /\ enabled' \in BOOLEAN /\ compare' \in 0 .. Horizon + MaxTval
           /\ \A k \in DOMAIN queue : enabled' /\ (compare' <= counter + 1 \/ compare' <= queue[k].expires_at)
<1>1. MaxTval \in Nat \ {0} /\ Horizon \in Nat /\ counter \in Nat /\ counter <= Horizon
  BY CounterAssumption
<1>2. CASE queue = <<>>
  <2>1. enabled' = FALSE /\ compare' = 0
    BY <1>2 DEF Program
  <2>2. 0 \in 0 .. Horizon + MaxTval
    BY <1>1
  <2>3. DOMAIN queue = {}
    BY <1>2
  <2>4. enabled' \in BOOLEAN
    BY <2>1
  <2>5. compare' \in 0 .. Horizon + MaxTval
    BY <2>1, <2>2
  <2> QED BY <2>3, <2>4, <2>5
<1>3. CASE queue # <<>>
  <2> DEFINE first == Head(queue).expires_at
             delta == IF first > counter THEN first - counter ELSE 1
  <2>1. first \in Nat /\ Len(queue) \in Nat /\ Len(queue) >= 1 /\ Head(queue) = queue[1]
    BY <1>3, EventFacts
  <2>2. enabled' = TRUE /\ compare' = counter + IF delta > MaxTval THEN MaxTval ELSE delta
    BY <1>3 DEF Program
  <2>3. \A k \in DOMAIN queue : first <= queue[k].expires_at /\ queue[k].expires_at \in Nat
    <3> SUFFICES ASSUME NEW k \in 1 .. Len(queue)
                 PROVE  first <= queue[k].expires_at /\ queue[k].expires_at \in Nat
      BY <2>1
    <3>1. queue[k].expires_at \in Nat
      BY EventFacts
    <3>2. CASE k = 1
      BY <2>1, <3>1, <3>2
    <3>3. CASE k > 1
      BY <2>1, <3>1, <3>3 DEF InOrder
    <3> QED BY <3>1, <3>2, <3>3
  <2> HIDE DEF first
  <2>4. delta \in Nat \ {0} /\ (delta = 1 \/ counter + delta = first)
    BY <1>1, <2>1
  <2> HIDE DEF delta
  <2>5. /\ compare' \in Nat /\ compare' <= counter + MaxTval
        /\ compare' <= counter + 1 \/ compare' <= first
    BY <1>1, <2>1, <2>2, <2>4
  <2>6. compare' \in 0 .. Horizon + MaxTval
    BY <1>1, <2>5
  <2>7. \A k \in DOMAIN queue : compare' <= counter + 1 \/ compare' <= queue[k].expires_at
    BY <1>1, <2>1, <2>3, <2>5
  <2>8. enabled' \in BOOLEAN
    BY <2>2
  <2> QED BY <2>2, <2>6, <2>7, <2>8
<1> QED BY <1>2, <1>3

\* timer_duration_to_ticks: the ticks in a remainder of a second, rounded up.
Fraction(remainder, frequency) ==
    Capped(Capped(remainder * (frequency \div MsPerSecond))
             + Capped(remainder * (frequency % MsPerSecond) + MsPerSecond - 1) \div MsPerSecond)

\* The ticks of a number of seconds and a fraction, if the counter can hold them.
SumOf(seconds, fraction, frequency) ==
    IF seconds > (MaxCounter - fraction) \div frequency THEN -1 ELSE Capped(seconds * frequency + fraction)

\* The conversion of each unit.
LEMMA TicksCases ==
    ASSUME NEW duration, NEW frequency
    PROVE  /\ Ticks("TICKS", duration, frequency) = duration
           /\ Ticks("SECONDS", duration, frequency) = SumOf(duration, Fraction(0, frequency), frequency)
           /\ Ticks("MILLISECONDS", duration, frequency) =
                 SumOf(duration \div MsPerSecond, Fraction(duration % MsPerSecond, frequency), frequency)
  BY DEF Ticks, Fraction, SumOf

\* timer_duration_to_ticks gives a number of the counter's width, or fails.
LEMMA TicksType ==
    ASSUME NEW request \in Requests
    PROVE  Ticks(request[1], request[2], Frequency) \in Counters \cup {-1}
<1>1. /\ request[1] \in Units /\ request[2] \in 1 .. MaxCounter
      /\ MaxCounter \in Nat /\ Frequency \in Nat \ {0} /\ MsPerSecond \in Nat \ {0}
  BY RequestsAssumption, CounterAssumption, FrequencyAssumption
<1>2. \A n \in Nat : Capped(n) \in Counters
  BY <1>1 DEF Capped, Counters
<1>3. Counters \subseteq Nat
  BY <1>1 DEF Counters
<1>4. ASSUME NEW d \in Nat, NEW r \in Nat
      PROVE  SumOf(d, Fraction(r, Frequency), Frequency) \in Counters \cup {-1}
  <2> DEFINE a == Capped(r * (Frequency \div MsPerSecond))
             b == Capped(r * (Frequency % MsPerSecond) + MsPerSecond - 1)
             f == Capped(a + b \div MsPerSecond)
  <2>1. \A m \in Nat, k \in Nat \ {0} : r * (m \div k) \in Nat /\ r * (m % k) + k - 1 \in Nat
    OBVIOUS
  <2>2. a \in Nat /\ b \in Nat
    BY <1>1, <1>2, <1>3, <2>1
  <2> HIDE DEF a, b
  <2>3. a + b \div MsPerSecond \in Nat
    BY <1>1, <2>2
  <2>4. f \in Nat
    BY <1>2, <1>3, <2>3
  <2> HIDE DEF f
  <2>5. d * Frequency + f \in Nat
    BY <1>1, <2>4
  <2>6. Capped(d * Frequency + f) \in Counters
    BY <1>2, <2>5
  <2>7. f = Fraction(r, Frequency)
    BY DEF a, b, f, Fraction
  <2> QED BY <2>6, <2>7 DEF SumOf
<1>5. request[2] \in Nat /\ request[2] \div MsPerSecond \in Nat /\ request[2] % MsPerSecond \in Nat
  <2>1. \A n \in Nat, m \in Nat \ {0} : n \div m \in Nat /\ n % m \in Nat
    OBVIOUS
  <2> QED BY <1>1, <2>1
<1>6. CASE request[1] = "TICKS"
  BY <1>1, <1>6, TicksCases DEF Counters
<1>7. CASE request[1] = "SECONDS"
  <2>1. SumOf(request[2], Fraction(0, Frequency), Frequency) \in Counters \cup {-1}
    BY <1>4, <1>5
  <2> QED BY <1>7, <2>1, TicksCases
<1>8. CASE request[1] = "MILLISECONDS"
  <2>1. SumOf(request[2] \div MsPerSecond, Fraction(request[2] % MsPerSecond, Frequency), Frequency)
          \in Counters \cup {-1}
    BY <1>4, <1>5
  <2> QED BY <1>8, <2>1, TicksCases
<1> QED BY <1>1, <1>6, <1>7, <1>8 DEF Units
-------------------------------------------------------------------------------
(* The inductive invariant holds initially and every step keeps it *)

\* At first the free list holds every ID once, in ascending order.
LEMMA TimerInitInv == ASSUME Init PROVE IInv
<1> DEFINE n == Cardinality(Ids)
<1>1. n \in Nat /\ IsFiniteSet(Ids)
  BY IdsAssumption, FS_CardinalityType
<1>2. /\ free_ids \in [1 .. n -> Ids]
      /\ \A i, j \in 1 .. n : i < j => free_ids[i] < free_ids[j]
  BY DEF Init
<1> HIDE DEF n
<1>3. free_ids \in Seq(Ids) /\ Len(free_ids) = n /\ DOMAIN free_ids = 1 .. n
  BY <1>1, <1>2
<1>4. Distinct(free_ids)
  <2>1. ASSUME NEW i \in 1 .. n, NEW j \in 1 .. n, i < j PROVE free_ids[i] # free_ids[j]
    <3>1. free_ids[i] \in Nat /\ free_ids[j] \in Nat
      BY <1>2, IdsAssumption
    <3>2. free_ids[i] < free_ids[j]
      BY <1>2, <2>1
    <3> QED BY <3>1, <3>2
  <2>2. \A i, j \in 1 .. n : i < j \/ j < i \/ i = j
    BY <1>1
  <2> QED BY <1>3, <2>1, <2>2 DEF Distinct
<1>5. Listed(free_ids) = Ids
  <2>1. Cardinality(Listed(free_ids)) = n
    BY <1>3, <1>4, ListSize
  <2>2. Listed(free_ids) \subseteq Ids
    BY <1>2, <1>3 DEF Listed
  <2> QED BY <1>1, <2>1, <2>2, FS_Subset DEF n
<1>6. waiting_events = <<>> /\ running_events = <<>> /\ DOMAIN waiting_events = {} /\ DOMAIN running_events = {}
  BY DEF Init
<1>7. Linked = {}
  BY <1>6 DEF Linked
<1>8. TypeOK
  <2>1. 0 \in 0 .. CacheSize /\ 0 \in 0 .. Horizon + MaxTval /\ 0 \in 0 .. Horizon
    BY CacheAssumption, CounterAssumption
  <2>2. waiting_events \in Seq(TimerEvents) /\ running_events \in Seq(TimerEvents)
    BY <1>6
  <2>3. FALSE \in BOOLEAN
    OBVIOUS
  <2> QED BY <1>3, <2>1, <2>2, <2>3 DEF TypeOK, Init
<1>9. NothingBefore
  BY <1>6 DEF NothingBefore
<1>10. ListedOnce
  BY <1>6 DEF ListedOnce, Listed, Distinct
<1>11. Owners(Linked, free_ids, owned_args)
  BY <1>4, <1>5, <1>7 DEF Owners, Init
<1>12. InOrder(waiting_events)
  BY <1>6 DEF InOrder
<1>13. StoppedOnce
  BY DEF StoppedOnce, Init
<1>14. LaterThanInterval
  BY <1>7 DEF LaterThanInterval
<1>15. ArmedInTime
  BY <1>6 DEF ArmedInTime
<1> QED BY <1>8, <1>9, <1>10, <1>11, <1>12, <1>13, <1>14, <1>15 DEF IInv

\* timer_init: nothing is queued yet.
LEMMA TimerInitKeeps == ASSUME IInv, TimerInit PROVE IInv'
<1> USE DEF IInv
<1>1. /\ waiting_events' = waiting_events /\ running_events' = running_events /\ free_ids' = free_ids
      /\ cached_count' = cached_count /\ owned_args' = owned_args /\ handler' = handler
      /\ now' = now /\ stopped' = stopped /\ counter_frequency' = Frequency
  BY DEF TimerInit, lists, pools
<1>2. enabled' = FALSE /\ compare' = 0
  BY DEF TimerInit
<1>3. waiting_events = <<>> /\ DOMAIN waiting_events = {}
  BY DEF TimerInit, NothingBefore
<1>4. Frequency # 0
  BY FrequencyAssumption, CounterAssumption
<1>5. Linked' = Linked
  BY <1>1 DEF Linked
<1>6. TypeOK'
  <2>1. 0 \in 0 .. Horizon + MaxTval
    BY CounterAssumption
  <2>2. enabled' \in BOOLEAN
    BY <1>2
  <2> QED BY <1>1, <1>2, <2>1, <2>2 DEF TypeOK
<1>7. NothingBefore'
  BY <1>1, <1>4 DEF NothingBefore
<1>8. ListedOnce'
  BY <1>1 DEF ListedOnce
<1>9. Owners(Linked, free_ids, owned_args)'
  BY <1>1, <1>5 DEF Owners
<1>10. InOrder(waiting_events)'
  BY <1>1 DEF InOrder
<1>11. StoppedOnce' /\ LaterThanInterval'
  BY <1>1, <1>5 DEF StoppedOnce, LaterThanInterval
<1>12. ArmedInTime'
  BY <1>1, <1>3 DEF ArmedInTime
<1> QED BY <1>6, <1>7, <1>8, <1>9, <1>10, <1>11, <1>12

\* What holds of the lists, the pools and the history when only the hardware, the handler or
\* the counter move.
LEMMA ListsKept ==
    ASSUME IInv, TypeOK', counter_frequency' = counter_frequency,
           waiting_events' = waiting_events, running_events' = running_events,
           free_ids' = free_ids, owned_args' = owned_args, stopped' = stopped, ArmedInTime'
    PROVE  IInv'
<1>1. Linked' = Linked
  BY DEF Linked
<1>2. NothingBefore' /\ ListedOnce' /\ InOrder(waiting_events)'
  BY DEF IInv, NothingBefore, ListedOnce, InOrder
<1>3. Owners(Linked, free_ids, owned_args)'
  BY <1>1 DEF IInv, Owners
<1>4. StoppedOnce' /\ LaterThanInterval'
  BY <1>1 DEF IInv, StoppedOnce, LaterThanInterval
<1> QED BY <1>2, <1>3, <1>4 DEF IInv

\* The interrupt is taken: the countdown is off, and a callback or the thread is interrupted.
LEMMA TakeIrqKeeps == ASSUME IInv, TakeIrq PROVE IInv'
<1>1. /\ waiting_events' = waiting_events /\ running_events' = running_events /\ free_ids' = free_ids
      /\ cached_count' = cached_count /\ owned_args' = owned_args
      /\ now' = now /\ stopped' = stopped /\ counter_frequency' = counter_frequency
      /\ handler' = "expiring"
  BY DEF TakeIrq, lists, pools
<1>2. enabled' = FALSE /\ compare' = 0
  BY DEF TakeIrq
<1>3. TypeOK'
  <2>1. 0 \in 0 .. Horizon + MaxTval
    BY CounterAssumption
  <2>2. enabled' \in BOOLEAN
    BY <1>2
  <2> QED BY <1>1, <1>2, <2>1, <2>2 DEF TypeOK, IInv
<1>4. ArmedInTime'
  BY <1>1 DEF ArmedInTime, Unmasked
<1> QED BY <1>1, <1>3, <1>4, ListsKept

\* No event has expired any more.
LEMMA NoneExpiredKeeps == ASSUME IInv, NoneExpired PROVE IInv'
<1>1. /\ waiting_events' = waiting_events /\ running_events' = running_events /\ free_ids' = free_ids
      /\ cached_count' = cached_count /\ owned_args' = owned_args
      /\ now' = now /\ stopped' = stopped /\ counter_frequency' = counter_frequency
      /\ handler' = "programming"
  BY DEF NoneExpired, lists, pools
<1>2. enabled' = enabled /\ compare' = compare
  BY DEF NoneExpired, hardware
<1>3. TypeOK'
  BY <1>1, <1>2 DEF TypeOK, IInv
<1>4. ArmedInTime'
  BY <1>1 DEF ArmedInTime, Unmasked
<1> QED BY <1>1, <1>3, <1>4, ListsKept

\* The countdown is started for the earliest deadline.
LEMMA ProgramKeeps == ASSUME IInv, ProgramAndReturn PROVE IInv'
<1>1. /\ waiting_events' = waiting_events /\ running_events' = running_events /\ free_ids' = free_ids
      /\ cached_count' = cached_count /\ owned_args' = owned_args
      /\ now' = now /\ stopped' = stopped /\ counter_frequency' = counter_frequency
      /\ handler' = "unmasked" /\ Program(waiting_events, now)
  BY DEF ProgramAndReturn, lists, pools
<1>2. waiting_events \in Seq(TimerEvents) /\ InOrder(waiting_events) /\ now \in 0 .. Horizon
  BY DEF IInv, TypeOK
<1>3. /\ enabled' \in BOOLEAN /\ compare' \in 0 .. Horizon + MaxTval
      /\ \A k \in DOMAIN waiting_events :
            enabled' /\ (compare' <= now + 1 \/ compare' <= waiting_events[k].expires_at)
  BY <1>1, <1>2, ProgramFacts
<1>4. TypeOK'
  BY <1>1, <1>3 DEF TypeOK, IInv
<1>5. ArmedInTime'
  BY <1>1, <1>3 DEF ArmedInTime
<1> QED BY <1>1, <1>4, <1>5, ListsKept

\* The counter moves on: what was due in one tick is due.
LEMMA TimePassesKeeps == ASSUME IInv, TimePasses PROVE IInv'
<1>1. /\ waiting_events' = waiting_events /\ running_events' = running_events /\ free_ids' = free_ids
      /\ cached_count' = cached_count /\ owned_args' = owned_args /\ handler' = handler
      /\ stopped' = stopped /\ counter_frequency' = counter_frequency
  BY DEF TimePasses, lists, pools
<1>2. enabled' = enabled /\ compare' = compare
  BY DEF TimePasses, hardware
<1>3. now' = now + 1 /\ now' \in 0 .. Horizon /\ now \in Nat /\ compare \in Nat
  BY CounterAssumption DEF TimePasses, IInv, TypeOK
<1>4. TypeOK'
  BY <1>1, <1>2, <1>3 DEF TypeOK, IInv
<1>5. ArmedInTime'
  <2>1. compare <= now + 1 => compare' <= now' + 1
    BY <1>2, <1>3
  <2> QED BY <1>1, <1>2, <2>1 DEF ArmedInTime, Unmasked, IInv
<1> QED BY <1>1, <1>4, <1>5, ListsKept

\* timer_alloc_event without memory: the first free ID goes to the end of the free list.
LEMMA AddFailsKeeps == ASSUME IInv, AddFails PROVE IInv'
<1>1. /\ waiting_events' = waiting_events /\ running_events' = running_events
      /\ cached_count' = cached_count /\ owned_args' = owned_args /\ handler' = handler
      /\ now' = now /\ stopped' = stopped /\ counter_frequency' = counter_frequency
      /\ free_ids # <<>> /\ free_ids' = Append(Tail(free_ids), Head(free_ids))
  BY DEF AddFails, AllocFails, lists
<1>2. enabled' = enabled /\ compare' = compare
  BY DEF AddFails, hardware
<1>3. free_ids \in Seq(Ids)
  BY DEF IInv, TypeOK
<1>4. free_ids' \in Seq(Ids)
  BY <1>1, <1>3
<1>5. Linked' = Linked
  BY <1>1 DEF Linked
<1>6. Owners(Linked, free_ids', owned_args)
  BY <1>1, <1>3, OwnersRotated DEF IInv
<1>7. Owners(Linked, free_ids, owned_args)'
  BY <1>1, <1>5, <1>6 DEF Owners
<1>8. TypeOK'
  BY <1>1, <1>2, <1>4 DEF TypeOK, IInv
<1>9. NothingBefore' /\ ListedOnce' /\ InOrder(waiting_events)'
  BY <1>1 DEF IInv, NothingBefore, ListedOnce, InOrder
<1>10. StoppedOnce' /\ LaterThanInterval'
  BY <1>1, <1>5 DEF IInv, StoppedOnce, LaterThanInterval
<1>11. ArmedInTime'
  BY <1>1, <1>2 DEF IInv, ArmedInTime, Unmasked
<1> QED BY <1>7, <1>8, <1>9, <1>10, <1>11 DEF IInv

\* timer_add_timeout: an event with the first free ID is queued, and the countdown is started
\* again if its deadline is the first.
LEMMA AddKeeps ==
    ASSUME IInv, NEW ticks \in Counters \cup {-1}, NEW periodic \in BOOLEAN,
           NEW args \in (Arguments \ owned_args) \cup {NoArgument}, Add(ticks, periodic, args)
    PROVE  IInv'
<1> USE DEF IInv
<1> DEFINE event == [id |-> Head(free_ids), expires_at |-> now + ticks,
                     interval_ticks |-> IF periodic THEN ticks ELSE 0, args |-> args]
<1>1. /\ counter_frequency # 0 /\ ticks # -1 /\ ticks <= MaxCounter - now /\ free_ids # <<>>
      /\ running_events' = running_events /\ free_ids' = Tail(free_ids)
      /\ cached_count' = IF cached_count > 0 THEN cached_count - 1 ELSE 0
      /\ owned_args' = owned_args \cup ({args} \ {NoArgument})
      /\ counter_frequency' = counter_frequency /\ handler' = handler
      /\ stopped' = stopped /\ now' \in now .. Horizon
  BY DEF Add
<1>2. waiting_events' = Insert(waiting_events, event)
  BY DEF Add
<1>3. \/ waiting_events'[1] = event /\ Program(waiting_events', now')
      \/ waiting_events'[1] # event /\ enabled' = enabled /\ compare' = compare
  BY DEF Add, hardware
<1>4. /\ waiting_events \in Seq(TimerEvents) /\ running_events \in Seq(TimerEvents)
      /\ free_ids \in Seq(Ids) /\ now \in 0 .. Horizon /\ owned_args \subseteq Arguments
  BY DEF TypeOK
<1>5. /\ now \in Nat /\ ticks \in Nat /\ now + ticks \in Counters /\ ticks \in Counters
      /\ now + ticks >= ticks /\ 0 \in Counters
  BY <1>1, <1>4, CounterAssumption DEF Counters
<1>6. now' \in 0 .. Horizon /\ now' \in Nat /\ now <= now'
  BY <1>1, <1>4, <1>5, CounterAssumption
<1>7. Head(free_ids) \in Ids
  BY <1>1, <1>4
<1>8. event \in TimerEvents
  BY <1>5, <1>7 DEF TimerEvents
<1>9. /\ event.id = Head(free_ids) /\ event.args = args /\ event.expires_at = now + ticks
      /\ event.expires_at >= event.interval_ticks
  BY <1>5
<1> HIDE DEF event
<1>10. args \notin owned_args
  BY ArgumentsAssumption, <1>4
<1>11. /\ Owners(Linked \cup {event}, Tail(free_ids), owned_args \cup ({event.args} \ {NoArgument}))
       /\ \A e \in Linked : e.id # event.id
  BY <1>1, <1>4, <1>9, <1>10, OwnersAdded
<1>12. event \notin Linked
  BY <1>11
<1>13. event \notin Listed(waiting_events) /\ event \notin Listed(running_events)
  BY <1>12, LinkedSets
<1>14. /\ waiting_events' \in Seq(TimerEvents)
       /\ Listed(waiting_events') = Listed(waiting_events) \cup {event}
       /\ Distinct(waiting_events') /\ InOrder(waiting_events')
       /\ waiting_events'[1] # event => /\ waiting_events # <<>>
                                        /\ waiting_events'[1] = Head(waiting_events)
                                        /\ Head(waiting_events).expires_at <= event.expires_at
  <2>1. InOrder(waiting_events) /\ Distinct(waiting_events)
    BY DEF ListedOnce
  <2> QED BY <1>2, <1>4, <1>8, <1>13, <2>1, InsertFacts
<1>15. Linked' = Linked \cup {event}
  <2>1. Linked' = Listed(waiting_events') \cup Listed(running_events')
    BY DEF Linked, Listed
  <2> QED BY <1>1, <1>14, <2>1, LinkedSets
<1>16. /\ enabled' \in BOOLEAN /\ compare' \in 0 .. Horizon + MaxTval
       /\ waiting_events'[1] = event =>
            \A k \in DOMAIN waiting_events' :
               enabled' /\ (compare' <= now' + 1 \/ compare' <= waiting_events'[k].expires_at)
  <2>1. CASE waiting_events'[1] = event
    <3> DEFINE new == waiting_events'
               later == now'
    <3>1. /\ new \in Seq(TimerEvents) /\ InOrder(new)
          /\ later \in 0 .. Horizon /\ Program(new, later)
      BY <1>3, <1>14, <1>6, <2>1
    <3> HIDE DEF new, later
    <3>2. /\ enabled' \in BOOLEAN /\ compare' \in 0 .. Horizon + MaxTval
          /\ \A k \in DOMAIN new : enabled' /\ (compare' <= later + 1 \/ compare' <= new[k].expires_at)
      BY <3>1, ProgramFacts
    <3> QED BY <3>2 DEF new, later
  <2>2. CASE waiting_events'[1] # event
    BY <1>3, <2>2 DEF TypeOK
  <2> QED BY <2>1, <2>2
<1>17. TypeOK'
  <2>1. free_ids' \in Seq(Ids)
    BY <1>1, <1>4
  <2>2. cached_count' \in 0 .. CacheSize
    BY <1>1, CacheAssumption DEF TypeOK
  <2>3. owned_args' \subseteq Arguments
    BY <1>1, <1>4
  <2> QED BY <1>1, <1>14, <1>16, <1>6, <2>1, <2>2, <2>3 DEF TypeOK
<1>18. NothingBefore'
  BY <1>1 DEF NothingBefore
<1>19. ListedOnce'
  <2>1. Distinct(waiting_events') /\ Distinct(running_events')
    BY <1>1, <1>14 DEF ListedOnce
  <2>2. Listed(waiting_events') \cap Listed(running_events') = {}
    BY <1>1, <1>13, <1>14 DEF ListedOnce
  <2> QED BY <2>1, <2>2 DEF ListedOnce, Distinct, Listed
<1>20. Owners(Linked, free_ids, owned_args)'
  <2>1. Owners(Linked', free_ids', owned_args')
    BY <1>1, <1>9, <1>11, <1>15
  <2> QED BY <2>1 DEF Owners, Distinct, Listed
<1>21. InOrder(waiting_events)'
  BY <1>14 DEF InOrder
<1>22. StoppedOnce'
  BY <1>1, <1>15 DEF StoppedOnce
<1>23. LaterThanInterval'
  BY <1>9, <1>15 DEF LaterThanInterval
<1>24. ArmedInTime'
  <2> SUFFICES ASSUME Unmasked, running_events = <<>>, NEW k \in DOMAIN waiting_events'
               PROVE  enabled' /\ (compare' <= now' + 1 \/ compare' <= waiting_events'[k].expires_at)
    BY <1>1 DEF ArmedInTime, Unmasked
  <2>1. CASE waiting_events'[1] = event
    BY <1>1, <1>16, <2>1
  <2>2. CASE waiting_events'[1] # event
    <3> DEFINE head == Head(waiting_events).expires_at
               there == waiting_events'[k].expires_at
    <3>1. /\ waiting_events # <<>> /\ waiting_events'[1] = Head(waiting_events)
          /\ Head(waiting_events) = waiting_events[1] /\ 1 \in DOMAIN waiting_events
      BY <1>4, <1>14, <2>2
    <3>2. enabled /\ (compare <= now + 1 \/ compare <= head)
      BY <3>1 DEF ArmedInTime
    <3>3. head <= there /\ head \in Nat /\ there \in Nat
      <4>1. k \in 1 .. Len(waiting_events') /\ Len(waiting_events') \in Nat
        BY <1>14
      <4>2. waiting_events'[k] \in TimerEvents /\ waiting_events'[1] \in TimerEvents
        BY <1>14, <4>1
      <4>3. head \in Nat /\ there \in Nat
        BY <3>1, <4>2, EventFacts
      <4>4. CASE k = 1
        BY <3>1, <4>3, <4>4
      <4>5. CASE k > 1
        <5>1. 1 \in DOMAIN waiting_events' /\ k \in DOMAIN waiting_events' /\ 1 < k
          BY <1>14, <4>1, <4>5
        <5> QED BY <1>14, <3>1, <4>3, <5>1 DEF InOrder
      <4> QED BY <4>1, <4>4, <4>5
    <3> HIDE DEF head, there
    <3>4. compare \in Nat /\ now \in Nat
      BY <1>5, CounterAssumption DEF TypeOK
    <3>5. compare <= now + 1 \/ compare <= there
      BY <3>2, <3>3, <3>4
    <3>6. enabled' = enabled /\ compare' = compare
      BY <1>3, <2>2
    <3>7. compare' <= now' + 1 \/ compare' <= there
      <4>1. compare' = compare
        BY <3>6
      <4>2. compare <= now + 1 => compare <= now' + 1
        <5> DEFINE later == now'
        <5>1. later \in Nat /\ now <= later
          BY <1>6, <3>4
        <5> HIDE DEF later
        <5>2. compare <= now + 1 => compare <= later + 1
          BY ONLY <3>4, <5>1
        <5> QED BY <5>2 DEF later
      <4> QED BY <3>5, <4>1, <4>2
    <3> QED BY <3>2, <3>6, <3>7 DEF there
  <2> QED BY <2>1, <2>2
<1> QED BY <1>17, <1>18, <1>19, <1>20, <1>21, <1>22, <1>23, <1>24

\* Every request there is.
LEMMA TimerAddTimeoutKeeps == ASSUME IInv, TimerAddTimeout PROVE IInv'
<1>1. PICK request \in Requests, periodic \in BOOLEAN,
           args \in (Arguments \ owned_args) \cup {NoArgument} :
         Add(Ticks(request[1], request[2], Frequency), periodic, args)
  BY DEF TimerAddTimeout
<1>2. Ticks(request[1], request[2], Frequency) \in Counters \cup {-1}
  BY TicksType
<1> DEFINE ticks == Ticks(request[1], request[2], Frequency)
<1>3. ticks \in Counters \cup {-1} /\ Add(ticks, periodic, args)
  BY <1>1, <1>2
<1> HIDE DEF ticks
<1> QED BY <1>3, AddKeeps

\* timer_stop_periodic: the event with the ID is listed in its place, without its interval.
LEMMA StopKeeps == ASSUME IInv, NEW id \in Ids, TimerStopPeriodic(id) PROVE IInv'
<1> USE DEF IInv
<1> DEFINE once(e) == [e EXCEPT !.interval_ticks = 0]
           W == Listed(waiting_events)
           R == Listed(running_events)
<1>1. /\ Unmasked /\ counter_frequency' = counter_frequency /\ free_ids' = free_ids
      /\ cached_count' = cached_count /\ owned_args' = owned_args /\ handler' = handler
      /\ now' = now
      /\ waiting_events' = Once(waiting_events, id)
      /\ running_events' = IF \E k \in DOMAIN waiting_events : waiting_events[k].id = id
                             THEN running_events ELSE Once(running_events, id)
      /\ stopped' = IF \E e \in Linked : e.id = id THEN stopped \cup {id} ELSE stopped
  BY DEF TimerStopPeriodic, Stop, pools
<1>2. enabled' = enabled /\ compare' = compare
  BY DEF TimerStopPeriodic, hardware
<1>3. waiting_events \in Seq(TimerEvents) /\ running_events \in Seq(TimerEvents)
  BY DEF TypeOK
<1>4. /\ Linked = W \cup R /\ W \cap R = {} /\ Distinct(waiting_events) /\ Distinct(running_events)
      /\ W \subseteq TimerEvents /\ R \subseteq TimerEvents
  BY <1>3, LinkedSets, ListedEvents DEF ListedOnce
<1>5. \A e, f \in Linked : e.id = f.id => e = f
  BY DEF Owners
<1>6. Linked' = Listed(waiting_events') \cup Listed(running_events')
  BY DEF Linked, Listed
<1>7. (\E k \in DOMAIN waiting_events : waiting_events[k].id = id) <=> \E e \in W : e.id = id
  BY DEF Listed
<1>8. \A e \in TimerEvents :
         /\ once(e) \in TimerEvents /\ once(e).id = e.id /\ once(e).args = e.args
         /\ once(e).expires_at = e.expires_at /\ once(e).interval_ticks = 0
  <2>1. 0 \in Counters
    BY CounterAssumption DEF Counters
  <2> QED BY <2>1, EventWith
\* Both lists, and what is left to prove of them.
<1>9. ASSUME NEW q \in Seq(TimerEvents), Listed(q) \subseteq Linked, Distinct(q)
      PROVE  /\ Once(q, id) \in Seq(TimerEvents) /\ Len(Once(q, id)) = Len(q)
             /\ InOrder(q) => InOrder(Once(q, id))
             /\ Distinct(Once(q, id))
             /\ \A k \in DOMAIN q : Once(q, id)[k].expires_at = q[k].expires_at
             /\ (\A e \in Listed(q) : e.id # id) => Once(q, id) = q
             /\ \A e \in Listed(q) : e.id = id =>
                   Listed(Once(q, id)) = (Listed(q) \ {e}) \cup {once(e)}
  <2>1. \A e, f \in Listed(q) : e.id = f.id => e = f
    BY <1>5, <1>9
  <2> QED BY <1>9, <2>1, OnceFacts
<1>10. /\ waiting_events' \in Seq(TimerEvents) /\ Len(waiting_events') = Len(waiting_events)
       /\ InOrder(waiting_events') /\ Distinct(waiting_events')
       /\ \A k \in DOMAIN waiting_events : waiting_events'[k].expires_at = waiting_events[k].expires_at
       /\ (\A e \in W : e.id # id) => waiting_events' = waiting_events
       /\ \A e \in W : e.id = id => Listed(waiting_events') = (W \ {e}) \cup {once(e)}
  BY <1>1, <1>3, <1>4, <1>9
<1>11. /\ running_events' \in Seq(TimerEvents) /\ Distinct(running_events')
       /\ Len(running_events') = Len(running_events)
       /\ (\E e \in W : e.id = id) => running_events' = running_events
       /\ (\A e \in R : e.id # id) => running_events' = running_events
       /\ ~(\E e \in W : e.id = id) =>
             \A e \in R : e.id = id => Listed(running_events') = (R \ {e}) \cup {once(e)}
  <2>1. CASE \E e \in W : e.id = id
    BY <1>1, <1>3, <1>4, <1>7, <2>1
  <2>2. CASE ~ \E e \in W : e.id = id
    BY <1>1, <1>3, <1>4, <1>7, <1>9, <2>2
  <2> QED BY <2>1, <2>2
<1> HIDE DEF W, R, once
\* Either no event has the ID, or the one that has it is replaced in its list.
<1>12. \/ /\ \A e \in Linked : e.id # id
          /\ waiting_events' = waiting_events /\ running_events' = running_events
       \/ \E e \in Linked :
             /\ e.id = id
             /\ Linked' = (Linked \ {e}) \cup {once(e)}
             /\ Listed(waiting_events') \cap Listed(running_events') = {}
  <2>1. CASE \A e \in Linked : e.id # id
    BY <1>4, <1>10, <1>11, <2>1
  <2>2. ASSUME NEW e \in W, e.id = id
        PROVE  /\ Linked' = (Linked \ {e}) \cup {once(e)}
               /\ Listed(waiting_events') \cap Listed(running_events') = {}
    <3>1. Listed(waiting_events') = (W \ {e}) \cup {once(e)} /\ Listed(running_events') = R
      BY <1>10, <1>11, <2>2 DEF R
    <3>2. e \in Linked /\ e \notin R
      BY <1>4
    <3>3. once(e) \notin R
      <4>1. \A f \in R : f.id # id
        BY <1>4, <1>5, <2>2, <3>2
      <4>2. once(e).id = id
        BY <1>4, <1>8, <2>2
      <4> QED BY <4>1, <4>2
    <3> QED BY <1>4, <1>6, <3>1, <3>2, <3>3
  <2>3. ASSUME NEW e \in R, e.id = id
        PROVE  /\ Linked' = (Linked \ {e}) \cup {once(e)}
               /\ Listed(waiting_events') \cap Listed(running_events') = {}
    <3>1. e \in Linked /\ e \notin W
      BY <1>4
    <3>2. \A f \in W : f.id # id
      BY <1>4, <1>5, <2>3, <3>1
    <3>3. Listed(running_events') = (R \ {e}) \cup {once(e)} /\ Listed(waiting_events') = W
      BY <1>10, <1>11, <2>3, <3>2 DEF W
    <3>4. once(e) \notin W
      <4>1. once(e).id = id
        BY <1>4, <1>8, <2>3
      <4> QED BY <3>2, <4>1
    <3> QED BY <1>4, <1>6, <3>1, <3>3, <3>4
  <2> QED BY <1>4, <2>1, <2>2, <2>3
<1>13. TypeOK'
  <2>1. stopped' \subseteq Ids
    BY <1>1 DEF TypeOK
  <2> QED BY <1>1, <1>2, <1>10, <1>11, <2>1 DEF TypeOK
<1>14. NothingBefore'
  <2>1. counter_frequency = 0 => Len(waiting_events) = 0 /\ Len(running_events) = 0
    BY DEF NothingBefore
  <2>2. \A q \in Seq(TimerEvents) : Len(q) = 0 => q = <<>>
    OBVIOUS
  <2> QED BY <1>1, <1>10, <1>11, <2>1, <2>2 DEF NothingBefore
<1>15. ListedOnce'
  <2>1. Listed(waiting_events') \cap Listed(running_events') = {}
    BY <1>4, <1>12 DEF W, R
  <2> QED BY <1>10, <1>11, <2>1 DEF ListedOnce, Distinct, Listed
<1>16. InOrder(waiting_events)'
  BY <1>10 DEF InOrder
<1>17. ArmedInTime'
  <2>1. DOMAIN waiting_events' = DOMAIN waiting_events
    <3>1. DOMAIN waiting_events' = 1 .. Len(waiting_events') /\ DOMAIN waiting_events = 1 .. Len(waiting_events)
      BY <1>3, <1>10
    <3> QED BY <1>10, <3>1
  <2>2. running_events' = <<>> => running_events = <<>>
    <3>1. running_events' = <<>> => Len(running_events') = 0
      OBVIOUS
    <3>2. Len(running_events) = 0 => running_events = <<>>
      BY <1>3
    <3> QED BY <1>11, <3>1, <3>2
  <2> QED BY <1>1, <1>2, <1>10, <2>1, <2>2 DEF ArmedInTime, Unmasked
<1>18. CASE /\ \A e \in Linked : e.id # id
            /\ waiting_events' = waiting_events /\ running_events' = running_events
  <2>1. Linked' = Linked /\ stopped' = stopped
    BY <1>1, <1>18 DEF Linked
  <2>2. Owners(Linked, free_ids, owned_args)'
    BY <1>1, <2>1 DEF Owners, Distinct, Listed
  <2>3. StoppedOnce' /\ LaterThanInterval'
    BY <2>1 DEF StoppedOnce, LaterThanInterval
  <2> QED BY <1>13, <1>14, <1>15, <1>16, <1>17, <2>2, <2>3
<1>19. ASSUME NEW e \in Linked, e.id = id, Linked' = (Linked \ {e}) \cup {once(e)} PROVE IInv'
  <2>1. /\ once(e).id = id /\ once(e).args = e.args /\ once(e).expires_at = e.expires_at
        /\ once(e).interval_ticks = 0 /\ e.expires_at \in Nat
    BY <1>4, <1>8, <1>19, EventFacts
  <2>2. Owners(Linked', free_ids', owned_args')
    <3>1. Owners((Linked \ {e}) \cup {once(e)}, free_ids, owned_args)
      BY <1>19, <2>1, OwnersReplaced
    <3> QED BY <1>1, <1>19, <3>1
  <2>3. Owners(Linked, free_ids, owned_args)'
    BY <2>2 DEF Owners, Distinct, Listed
  <2>4. StoppedOnce'
    <3>1. stopped' \subseteq stopped \cup {id}
      BY <1>1
    <3>2. ASSUME NEW i \in stopped, i # id
          PROVE  \E f \in Linked' : f.id = i /\ f.interval_ticks = 0
      <4>1. PICK f \in Linked : f.id = i /\ f.interval_ticks = 0
        BY DEF StoppedOnce
      <4>2. f \in Linked'
        BY <1>19, <3>2, <4>1
      <4> QED BY <4>1, <4>2
    <3>3. \E f \in Linked' : f.id = id /\ f.interval_ticks = 0
      BY <1>19, <2>1
    <3> QED BY <3>1, <3>2, <3>3 DEF StoppedOnce
  <2>5. LaterThanInterval'
    <3>1. once(e).expires_at >= once(e).interval_ticks
      BY <2>1
    <3> QED BY <1>19, <3>1 DEF LaterThanInterval
  <2> QED BY <1>13, <1>14, <1>15, <1>16, <1>17, <2>3, <2>4, <2>5
<1> QED BY <1>12, <1>18, <1>19

\* An expired event becomes the innermost running one.
LEMMA RunExpiredKeeps == ASSUME IInv, RunExpired PROVE IInv'
<1> USE DEF IInv
<1> DEFINE event == Head(waiting_events)
<1>1. /\ waiting_events # <<>>
      /\ counter_frequency' = counter_frequency /\ free_ids' = free_ids
      /\ cached_count' = cached_count /\ owned_args' = owned_args
      /\ now' = now /\ stopped' = stopped /\ handler' = "unmasked"
      /\ waiting_events' = Tail(waiting_events)
      /\ running_events' = Append(running_events, event)
  BY DEF RunExpired, pools
<1>2. enabled' = enabled /\ compare' = compare
  BY DEF RunExpired, hardware
<1>3. waiting_events \in Seq(TimerEvents) /\ running_events \in Seq(TimerEvents)
  BY DEF TypeOK
<1>4. /\ event \in TimerEvents /\ Tail(waiting_events) \in Seq(TimerEvents)
      /\ event \in Listed(waiting_events)
      /\ Listed(Tail(waiting_events)) = Listed(waiting_events) \ {event}
      /\ Distinct(Tail(waiting_events))
  BY <1>1, <1>3, TailDistinct DEF ListedOnce
<1>5. \A i \in DOMAIN Tail(waiting_events) :
         i + 1 \in DOMAIN waiting_events /\ Tail(waiting_events)[i] = waiting_events[i + 1]
  BY <1>1, <1>3
<1> HIDE DEF event
<1>6. event \notin Listed(running_events)
  BY <1>4 DEF ListedOnce
<1>7. /\ running_events' \in Seq(TimerEvents) /\ Distinct(running_events')
      /\ Listed(running_events') = Listed(running_events) \cup {event}
  <2>1. Distinct(running_events)
    BY DEF ListedOnce
  <2> QED BY <1>1, <1>3, <1>4, <1>6, <2>1, AppendDistinct
<1>8. Linked' = Linked
  <2>1. Linked' = Listed(waiting_events') \cup Listed(running_events')
    BY DEF Linked, Listed
  <2> QED BY <1>1, <1>4, <1>7, <2>1, LinkedSets
<1>9. TypeOK'
  BY <1>1, <1>2, <1>4, <1>7 DEF TypeOK
<1>10. NothingBefore'
  BY <1>1 DEF NothingBefore
<1>11. ListedOnce'
  <2>1. Listed(waiting_events') \cap Listed(running_events') = {}
    BY <1>1, <1>4, <1>7 DEF ListedOnce
  <2> QED BY <1>1, <1>4, <1>7, <2>1 DEF ListedOnce, Distinct, Listed
<1>12. Owners(Linked, free_ids, owned_args)'
  BY <1>1, <1>8 DEF Owners, Distinct, Listed
<1>13. InOrder(waiting_events)'
  <2>1. InOrder(Tail(waiting_events))
    <3> DEFINE t == Tail(waiting_events)
    <3>1. /\ DOMAIN t \subseteq Int
          /\ \A i \in DOMAIN t : i + 1 \in DOMAIN waiting_events /\ t[i] = waiting_events[i + 1]
      BY <1>1, <1>3, <1>5
    <3> HIDE DEF t
    <3>2. ASSUME NEW i \in DOMAIN t, NEW j \in DOMAIN t, i < j
          PROVE  t[i].expires_at <= t[j].expires_at
      <4>1. i + 1 < j + 1
        BY <3>1, <3>2
      <4> QED BY <3>1, <4>1 DEF InOrder
    <3>3. InOrder(t)
      BY <3>2 DEF InOrder
    <3> QED BY <3>3 DEF t
  <2> QED BY <1>1, <2>1 DEF InOrder
<1>14. StoppedOnce' /\ LaterThanInterval'
  BY <1>1, <1>8 DEF StoppedOnce, LaterThanInterval
<1>15. ArmedInTime'
  <2>1. running_events' # <<>>
    BY <1>1, <1>3, <1>4
  <2> QED BY <2>1 DEF ArmedInTime
<1> QED BY <1>9, <1>10, <1>11, <1>12, <1>13, <1>14, <1>15

\* The innermost callback returns: its event is queued again or freed.
LEMMA CallbackReturnsKeeps == ASSUME IInv, CallbackReturns PROVE IInv'
<1> USE DEF IInv
<1> DEFINE event == running_events[Len(running_events)]
           front == SubSeq(running_events, 1, Len(running_events) - 1)
           again == [event EXCEPT !.expires_at = Saturated(event.interval_ticks)]
<1>1. /\ Unmasked /\ running_events # <<>>
      /\ counter_frequency' = counter_frequency /\ now' = now /\ handler' = "expiring"
      /\ running_events' = front
      /\ waiting_events' = IF event.interval_ticks = 0 THEN waiting_events
                           ELSE Insert(waiting_events, again)
      /\ Free(event)
      /\ stopped' = IF event.interval_ticks = 0 THEN stopped \ {event.id} ELSE stopped
  BY DEF CallbackReturns
<1>2. enabled' = enabled /\ compare' = compare
  BY DEF CallbackReturns, hardware
<1>3. /\ waiting_events \in Seq(TimerEvents) /\ running_events \in Seq(TimerEvents)
      /\ free_ids \in Seq(Ids) /\ now \in 0 .. Horizon
  BY DEF TypeOK
<1>4. /\ event \in TimerEvents /\ front \in Seq(TimerEvents)
      /\ event \in Listed(running_events)
      /\ Listed(front) = Listed(running_events) \ {event}
      /\ Distinct(front)
  BY <1>1, <1>3, FrontDistinct DEF ListedOnce
<1>5. event \in Linked /\ event \notin Listed(waiting_events)
  BY <1>4, LinkedSets DEF ListedOnce
<1>6. /\ event.interval_ticks \in Nat /\ event.interval_ticks <= MaxCounter /\ event.id \in Ids
  BY <1>4, CounterAssumption DEF TimerEvents, Counters
<1>7. /\ Saturated(event.interval_ticks) \in Counters
      /\ Saturated(event.interval_ticks) >= event.interval_ticks
  BY <1>3, <1>6, CounterAssumption DEF Saturated, Counters
<1>8. /\ again \in TimerEvents /\ again.id = event.id /\ again.args = event.args
      /\ again.interval_ticks = event.interval_ticks /\ again.expires_at >= again.interval_ticks
  BY <1>4, <1>7, EventWith
<1> HIDE DEF event, front, again
<1>9. ArmedInTime'
  BY <1>1 DEF ArmedInTime, Unmasked
<1>10. /\ counter_frequency # 0
  BY <1>1 DEF NothingBefore
<1>11. Linked' = Listed(waiting_events') \cup Listed(running_events')
  BY DEF Linked, Listed
<1>12. \A e, f \in Linked : e.id = f.id => e = f
  BY DEF Owners
<1>13. CASE event.interval_ticks = 0
  <2>1. /\ owned_args' = owned_args \ {event.args} /\ free_ids' = Append(free_ids, event.id)
        /\ cached_count' = IF cached_count < CacheSize THEN cached_count + 1 ELSE cached_count
        /\ waiting_events' = waiting_events /\ stopped' = stopped \ {event.id}
    BY <1>1, <1>13 DEF Free
  <2>2. Linked' = Linked \ {event}
    BY <1>1, <1>4, <1>5, <1>11, <2>1, LinkedSets
  <2>3. TypeOK'
    <3>1. free_ids' \in Seq(Ids)
      BY <1>3, <1>6, <2>1
    <3>2. cached_count' \in 0 .. CacheSize
      BY <2>1, CacheAssumption DEF TypeOK
    <3> QED BY <1>1, <1>2, <1>4, <2>1, <3>1, <3>2 DEF TypeOK
  <2>4. NothingBefore'
    BY <1>1, <1>10 DEF NothingBefore
  <2>5. ListedOnce'
    <3>1. Listed(waiting_events') \cap Listed(running_events') = {}
      BY <1>1, <1>4, <2>1 DEF ListedOnce
    <3> QED BY <1>1, <1>4, <2>1, <3>1 DEF ListedOnce, Distinct, Listed
  <2>6. Owners(Linked, free_ids, owned_args)'
    <3>1. Owners(Linked', free_ids', owned_args')
      BY <1>3, <1>5, <1>6, <2>1, <2>2, OwnersFreed
    <3> QED BY <3>1 DEF Owners, Distinct, Listed
  <2>7. InOrder(waiting_events)'
    BY <2>1 DEF InOrder
  <2>8. StoppedOnce'
    <3>1. ASSUME NEW i \in stopped \ {event.id}
          PROVE  \E e \in Linked' : e.id = i /\ e.interval_ticks = 0
      <4>1. PICK e \in Linked : e.id = i /\ e.interval_ticks = 0
        BY DEF StoppedOnce
      <4>2. e \in Linked'
        BY <2>2, <3>1, <4>1
      <4> QED BY <4>1, <4>2
    <3> QED BY <2>1, <3>1 DEF StoppedOnce
  <2>9. LaterThanInterval'
    BY <2>2 DEF LaterThanInterval
  <2> QED BY <1>9, <2>3, <2>4, <2>5, <2>6, <2>7, <2>8, <2>9
<1>14. CASE event.interval_ticks # 0
  <2>1. /\ owned_args' = owned_args /\ free_ids' = free_ids /\ cached_count' = cached_count
        /\ waiting_events' = Insert(waiting_events, again) /\ stopped' = stopped
    BY <1>1, <1>14 DEF Free, pools
  <2>2. again \notin Listed(waiting_events) /\ again \notin Listed(front)
    <3>1. \A e \in Listed(waiting_events) : e.id # event.id
      BY <1>5, <1>12, LinkedSets
    <3>2. \A e \in Listed(front) : e.id # event.id
      BY <1>4, <1>5, <1>12, LinkedSets
    <3> QED BY <1>8, <3>1, <3>2
  <2>3. /\ waiting_events' \in Seq(TimerEvents)
        /\ Listed(waiting_events') = Listed(waiting_events) \cup {again}
        /\ Distinct(waiting_events') /\ InOrder(waiting_events')
    <3>1. InOrder(waiting_events) /\ Distinct(waiting_events)
      BY DEF ListedOnce
    <3> QED BY <1>3, <1>8, <2>1, <2>2, <3>1, InsertFacts
  <2>4. Linked' = (Linked \ {event}) \cup {again}
    BY <1>1, <1>4, <1>5, <1>11, <2>3, LinkedSets
  <2>5. TypeOK'
    BY <1>1, <1>2, <1>4, <2>1, <2>3 DEF TypeOK
  <2>6. NothingBefore'
    BY <1>1, <1>10 DEF NothingBefore
  <2>7. ListedOnce'
    <3>1. Listed(waiting_events') \cap Listed(running_events') = {}
      BY <1>1, <1>4, <2>2, <2>3 DEF ListedOnce
    <3> QED BY <1>1, <1>4, <2>3, <3>1 DEF ListedOnce, Distinct, Listed
  <2>8. Owners(Linked, free_ids, owned_args)'
    <3>1. Owners((Linked \ {event}) \cup {again}, free_ids, owned_args)
      BY <1>5, <1>8, OwnersReplaced
    <3>2. Owners(Linked', free_ids', owned_args')
      BY <2>1, <2>4, <3>1
    <3> QED BY <3>2 DEF Owners, Distinct, Listed
  <2>9. InOrder(waiting_events)'
    BY <2>3 DEF InOrder
  <2>10. StoppedOnce'
    <3>1. ASSUME NEW i \in stopped PROVE \E e \in Linked' : e.id = i /\ e.interval_ticks = 0
      <4>1. PICK e \in Linked : e.id = i /\ e.interval_ticks = 0
        BY DEF StoppedOnce
      <4>2. e \in Linked'
        BY <1>14, <2>4, <4>1
      <4> QED BY <4>1, <4>2
    <3> QED BY <2>1, <3>1 DEF StoppedOnce
  <2>11. LaterThanInterval'
    BY <1>8, <2>4 DEF LaterThanInterval
  <2> QED BY <1>9, <2>5, <2>6, <2>7, <2>8, <2>9, <2>10, <2>11
<1> QED BY <1>13, <1>14

\* Nothing happens.
LEMMA StutterKeeps == ASSUME IInv, UNCHANGED vars PROVE IInv'
<1>1. /\ waiting_events' = waiting_events /\ running_events' = running_events /\ free_ids' = free_ids
      /\ cached_count' = cached_count /\ owned_args' = owned_args /\ handler' = handler
      /\ now' = now /\ stopped' = stopped /\ counter_frequency' = counter_frequency
  BY DEF vars, lists, pools
<1>2. enabled' = enabled /\ compare' = compare
  BY DEF vars, hardware
<1>3. TypeOK'
  BY <1>1, <1>2 DEF TypeOK, IInv
<1>4. ArmedInTime'
  BY <1>1, <1>2 DEF ArmedInTime, Unmasked, IInv
<1> QED BY <1>1, <1>3, <1>4, ListsKept

\* The parts of the invariant hold in every reachable state of timer.c.
THEOREM InductiveInvariant == Spec => []IInv
<1>1. Init => IInv
  BY TimerInitInv
<1>2. IInv /\ [Next]_vars => IInv'
  <2> SUFFICES ASSUME IInv, [Next]_vars PROVE IInv'
    OBVIOUS
  <2>1. CASE TimerInit
    BY <2>1, TimerInitKeeps
  <2>2. CASE TimerAddTimeout
    BY <2>2, TimerAddTimeoutKeeps
  <2>3. CASE AddFails
    BY <2>3, AddFailsKeeps
  <2>4. CASE \E id \in Ids : TimerStopPeriodic(id)
    BY <2>4, StopKeeps
  <2>5. CASE TakeIrq
    BY <2>5, TakeIrqKeeps
  <2>6. CASE RunExpired
    BY <2>6, RunExpiredKeeps
  <2>7. CASE NoneExpired
    BY <2>7, NoneExpiredKeeps
  <2>8. CASE ProgramAndReturn
    BY <2>8, ProgramKeeps
  <2>9. CASE CallbackReturns
    BY <2>9, CallbackReturnsKeeps
  <2>10. CASE TimePasses
    BY <2>10, TimePassesKeeps
  <2>11. CASE UNCHANGED vars
    BY <2>11, StutterKeeps
  <2> QED BY <2>1, <2>2, <2>3, <2>4, <2>5, <2>6, <2>7, <2>8, <2>9, <2>10, <2>11 DEF Next, Handling
<1> QED BY <1>1, <1>2, PTL DEF Spec
-------------------------------------------------------------------------------
(* The properties *)

\* Whenever the kernel runs threads, the countdown ends in time for every waiting event: the
\* head of the list is the earliest deadline, so that programming for it is enough.
THEOREM ArmedCorrect == Spec => []ArmedInTime
<1>1. IInv => ArmedInTime
  BY DEF IInv
<1> QED BY <1>1, InductiveInvariant, PTL

\* IDs, event objects' arguments and the free list are exact: distinct IDs give as many as
\* there are events.
THEOREM EventsCorrect == Spec => []EventsExact
<1>1. ASSUME IInv PROVE EventsExact
  <2> DEFINE ids == {e.id : e \in Linked}
             W == Listed(waiting_events)
             R == Listed(running_events)
             F == Listed(free_ids)
  <2>1. /\ TypeOK /\ ListedOnce /\ Owners(Linked, free_ids, owned_args)
        /\ waiting_events \in Seq(TimerEvents) /\ running_events \in Seq(TimerEvents)
        /\ free_ids \in Seq(Ids)
    BY <1>1 DEF IInv, TypeOK
  <2>2. /\ IsFiniteSet(W) /\ Cardinality(W) = Len(waiting_events)
        /\ IsFiniteSet(R) /\ Cardinality(R) = Len(running_events)
        /\ IsFiniteSet(F) /\ Cardinality(F) = Len(free_ids)
    BY <2>1, ListSize DEF ListedOnce, Owners
  <2>3. Linked = W \cup R /\ W \cap R = {}
    BY <2>1, LinkedSets DEF ListedOnce
  <2>4. F = Ids \ ids
    BY <2>1 DEF Owners
  <2>5. Len(waiting_events) \in Nat /\ Len(running_events) \in Nat /\ Len(free_ids) \in Nat
    BY <2>1
  <2> HIDE DEF W, R
  <2>6. IsFiniteSet(Linked) /\ Cardinality(Linked) = Len(waiting_events) + Len(running_events)
    <3>1. Cardinality(W \cap R) = 0
      BY <2>3, FS_EmptySet
    <3>2. Cardinality(W \cup R) = Cardinality(W) + Cardinality(R) - Cardinality(W \cap R)
      BY <2>2, FS_Union
    <3>3. IsFiniteSet(W \cup R)
      BY <2>2, FS_Union
    <3> QED BY <2>2, <2>3, <2>5, <3>1, <3>2, <3>3
  <2>7. Cardinality(ids) = Cardinality(Linked)
    <3> DEFINE f == [e \in Linked |-> e.id]
    <3>1. \A d, e \in Linked : d.id = e.id => d = e
      BY <2>1 DEF Owners
    <3>2. f \in Bijection(Linked, ids)
      BY <3>1 DEF Bijection, Injection, Surjection, IsInjective
    <3> HIDE DEF f, ids
    <3> QED BY <2>6, <3>2, FS_Bijection DEF ExistsBijection
  <2>8. ids \subseteq Ids
    BY <2>1, <2>3, ListedEvents, EventFacts DEF W, R
  <2>9. Len(free_ids) = Cardinality(Ids) - Cardinality(ids)
    <3>1. ids \cap Ids = ids /\ Ids \cap ids = ids
      BY <2>8
    <3>2. IsFiniteSet(Ids)
      BY IdsAssumption
    <3> HIDE DEF ids, F
    <3>3. Cardinality(Ids \ ids) = Cardinality(Ids) - Cardinality(Ids \cap ids)
      BY <3>2, FS_Difference
    <3> QED BY <2>2, <2>4, <3>1, <3>3
  <2>10. {free_ids[k] : k \in DOMAIN free_ids} = Ids \ ids
    BY <2>4 DEF Listed
  <2>11. /\ \A e, f \in Linked : e.args = f.args /\ e.args # NoArgument => e = f
         /\ owned_args = {e.args : e \in Linked} \ {NoArgument}
    BY <2>1 DEF Owners
  <2> HIDE DEF ids, F
  <2>12. Cardinality(ids) = Len(waiting_events) + Len(running_events)
    BY <2>6, <2>7
  <2>13. Len(free_ids) = Cardinality(Ids) - (Len(waiting_events) + Len(running_events))
    BY <2>9, <2>12
  <2> QED BY <2>1, <2>10, <2>11, <2>12, <2>13 DEF EventsExact, ids
<1> QED BY <1>1, InductiveInvariant, PTL

\* An event in the waiting list after a step was there before, has an ID that was free, or is
\* the running event whose callback returns and which repeats.
LEMMA WaitingAfter ==
    ASSUME IInv, Next, NEW k \in DOMAIN waiting_events'
    PROVE  \/ \E e \in Listed(waiting_events) : waiting_events'[k].id = e.id
           \/ waiting_events'[k].id \in Listed(free_ids)
           \/ \E e \in Listed(running_events) :
                 waiting_events'[k].id = e.id /\ e.interval_ticks # 0
<1> DEFINE Before(q) == \A j \in DOMAIN q : \E e \in Listed(waiting_events) : q[j].id = e.id
<1>1. /\ waiting_events \in Seq(TimerEvents) /\ running_events \in Seq(TimerEvents)
      /\ free_ids \in Seq(Ids) /\ now \in 0 .. Horizon
      /\ InOrder(waiting_events) /\ ListedOnce /\ Owners(Linked, free_ids, owned_args)
  BY DEF IInv, TypeOK
<1>2. Before(waiting_events)
  BY DEF Listed
<1>3. CASE waiting_events' = waiting_events
  BY <1>2, <1>3
<1>4. CASE TimerAddTimeout
  <2>1. PICK request \in Requests, periodic \in BOOLEAN,
             args \in (Arguments \ owned_args) \cup {NoArgument} :
           Add(Ticks(request[1], request[2], Frequency), periodic, args)
    BY <1>4 DEF TimerAddTimeout
  <2> DEFINE ticks == Ticks(request[1], request[2], Frequency)
             event == [id |-> Head(free_ids), expires_at |-> now + ticks,
                       interval_ticks |-> IF periodic THEN ticks ELSE 0, args |-> args]
  <2>2. ticks \in Counters \cup {-1}
    BY TicksType
  <2>3. Add(ticks, periodic, args)
    BY <2>1
  <2> HIDE DEF ticks
  <2>4. ticks # -1 /\ ticks <= MaxCounter - now /\ free_ids # <<>> /\ waiting_events' = Insert(waiting_events, event)
    BY <2>3 DEF Add
  <2>5. Head(free_ids) \in Ids /\ Head(free_ids) \in Listed(free_ids)
    BY <1>1, <2>4, TailDistinct DEF Owners
  <2>6. now \in Nat /\ ticks \in Nat /\ now + ticks \in Counters /\ ticks \in Counters /\ 0 \in Counters
    BY <1>1, <2>2, <2>4, CounterAssumption DEF Counters
  <2>7. args \in Arguments \cup {NoArgument}
    OBVIOUS
  <2>8. event \in TimerEvents /\ event.id = Head(free_ids)
    BY <2>5, <2>6, <2>7 DEF TimerEvents
  <2> HIDE DEF event
  <2>9. event \notin Listed(waiting_events)
    <3>1. \A e \in Linked : e.id \notin Listed(free_ids)
      BY <1>1 DEF Owners
    <3> QED BY <2>5, <2>8, <3>1, LinkedSets
  <2>10. Listed(waiting_events') = Listed(waiting_events) \cup {event}
    BY <1>1, <2>4, <2>8, <2>9, InsertFacts DEF ListedOnce
  <2>11. waiting_events'[k] \in Listed(waiting_events')
    BY DEF Listed
  <2> QED BY <2>5, <2>8, <2>10, <2>11
<1>5. CASE \E id \in Ids : TimerStopPeriodic(id)
  <2>1. PICK id \in Ids : waiting_events' = Once(waiting_events, id)
    BY <1>5 DEF TimerStopPeriodic, Stop
  <2>2. \A j \in DOMAIN waiting_events :
           [waiting_events[j] EXCEPT !.interval_ticks = 0].id = waiting_events[j].id
    <3>1. \A j \in DOMAIN waiting_events : waiting_events[j] \in TimerEvents
      BY <1>1
    <3>2. 0 \in Counters
      BY CounterAssumption DEF Counters
    <3> QED BY <3>1, <3>2, EventWith
  <2>3. k \in DOMAIN waiting_events /\ waiting_events'[k].id = waiting_events[k].id
    BY <2>1, <2>2 DEF Once
  <2> QED BY <1>2, <2>3
<1>6. CASE RunExpired
  <2>1. waiting_events # <<>> /\ waiting_events' = Tail(waiting_events)
    BY <1>6 DEF RunExpired
  <2>2. k + 1 \in DOMAIN waiting_events /\ waiting_events'[k] = waiting_events[k + 1]
    BY <1>1, <2>1
  <2> QED BY <1>2, <2>2
<1>7. CASE CallbackReturns /\ waiting_events' # waiting_events
  <2> DEFINE event == running_events[Len(running_events)]
             again == [event EXCEPT !.expires_at = Saturated(event.interval_ticks)]
  <2>1. /\ running_events # <<>> /\ event.interval_ticks # 0
        /\ waiting_events' = Insert(waiting_events, again)
    BY <1>7 DEF CallbackReturns
  <2>2. event \in TimerEvents /\ event \in Listed(running_events)
    BY <1>1, <2>1, FrontDistinct DEF ListedOnce
  <2>3. event.interval_ticks \in Nat /\ event.interval_ticks <= MaxCounter
    BY <2>2, CounterAssumption DEF TimerEvents, Counters
  <2>4. Saturated(event.interval_ticks) \in Counters
    BY <1>1, <2>3, CounterAssumption DEF Saturated, Counters
  <2>5. again \in TimerEvents /\ again.id = event.id
    BY <2>2, <2>4, EventWith
  <2> HIDE DEF event, again
  <2>6. again \notin Listed(waiting_events)
    <3>1. \A e, f \in Linked : e.id = f.id => e = f
      BY <1>1 DEF Owners
    <3>2. event \notin Listed(waiting_events)
      BY <1>1, <2>2 DEF ListedOnce
    <3> QED BY <2>2, <2>5, <3>1, <3>2, LinkedSets
  <2>7. Listed(waiting_events') = Listed(waiting_events) \cup {again}
    BY <1>1, <2>1, <2>5, <2>6, InsertFacts DEF ListedOnce
  <2>8. waiting_events'[k] \in Listed(waiting_events')
    BY DEF Listed
  <2> QED BY <2>1, <2>2, <2>5, <2>7, <2>8
<1> QED
  BY <1>3, <1>4, <1>5, <1>6, <1>7
     DEF Next, Handling, TimerInit, AddFails, TakeIrq, NoneExpired, ProgramAndReturn, TimePasses, lists

\* A stopped event is not queued again: what is queued from the running list repeats, and a
\* stopped event does not.
THEOREM StopsAreFinal == Spec => StopIsFinal
<1> DEFINE Final == \A id \in stopped :
                       (\E k \in DOMAIN running_events : running_events[k].id = id)
                         => ~ \E k \in DOMAIN waiting_events' : waiting_events'[k].id = id
<1>1. ASSUME IInv, [Next]_vars PROVE [Final]_vars
  <2> SUFFICES ASSUME Next PROVE Final
    BY <1>1
  <2> SUFFICES ASSUME NEW id \in stopped, NEW j \in DOMAIN running_events,
                      running_events[j].id = id,
                      NEW k \in DOMAIN waiting_events', waiting_events'[k].id = id
               PROVE  FALSE
    OBVIOUS
  <2>1. running_events[j] \in Listed(running_events) /\ running_events[j] \in Linked
    BY LinkedSets DEF Listed
  <2>2. \A e, f \in Linked : e.id = f.id => e = f
    BY <1>1 DEF IInv, Owners
  <2>3. PICK e \in Linked : e.id = id /\ e.interval_ticks = 0
    BY <1>1 DEF IInv, StoppedOnce
  <2>4. e = running_events[j]
    BY <2>1, <2>2, <2>3
  <2>5. CASE \E f \in Listed(waiting_events) : f.id = id
    BY <1>1, <2>1, <2>2, <2>5, LinkedSets DEF IInv, ListedOnce
  <2>6. CASE id \in Listed(free_ids)
    BY <1>1, <2>1, <2>6 DEF IInv, Owners
  <2>7. CASE \E f \in Listed(running_events) : f.id = id /\ f.interval_ticks # 0
    BY <2>2, <2>3, <2>7, LinkedSets
  <2> QED BY <1>1, <2>5, <2>6, <2>7, WaitingAfter
<1> QED BY <1>1, InductiveInvariant, PTL DEF Spec, StopIsFinal
-------------------------------------------------------------------------------
(* The conversion of durations *)

\* Quotient and remainder.
LEMMA DivFacts ==
    ASSUME NEW n \in Nat, NEW m \in Nat \ {0}
    PROVE  n \div m \in Nat /\ n % m \in 0 .. m - 1 /\ n = m * (n \div m) + (n % m)
OBVIOUS

\* There is only one of each.
LEMMA DivUnique ==
    ASSUME NEW n \in Nat, NEW m \in Nat \ {0}, NEW q \in Nat, NEW r \in 0 .. m - 1, n = m * q + r
    PROVE  n \div m = q
OBVIOUS

\* A smaller factor gives a smaller product.
LEMMA ProductsInOrder ==
    ASSUME NEW a \in Nat, NEW b \in Nat, NEW m \in Nat, a <= b
    PROVE  a * m <= b * m /\ m * a <= m * b
OBVIOUS

\* Multiples can be taken out of a quotient that is rounded up.
LEMMA RoundUpSplit ==
    ASSUME NEW m \in Nat \ {0}, NEW whole \in Nat, NEW part \in Nat
    PROVE  (m * whole + part + (m - 1)) \div m = whole + ((part + (m - 1)) \div m)
<1> DEFINE t == part + (m - 1)
<1>1. t \in Nat
  OBVIOUS
<1>2. m * whole + part + (m - 1) = m * whole + t
  OBVIOUS
<1> HIDE DEF t
<1>3. t \div m \in Nat /\ t % m \in 0 .. m - 1 /\ t = m * (t \div m) + (t % m)
  BY <1>1, DivFacts
<1> DEFINE k == t \div m
           r == t % m
<1>4. k \in Nat /\ r \in 0 .. m - 1 /\ t = m * k + r
  BY <1>3
<1> HIDE DEF k, r
<1>5. m * whole + t = m * (whole + k) + r
  BY <1>4
<1>6. m * whole + t \in Nat /\ whole + k \in Nat
  BY <1>4, <1>5
<1> HIDE DEF t
<1>7. (m * whole + t) \div m = whole + k
  BY <1>4, <1>5, <1>6, DivUnique
<1>8. m * whole + part + (m - 1) = m * whole + t
  BY DEF t
<1> QED BY <1>7, <1>8 DEF k, t

\* The quotient and the remainder of the frequency are enough for the fraction of a second: it
\* is exact, rounded up, and no intermediate result is wider than the counter.
LEMMA FractionExact ==
    ASSUME NEW remainder \in 0 .. MsPerSecond - 1, NEW frequency \in 1 .. MaxCounter
    PROVE  /\ Fraction(remainder, frequency) = (remainder * frequency + (MsPerSecond - 1)) \div MsPerSecond
           /\ Fraction(remainder, frequency) \in 0 .. MaxCounter
<1> DEFINE M == MsPerSecond
           q == frequency \div M
           p == frequency % M
           t == remainder * p + M - 1
           c == t \div M
           exact == (remainder * frequency + (M - 1)) \div M
<1>1. /\ M \in Nat \ {0} /\ M * M <= MaxCounter + 1 /\ MaxCounter \in Nat
      /\ frequency \in Nat \ {0} /\ frequency <= MaxCounter /\ remainder \in Nat /\ remainder <= M - 1
  BY FrequencyAssumption, CounterAssumption
<1>2. \A n \in 0 .. MaxCounter : Capped(n) = n
  BY <1>1 DEF Capped
<1>3. q \in Nat /\ p \in 0 .. M - 1 /\ frequency = M * q + p
  BY <1>1, DivFacts
<1>4. Fraction(remainder, frequency) = Capped(Capped(remainder * q) + Capped(t) \div M)
  BY DEF Fraction
<1> HIDE DEF M, q, p
<1>5. t \in Nat /\ t <= MaxCounter
  <2>1. remainder * p <= (M - 1) * p /\ (M - 1) * p <= (M - 1) * (M - 1)
    BY <1>1, <1>3, ProductsInOrder
  <2>2. (M - 1) * (M - 1) + M - 1 = M * M - M
    BY <1>1
  <2>3. remainder * p \in Nat
    BY <1>1, <1>3
  <2>4. (M - 1) * p \in Int /\ (M - 1) * (M - 1) \in Int /\ M * M \in Int
    BY <1>1, <1>3
  <2> QED BY <1>1, <2>1, <2>2, <2>3, <2>4
<1>6. remainder * frequency = M * (remainder * q) + remainder * p
  BY <1>1, <1>3
<1>7. exact = remainder * q + c
  <2> DEFINE a == remainder * q
             b == remainder * p
  <2>1. a \in Nat /\ b \in Nat
    BY <1>1, <1>3
  <2>2. b + (M - 1) = t
    BY <1>1, <2>1
  <2>3. remainder * frequency = M * a + b
    BY <1>6
  <2> HIDE DEF a, b, t
  <2>4. (M * a + b + (M - 1)) \div M = a + (t \div M)
    BY <1>1, <2>1, <2>2, RoundUpSplit
  <2> QED BY <2>3, <2>4 DEF a
<1>8. exact \in Nat /\ exact <= MaxCounter
  <2> DEFINE n == remainder * frequency + (M - 1)
             r == n % M
  <2>1. n \in Nat
    BY <1>1
  <2>2. exact \in Nat /\ r \in 0 .. M - 1 /\ n = M * exact + r
    BY <1>1, <2>1, DivFacts
  <2> HIDE DEF exact, r
  <2>3. remainder * frequency <= (M - 1) * frequency
    BY <1>1, ProductsInOrder
  <2>4. (M - 1) * frequency = M * frequency - frequency
    BY <1>1
  <2>5. M * exact < M * frequency + M
    <3>1. remainder * frequency \in Int /\ M * frequency \in Int /\ M * exact \in Int
      BY <1>1, <2>2
    <3> QED BY <1>1, <2>2, <2>3, <2>4, <3>1
  <2>6. exact <= frequency
    <3>1. exact >= frequency + 1 => M * (frequency + 1) <= M * exact
      BY <1>1, <2>2, ProductsInOrder
    <3>2. M * (frequency + 1) = M * frequency + M
      BY <1>1
    <3>3. M * exact \in Int /\ M * frequency \in Int
      BY <1>1, <2>2
    <3> QED BY <1>1, <2>2, <2>5, <3>1, <3>2, <3>3
  <2> QED BY <1>1, <2>2, <2>6
<1> HIDE DEF t
<1>9. c \in Nat /\ remainder * q \in Nat
  <2>1. remainder * q \in Nat
    BY <1>1, <1>3
  <2>2. t \in Nat /\ M \in Nat \ {0}
    BY <1>1, <1>5
  <2>3. t \div M \in Nat
    BY <2>2, DivFacts
  <2> QED BY <2>1, <2>3
<1> HIDE DEF c, exact
<1>10. Capped(remainder * q) = remainder * q /\ Capped(t) = t
  BY <1>1, <1>2, <1>5, <1>7, <1>8, <1>9
<1>11. Fraction(remainder, frequency) = Capped(exact)
  BY <1>4, <1>7, <1>10 DEF c
<1>12. Fraction(remainder, frequency) = exact
  BY <1>1, <1>2, <1>8, <1>11
<1> QED BY <1>1, <1>8, <1>12 DEF exact, M

\* A sum of ticks is exact, or fails exactly if the counter cannot hold it.
LEMMA SumExact ==
    ASSUME NEW seconds \in Nat, NEW fraction \in 0 .. MaxCounter, NEW frequency \in 1 .. MaxCounter
    PROVE  LET exact == seconds * frequency + fraction
           IN SumOf(seconds, fraction, frequency) = IF exact <= MaxCounter THEN exact ELSE -1
<1> DEFINE n == MaxCounter - fraction
           k == n \div frequency
           r == n % frequency
           product == seconds * frequency
<1>1. /\ MaxCounter \in Nat /\ frequency \in Nat \ {0} /\ n \in Nat /\ fraction \in Nat
      /\ product \in Nat
  BY CounterAssumption
<1>2. k \in Nat /\ r \in 0 .. frequency - 1 /\ n = frequency * k + r
  BY <1>1, DivFacts
<1>3. \A m \in 0 .. MaxCounter : Capped(m) = m
  BY <1>1 DEF Capped
<1>4. SumOf(seconds, fraction, frequency) = IF seconds > k THEN -1 ELSE Capped(product + fraction)
  BY DEF SumOf
<1>5. seconds <= k => product <= frequency * k
  BY <1>1, <1>2, ProductsInOrder
<1>6. seconds > k => product >= frequency * k + frequency
  <2>1. seconds > k => (k + 1) * frequency <= seconds * frequency
    BY <1>1, <1>2, ProductsInOrder
  <2>2. (k + 1) * frequency = frequency * k + frequency
    BY <1>1, <1>2
  <2> QED BY <2>1, <2>2
<1>7. frequency * k \in Nat
  BY <1>1, <1>2
<1> DEFINE all == frequency * k
<1>8. all \in Nat /\ MaxCounter - fraction = all + r
  BY <1>2, <1>7
<1>9. /\ seconds <= k => product <= all
      /\ seconds > k => product >= all + frequency
  BY <1>5, <1>6
<1> HIDE DEF n, k, r, product, all
<1>10. CASE seconds > k
  <2>1. ~(product + fraction <= MaxCounter)
    BY <1>1, <1>2, <1>8, <1>9, <1>10
  <2> QED BY <1>4, <1>10, <2>1 DEF product
<1>11. CASE seconds <= k
  <2>1. product + fraction \in 0 .. MaxCounter
    BY <1>1, <1>2, <1>8, <1>9, <1>11
  <2>2. Capped(product + fraction) = product + fraction
    BY <1>3, <2>1
  <2>3. product + fraction <= MaxCounter /\ ~(seconds > k)
    BY <1>1, <1>2, <1>11, <2>1
  <2> QED BY <1>4, <2>2, <2>3 DEF product
<1> QED BY <1>2, <1>10, <1>11

\* timer_duration_to_ticks is exact for every duration and every frequency of the counter.
THEOREM ConversionExact == TicksExact
<1> SUFFICES ASSUME NEW unit \in Units, NEW duration \in 1 .. MaxCounter,
                    NEW frequency \in 1 .. MaxCounter
             PROVE  LET parts == IF unit = "MILLISECONDS" THEN MsPerSecond ELSE 1
                        exact == IF unit = "TICKS" THEN duration
                                 ELSE (duration * frequency + parts - 1) \div parts
                    IN Ticks(unit, duration, frequency) = IF exact <= MaxCounter THEN exact ELSE -1
  BY DEF TicksExact
<1>1. /\ MsPerSecond \in Nat \ {0} /\ MaxCounter \in Nat
      /\ duration \in Nat /\ duration <= MaxCounter /\ frequency \in Nat \ {0}
  BY FrequencyAssumption, CounterAssumption
<1>2. CASE unit = "TICKS"
  BY <1>1, <1>2, TicksCases
<1>3. CASE unit = "SECONDS"
  <2>1. Fraction(0, frequency) = 0
    <3>1. 0 \in 0 .. MsPerSecond - 1
      BY <1>1
    <3>2. Fraction(0, frequency) = (0 * frequency + (MsPerSecond - 1)) \div MsPerSecond
      BY <3>1, FractionExact
    <3>3. 0 * frequency + (MsPerSecond - 1) = MsPerSecond - 1
      BY <1>1
    <3>4. (MsPerSecond - 1) \div MsPerSecond = 0
      <4>1. MsPerSecond - 1 = MsPerSecond * 0 + (MsPerSecond - 1)
        BY <1>1
      <4>2. MsPerSecond - 1 \in 0 .. MsPerSecond - 1 /\ MsPerSecond - 1 \in Nat
        BY <1>1
      <4> QED BY <1>1, <4>1, <4>2, DivUnique
    <3> QED BY <3>2, <3>3, <3>4
  <2> DEFINE product == duration * frequency
  <2>2. product \in Nat
    BY <1>1
  <2>3. 0 \in 0 .. MaxCounter /\ product + 0 = product
    BY <1>1, <2>2
  <2>4. Ticks(unit, duration, frequency) = IF product <= MaxCounter THEN product ELSE -1
    BY <1>1, <1>3, <2>1, <2>3, TicksCases, SumExact
  <2>5. (product + 1 - 1) \div 1 = product
    <3> HIDE DEF product
    <3> QED BY <2>2
  <2> QED BY <1>3, <2>4, <2>5
<1>4. CASE unit = "MILLISECONDS"
  <2> DEFINE M == MsPerSecond
             s == duration \div M
             r == duration % M
             fraction == Fraction(r, frequency)
  <2>1. s \in Nat /\ r \in 0 .. M - 1 /\ duration = M * s + r
    BY <1>1, DivFacts
  <2>2. fraction = (r * frequency + (M - 1)) \div M /\ fraction \in 0 .. MaxCounter
    BY <2>1, FractionExact
  <2>3. Ticks(unit, duration, frequency) = SumOf(s, fraction, frequency)
    BY <1>4, TicksCases
  <2> HIDE DEF fraction, s, r
  <2>4. Ticks(unit, duration, frequency) =
          IF s * frequency + fraction <= MaxCounter THEN s * frequency + fraction ELSE -1
    BY <1>1, <2>1, <2>2, <2>3, SumExact
  <2>5. (duration * frequency + M - 1) \div M = s * frequency + fraction
    <3> DEFINE a == s * frequency
               b == r * frequency
    <3>1. a \in Nat /\ b \in Nat
      BY <1>1, <2>1
    <3>2. duration * frequency = M * a + b
      BY <1>1, <2>1
    <3>3. fraction = (b + (M - 1)) \div M
      BY <2>2
    <3>4. M * a + b \in Int
      BY <1>1, <3>1
    <3> HIDE DEF a, b
    <3>5. duration * frequency + M - 1 = M * a + b + (M - 1)
      BY <1>1, <3>1, <3>2, <3>4
    <3>6. (M * a + b + (M - 1)) \div M = a + fraction
      BY <1>1, <3>1, <3>3, RoundUpSplit
    <3> QED BY <3>5, <3>6 DEF a
  <2> QED BY <1>4, <2>4, <2>5
<1> QED BY <1>2, <1>3, <1>4 DEF Units

\* The conversion is exact, and no deadline of a listed event has wrapped.
THEOREM DeadlinesCorrect == Spec => []DeadlinesExact
<1>1. IInv => DeadlinesExact
  BY ConversionExact DEF IInv, DeadlinesExact, LaterThanInterval
<1> QED BY <1>1, InductiveInvariant, PTL
===============================================================================
