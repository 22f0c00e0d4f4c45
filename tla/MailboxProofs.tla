----------------------------- MODULE MailboxProofs -----------------------------
(***************************************************************************)
(* Theorems about Mailbox and the kernel heap below it, for every size of  *)
(* pages and headers, every number of pages and every size of a request.   *)
(***************************************************************************)
EXTENDS Mailbox, FiniteSetTheorems, TLAPS

-------------------------------------------------------------------------------
(* The lists: what appending, taking the head and removing does to them *)

\* The elements of a list, and that none is in it twice.
Listed(queue) == {queue[k] : k \in DOMAIN queue}
Distinct(queue) == \A j, k \in DOMAIN queue : queue[j] = queue[k] => j = k

\* Appending an element that is not in a list of distinct elements keeps them distinct.
LEMMA AppendDistinct ==
    ASSUME NEW S, NEW q \in Seq(S), NEW x \in S, Distinct(q), x \notin Listed(q)
    PROVE  /\ Append(q, x) \in Seq(S)
           /\ Listed(Append(q, x)) = Listed(q) \cup {x}
           /\ Distinct(Append(q, x))
<1>1. Append(q, x) \in Seq(S) /\ Len(Append(q, x)) = Len(q) + 1
  OBVIOUS
<1>2. \A i \in 1 .. Len(q) : Append(q, x)[i] = q[i]
  OBVIOUS
<1>3. Append(q, x)[Len(q) + 1] = x
  OBVIOUS
<1>4. DOMAIN Append(q, x) = 1 .. Len(q) + 1 /\ DOMAIN q = 1 .. Len(q) /\ Len(q) \in Nat
  BY <1>1
<1>5. Listed(Append(q, x)) = Listed(q) \cup {x}
  BY <1>2, <1>3, <1>4 DEF Listed
<1>6. Distinct(Append(q, x))
  BY <1>2, <1>3, <1>4 DEF Listed, Distinct
<1> QED BY <1>1, <1>5, <1>6

\* Putting an element that is not in a list of distinct elements in front of it does, too.
LEMMA PrependDistinct ==
    ASSUME NEW S, NEW q \in Seq(S), NEW x \in S, Distinct(q), x \notin Listed(q)
    PROVE  LET p == <<x>> \o q
           IN /\ p \in Seq(S) /\ Len(p) = Len(q) + 1
              /\ Listed(p) = Listed(q) \cup {x}
              /\ Distinct(p)
<1> DEFINE p == <<x>> \o q
<1>1. p \in Seq(S) /\ Len(p) = Len(q) + 1
  OBVIOUS
<1>2. \A i \in 1 .. Len(q) : p[i + 1] = q[i]
  OBVIOUS
<1>3. p[1] = x
  OBVIOUS
<1> HIDE DEF p
<1>4. DOMAIN p = 1 .. Len(q) + 1 /\ DOMAIN q = 1 .. Len(q) /\ Len(q) \in Nat
  BY <1>1
<1>5. \A k \in 2 .. Len(q) + 1 : k - 1 \in 1 .. Len(q) /\ p[k] = q[k - 1]
  <2> SUFFICES ASSUME NEW k \in 2 .. Len(q) + 1 PROVE k - 1 \in 1 .. Len(q) /\ p[k] = q[k - 1]
    OBVIOUS
  <2>1. k - 1 \in 1 .. Len(q) /\ (k - 1) + 1 = k
    BY <1>4
  <2> QED BY <1>2, <2>1
<1>6. Listed(p) = Listed(q) \cup {x}
  <2>1. Listed(p) \subseteq Listed(q) \cup {x}
    BY <1>3, <1>4, <1>5 DEF Listed
  <2>2. \A i \in 1 .. Len(q) : q[i] \in Listed(p)
    BY <1>2, <1>4 DEF Listed
  <2>3. x \in Listed(p)
    BY <1>3, <1>4 DEF Listed
  <2> QED BY <1>4, <2>1, <2>2, <2>3 DEF Listed
<1>7. Distinct(p)
  <2>1. ASSUME NEW i \in 1 .. Len(q) + 1, NEW k \in 1 .. Len(q) + 1, p[i] = p[k] PROVE i = k
    <3>1. CASE i = 1 /\ k = 1
      BY <3>1
    <3>2. CASE i = 1 /\ k # 1
      BY <1>3, <1>4, <1>5, <2>1, <3>2 DEF Listed
    <3>3. CASE i # 1 /\ k = 1
      BY <1>3, <1>4, <1>5, <2>1, <3>3 DEF Listed
    <3>4. CASE i # 1 /\ k # 1
      <4>1. i - 1 = k - 1
        BY <1>4, <1>5, <2>1, <3>4 DEF Distinct
      <4> QED BY <4>1
    <3> QED BY <3>1, <3>2, <3>3, <3>4
  <2> QED BY <1>4, <2>1 DEF Distinct
<1> QED BY <1>1, <1>6, <1>7 DEF p

\* Taking the head off a list of distinct elements leaves the others.
LEMMA TailDistinct ==
    ASSUME NEW S, NEW q \in Seq(S), q # <<>>, Distinct(q)
    PROVE  /\ Head(q) \in S /\ Tail(q) \in Seq(S)
           /\ Head(q) \in Listed(q)
           /\ Listed(Tail(q)) = Listed(q) \ {Head(q)}
           /\ Distinct(Tail(q))
<1>1. Len(q) \in Nat /\ Len(q) >= 1 /\ DOMAIN q = 1 .. Len(q)
  OBVIOUS
<1>2. Tail(q) \in Seq(S) /\ DOMAIN Tail(q) = 1 .. Len(q) - 1
  OBVIOUS
<1>3. \A i \in 1 .. Len(q) - 1 : Tail(q)[i] = q[i + 1]
  OBVIOUS
<1>4. Head(q) = q[1] /\ Head(q) \in S
  OBVIOUS
<1>5. Listed(Tail(q)) \subseteq Listed(q) \ {Head(q)}
  BY <1>1, <1>2, <1>3, <1>4 DEF Listed, Distinct
<1>6. ASSUME NEW x \in Listed(q), x # Head(q) PROVE x \in Listed(Tail(q))
  <2>1. PICK i \in 1 .. Len(q) : q[i] = x
    BY <1>1 DEF Listed
  <2>2. i - 1 \in 1 .. Len(q) - 1 /\ Tail(q)[i - 1] = x
    BY <1>1, <1>3, <1>4, <1>6, <2>1
  <2> QED BY <1>2, <2>2 DEF Listed
<1>7. Distinct(Tail(q))
  BY <1>1, <1>2, <1>3 DEF Distinct
<1>8. Head(q) \in Listed(q)
  BY <1>1, <1>4 DEF Listed
<1> QED BY <1>2, <1>4, <1>5, <1>6, <1>7, <1>8

\* Unlinking an element of a list of distinct elements leaves the others.
LEMMA WithoutDistinct ==
    ASSUME NEW S, NEW q \in Seq(S), NEW t \in Listed(q), Distinct(q)
    PROVE  /\ Without(q, t) \in Seq(S)
           /\ Listed(Without(q, t)) = Listed(q) \ {t}
           /\ Distinct(Without(q, t))
<1>1. Len(q) \in Nat /\ DOMAIN q = 1 .. Len(q) /\ \A i \in 1 .. Len(q) : q[i] \in S
  OBVIOUS
<1> DEFINE p == CHOOSE i \in DOMAIN q : q[i] = t
           w == [i \in 1 .. Len(q) - 1 |-> IF i < p THEN q[i] ELSE q[i + 1]]
<1>2. p \in 1 .. Len(q) /\ q[p] = t
  BY <1>1 DEF Listed
<1>3. Without(q, t) = w
  BY DEF Without
<1> HIDE DEF p
<1>4. w \in Seq(S)
  <2>1. \A i \in 1 .. Len(q) - 1 : w[i] \in S
    BY <1>1, <1>2
  <2>2. Len(q) - 1 \in Nat
    BY <1>1, <1>2
  <2> QED BY <2>1, <2>2
<1>5. DOMAIN w = 1 .. Len(q) - 1
  OBVIOUS
<1>6. \A i \in 1 .. Len(q) - 1 : w[i] = IF i < p THEN q[i] ELSE q[i + 1]
  OBVIOUS
<1> HIDE DEF w
<1>7. Listed(w) \subseteq Listed(q) \ {t}
  <2>1. ASSUME NEW k \in 1 .. Len(q) - 1 PROVE w[k] \in Listed(q) /\ w[k] # t
    <3>1. PICK j \in 1 .. Len(q) : w[k] = q[j] /\ j # p
      <4>1. k \in 1 .. Len(q) /\ k + 1 \in 1 .. Len(q) /\ (k < p => k # p) /\ (~(k < p) => k + 1 # p)
        BY ONLY <1>1, <1>2, <2>1
      <4> QED BY <1>6, <4>1
    <3> QED BY <1>1, <1>2, <3>1 DEF Listed, Distinct
  <2> QED BY <1>5, <2>1 DEF Listed
<1>8. ASSUME NEW x \in Listed(q), x # t PROVE x \in Listed(w)
  <2>1. PICK i \in 1 .. Len(q) : q[i] = x
    BY <1>1 DEF Listed
  <2>2. CASE i < p
    <3>1. i \in 1 .. Len(q) - 1
      BY ONLY <1>1, <1>2, <2>1, <2>2
    <3>2. w[i] = x
      BY <1>6, <2>1, <2>2, <3>1
    <3> QED BY <1>5, <3>1, <3>2 DEF Listed
  <2>3. CASE i > p
    <3>1. i - 1 \in 1 .. Len(q) - 1 /\ w[i - 1] = x
      BY <1>1, <1>2, <1>6, <2>1, <2>3
    <3> QED BY <1>5, <3>1 DEF Listed
  <2> QED BY <1>1, <1>2, <1>8, <2>1, <2>2, <2>3
<1>9. ASSUME NEW i \in DOMAIN w, NEW j \in DOMAIN w, w[i] = w[j] PROVE i = j
  <2>1. /\ i \in 1 .. Len(q) /\ i + 1 \in 1 .. Len(q)
        /\ j \in 1 .. Len(q) /\ j + 1 \in 1 .. Len(q)
    BY <1>1, <1>5
  <2>2. \A k, l \in 1 .. Len(q) : q[k] = q[l] => k = l
    BY <1>1 DEF Distinct
  <2>3. CASE i < p /\ j < p
    BY <1>5, <1>6, <1>9, <2>1, <2>2, <2>3
  <2>4. CASE i < p /\ ~(j < p)
    <3>1. i = j + 1
      BY <1>5, <1>6, <1>9, <2>1, <2>2, <2>4
    <3> QED BY <1>2, <1>5, <2>1, <2>4, <3>1
  <2>5. CASE ~(i < p) /\ j < p
    <3>1. j = i + 1
      BY <1>5, <1>6, <1>9, <2>1, <2>2, <2>5
    <3> QED BY <1>2, <1>5, <2>1, <2>5, <3>1
  <2>6. CASE ~(i < p) /\ ~(j < p)
    <3>1. i + 1 = j + 1
      BY <1>5, <1>6, <1>9, <2>1, <2>2, <2>6
    <3> QED BY <1>5, <2>1, <3>1
  <2> QED BY <2>3, <2>4, <2>5, <2>6
<1>10. Distinct(w)
  BY <1>9 DEF Distinct
<1> QED BY <1>3, <1>4, <1>7, <1>8, <1>10
-------------------------------------------------------------------------------
(* Numbers: size classes, pages and chunks *)

\* Every set of natural numbers that is not empty has a least element.
LEMMA SmallestOf ==
    ASSUME NEW T \in SUBSET Nat, T # {}
    PROVE  \E x \in T : \A y \in T : x <= y
<1>1. \E x \in T : \A y \in T : ~(<<y, x>> \in OpToRel(<, Nat))
  BY NatLessThanWellFounded, WFMin
<1>2. \A x, y \in Nat : <<y, x>> \in OpToRel(<, Nat) <=> y < x
  BY DEF OpToRel
<1>3. \A x, y \in Nat : ~(y < x) => x <= y
  OBVIOUS
<1> QED BY <1>1, <1>2, <1>3

\* create_pool_page: how many chunks of a size class a page has, and where.
ChunkCount(class) == (PageUnits - PoolHeader) \div class
Chunk(page, class, j) == AddressOf(page) + PoolHeader + j * class
Chunks(page, class) == {Chunk(page, class, j) : j \in 0 .. ChunkCount(class) - 1}

\* Pages are larger than the headers in them.
LEMMA PageSize == /\ PageUnits \in Nat \ {0}
                  /\ PoolHeader \in Nat \ {0} /\ 4 * PoolHeader <= PageUnits
                  /\ LargeHeader \in Nat \ {0} /\ 4 * LargeHeader <= PageUnits
<1>1. PageUnits \in Nat /\ PageUnits # 0
  <2>1. 2 ^ 0 \in Nat \ {0} /\ 4 * 2 ^ 0 <= PageUnits
    BY PageAssumption, PowerAssumption
  <2> QED BY <2>1, PowerAssumption
<1>2. \A h \in 1 .. PageUnits \div 4 : h \in Nat \ {0} /\ 4 * h <= PageUnits
  BY <1>1
<1> QED BY <1>1, <1>2, HeaderAssumption

\* dynamic_allocator_init: a page has room for a chunk of every size class.
LEMMA ClassFacts ==
    ASSUME NEW class \in SizeClasses
    PROVE  /\ class \in Nat \ {0}
           /\ ChunkCount(class) \in Nat \ {0}
           /\ PoolHeader + ChunkCount(class) * class <= PageUnits
<1>1. class \in Nat \ {0} /\ 2 * class <= PageUnits
  <2>1. \A k \in 0 .. PageShift - 2 : 2 ^ k \in Nat \ {0} /\ 4 * 2 ^ k <= PageUnits
    BY PowerAssumption
  <2>2. PageUnits \in Nat
    BY PageSize
  <2>3. CASE class \in {1, 2}
    BY <2>3, PageSize
  <2>4. CASE \E k \in 2 .. PageShift - 2 : class = 2 ^ k
    BY <2>1, <2>2, <2>4, PageAssumption
  <2>5. CASE \E k \in 2 .. PageShift - 2 : class = 2 ^ k + 2 ^ (k - 1)
    <3>1. PICK k \in 2 .. PageShift - 2 : class = 2 ^ k + 2 ^ (k - 1)
      BY <2>5
    <3>2. k \in 0 .. PageShift - 2 /\ k - 1 \in 0 .. PageShift - 2
      BY PageAssumption
    <3>3. 2 ^ k \in Nat \ {0} /\ 4 * 2 ^ k <= PageUnits /\ 2 ^ (k - 1) \in Nat \ {0} /\ 4 * 2 ^ (k - 1) <= PageUnits
      BY <2>1, <3>2
    <3> QED BY <2>2, <3>1, <3>3
  <2> QED BY <2>3, <2>4, <2>5 DEF SizeClasses
<1>2. class <= PageUnits - PoolHeader /\ PageUnits - PoolHeader \in Nat
  BY <1>1, PageSize
<1>3. \A n, s \in Nat : s # 0 /\ s <= n => n \div s \in Nat \ {0} /\ (n \div s) * s <= n
  OBVIOUS
<1>4. ChunkCount(class) \in Nat \ {0} /\ ChunkCount(class) * class <= PageUnits - PoolHeader
  BY <1>1, <1>2, <1>3 DEF ChunkCount
<1>5. ChunkCount(class) * class \in Nat
  BY <1>1, <1>4
<1> QED BY <1>1, <1>4, <1>5, PageSize

\* The pages and the units in them.
LEMMA PageOfUnit ==
    ASSUME NEW page \in Nat, NEW k \in 0 .. PageUnits - 1
    PROVE  PageOf(AddressOf(page) + k) = page /\ AddressOf(page) + k \in Nat
<1>1. \A u \in Nat \ {0}, p \in Nat : \A i \in 0 .. u - 1 : (p * u + i) \div u = p /\ p * u + i \in Nat
  OBVIOUS
<1> QED BY <1>1, PageSize DEF PageOf, AddressOf

\* Every unit is between the begin and the end of its page.
LEMMA UnitInPage ==
    ASSUME NEW address \in Nat
    PROVE  /\ PageOf(address) \in Nat
           /\ AddressOf(PageOf(address)) <= address
           /\ address < AddressOf(PageOf(address)) + PageUnits
<1>1. \A u \in Nat \ {0}, a \in Nat : a \div u \in Nat /\ (a \div u) * u <= a /\ a < (a \div u) * u + u
  OBVIOUS
<1> QED BY <1>1, PageSize DEF PageOf, AddressOf

\* A page ends before the next one begins.
LEMMA PageOrder ==
    ASSUME NEW p \in Nat, NEW q \in Nat, p < q
    PROVE  AddressOf(p) \in Nat /\ AddressOf(p) + PageUnits <= AddressOf(q)
<1>1. \A u \in Nat : p * u + u <= q * u /\ p * u \in Nat
  OBVIOUS
<1> QED BY <1>1, PageSize DEF AddressOf

\* The startup heap lies below the pages.
LEMMA Regions ==
    /\ heap_end \in Nat /\ Addresses \subseteq Nat /\ Pages \subseteq Nat
    /\ \A address \in Nat : address < heap_end <=> PageOf(address) < HeapPages
    /\ \A page \in Pages, k \in 0 .. PageUnits - 1 :
          AddressOf(page) + k \in Addresses /\ AddressOf(page) + k >= heap_end
    /\ \A address \in Addresses : address >= heap_end => PageOf(address) \in Pages
<1>1. /\ HeapPages \in Nat /\ PageCount \in Nat \ {0} /\ PageUnits \in Nat \ {0}
      /\ HeapPages + PageCount \in Nat
  BY MemoryAssumption, PageSize
<1>2. heap_end = AddressOf(HeapPages) /\ Addresses = 0 .. AddressOf(HeapPages + PageCount) - 1
  BY DEF heap_end, AddressOf, Addresses
<1> DEFINE end == AddressOf(HeapPages)
           limit == AddressOf(HeapPages + PageCount)
<1>3. \A p \in Nat : AddressOf(p) \in Nat
  BY <1>1 DEF AddressOf
<1>4. end \in Nat /\ limit \in Nat /\ heap_end = end /\ Addresses = 0 .. limit - 1
  BY <1>1, <1>2, <1>3
<1> HIDE DEF end, limit
<1>5. ASSUME NEW address \in Nat PROVE address < end <=> PageOf(address) < HeapPages
  <2> DEFINE page == PageOf(address)
             base == AddressOf(page)
  <2>1. page \in Nat /\ base <= address /\ address < base + PageUnits
    BY UnitInPage
  <2>2. base \in Nat
    BY <1>3, <2>1
  <2>3. page < HeapPages => base + PageUnits <= end
    BY <1>1, <2>1, PageOrder DEF end
  <2>4. page = HeapPages => base = end
    BY DEF end
  <2>5. HeapPages < page => end + PageUnits <= base
    BY <1>1, <2>1, PageOrder DEF end
  <2> HIDE DEF page, base
  <2>6. address < end <=> page < HeapPages
    BY <1>1, <1>4, <2>1, <2>2, <2>3, <2>4, <2>5
  <2> QED BY <2>6 DEF page
<1>6. ASSUME NEW page \in Pages, NEW k \in 0 .. PageUnits - 1
      PROVE  AddressOf(page) + k \in Addresses /\ AddressOf(page) + k >= heap_end
  <2> DEFINE base == AddressOf(page)
  <2>1. page \in Nat /\ page < HeapPages + PageCount /\ HeapPages <= page
    BY <1>1 DEF Pages
  <2>2. base + PageUnits <= limit /\ base \in Nat
    BY <1>1, <2>1, PageOrder DEF limit
  <2>3. end <= base
    <3>1. HeapPages < page => end + PageUnits <= base
      BY <1>1, <2>1, PageOrder DEF end
    <3>2. HeapPages = page => end = base
      BY DEF end
    <3> HIDE DEF base
    <3> QED BY <1>1, <1>4, <2>1, <2>2, <3>1, <3>2
  <2> HIDE DEF base
  <2>4. base + k \in 0 .. limit - 1 /\ base + k >= end
    BY <1>1, <1>4, <2>2, <2>3
  <2> QED BY <1>4, <2>4 DEF base
<1>7. ASSUME NEW address \in Addresses, address >= heap_end PROVE PageOf(address) \in Pages
  <2> DEFINE page == PageOf(address)
             base == AddressOf(page)
  <2>1. address \in Nat /\ address < limit /\ ~(address < end)
    BY <1>4, <1>7
  <2>2. page \in Nat /\ base <= address
    BY <2>1, UnitInPage
  <2>3. base \in Nat
    BY <1>3, <2>2
  <2>4. ~(page < HeapPages)
    BY <1>5, <2>1
  <2>5. HeapPages + PageCount < page => limit + PageUnits <= base
    BY <1>1, <2>2, PageOrder DEF limit
  <2>6. HeapPages + PageCount = page => limit = base
    BY DEF limit
  <2> HIDE DEF page, base
  <2>7. page \in Pages
    BY <1>1, <1>4, <2>1, <2>2, <2>3, <2>4, <2>5, <2>6 DEF Pages
  <2> QED BY <2>7 DEF page
<1>8. heap_end \in Nat /\ Addresses \subseteq Nat /\ Pages \subseteq Nat
  BY <1>1, <1>4 DEF Pages
<1>9. \A address \in Nat : address < heap_end <=> PageOf(address) < HeapPages
  BY <1>4, <1>5
<1> QED BY <1>6, <1>7, <1>8, <1>9

\* The chunks of a page lie behind its header, in the page, and apart.
LEMMA ChunkFacts ==
    ASSUME NEW page \in Pages, NEW class \in SizeClasses, NEW a \in Chunks(page, class)
    PROVE  /\ a \in Addresses /\ a >= heap_end /\ PageOf(a) = page
           /\ AddressOf(page) + PoolHeader <= a /\ a + class <= AddressOf(page) + PageUnits
           /\ \A b \in Chunks(page, class) : a < b => a + class <= b
           /\ (a - AddressOf(page) - PoolHeader) \in Nat
           /\ (a - AddressOf(page) - PoolHeader) < ChunkCount(class) * class
           /\ (a - AddressOf(page) - PoolHeader) % class = 0
<1> DEFINE c == ChunkCount(class)
<1>1. /\ class \in Nat \ {0} /\ c \in Nat \ {0} /\ PoolHeader + c * class <= PageUnits
      /\ PageUnits \in Nat \ {0} /\ PoolHeader \in Nat \ {0}
  BY ClassFacts, PageSize
<1>2. page \in Nat /\ AddressOf(page) \in Nat
  BY <1>1, Regions DEF AddressOf
<1>3. PICK j \in 0 .. c - 1 : a = AddressOf(page) + PoolHeader + j * class
  BY DEF Chunks, Chunk
<1> HIDE DEF c
<1>4. \A i \in 0 .. c - 1 : i * class + class <= c * class /\ i * class \in Nat /\ (i * class) % class = 0
  BY <1>1
<1>5. c * class \in Nat
  BY <1>1
<1>6. /\ AddressOf(page) + PoolHeader <= a /\ a + class <= AddressOf(page) + PageUnits /\ a \in Nat
      /\ a - AddressOf(page) - PoolHeader = j * class
      /\ a - AddressOf(page) \in 0 .. PageUnits - 1
      /\ j * class < c * class
  BY <1>1, <1>2, <1>3, <1>4, <1>5
<1>7. a \in Addresses /\ a >= heap_end /\ PageOf(a) = page
  <2>1. a = AddressOf(page) + (a - AddressOf(page))
    BY <1>2, <1>6
  <2> QED BY <1>2, <1>6, <2>1, PageOfUnit, Regions
<1>8. ASSUME NEW b \in Chunks(page, class), a < b PROVE a + class <= b
  <2>1. PICK i \in 0 .. c - 1 : b = AddressOf(page) + PoolHeader + i * class
    BY DEF Chunks, Chunk, c
  <2>2. i * class > j * class
    BY <1>1, <1>2, <1>3, <1>4, <1>8, <2>1
  <2>3. i > j
    BY <1>1, <2>2
  <2>4. j * class + class <= i * class
    BY <1>1, <2>3
  <2> QED BY <1>1, <1>2, <1>3, <1>4, <2>1, <2>4
<1> QED BY <1>4, <1>6, <1>7, <1>8 DEF c
-------------------------------------------------------------------------------
(* The invariant of the heap *)

\* The blocks held in a page.
HeldIn(page, held) == {a \in DOMAIN held : PageOf(a) = page}

\* What a page header can be.
Headers == [chunk_size : SizeClasses, chunk_count : Nat, first_free : Seq(Addresses)]

\* Each variable has its type, and there is nothing in the pages before the heap is ready.
HeapType == /\ heap_current \in heap_begin .. heap_end
            /\ ready \in BOOLEAN
            /\ DOMAIN pool_pages \subseteq Pages /\ pool_pages \in [DOMAIN pool_pages -> Headers]
            /\ DOMAIN large_blocks \subseteq Pages /\ large_blocks \in [DOMAIN large_blocks -> Nat \ {0}]
            /\ available_pages \in [SizeClasses -> Seq(Pages)]
            /\ DOMAIN blocks \subseteq Addresses /\ blocks \in [DOMAIN blocks -> Nat \ {0}]

\* The chunks of a page are its free chunks, in some order, and the blocks held in it.
ChunksExact(page, header, held) ==
    /\ header.chunk_count = ChunkCount(header.chunk_size)
    /\ Distinct(header.first_free)
    /\ Listed(header.first_free) \cap HeldIn(page, held) = {}
    /\ Listed(header.first_free) \cup HeldIn(page, held) = Chunks(page, header.chunk_size)
    /\ \A a \in HeldIn(page, held) : held[a] <= header.chunk_size

\* Every pool page is kept for a block that is held.
PagesExact == \A page \in DOMAIN pool_pages : /\ ChunksExact(page, pool_pages[page], blocks)
                                              /\ HeldIn(page, blocks) # {}

\* The runs of pages the heap has taken do not overlap.
RunsApart ==
    \A page \in DOMAIN large_blocks :
        LET run == Span(page, large_blocks[page])
        IN /\ run \subseteq Pages /\ run \cap DOMAIN pool_pages = {}
           /\ \A other \in DOMAIN large_blocks \ {page} : run \cap Span(other, large_blocks[other]) = {}

\* A block is given out of the startup heap, is in a pool page, or is alone in a run.
InStartup(a, size) == a + size <= heap_current
InPool(a) == a >= heap_end /\ PageOf(a) \in DOMAIN pool_pages
InRun(a, size) == /\ a >= heap_end /\ PageOf(a) \in DOMAIN large_blocks
                  /\ a = AddressOf(PageOf(a)) + LargeHeader
                  /\ a + size <= AddressOf(PageOf(a) + large_blocks[PageOf(a)])
BlocksPlaced == \A a \in DOMAIN blocks : InStartup(a, blocks[a]) \/ InPool(a) \/ InRun(a, blocks[a])
\* Blocks of the startup heap do not overlap.
StartupApart == \A a, b \in DOMAIN blocks : a < b /\ b < heap_end => a + blocks[a] <= b

\* The pages of a size class that have a free chunk.
Available(class) == {page \in DOMAIN pool_pages : /\ pool_pages[page].chunk_size = class
                                                  /\ pool_pages[page].first_free # <<>>}
\* Each size class lists exactly these pages, once.
PagesListed == \A class \in SizeClasses : /\ Distinct(available_pages[class])
                                          /\ Listed(available_pages[class]) = Available(class)

\* kernel_allocator_init comes before the first page is taken.
NothingTaken == ~ready => DOMAIN pool_pages = {} /\ DOMAIN large_blocks = {}

HeapInv == /\ HeapType /\ NothingTaken /\ PagesExact /\ RunsApart
           /\ BlocksPlaced /\ StartupApart /\ PagesListed
-------------------------------------------------------------------------------
(* What the invariant says of places *)

\* A function with one value changed or added, or one removed.
LEMMA MapFacts ==
    ASSUME NEW f, NEW x, NEW v
    PROVE  /\ DOMAIN With(f, x, v) = DOMAIN f \cup {x} /\ With(f, x, v)[x] = v
           /\ \A y \in DOMAIN f \ {x} : With(f, x, v)[y] = f[y]
           /\ DOMAIN Minus(f, x) = DOMAIN f \ {x}
           /\ \A y \in DOMAIN f \ {x} : Minus(f, x)[y] = f[y]
  BY DEF With, Minus

\* A changed function keeps its type.
LEMMA MapTypes ==
    ASSUME NEW f, NEW x, NEW v, NEW S, f \in [DOMAIN f -> S]
    PROVE  /\ v \in S => With(f, x, v) \in [DOMAIN With(f, x, v) -> S]
           /\ Minus(f, x) \in [DOMAIN Minus(f, x) -> S]
  BY DEF With, Minus

\* What the type of the heap says of a block and of a page.
LEMMA HeapFacts ==
    ASSUME HeapType
    PROVE  /\ heap_current \in Nat /\ heap_current <= heap_end /\ heap_end \in Nat
           /\ \A a \in DOMAIN blocks : a \in Addresses /\ a \in Nat /\ blocks[a] \in Nat \ {0}
           /\ \A page \in DOMAIN pool_pages : page \in Pages /\ pool_pages[page] \in Headers
           /\ \A page \in DOMAIN large_blocks : page \in Pages /\ large_blocks[page] \in Nat \ {0}
  BY Regions DEF HeapType, heap_begin

\* A block below the pages has been given out of the startup heap, and no other has.
LEMMA StartupBlocks ==
    ASSUME HeapType, BlocksPlaced, NEW a \in DOMAIN blocks
    PROVE  a < heap_end <=> InStartup(a, blocks[a])
<1>1. /\ heap_current \in Nat /\ heap_current <= heap_end /\ heap_end \in Nat
      /\ a \in Nat /\ blocks[a] \in Nat \ {0}
  BY HeapFacts
<1>2. CASE InStartup(a, blocks[a])
  BY <1>1, <1>2 DEF InStartup
<1>3. CASE InPool(a) \/ InRun(a, blocks[a])
  BY <1>1, <1>3 DEF InStartup, InPool, InRun
<1> QED BY <1>2, <1>3 DEF BlocksPlaced

\* No block is in a page the heap has not taken.
LEMMA NothingInFreePage ==
    ASSUME HeapType, BlocksPlaced,
           NEW page \in Pages, page \notin DOMAIN pool_pages, page \notin DOMAIN large_blocks
    PROVE  HeldIn(page, blocks) = {}
<1> SUFFICES ASSUME NEW a \in DOMAIN blocks, PageOf(a) = page PROVE FALSE
  BY DEF HeldIn
<1>1. a \in Nat /\ page \in Nat /\ ~(page < HeapPages)
  BY HeapFacts, Regions, MemoryAssumption DEF Pages
<1>2. ~(a < heap_end)
  BY <1>1, Regions
<1>3. ~InStartup(a, blocks[a])
  BY <1>2, StartupBlocks
<1> QED BY <1>3 DEF BlocksPlaced, InPool, InRun

\* create_pool_page: the free chunks of a new page are all its chunks.
LEMMA PoolPageFacts ==
    ASSUME NEW page \in Pages, NEW class \in SizeClasses
    PROVE  LET header == PoolPage(page, class)
           IN /\ header \in Headers /\ header.chunk_size = class /\ header.chunk_count = ChunkCount(class)
              /\ header.first_free # <<>> /\ Distinct(header.first_free)
              /\ Listed(header.first_free) = Chunks(page, class)
<1> DEFINE n == ChunkCount(class)
           base == AddressOf(page)
           list == [k \in 1 .. n |-> base + PoolHeader + (n - k) * class]
<1>1. class \in Nat \ {0} /\ n \in Nat \ {0} /\ PoolHeader \in Nat /\ base \in Nat
  BY ClassFacts, PageSize, Regions DEF AddressOf
<1>2. PoolPage(page, class) = [chunk_size |-> class, chunk_count |-> n, first_free |-> list]
  BY DEF PoolPage, ChunkCount
<1>3. \A a \in Chunks(page, class) : a \in Addresses
  BY ChunkFacts
<1>4. \A j \in 0 .. n - 1 : base + PoolHeader + j * class \in Chunks(page, class)
  BY DEF Chunks, Chunk
<1>5. \A a \in Chunks(page, class) : \E j \in 0 .. n - 1 : a = base + PoolHeader + j * class
  BY DEF Chunks, Chunk
<1> HIDE DEF n, base
<1>6. \A k \in 1 .. n : n - k \in 0 .. n - 1
  BY <1>1
<1>7. \A k \in 1 .. n : list[k] = base + PoolHeader + (n - k) * class
  OBVIOUS
<1>8. \A k \in 1 .. n : list[k] \in Chunks(page, class)
  BY <1>4, <1>6, <1>7
<1>9. list \in Seq(Addresses)
  <2>1. \A k \in 1 .. n : list[k] \in Addresses
    BY <1>3, <1>8
  <2>2. list \in [1 .. n -> Addresses] /\ n \in Nat
    BY <1>1, <2>1
  <2> QED BY <2>2
<1>10. DOMAIN list = 1 .. n
  OBVIOUS
<1>11. list # <<>>
  BY <1>1, <1>10
<1> HIDE DEF list
<1>12. Distinct(list)
  <2>1. ASSUME NEW i \in 1 .. n, NEW k \in 1 .. n, list[i] = list[k] PROVE i = k
    <3>1. (n - i) * class = (n - k) * class
      <4>1. (n - i) * class \in Nat /\ (n - k) * class \in Nat
        BY <1>1, <1>6
      <4> QED BY <1>1, <1>7, <2>1, <4>1
    <3>2. \A u, v \in Nat : u * class = v * class => u = v
      BY <1>1
    <3>3. n - i \in Nat /\ n - k \in Nat
      BY <1>1
    <3>4. n - i = n - k
      BY <3>1, <3>2, <3>3
    <3> QED BY <1>1, <3>4
  <2> QED BY <1>10, <2>1 DEF Distinct
<1>13. Listed(list) = Chunks(page, class)
  <2>1. ASSUME NEW a \in Chunks(page, class) PROVE a \in Listed(list)
    <3>1. PICK j \in 0 .. n - 1 : a = base + PoolHeader + j * class
      BY <1>5
    <3>2. n - j \in 1 .. n /\ n - (n - j) = j
      BY <1>1
    <3>3. list[n - j] = a
      BY <1>7, <3>1, <3>2
    <3> QED BY <1>10, <3>2, <3>3 DEF Listed
  <2> QED BY <1>8, <1>10, <2>1 DEF Listed
<1>14. [chunk_size |-> class, chunk_count |-> n, first_free |-> list] \in Headers
  BY <1>1, <1>9 DEF Headers
<1> QED BY <1>2, <1>11, <1>12, <1>13, <1>14 DEF n
-------------------------------------------------------------------------------
(* Allocation keeps the invariant *)

\* The chunks of a page depend on the blocks held in it only.
LEMMA ChunksFrame ==
    ASSUME NEW page, NEW header, NEW held, NEW other, HeldIn(page, other) = HeldIn(page, held),
           \A a \in HeldIn(page, held) : other[a] = held[a], ChunksExact(page, header, held)
    PROVE  ChunksExact(page, header, other)
  BY DEF ChunksExact

\* Where a new block appears, and what it leaves alone.
LEMMA HeldWith ==
    ASSUME NEW held, NEW a, NEW size, a \notin DOMAIN held
    PROVE  /\ HeldIn(PageOf(a), With(held, a, size)) = HeldIn(PageOf(a), held) \cup {a}
           /\ \A page : page # PageOf(a) => HeldIn(page, With(held, a, size)) = HeldIn(page, held)
           /\ \A page : \A b \in HeldIn(page, held) : b # a /\ With(held, a, size)[b] = held[b]
           /\ With(held, a, size)[a] = size
  BY DEF HeldIn, With

\* A block of the startup heap.
LEMMA SimpleMallocKeeps ==
    ASSUME HeapInv, ~ready, NEW size \in Nat \ {0}, NEW address \in Addresses,
           SimpleMalloc(size, address), blocks' = With(blocks, address, size)
    PROVE  HeapInv' /\ address \notin DOMAIN blocks
<1> USE DEF HeapInv
<1>1. /\ heap_current \in Nat /\ heap_current <= heap_end /\ heap_end \in Nat
      /\ \A a \in DOMAIN blocks : a \in Addresses /\ a \in Nat /\ blocks[a] \in Nat \ {0}
  BY HeapFacts
<1>2. /\ heap_current + size <= heap_end /\ address = heap_current /\ heap_current' = heap_current + size
      /\ ready' = ready /\ pool_pages' = pool_pages /\ large_blocks' = large_blocks
      /\ available_pages' = available_pages
  BY DEF SimpleMalloc
<1>3. DOMAIN pool_pages = {} /\ DOMAIN large_blocks = {}
  BY DEF NothingTaken
<1>4. \A a \in DOMAIN blocks : InStartup(a, blocks[a])
  BY <1>3 DEF BlocksPlaced, InPool, InRun
<1>5. \A a \in DOMAIN blocks : a + blocks[a] <= heap_current
  BY <1>4 DEF InStartup
<1>6. address \notin DOMAIN blocks
  BY <1>1, <1>2, <1>5
<1>7. /\ DOMAIN blocks' = DOMAIN blocks \cup {address} /\ blocks'[address] = size
      /\ \A a \in DOMAIN blocks : blocks'[a] = blocks[a]
  BY <1>6 DEF With
<1>8. HeapType'
  <2>1. heap_current' \in heap_begin .. heap_end
    BY <1>1, <1>2 DEF heap_begin
  <2>2. blocks' \in [DOMAIN blocks' -> Nat \ {0}]
    BY MapTypes DEF HeapType
  <2> QED BY <1>2, <1>7, <2>1, <2>2 DEF HeapType
<1>9. NothingTaken' /\ RunsApart'
  BY <1>2 DEF NothingTaken, RunsApart
<1>10. PagesExact'
  BY <1>2, <1>3 DEF PagesExact
<1>11. BlocksPlaced'
  <2>1. ASSUME NEW a \in DOMAIN blocks' PROVE InStartup(a, blocks[a])'
    <3>1. CASE a = address
      BY <1>1, <1>2, <1>7, <3>1 DEF InStartup
    <3>2. CASE a \in DOMAIN blocks
      <4>1. a + blocks[a] <= heap_current /\ a \in Nat /\ blocks[a] \in Nat /\ blocks'[a] = blocks[a]
        BY <1>1, <1>5, <1>7, <3>2
      <4> QED BY <1>1, <1>2, <4>1 DEF InStartup
    <3> QED BY <1>7, <3>1, <3>2
  <2> QED BY <2>1 DEF BlocksPlaced
<1>12. StartupApart'
  <2>1. ASSUME NEW a \in DOMAIN blocks', NEW b \in DOMAIN blocks', a < b PROVE a + blocks'[a] <= b
    <3>1. a # address
      <4>1. CASE b = address
        BY <1>1, <1>2, <2>1, <4>1
      <4>2. CASE b \in DOMAIN blocks
        BY <1>1, <1>2, <1>5, <2>1, <4>2
      <4> QED BY <1>7, <4>1, <4>2
    <3>2. a \in DOMAIN blocks /\ blocks'[a] = blocks[a]
      BY <1>7, <3>1
    <3>3. CASE b = address
      BY <1>2, <1>5, <3>2, <3>3
    <3>4. CASE b \in DOMAIN blocks
      <4>1. b < heap_end
        BY <1>1, <1>5, <3>4
      <4> QED BY <2>1, <3>2, <3>4, <4>1 DEF StartupApart
    <3> QED BY <1>7, <3>3, <3>4
  <2> QED BY <2>1 DEF StartupApart
<1>13. PagesListed'
  BY <1>2 DEF PagesListed, Available
<1> QED BY <1>6, <1>8, <1>9, <1>10, <1>11, <1>12, <1>13

\* The header of a page with another list of free chunks.
LEMMA HeaderWith ==
    ASSUME NEW header \in Headers, NEW list \in Seq(Addresses)
    PROVE  LET new == [header EXCEPT !.first_free = list]
           IN /\ new \in Headers /\ new.first_free = list
              /\ new.chunk_size = header.chunk_size /\ new.chunk_count = header.chunk_count
  BY DEF Headers

\* A chunk of a size class: of its first listed page, or of a new one.
LEMMA AllocateSmallKeeps ==
    ASSUME HeapInv, ready, NEW class \in SizeClasses, NEW size \in Nat \ {0}, size <= class,
           NEW address, AllocateSmall(class, address), blocks' = With(blocks, address, size)
    PROVE  HeapInv' /\ address \notin DOMAIN blocks
<1> USE DEF HeapInv
<1>1. PICK page \in IF available_pages[class] = <<>> THEN FreeRuns(1) ELSE {Head(available_pages[class])} :
        LET found == IF page \in DOMAIN pool_pages THEN pool_pages[page] ELSE PoolPage(page, class)
            header == [found EXCEPT !.first_free = Tail(found.first_free)]
            queue == IF page \in DOMAIN pool_pages THEN available_pages[class] ELSE <<page>>
        IN /\ address = Head(found.first_free)
           /\ pool_pages' = With(pool_pages, page, header)
           /\ available_pages' = [available_pages EXCEPT ![class] = ListedUnlessFull(queue, page, header)]
  BY DEF AllocateSmall
<1> DEFINE found == IF page \in DOMAIN pool_pages THEN pool_pages[page] ELSE PoolPage(page, class)
           header == [found EXCEPT !.first_free = Tail(found.first_free)]
           queue == IF page \in DOMAIN pool_pages THEN available_pages[class] ELSE <<page>>
<1>2. /\ address = Head(found.first_free)
      /\ pool_pages' = With(pool_pages, page, header)
      /\ available_pages' = [available_pages EXCEPT ![class] = ListedUnlessFull(queue, page, header)]
      /\ heap_current' = heap_current /\ ready' = ready /\ large_blocks' = large_blocks
  BY <1>1 DEF AllocateSmall
<1>3. /\ page \in Pages /\ page \notin DOMAIN large_blocks
      /\ \A other \in DOMAIN large_blocks : page \notin Span(other, large_blocks[other])
      /\ found \in Headers /\ found.chunk_size = class /\ found.first_free # <<>>
      /\ ChunksExact(page, found, blocks)
      /\ queue \in Seq(Pages) /\ Distinct(queue) /\ Listed(queue) = Available(class) \cup {page}
      /\ page \in DOMAIN pool_pages => pool_pages[page].chunk_size = class
  <2>1. CASE available_pages[class] = <<>>
    <3>1. page \in Pages /\ Span(page, 1) \cap TakenPages = {} /\ page \in Nat
      BY <1>1, <2>1, Regions DEF FreeRuns
    <3>2. page \notin TakenPages
      BY <3>1 DEF Span
    <3>3. page \notin DOMAIN pool_pages
          /\ \A other \in DOMAIN large_blocks : page \notin Span(other, large_blocks[other])
      BY <3>2 DEF TakenPages
    <3>4. page \notin DOMAIN large_blocks
      <4> SUFFICES ASSUME page \in DOMAIN large_blocks PROVE FALSE
        OBVIOUS
      <4>1. large_blocks[page] \in Nat \ {0}
        BY HeapFacts
      <4>2. page \in Span(page, large_blocks[page])
        BY <3>1, <4>1 DEF Span
      <4> QED BY <3>3, <4>2
    <3>5. HeldIn(page, blocks) = {}
      BY <3>1, <3>3, <3>4, NothingInFreePage
    <3>6. found = PoolPage(page, class) /\ queue = <<page>>
      BY <3>3
    <3>7. /\ found \in Headers /\ found.chunk_size = class /\ found.chunk_count = ChunkCount(class)
          /\ found.first_free # <<>> /\ Distinct(found.first_free)
          /\ Listed(found.first_free) = Chunks(page, class)
      BY <3>1, <3>6, PoolPageFacts
    <3>8. ChunksExact(page, found, blocks)
      BY <3>5, <3>7 DEF ChunksExact
    <3>9. Listed(available_pages[class]) = {}
      BY <2>1 DEF Listed
    <3>10. Available(class) = {}
      BY <3>9 DEF PagesListed
    <3>11. queue \in Seq(Pages) /\ DOMAIN queue = {1} /\ queue[1] = page
      <4>1. <<page>> \in Seq(Pages) /\ DOMAIN <<page>> = {1} /\ <<page>>[1] = page
        BY <3>1
      <4> HIDE DEF queue
      <4> QED BY <3>6, <4>1
    <3>12. Distinct(queue) /\ Listed(queue) = {page}
      BY <3>11 DEF Distinct, Listed
    <3> QED BY <3>1, <3>3, <3>4, <3>7, <3>8, <3>10, <3>11, <3>12
  <2>2. CASE available_pages[class] # <<>>
    <3>1. available_pages[class] \in Seq(Pages) /\ Distinct(available_pages[class])
          /\ Listed(available_pages[class]) = Available(class)
      BY DEF HeapType, PagesListed
    <3>2. page \in Listed(available_pages[class])
      BY <1>1, <2>2, <3>1, TailDistinct
    <3>3. page \in DOMAIN pool_pages /\ pool_pages[page].chunk_size = class /\ pool_pages[page].first_free # <<>>
      BY <3>1, <3>2 DEF Available
    <3>4. found = pool_pages[page] /\ queue = available_pages[class]
      BY <3>3
    <3>5. ChunksExact(page, pool_pages[page], blocks) /\ page \in Pages /\ pool_pages[page] \in Headers
      BY <3>3, HeapFacts DEF PagesExact
    <3>6. \A other \in DOMAIN large_blocks : page \notin Span(other, large_blocks[other])
      BY <3>3 DEF RunsApart
    <3>7. page \notin DOMAIN large_blocks
      <4> SUFFICES ASSUME page \in DOMAIN large_blocks PROVE FALSE
        OBVIOUS
      <4>1. large_blocks[page] \in Nat \ {0} /\ page \in Nat
        BY <3>5, HeapFacts, Regions
      <4>2. page \in Span(page, large_blocks[page])
        BY <4>1 DEF Span
      <4> QED BY <3>6, <4>2
    <3> QED BY <3>1, <3>2, <3>3, <3>4, <3>5, <3>6, <3>7
  <2> QED BY <2>1, <2>2
<1> HIDE DEF queue
<1> HIDE DEF found
<1>4. /\ found.first_free \in Seq(Addresses) /\ found.chunk_size \in SizeClasses /\ found.chunk_count \in Nat
      /\ found = [chunk_size |-> found.chunk_size, chunk_count |-> found.chunk_count, first_free |-> found.first_free]
  BY <1>3 DEF Headers
<1>5. /\ address \in Listed(found.first_free) /\ Tail(found.first_free) \in Seq(Addresses)
      /\ Listed(Tail(found.first_free)) = Listed(found.first_free) \ {address}
      /\ Distinct(Tail(found.first_free))
  BY <1>2, <1>3, <1>4, TailDistinct DEF ChunksExact
<1>6. /\ header \in Headers /\ header.chunk_size = found.chunk_size /\ header.chunk_count = found.chunk_count
      /\ header.first_free = Tail(found.first_free)
  BY <1>3, <1>5, HeaderWith
<1> HIDE DEF header
<1>7. address \in Chunks(page, class) /\ address \notin HeldIn(page, blocks)
  BY <1>3, <1>5 DEF ChunksExact
<1>8. PageOf(address) = page /\ address \in Addresses /\ address >= heap_end
  BY <1>3, <1>7, ChunkFacts
<1>9. address \notin DOMAIN blocks
  BY <1>7, <1>8 DEF HeldIn
<1>10. /\ HeldIn(page, blocks') = HeldIn(page, blocks) \cup {address}
       /\ \A p : p # page => HeldIn(p, blocks') = HeldIn(p, blocks)
       /\ \A p : \A b \in HeldIn(p, blocks) : b # address /\ blocks'[b] = blocks[b]
       /\ blocks'[address] = size
  BY <1>8, <1>9, HeldWith
<1>11. ChunksExact(page, header, blocks')
  <2>1. Listed(header.first_free) \cap HeldIn(page, blocks') = {}
    BY <1>3, <1>5, <1>6, <1>10 DEF ChunksExact
  <2>2. Listed(header.first_free) \cup HeldIn(page, blocks') = Chunks(page, class)
    BY <1>3, <1>5, <1>6, <1>7, <1>10 DEF ChunksExact
  <2>3. \A a \in HeldIn(page, blocks') : blocks'[a] <= class
    BY <1>3, <1>10 DEF ChunksExact
  <2> QED BY <1>3, <1>5, <1>6, <2>1, <2>2, <2>3 DEF ChunksExact
<1>12. /\ DOMAIN pool_pages' = DOMAIN pool_pages \cup {page} /\ pool_pages'[page] = header
       /\ \A p \in DOMAIN pool_pages \ {page} : pool_pages'[p] = pool_pages[p]
       /\ DOMAIN blocks' = DOMAIN blocks \cup {address}
       /\ \A a \in DOMAIN blocks : blocks'[a] = blocks[a]
  BY <1>2, <1>9 DEF With
<1>13. PagesExact'
  <2>1. ASSUME NEW p \in DOMAIN pool_pages'
        PROVE  ChunksExact(p, pool_pages'[p], blocks') /\ HeldIn(p, blocks') # {}
    <3>1. CASE p = page
      BY <1>10, <1>11, <1>12, <3>1
    <3>2. CASE p # page
      <4>1. p \in DOMAIN pool_pages /\ pool_pages'[p] = pool_pages[p]
        BY <1>12, <3>2
      <4>2. ChunksExact(p, pool_pages[p], blocks) /\ HeldIn(p, blocks) # {}
        BY <4>1 DEF PagesExact
      <4>3. HeldIn(p, blocks') = HeldIn(p, blocks) /\ \A a \in HeldIn(p, blocks) : blocks'[a] = blocks[a]
        BY <1>10, <3>2
      <4>4. ChunksExact(p, pool_pages[p], blocks')
        BY <4>2, <4>3, ChunksFrame
      <4> QED BY <4>1, <4>2, <4>3, <4>4
    <3> QED BY <3>1, <3>2
  <2> QED BY <2>1 DEF PagesExact
<1> DEFINE rest == ListedUnlessFull(queue, page, header)
<1>14. /\ rest \in Seq(Pages) /\ Distinct(rest)
       /\ Listed(rest) = IF header.first_free = <<>> THEN Available(class) \ {page} ELSE Available(class) \cup {page}
  <2>1. page \in Listed(queue)
    BY <1>3
  <2>2. /\ Without(queue, page) \in Seq(Pages) /\ Distinct(Without(queue, page))
        /\ Listed(Without(queue, page)) = Listed(queue) \ {page}
    BY <1>3, <2>1, WithoutDistinct
  <2> QED BY <1>3, <2>2 DEF ListedUnlessFull
<1> HIDE DEF rest
<1>15. available_pages' = [available_pages EXCEPT ![class] = rest]
  BY <1>2 DEF rest
<1>16. HeapType'
  <2>1. pool_pages' \in [DOMAIN pool_pages' -> Headers]
    BY <1>2, <1>6, MapTypes DEF HeapType
  <2>2. blocks' \in [DOMAIN blocks' -> Nat \ {0}]
    BY MapTypes DEF HeapType
  <2>3. available_pages' \in [SizeClasses -> Seq(Pages)]
    BY <1>14, <1>15 DEF HeapType
  <2> QED BY <1>2, <1>3, <1>8, <1>12, <2>1, <2>2, <2>3 DEF HeapType
<1>17. NothingTaken'
  BY <1>2 DEF NothingTaken
<1>18. RunsApart'
  BY <1>2, <1>3, <1>12 DEF RunsApart
<1>19. BlocksPlaced'
  <2>1. ASSUME NEW a \in DOMAIN blocks'
        PROVE  InStartup(a, blocks[a])' \/ InPool(a)' \/ InRun(a, blocks[a])'
    <3>1. CASE a = address
      BY <1>8, <1>12, <3>1 DEF InPool
    <3>2. CASE a \in DOMAIN blocks
      <4>1. blocks'[a] = blocks[a] /\ (InStartup(a, blocks[a]) \/ InPool(a) \/ InRun(a, blocks[a]))
        BY <1>12, <3>2 DEF BlocksPlaced
      <4>2. InStartup(a, blocks[a]) => InStartup(a, blocks[a])'
        BY <1>2, <4>1 DEF InStartup
      <4>3. InPool(a) => InPool(a)'
        BY <1>12 DEF InPool
      <4>4. InRun(a, blocks[a]) => InRun(a, blocks[a])'
        BY <1>2, <4>1 DEF InRun
      <4> QED BY <4>1, <4>2, <4>3, <4>4
    <3> QED BY <1>12, <3>1, <3>2
  <2> QED BY <2>1 DEF BlocksPlaced
<1>20. StartupApart'
  <2>1. \A a \in DOMAIN blocks : a \in Nat
    BY HeapFacts
  <2>2. heap_end \in Nat /\ address \in Nat
    BY <1>8, Regions
  <2>3. ASSUME NEW a \in DOMAIN blocks', NEW b \in DOMAIN blocks', a < b, b < heap_end
        PROVE  a + blocks'[a] <= b
    <3>1. a # address /\ b # address
      BY <1>8, <1>12, <2>1, <2>2, <2>3
    <3>2. a \in DOMAIN blocks /\ b \in DOMAIN blocks /\ blocks'[a] = blocks[a]
      BY <1>12, <3>1
    <3> QED BY <2>3, <3>2 DEF StartupApart
  <2> QED BY <2>3 DEF StartupApart
<1>21. PagesListed'
  <2>1. ASSUME NEW c \in SizeClasses
        PROVE  Distinct(available_pages'[c]) /\ Listed(available_pages'[c]) = Available(c)'
    <3>1. CASE c = class
      <4>1. available_pages'[c] = rest
        BY <1>15, <3>1 DEF HeapType
      <4>2. Available(c)' = IF header.first_free = <<>> THEN Available(class) \ {page} ELSE Available(class) \cup {page}
        <5>1. \A p \in DOMAIN pool_pages \ {page} : p \in Available(class)' <=> p \in Available(class)
            BY <1>12 DEF Available
        <5>2. page \in Available(class)' <=> header.first_free # <<>>
          BY <1>3, <1>6, <1>12 DEF Available
        <5>3. Available(class) \subseteq DOMAIN pool_pages /\ Available(class)' \subseteq DOMAIN pool_pages \cup {page}
          BY <1>12 DEF Available
        <5> QED BY <3>1, <5>1, <5>2, <5>3
      <4> QED BY <1>14, <4>1, <4>2
    <3>2. CASE c # class
      <4>1. available_pages'[c] = available_pages[c]
        BY <1>15, <3>2 DEF HeapType
      <4>2. Available(c)' = Available(c)
        BY <1>3, <1>6, <1>12, <3>2 DEF Available
      <4> QED BY <4>1, <4>2 DEF PagesListed
    <3> QED BY <3>1, <3>2
  <2> QED BY <2>1 DEF PagesListed
<1> QED BY <1>9, <1>13, <1>16, <1>17, <1>18, <1>19, <1>20, <1>21

\* A run of pages.
LEMMA AllocateLargeKeeps ==
    ASSUME HeapInv, ready, NEW size \in Nat \ {0}, NEW address \in Addresses,
           AllocateLarge(size, address), blocks' = With(blocks, address, size)
    PROVE  HeapInv' /\ address \notin DOMAIN blocks
<1> USE DEF HeapInv
<1> DEFINE count == LargePages(size)
<1>1. PICK page \in FreeRuns(count) : /\ address = AddressOf(page) + LargeHeader
                                      /\ large_blocks' = With(large_blocks, page, count)
  BY DEF AllocateLarge
<1>2. /\ heap_current' = heap_current /\ ready' = ready /\ pool_pages' = pool_pages
      /\ available_pages' = available_pages
  BY DEF AllocateLarge
<1>3. count \in Nat \ {0} /\ LargeHeader + size <= count * PageUnits
  <2>1. \A u \in Nat \ {0}, n \in Nat \ {0} : (n - 1) \div u + 1 \in Nat \ {0} /\ n <= ((n - 1) \div u + 1) * u
    OBVIOUS
  <2>2. LargeHeader + size \in Nat \ {0} /\ PageUnits \in Nat \ {0}
    BY PageSize
  <2>3. count = (LargeHeader + size - 1) \div PageUnits + 1
    BY DEF LargePages
  <2> HIDE DEF count
  <2> DEFINE n == LargeHeader + size
  <2>4. n \in Nat \ {0}
    BY <2>2
  <2>5. count = (n - 1) \div PageUnits + 1
    <3>1. n - 1 = LargeHeader + size - 1
      BY PageSize
    <3> HIDE DEF n
    <3> QED BY <2>3, <3>1
  <2> HIDE DEF n
  <2>6. count \in Nat \ {0} /\ n <= count * PageUnits
    BY <2>1, <2>2, <2>4, <2>5
  <2> QED BY <2>6 DEF n
<1> HIDE DEF count
<1>4. page \in Pages /\ page \in Nat /\ Span(page, count) \subseteq Pages /\ Span(page, count) \cap TakenPages = {}
  BY <1>1, Regions DEF FreeRuns
<1>5. page \in Span(page, count)
  BY <1>3, <1>4 DEF Span
<1>6. /\ Span(page, count) \cap DOMAIN pool_pages = {} /\ page \notin DOMAIN pool_pages
      /\ \A other \in DOMAIN large_blocks : Span(page, count) \cap Span(other, large_blocks[other]) = {}
  BY <1>4, <1>5 DEF TakenPages
<1>7. page \notin DOMAIN large_blocks
  <2> SUFFICES ASSUME page \in DOMAIN large_blocks PROVE FALSE
    OBVIOUS
  <2>1. large_blocks[page] \in Nat \ {0}
    BY HeapFacts
  <2>2. page \in Span(page, large_blocks[page])
    BY <1>4, <2>1 DEF Span
  <2> QED BY <1>5, <1>6, <2>2
<1>8. PageOf(address) = page /\ address \in Nat /\ address >= heap_end
  <2>1. LargeHeader \in 0 .. PageUnits - 1
    BY PageSize
  <2> QED BY <1>1, <1>4, <2>1, PageOfUnit, Regions
<1>9. address \notin DOMAIN blocks
  <2>1. HeldIn(page, blocks) = {}
    BY <1>4, <1>6, <1>7, NothingInFreePage
  <2> QED BY <1>8, <2>1 DEF HeldIn
<1>10. /\ DOMAIN blocks' = DOMAIN blocks \cup {address} /\ blocks'[address] = size
       /\ \A a \in DOMAIN blocks : blocks'[a] = blocks[a]
  BY <1>9 DEF With
<1>11. /\ DOMAIN large_blocks' = DOMAIN large_blocks \cup {page} /\ large_blocks'[page] = count
       /\ \A p \in DOMAIN large_blocks : large_blocks'[p] = large_blocks[p]
  BY <1>1, <1>7 DEF With
<1>12. HeapType'
  <2>1. large_blocks' \in [DOMAIN large_blocks' -> Nat \ {0}]
    BY <1>1, <1>3, MapTypes DEF HeapType
  <2>2. blocks' \in [DOMAIN blocks' -> Nat \ {0}]
    BY MapTypes DEF HeapType
  <2> QED BY <1>2, <1>4, <1>10, <1>11, <2>1, <2>2 DEF HeapType
<1>13. NothingTaken'
  BY <1>2 DEF NothingTaken
<1>14. PagesExact'
  <2>1. ASSUME NEW p \in DOMAIN pool_pages
        PROVE  ChunksExact(p, pool_pages[p], blocks') /\ HeldIn(p, blocks') # {}
    <3>1. p # page
      BY <1>6
    <3>2. ChunksExact(p, pool_pages[p], blocks) /\ HeldIn(p, blocks) # {}
      BY DEF PagesExact
    <3>3. HeldIn(p, blocks') = HeldIn(p, blocks) /\ \A a \in HeldIn(p, blocks) : blocks'[a] = blocks[a]
      BY <1>8, <1>9, <3>1, HeldWith
    <3>4. ChunksExact(p, pool_pages[p], blocks')
      BY <3>2, <3>3, ChunksFrame
    <3> QED BY <3>2, <3>3, <3>4
  <2> QED BY <1>2, <2>1 DEF PagesExact
<1>15. RunsApart'
  <2>1. ASSUME NEW p \in DOMAIN large_blocks'
        PROVE  /\ Span(p, large_blocks'[p]) \subseteq Pages
               /\ Span(p, large_blocks'[p]) \cap DOMAIN pool_pages = {}
               /\ \A other \in DOMAIN large_blocks' \ {p} :
                    Span(p, large_blocks'[p]) \cap Span(other, large_blocks'[other]) = {}
    <3>1. CASE p = page
      BY <1>4, <1>6, <1>11, <3>1
    <3>2. CASE p \in DOMAIN large_blocks
      <4>1. /\ Span(p, large_blocks[p]) \subseteq Pages
            /\ Span(p, large_blocks[p]) \cap DOMAIN pool_pages = {}
            /\ \A other \in DOMAIN large_blocks \ {p} :
                  Span(p, large_blocks[p]) \cap Span(other, large_blocks[other]) = {}
        BY <3>2 DEF RunsApart
      <4>2. Span(p, large_blocks[p]) \cap Span(page, count) = {}
        BY <1>6, <3>2
      <4> QED BY <1>11, <3>2, <4>1, <4>2
    <3> QED BY <1>11, <3>1, <3>2
  <2> QED BY <1>2, <2>1 DEF RunsApart
<1>16. BlocksPlaced'
  <2>1. ASSUME NEW a \in DOMAIN blocks'
        PROVE  InStartup(a, blocks[a])' \/ InPool(a)' \/ InRun(a, blocks[a])'
    <3>1. CASE a = address
      <4>1. address + size <= AddressOf(page + count)
        <5>1. \A u, p, c \in Nat : (p + c) * u = p * u + c * u /\ p * u \in Nat /\ c * u \in Nat
          OBVIOUS
        <5>2. PageUnits \in Nat /\ LargeHeader \in Nat
          BY PageSize
        <5>3. (page + count) * PageUnits = page * PageUnits + count * PageUnits
              /\ page * PageUnits \in Nat /\ count * PageUnits \in Nat
          BY <1>3, <1>4, <5>1, <5>2
        <5>4. address = page * PageUnits + LargeHeader
          BY <1>1 DEF AddressOf
        <5>5. address + size <= (page + count) * PageUnits
          BY <1>3, <5>2, <5>3, <5>4
        <5> QED BY <5>5 DEF AddressOf
      <4> QED BY <1>1, <1>8, <1>10, <1>11, <3>1, <4>1 DEF InRun
    <3>2. CASE a \in DOMAIN blocks
      <4>1. blocks'[a] = blocks[a] /\ (InStartup(a, blocks[a]) \/ InPool(a) \/ InRun(a, blocks[a]))
        BY <1>10, <3>2 DEF BlocksPlaced
      <4>2. InStartup(a, blocks[a]) => InStartup(a, blocks[a])'
        BY <1>2, <4>1 DEF InStartup
      <4>3. InPool(a) => InPool(a)'
        BY <1>2 DEF InPool
      <4>4. InRun(a, blocks[a]) => InRun(a, blocks[a])'
        BY <1>11, <4>1 DEF InRun
      <4> QED BY <4>1, <4>2, <4>3, <4>4
    <3> QED BY <1>10, <3>1, <3>2
  <2> QED BY <2>1 DEF BlocksPlaced
<1>17. StartupApart'
  <2>1. \A a \in DOMAIN blocks : a \in Nat
    BY HeapFacts
  <2>2. heap_end \in Nat
    BY Regions
  <2>3. ASSUME NEW a \in DOMAIN blocks', NEW b \in DOMAIN blocks', a < b, b < heap_end
        PROVE  a + blocks'[a] <= b
    <3>1. a # address /\ b # address
      BY <1>8, <1>10, <2>1, <2>2, <2>3
    <3>2. a \in DOMAIN blocks /\ b \in DOMAIN blocks /\ blocks'[a] = blocks[a]
      BY <1>10, <3>1
    <3> QED BY <2>3, <3>2 DEF StartupApart
  <2> QED BY <2>3 DEF StartupApart
<1>18. PagesListed'
  BY <1>2 DEF PagesListed, Available
<1> QED BY <1>9, <1>12, <1>13, <1>14, <1>15, <1>16, <1>17, <1>18

\* kernel_malloc: the block returned is one nobody holds.
LEMMA MallocKeeps ==
    ASSUME HeapInv, NEW size \in Nat \ {0}, NEW address \in Addresses, Malloc(size, address)
    PROVE  /\ HeapInv' /\ address \notin DOMAIN blocks
           /\ DOMAIN blocks' = DOMAIN blocks \cup {address} /\ blocks'[address] = size
           /\ \A a \in DOMAIN blocks : blocks'[a] = blocks[a]
<1>1. blocks' = With(blocks, address, size)
  BY DEF Malloc
<1>2. HeapInv' /\ address \notin DOMAIN blocks
  <2>1. ready \in BOOLEAN
    BY DEF HeapInv, HeapType
  <2>2. CASE ~ready
    BY <1>1, <2>2, SimpleMallocKeeps DEF Malloc
  <2>3. CASE ready /\ Fitting(size) # {}
    <3>1. PoolFor(size) \in SizeClasses /\ size <= PoolFor(size)
      <4>1. \A class \in SizeClasses : class \in Nat
        BY ClassFacts
      <4>2. PICK first \in Fitting(size) : \A other \in Fitting(size) : first <= other
        BY <2>3, <4>1, SmallestOf DEF Fitting
      <4>3. PoolFor(size) \in Fitting(size)
        BY <4>2 DEF PoolFor
      <4> QED BY <4>1, <4>3 DEF Fitting
    <3>2. AllocateSmall(PoolFor(size), address)
      BY <2>3 DEF Malloc
    <3> QED BY <1>1, <2>3, <3>1, <3>2, AllocateSmallKeeps
  <2>4. CASE ready /\ Fitting(size) = {}
    BY <1>1, <2>4, AllocateLargeKeeps DEF Malloc
  <2> QED BY <2>1, <2>2, <2>3, <2>4
<1> QED BY <1>1, <1>2 DEF With
-------------------------------------------------------------------------------
(* Release keeps the invariant *)

\* A list of distinct elements is as long as it has elements.
LEMMA ListSize ==
    ASSUME NEW S, NEW q \in Seq(S), Distinct(q)
    PROVE  IsFiniteSet(Listed(q)) /\ Cardinality(Listed(q)) = Len(q)
<1> DEFINE f == [k \in 1 .. Len(q) |-> q[k]]
<1>1. Len(q) \in Nat /\ DOMAIN q = 1 .. Len(q)
  OBVIOUS
<1>2. f \in Bijection(1 .. Len(q), Listed(q))
  <2>1. f \in [1 .. Len(q) -> Listed(q)] /\ \A k \in 1 .. Len(q) : f[k] = q[k]
    BY <1>1 DEF Listed
  <2>2. \A a, b \in 1 .. Len(q) : f[a] = f[b] => a = b
    BY <1>1, <2>1 DEF Distinct
  <2>3. \A x \in Listed(q) : \E k \in 1 .. Len(q) : f[k] = x
    BY <1>1, <2>1 DEF Listed
  <2> HIDE DEF f
  <2> DEFINE D == 1 .. Len(q)
             R == Listed(q)
  <2>4. /\ f \in [D -> R] /\ (\A a, b \in D : f[a] = f[b] => a = b)
        /\ \A x \in R : \E k \in D : f[k] = x
    BY <2>1, <2>2, <2>3
  <2> HIDE DEF D, R
  <2>5. f \in Bijection(D, R)
    BY ONLY <2>4 DEF Bijection, Injection, Surjection, IsInjective
  <2> QED BY <2>5 DEF D, R
<1>3. IsFiniteSet(1 .. Len(q)) /\ Cardinality(1 .. Len(q)) = Len(q)
  BY <1>1, FS_Interval, SMTT(30)
<1>4. IsFiniteSet(Listed(q)) /\ Cardinality(Listed(q)) = Cardinality(1 .. Len(q))
  <2> HIDE DEF f
  <2> QED BY <1>2, <1>3, FS_Bijection DEF ExistsBijection
<1> QED BY <1>3, <1>4

\* A page has as many chunks as its header says.
LEMMA ChunksSize ==
    ASSUME NEW page \in Pages, NEW class \in SizeClasses
    PROVE  IsFiniteSet(Chunks(page, class)) /\ Cardinality(Chunks(page, class)) = ChunkCount(class)
<1> DEFINE list == PoolPage(page, class).first_free
<1>1. /\ list \in Seq(Addresses) /\ Distinct(list) /\ Listed(list) = Chunks(page, class)
      /\ Len(list) = ChunkCount(class)
  <2>1. PoolPage(page, class) \in Headers
    BY PoolPageFacts
  <2>2. list \in Seq(Addresses)
    BY <2>1 DEF Headers
  <2>3. Len(list) = ChunkCount(class)
    <3>1. ChunkCount(class) \in Nat
      BY ClassFacts
    <3>2. list = [k \in 1 .. ChunkCount(class) |-> AddressOf(page) + PoolHeader + (ChunkCount(class) - k) * class]
      BY DEF PoolPage, ChunkCount
    <3>3. DOMAIN list = 1 .. ChunkCount(class)
      BY <3>2
    <3> HIDE DEF list
    <3>4. DOMAIN list = 1 .. Len(list) /\ Len(list) \in Nat
      BY <2>2
    <3> QED BY <3>1, <3>3, <3>4
  <2> QED BY <2>2, <2>3, PoolPageFacts
<1> HIDE DEF list
<1> QED BY <1>1, ListSize

\* The counter of free_small: a page has as many free chunks as chunks exactly if none is held.
LEMMA EmptyPage ==
    ASSUME NEW page \in Pages, NEW header \in Headers, NEW held, ChunksExact(page, header, held)
    PROVE  /\ Len(header.first_free) = header.chunk_count <=> HeldIn(page, held) = {}
           /\ Len(header.first_free) <= header.chunk_count
           /\ IsFiniteSet(HeldIn(page, held))
           /\ Len(header.first_free) + Cardinality(HeldIn(page, held)) = header.chunk_count
<1> DEFINE free == Listed(header.first_free)
           kept == HeldIn(page, held)
           chunks == Chunks(page, header.chunk_size)
<1>1. header.first_free \in Seq(Addresses) /\ header.chunk_size \in SizeClasses
  BY DEF Headers
<1>2. /\ IsFiniteSet(free) /\ Cardinality(free) = Len(header.first_free)
      /\ IsFiniteSet(chunks) /\ Cardinality(chunks) = header.chunk_count
  BY <1>1, ListSize, ChunksSize DEF ChunksExact
<1>3. free \cap kept = {} /\ free \cup kept = chunks
  BY DEF ChunksExact
<1> HIDE DEF free, kept, chunks
<1>4. IsFiniteSet(kept)
  <2>1. kept \subseteq chunks
    BY <1>3
  <2> QED BY <1>2, <2>1, FS_Subset
<1>5. Cardinality(chunks) = Cardinality(free) + Cardinality(kept)
  <2>1. Cardinality(free \cup kept) = Cardinality(free) + Cardinality(kept) - Cardinality(free \cap kept)
    BY <1>2, <1>4, FS_Union
  <2>2. Cardinality({}) = 0
    BY FS_EmptySet
  <2>3. Cardinality(free) \in Nat /\ Cardinality(kept) \in Nat
    BY <1>2, <1>4, FS_CardinalityType
  <2>4. Cardinality(chunks) = Cardinality(free) + Cardinality(kept) - 0
    BY <1>3, <2>1, <2>2
  <2> QED BY <2>3, <2>4
<1>6. Cardinality(free) \in Nat /\ Cardinality(kept) \in Nat
  BY <1>2, <1>4, FS_CardinalityType
<1>7. Cardinality(kept) = 0 <=> kept = {}
  BY <1>4, FS_EmptySet
<1> QED BY <1>2, <1>4, <1>5, <1>6, <1>7 DEF kept

\* Where a block disappears, and what it leaves alone.
LEMMA HeldMinus ==
    ASSUME NEW held, NEW a
    PROVE  /\ HeldIn(PageOf(a), Minus(held, a)) = HeldIn(PageOf(a), held) \ {a}
           /\ \A page : page # PageOf(a) => HeldIn(page, Minus(held, a)) = HeldIn(page, held)
           /\ \A page : \A b \in HeldIn(page, Minus(held, a)) : Minus(held, a)[b] = held[b]
  BY DEF HeldIn, Minus

\* A block that is in no page: the startup heap stays as it is.
LEMMA FreeStartupKeeps ==
    ASSUME HeapInv, NEW address \in DOMAIN blocks, address < heap_end,
           heap_current' = heap_current, ready' = ready, pool_pages' = pool_pages,
           large_blocks' = large_blocks, available_pages' = available_pages,
           blocks' = Minus(blocks, address)
    PROVE  HeapInv'
<1> USE DEF HeapInv
<1>1. /\ DOMAIN blocks' = DOMAIN blocks \ {address}
      /\ \A a \in DOMAIN blocks' : blocks'[a] = blocks[a]
  BY DEF Minus
<1>2. HeapType'
  <2>1. blocks' \in [DOMAIN blocks' -> Nat \ {0}]
    BY MapTypes DEF HeapType
  <2> QED BY <1>1, <2>1 DEF HeapType
<1>3. NothingTaken' /\ RunsApart'
  BY DEF NothingTaken, RunsApart
<1>4. PagesExact'
  <2>1. ASSUME NEW p \in DOMAIN pool_pages
        PROVE  ChunksExact(p, pool_pages[p], blocks') /\ HeldIn(p, blocks') # {}
    <3>1. p # PageOf(address)
      <4>1. PageOf(address) < HeapPages /\ address \in Nat
        BY HeapFacts, Regions
      <4>2. p \in Pages /\ p \in Nat /\ HeapPages <= p
        BY HeapFacts, Regions, MemoryAssumption DEF Pages
      <4>3. PageOf(address) \in Nat
        BY <4>1, UnitInPage
      <4> QED BY <4>1, <4>2, <4>3, MemoryAssumption
    <3>2. ChunksExact(p, pool_pages[p], blocks) /\ HeldIn(p, blocks) # {}
      BY DEF PagesExact
    <3>3. HeldIn(p, blocks') = HeldIn(p, blocks) /\ \A a \in HeldIn(p, blocks) : blocks'[a] = blocks[a]
      BY <3>1, HeldMinus
    <3> QED BY <3>2, <3>3, ChunksFrame
  <2> QED BY <2>1 DEF PagesExact
<1>5. BlocksPlaced'
  <2>1. ASSUME NEW a \in DOMAIN blocks'
        PROVE  InStartup(a, blocks[a])' \/ InPool(a)' \/ InRun(a, blocks[a])'
    <3>1. a \in DOMAIN blocks /\ blocks'[a] = blocks[a]
      BY <1>1
    <3> QED BY <3>1 DEF BlocksPlaced, InStartup, InPool, InRun
  <2> QED BY <2>1 DEF BlocksPlaced
<1>6. StartupApart'
  BY <1>1 DEF StartupApart
<1>7. PagesListed'
  BY DEF PagesListed, Available
<1> QED BY <1>2, <1>3, <1>4, <1>5, <1>6, <1>7

\* free_large: the run goes, and the block was alone in it.
LEMMA FreeLargeKeeps ==
    ASSUME HeapInv, ready, NEW address \in DOMAIN blocks, address >= heap_end,
           PageOf(address) \notin DOMAIN pool_pages,
           FreeLarge(PageOf(address), address), blocks' = Minus(blocks, address)
    PROVE  HeapInv'
<1> USE DEF HeapInv
<1> DEFINE page == PageOf(address)
<1>1. /\ large_blocks' = Minus(large_blocks, page) /\ address = AddressOf(page) + LargeHeader
      /\ heap_current' = heap_current /\ ready' = ready /\ pool_pages' = pool_pages
      /\ available_pages' = available_pages
  BY DEF FreeLarge
<1>2. page \notin DOMAIN pool_pages
  OBVIOUS
<1>3. \A p \in DOMAIN pool_pages : p # page
  BY <1>2
<1>4. /\ DOMAIN blocks' = DOMAIN blocks \ {address}
      /\ \A a \in DOMAIN blocks' : blocks'[a] = blocks[a]
  BY DEF Minus
<1>5. \A p : p # page => HeldIn(p, blocks') = HeldIn(p, blocks)
  BY HeldMinus
<1>6. \A a \in DOMAIN blocks' : a >= heap_end /\ PageOf(a) = page => ~InRun(a, blocks[a])
  BY <1>1, <1>4 DEF InRun
<1> HIDE DEF page
<1>7. /\ DOMAIN large_blocks' = DOMAIN large_blocks \ {page}
      /\ \A p \in DOMAIN large_blocks' : large_blocks'[p] = large_blocks[p]
  BY <1>1 DEF Minus
<1>8. HeapType'
  <2>1. blocks' \in [DOMAIN blocks' -> Nat \ {0}]
    BY MapTypes DEF HeapType
  <2>2. large_blocks' \in [DOMAIN large_blocks' -> Nat \ {0}]
    BY <1>1, MapTypes DEF HeapType
  <2> QED BY <1>1, <1>4, <1>7, <2>1, <2>2 DEF HeapType
<1>9. NothingTaken'
  BY <1>1 DEF NothingTaken
<1>10. RunsApart'
  BY <1>1, <1>7 DEF RunsApart
<1>11. PagesExact'
  <2>1. ASSUME NEW p \in DOMAIN pool_pages
        PROVE  ChunksExact(p, pool_pages[p], blocks') /\ HeldIn(p, blocks') # {}
    <3>1. ChunksExact(p, pool_pages[p], blocks) /\ HeldIn(p, blocks) # {}
      BY DEF PagesExact
    <3>2. HeldIn(p, blocks') = HeldIn(p, blocks)
      BY <1>3, <1>5
    <3>3. \A a \in HeldIn(p, blocks') : blocks'[a] = blocks[a]
      BY <1>4 DEF HeldIn
    <3> QED BY <3>1, <3>2, <3>3, ChunksFrame
  <2> QED BY <1>1, <2>1 DEF PagesExact
<1>12. BlocksPlaced'
  <2>1. ASSUME NEW a \in DOMAIN blocks'
        PROVE  InStartup(a, blocks[a])' \/ InPool(a)' \/ InRun(a, blocks[a])'
    <3>1. blocks'[a] = blocks[a] /\ (InStartup(a, blocks[a]) \/ InPool(a) \/ InRun(a, blocks[a]))
      BY <1>4 DEF BlocksPlaced
    <3>2. InStartup(a, blocks[a]) => InStartup(a, blocks[a])'
      BY <1>1, <3>1 DEF InStartup
    <3>3. InPool(a) => InPool(a)'
      BY <1>1 DEF InPool
    <3>4. InRun(a, blocks[a]) => InRun(a, blocks[a])'
      <4> SUFFICES ASSUME InRun(a, blocks[a]) PROVE InRun(a, blocks[a])'
        OBVIOUS
      <4>1. PageOf(a) # page
        BY <1>6 DEF InRun
      <4> QED BY <1>7, <3>1, <4>1 DEF InRun
    <3> QED BY <3>1, <3>2, <3>3, <3>4
  <2> QED BY <2>1 DEF BlocksPlaced
<1>13. StartupApart'
  BY <1>4 DEF StartupApart
<1>14. PagesListed'
  BY <1>1 DEF PagesListed, Available
<1> QED BY <1>8, <1>9, <1>10, <1>11, <1>12, <1>13, <1>14

\* free_small: the chunk is free again, and the page goes with its last block.
LEMMA FreeSmallKeeps ==
    ASSUME HeapInv, ready, NEW address \in DOMAIN blocks, address >= heap_end,
           PageOf(address) \in DOMAIN pool_pages,
           FreeSmall(PageOf(address), address), blocks' = Minus(blocks, address)
    PROVE  HeapInv'
<1> USE DEF HeapInv
<1> DEFINE page == PageOf(address)
           found == pool_pages[page]
           list == <<address>> \o found.first_free
           header == [found EXCEPT !.first_free = list]
           class == found.chunk_size
<1>1. /\ pool_pages' = IF Len(header.first_free) = header.chunk_count
                         THEN Minus(pool_pages, page) ELSE With(pool_pages, page, header)
      /\ available_pages' = Relisted(page, header)
      /\ heap_current' = heap_current /\ ready' = ready /\ large_blocks' = large_blocks
  BY DEF FreeSmall
<1>2. /\ page \in DOMAIN pool_pages /\ page \in Pages /\ found \in Headers
      /\ ChunksExact(page, found, blocks)
      /\ found.first_free \in Seq(Addresses) /\ class \in SizeClasses
      /\ address \in Addresses
  BY HeapFacts DEF PagesExact, Headers
<1>3. /\ address \in HeldIn(page, blocks) /\ address \notin Listed(found.first_free)
  BY <1>2 DEF HeldIn, ChunksExact
<1>4. /\ HeldIn(page, blocks') = HeldIn(page, blocks) \ {address}
      /\ \A p : p # page => HeldIn(p, blocks') = HeldIn(p, blocks)
      /\ \A p : \A b \in HeldIn(p, blocks') : blocks'[b] = blocks[b]
  BY HeldMinus
<1> HIDE DEF page
<1>5. /\ list \in Seq(Addresses) /\ Len(list) = Len(found.first_free) + 1
      /\ Listed(list) = Listed(found.first_free) \cup {address}
      /\ Distinct(list)
  <2> DEFINE q == found.first_free
  <2>1. q \in Seq(Addresses) /\ address \in Addresses /\ Distinct(q) /\ address \notin Listed(q)
    BY <1>2, <1>3 DEF ChunksExact
  <2> HIDE DEF found
  <2> QED BY <2>1, PrependDistinct
<1> HIDE DEF list
<1>6. /\ header \in Headers /\ header.chunk_size = class /\ header.chunk_count = found.chunk_count
      /\ header.first_free = list
  BY <1>2, <1>5, HeaderWith
<1> HIDE DEF header
<1>7. ChunksExact(page, header, blocks')
  <2>1. Listed(list) \cap HeldIn(page, blocks') = {}
    BY <1>2, <1>4, <1>5 DEF ChunksExact
  <2>2. Listed(list) \cup HeldIn(page, blocks') = Chunks(page, class)
    BY <1>2, <1>3, <1>4, <1>5 DEF ChunksExact
  <2>3. \A a \in HeldIn(page, blocks') : blocks'[a] <= class
    BY <1>2, <1>4 DEF ChunksExact
  <2> QED BY <1>2, <1>5, <1>6, <2>1, <2>2, <2>3 DEF ChunksExact
<1> DEFINE empty == Len(list) = header.chunk_count
<1>8. empty <=> HeldIn(page, blocks') = {}
  BY <1>2, <1>6, <1>7, EmptyPage
<1>9. /\ DOMAIN blocks' = DOMAIN blocks \ {address}
      /\ \A a \in DOMAIN blocks' : blocks'[a] = blocks[a]
  BY DEF Minus
<1>10. /\ DOMAIN pool_pages' = IF empty THEN DOMAIN pool_pages \ {page} ELSE DOMAIN pool_pages
       /\ ~empty => pool_pages'[page] = header
       /\ \A p \in DOMAIN pool_pages \ {page} : pool_pages'[p] = pool_pages[p]
  <2>1. pool_pages' = IF empty THEN Minus(pool_pages, page) ELSE With(pool_pages, page, header)
    BY <1>1, <1>6
  <2> HIDE DEF empty
  <2> QED BY <1>2, <2>1 DEF Minus, With
<1> DEFINE rest == available_pages'[class]
<1>11. /\ rest \in Seq(Pages) /\ Distinct(rest)
       /\ Listed(rest) = IF empty THEN Available(class) \ {page} ELSE Available(class) \cup {page}
       /\ available_pages' = [available_pages EXCEPT ![class] = rest]
  <2> DEFINE old == available_pages[class]
             queue == IF Len(list) = 1 THEN Append(old, page) ELSE old
  <2>1. old \in Seq(Pages) /\ Distinct(old) /\ Listed(old) = Available(class)
    BY <1>2 DEF HeapType, PagesListed
  <2>2. available_pages' = [available_pages EXCEPT ![class] = IF empty THEN Without(queue, page) ELSE queue]
    BY <1>1, <1>6 DEF Relisted
  <2>3. available_pages \in [SizeClasses -> Seq(Pages)]
    BY DEF HeapType
  <2>4. rest = IF empty THEN Without(queue, page) ELSE queue
    BY <1>2, <2>2, <2>3
  <2>5. Len(list) = 1 <=> found.first_free = <<>>
    BY <1>2, <1>5
  <2>6. page \in Available(class) <=> found.first_free # <<>>
    BY <1>2 DEF Available
  <2>7. queue \in Seq(Pages) /\ Distinct(queue) /\ Listed(queue) = Available(class) \cup {page}
    <3>1. CASE Len(list) = 1
      BY <1>2, <2>1, <2>5, <2>6, <3>1, AppendDistinct
    <3>2. CASE Len(list) # 1
      BY <2>1, <2>5, <2>6, <3>2
    <3> QED BY <3>1, <3>2
  <2> HIDE DEF queue, old, empty, rest
  <2>8. /\ Without(queue, page) \in Seq(Pages) /\ Distinct(Without(queue, page))
        /\ Listed(Without(queue, page)) = Listed(queue) \ {page}
    BY <2>7, WithoutDistinct
  <2>9. available_pages' = [available_pages EXCEPT ![class] = rest]
    BY <2>2, <2>4
  <2> QED BY <2>4, <2>7, <2>8, <2>9
<1> HIDE DEF empty, rest
<1>12. HeapType'
  <2>1. blocks' \in [DOMAIN blocks' -> Nat \ {0}]
    BY MapTypes DEF HeapType
  <2>2. \A p \in DOMAIN pool_pages' : pool_pages'[p] \in Headers
    BY <1>6, <1>8, <1>10, HeapFacts
  <2>3. pool_pages' = [p \in DOMAIN pool_pages' |-> pool_pages'[p]]
    BY <1>1 DEF Minus, With
  <2>4. pool_pages' \in [DOMAIN pool_pages' -> Headers]
    BY <2>2, <2>3
  <2>5. available_pages' \in [SizeClasses -> Seq(Pages)]
    BY <1>11 DEF HeapType
  <2>6. DOMAIN pool_pages' \subseteq Pages /\ DOMAIN blocks' \subseteq Addresses
    BY <1>9, <1>10 DEF HeapType
  <2> QED BY <1>1, <2>1, <2>4, <2>5, <2>6 DEF HeapType
<1>13. NothingTaken'
  BY <1>1 DEF NothingTaken
<1>14. RunsApart'
  <2>1. DOMAIN pool_pages' \subseteq DOMAIN pool_pages
    BY <1>10
  <2> QED BY <1>1, <2>1 DEF RunsApart
<1>15. PagesExact'
  <2>1. ASSUME NEW p \in DOMAIN pool_pages'
        PROVE  ChunksExact(p, pool_pages'[p], blocks') /\ HeldIn(p, blocks') # {}
    <3>1. CASE p = page
      BY <1>7, <1>8, <1>10, <3>1
    <3>2. CASE p # page
      <4>1. p \in DOMAIN pool_pages /\ pool_pages'[p] = pool_pages[p]
        BY <1>10, <3>2
      <4>2. ChunksExact(p, pool_pages[p], blocks) /\ HeldIn(p, blocks) # {}
        BY <4>1 DEF PagesExact
      <4>3. HeldIn(p, blocks') = HeldIn(p, blocks) /\ \A a \in HeldIn(p, blocks) : blocks'[a] = blocks[a]
        BY <1>4, <3>2
      <4>4. ChunksExact(p, pool_pages[p], blocks')
        BY <4>2, <4>3, ChunksFrame
      <4> QED BY <4>1, <4>2, <4>3, <4>4
    <3> QED BY <3>1, <3>2
  <2> QED BY <2>1 DEF PagesExact
<1>16. BlocksPlaced'
  <2>1. ASSUME NEW a \in DOMAIN blocks'
        PROVE  InStartup(a, blocks[a])' \/ InPool(a)' \/ InRun(a, blocks[a])'
    <3>1. /\ a \in DOMAIN blocks /\ blocks'[a] = blocks[a]
          /\ InStartup(a, blocks[a]) \/ InPool(a) \/ InRun(a, blocks[a])
      BY <1>9 DEF BlocksPlaced
    <3>2. InStartup(a, blocks[a]) => InStartup(a, blocks[a])'
      BY <1>1, <3>1 DEF InStartup
    <3>3. InPool(a) => InPool(a)'
      <4>1. PageOf(a) = page => a \in HeldIn(page, blocks')
        BY DEF HeldIn
      <4>2. PageOf(a) \in DOMAIN pool_pages => PageOf(a) \in DOMAIN pool_pages'
        BY <1>8, <1>10, <4>1
      <4> QED BY <4>2 DEF InPool
    <3>4. InRun(a, blocks[a]) => InRun(a, blocks[a])'
      BY <1>1, <3>1 DEF InRun
    <3> QED BY <3>1, <3>2, <3>3, <3>4
  <2> QED BY <2>1 DEF BlocksPlaced
<1>17. StartupApart'
  BY <1>9 DEF StartupApart
<1>18. PagesListed'
  <2>1. list # <<>>
    BY <1>2, <1>5
  <2>2. ASSUME NEW c \in SizeClasses
        PROVE  Distinct(available_pages'[c]) /\ Listed(available_pages'[c]) = Available(c)'
    <3>1. \A p \in DOMAIN pool_pages \ {page} : p \in Available(c)' <=> p \in Available(c)
      BY <1>10 DEF Available
    <3>2. page \in Available(c)' <=> ~empty /\ c = class
      BY <1>2, <1>6, <1>10, <2>1 DEF Available
    <3>3. Available(c) \subseteq DOMAIN pool_pages /\ Available(c)' \subseteq DOMAIN pool_pages
      BY <1>10 DEF Available
    <3>4. CASE c = class
      BY <1>2, <1>11, <3>1, <3>2, <3>3, <3>4 DEF rest
    <3>5. CASE c # class
      <4>1. available_pages'[c] = available_pages[c]
        BY <1>11, <3>5 DEF HeapType
      <4>2. page \notin Available(c)
        BY <3>5 DEF Available
      <4>3. Available(c)' = Available(c)
        <5>1. page \notin Available(c)'
          BY <3>2, <3>5
        <5> QED BY <3>1, <3>3, <4>2, <5>1
      <4> QED BY <4>1, <4>3 DEF PagesListed
    <3> QED BY <3>4, <3>5
  <2> QED BY <2>2 DEF PagesListed
<1> QED BY <1>12, <1>13, <1>14, <1>15, <1>16, <1>17, <1>18

\* kernel_free of a block that is held.
LEMMA FreeKeeps ==
    ASSUME HeapInv, NEW address \in DOMAIN blocks, Free(address)
    PROVE  /\ HeapInv' /\ DOMAIN blocks' = DOMAIN blocks \ {address}
           /\ \A a \in DOMAIN blocks' : blocks'[a] = blocks[a]
<1>1. blocks' = Minus(blocks, address)
  BY DEF Free
<1>2. HeapInv'
  <2>1. ready \in BOOLEAN /\ address \in Nat /\ heap_end \in Nat
    BY HeapFacts DEF HeapInv, HeapType
  <2>2. address < heap_end \/ address >= heap_end
    BY <2>1
  <2>3. ~ready => address < heap_end
    <3> SUFFICES ASSUME ~ready PROVE address < heap_end
      OBVIOUS
    <3>1. ~InPool(address) /\ ~InRun(address, blocks[address])
      BY DEF HeapInv, NothingTaken, InPool, InRun
    <3>2. InStartup(address, blocks[address])
      BY <3>1 DEF HeapInv, BlocksPlaced
    <3> QED BY <3>2, StartupBlocks DEF HeapInv
  <2>4. CASE address < heap_end
    BY <1>1, <2>4, FreeStartupKeeps DEF Free
  <2>5. CASE ready /\ address >= heap_end /\ PageOf(address) \in DOMAIN pool_pages
    <3>1. ~(address < heap_end)
      BY <2>1, <2>5
    <3>2. FreeSmall(PageOf(address), address)
      BY <2>5, <3>1 DEF Free
    <3> QED BY <1>1, <2>5, <3>2, FreeSmallKeeps
  <2>6. CASE ready /\ address >= heap_end /\ PageOf(address) \notin DOMAIN pool_pages
    <3>1. ~(address < heap_end)
      BY <2>1, <2>6
    <3>2. FreeLarge(PageOf(address), address)
      BY <2>6, <3>1 DEF Free
    <3> QED BY <1>1, <2>6, <3>2, FreeLargeKeeps
  <2> QED BY <2>1, <2>2, <2>3, <2>4, <2>5, <2>6
<1> QED BY <1>1, <1>2 DEF Minus
-------------------------------------------------------------------------------
(* What the invariant of the heap says *)

\* The pages a block is in.
Run(page) == IF page \in DOMAIN pool_pages THEN 1 ELSE large_blocks[page]

\* The blocks in pages stay behind the header of their pages and in the pages taken.
LEMMA RunFacts ==
    ASSUME HeapInv, NEW page \in DOMAIN pool_pages \cup DOMAIN large_blocks
    PROVE  /\ page \in Nat /\ Run(page) \in Nat \ {0}
           /\ Span(page, Run(page)) \subseteq TakenPages \cap Pages
           /\ page \in Span(page, Run(page))
           /\ page + Run(page) <= HeapPages + PageCount
<1> USE DEF HeapInv
<1>1. page \in Nat /\ Pages \subseteq Nat
  BY HeapFacts, Regions
<1>2. Run(page) \in Nat \ {0}
  BY HeapFacts DEF Run
<1>3. CASE page \in DOMAIN pool_pages
  <2>1. Span(page, Run(page)) = {page}
    BY <1>1, <1>3 DEF Run, Span
  <2>2. page \in Pages
    BY <1>3, HeapFacts
  <2>3. page + 1 <= HeapPages + PageCount
    BY <2>2, MemoryAssumption DEF Pages
  <2> QED BY <1>1, <1>2, <1>3, <2>1, <2>2, <2>3 DEF TakenPages, Run
<1>4. CASE page \in DOMAIN large_blocks /\ page \notin DOMAIN pool_pages
  <2>1. Run(page) = large_blocks[page]
    BY <1>4 DEF Run
  <2>2. Span(page, Run(page)) \subseteq Pages
    BY <1>4, <2>1 DEF RunsApart
  <2>3. page \in Span(page, Run(page)) /\ page + Run(page) - 1 \in Span(page, Run(page))
    BY <1>1, <1>2 DEF Span
  <2>4. page + Run(page) - 1 \in Pages
    BY <2>2, <2>3
  <2>5. page + Run(page) <= HeapPages + PageCount
    BY <1>1, <1>2, <2>4, MemoryAssumption DEF Pages
  <2>6. Span(page, Run(page)) \subseteq TakenPages
    BY <1>4, <2>1 DEF TakenPages
  <2> QED BY <1>1, <1>2, <2>2, <2>3, <2>5, <2>6
<1> QED BY <1>3, <1>4

\* Two of them have no page in common.
LEMMA RunsDisjoint ==
    ASSUME HeapInv, NEW p \in DOMAIN pool_pages \cup DOMAIN large_blocks,
           NEW q \in DOMAIN pool_pages \cup DOMAIN large_blocks, p # q
    PROVE  Span(p, Run(p)) \cap Span(q, Run(q)) = {}
<1> USE DEF HeapInv
<1>1. p \in Nat /\ q \in Nat
  BY RunFacts
<1>2. \A page \in DOMAIN pool_pages : page \in Nat => Span(page, Run(page)) = {page}
  BY DEF Span, Run
<1>3. \A page \in DOMAIN large_blocks \ DOMAIN pool_pages : Run(page) = large_blocks[page]
  BY DEF Run
<1>4. CASE p \in DOMAIN pool_pages /\ q \in DOMAIN pool_pages
  BY <1>1, <1>2, <1>4
<1>5. CASE p \in DOMAIN pool_pages /\ q \notin DOMAIN pool_pages
  BY <1>1, <1>2, <1>3, <1>5 DEF RunsApart
<1>6. CASE p \notin DOMAIN pool_pages /\ q \in DOMAIN pool_pages
  BY <1>1, <1>2, <1>3, <1>6 DEF RunsApart
<1>7. CASE p \notin DOMAIN pool_pages /\ q \notin DOMAIN pool_pages
  BY <1>3, <1>7 DEF RunsApart
<1> QED BY <1>4, <1>5, <1>6, <1>7

\* A block in pages begins behind the header, in the first page, and ends in the last.
LEMMA BlockInRun ==
    ASSUME HeapInv, NEW a \in DOMAIN blocks, ~(a < heap_end)
    PROVE  /\ PageOf(a) \in DOMAIN pool_pages \cup DOMAIN large_blocks
           /\ a + blocks[a] <= AddressOf(PageOf(a) + Run(PageOf(a)))
           /\ PageOf(a) \in DOMAIN pool_pages => AddressOf(PageOf(a)) + PoolHeader <= a
           /\ PageOf(a) \notin DOMAIN pool_pages => AddressOf(PageOf(a)) + LargeHeader = a
<1> USE DEF HeapInv
<1> DEFINE page == PageOf(a)
<1>1. a \in Nat /\ blocks[a] \in Nat \ {0}
  BY HeapFacts
<1>2. InPool(a) \/ InRun(a, blocks[a])
  BY StartupBlocks DEF BlocksPlaced
<1>3. CASE page \in DOMAIN pool_pages
  <2> DEFINE class == pool_pages[page].chunk_size
  <2>1. /\ page \in Pages /\ page \in Nat /\ class \in SizeClasses
        /\ ChunksExact(page, pool_pages[page], blocks)
    BY <1>3, HeapFacts, Regions DEF PagesExact, Headers
  <2>2. a \in HeldIn(page, blocks)
    BY DEF HeldIn
  <2>3. a \in Chunks(page, class) /\ blocks[a] <= class
    BY <2>1, <2>2 DEF ChunksExact
  <2>4. AddressOf(page) + PoolHeader <= a /\ a + class <= AddressOf(page) + PageUnits
    BY <2>1, <2>3, ChunkFacts
  <2>5. AddressOf(page) \in Nat /\ AddressOf(page) + PageUnits <= AddressOf(page + 1)
    BY <2>1, PageOrder
  <2>6. Run(page) = 1
    BY <1>3 DEF Run
  <2> HIDE DEF page
  <2>7. class \in Nat /\ PageUnits \in Nat /\ AddressOf(page + 1) \in Nat
    <3>1. class \in Nat /\ PageUnits \in Nat
      BY <2>1, ClassFacts, PageSize
    <3>2. \A u, p \in Nat : (p + 1) * u \in Nat
      OBVIOUS
    <3> QED BY <2>1, <3>1, <3>2 DEF AddressOf
  <2> HIDE DEF class
  <2>8. a + blocks[a] <= AddressOf(page + 1)
    BY <1>1, <2>3, <2>4, <2>5, <2>7
  <2> QED BY <1>3, <2>4, <2>6, <2>8 DEF page
<1>4. CASE page \notin DOMAIN pool_pages
  <2>1. InRun(a, blocks[a])
    BY <1>2, <1>4 DEF InPool
  <2>2. Run(page) = large_blocks[page]
    BY <1>4 DEF Run
  <2> QED BY <1>4, <2>1, <2>2 DEF InRun
<1> QED BY <1>3, <1>4

\* A unit below the end of a run is in a page of it.
LEMMA UnitInRun ==
    ASSUME NEW page \in Nat, NEW n \in Nat, NEW unit \in Nat,
           AddressOf(page) <= unit, unit < AddressOf(page + n)
    PROVE  PageOf(unit) \in Span(page, n)
<1>1. /\ PageOf(unit) \in Nat /\ AddressOf(PageOf(unit)) <= unit
      /\ unit < AddressOf(PageOf(unit)) + PageUnits
  BY UnitInPage
<1> DEFINE p == PageOf(unit)
<1>2. /\ AddressOf(p) \in Nat /\ AddressOf(page) \in Nat /\ AddressOf(page + n) \in Nat
      /\ PageUnits \in Nat
  BY <1>1, PageSize DEF AddressOf
<1>3. p < page => AddressOf(p) + PageUnits <= AddressOf(page)
  BY <1>1, PageOrder
<1>4. page + n < p => AddressOf(page + n) + PageUnits <= AddressOf(p)
  BY <1>1, PageOrder
<1>5. page + n = p => AddressOf(page + n) = AddressOf(p)
  OBVIOUS
<1> HIDE DEF p
<1>6. ~(p < page)
  BY <1>1, <1>2, <1>3 DEF p
<1>7. p < page + n
  BY <1>1, <1>2, <1>4, <1>5 DEF p
<1> QED BY <1>1, <1>6, <1>7 DEF p, Span

\* The units of a block in pages are in the pages of its run.
LEMMA BlockUnits ==
    ASSUME HeapInv, NEW a \in DOMAIN blocks, ~(a < heap_end), NEW unit \in Span(a, blocks[a])
    PROVE  PageOf(unit) \in Span(PageOf(a), Run(PageOf(a)))
<1> DEFINE page == PageOf(a)
           end == AddressOf(page + Run(page))
<1>1. a \in Nat /\ blocks[a] \in Nat \ {0}
  BY HeapFacts DEF HeapInv
<1>2. unit \in Nat /\ a <= unit /\ unit < a + blocks[a]
  BY <1>1 DEF Span
<1>3. page \in DOMAIN pool_pages \cup DOMAIN large_blocks /\ a + blocks[a] <= end
  BY BlockInRun
<1>4. page \in Nat /\ Run(page) \in Nat
  BY <1>3, RunFacts
<1>5. AddressOf(page) <= a /\ AddressOf(page) \in Nat
  BY <1>1, <1>4, UnitInPage, PageSize DEF AddressOf
<1>6. end \in Nat
  <2>1. PageUnits \in Nat /\ page + Run(page) \in Nat
    BY <1>4, PageSize
  <2> HIDE DEF page
  <2> QED BY <2>1 DEF AddressOf
<1> HIDE DEF page, end
<1>7. AddressOf(page) <= unit /\ unit < end
  BY <1>1, <1>2, <1>3, <1>5, <1>6
<1> QED BY <1>2, <1>4, <1>7, UnitInRun DEF page, end

\* A block is in memory the heap has.
LEMMA BlockInMemory ==
    ASSUME HeapInv, NEW a \in DOMAIN blocks
    PROVE  Span(a, blocks[a]) \subseteq Addresses
<1> SUFFICES ASSUME NEW unit \in Span(a, blocks[a]) PROVE unit \in Addresses
  OBVIOUS
<1>1. /\ a \in Nat /\ blocks[a] \in Nat \ {0} /\ a \in Addresses
      /\ heap_current \in Nat /\ heap_current <= heap_end /\ heap_end \in Nat
  BY HeapFacts DEF HeapInv
<1>2. unit \in Nat /\ a <= unit /\ unit < a + blocks[a]
  BY <1>1 DEF Span
<1>3. CASE a < heap_end
  <2>1. a + blocks[a] <= heap_current
    BY <1>3, StartupBlocks DEF HeapInv, InStartup
  <2>2. unit < heap_end
    BY <1>1, <1>2, <2>1
  <2>3. \A u, h \in Nat, p \in Nat \ {0} : h * u \in Nat /\ (h + p) * u \in Nat /\ h * u <= (h + p) * u
    OBVIOUS
  <2>4. heap_end <= (HeapPages + PageCount) * PageUnits /\ (HeapPages + PageCount) * PageUnits \in Nat
    BY <2>3, MemoryAssumption, PageSize DEF heap_end
  <2> QED BY <1>1, <1>2, <2>2, <2>4 DEF Addresses
<1>4. CASE ~(a < heap_end)
  <2> DEFINE page == PageOf(unit)
  <2>1. PageOf(a) \in DOMAIN pool_pages \cup DOMAIN large_blocks /\ page \in Span(PageOf(a), Run(PageOf(a)))
    BY <1>4, BlockInRun, BlockUnits
  <2>2. page \in Pages
    BY <2>1, RunFacts
  <2>3. page \in Nat /\ AddressOf(page) <= unit /\ unit < AddressOf(page) + PageUnits
    BY <1>2, UnitInPage
  <2>4. AddressOf(page) \in Nat /\ PageUnits \in Nat
    BY <2>3, PageSize DEF AddressOf
  <2> HIDE DEF page
  <2>5. unit - AddressOf(page) \in 0 .. PageUnits - 1 /\ unit = AddressOf(page) + (unit - AddressOf(page))
    BY <1>2, <2>3, <2>4
  <2> QED BY <2>2, <2>5, Regions
<1> QED BY <1>3, <1>4

\* kernel_malloc and kernel_free: no unit is held twice, or held and used for a header.
LEMMA HeapDisjoint == ASSUME HeapInv PROVE BlocksDisjoint
<1> DEFINE units(a) == Span(a, blocks[a])
           poolHeaders == {AddressOf(page) + k : page \in DOMAIN pool_pages, k \in 0 .. PoolHeader - 1}
           largeHeaders == {AddressOf(page) + k : page \in DOMAIN large_blocks, k \in 0 .. LargeHeader - 1}
<1>1. /\ \A a \in DOMAIN blocks : a \in Nat /\ blocks[a] \in Nat \ {0}
      /\ heap_current \in Nat /\ heap_current <= heap_end /\ heap_end \in Nat
  BY HeapFacts DEF HeapInv
<1>2. \A a \in DOMAIN blocks : a < heap_end => a + blocks[a] <= heap_current
  BY StartupBlocks DEF HeapInv, InStartup
<1>3. ASSUME NEW a \in DOMAIN blocks, NEW b \in DOMAIN blocks, a < b PROVE units(a) \cap units(b) = {}
  <2>1. a \in Nat /\ b \in Nat /\ blocks[a] \in Nat /\ blocks[b] \in Nat
    BY <1>1
  <2>2. CASE a < heap_end
    <3>1. a + blocks[a] <= b
      <4>1. CASE b < heap_end
        BY <1>3, <4>1 DEF HeapInv, StartupApart
      <4>2. CASE ~(b < heap_end)
        BY <1>1, <1>2, <2>1, <2>2, <4>2
      <4> QED BY <4>1, <4>2
    <3> QED BY <2>1, <3>1 DEF Span
  <2>3. CASE ~(a < heap_end)
    <3>1. ~(b < heap_end)
      BY <1>1, <1>3, <2>1, <2>3
    <3>2. /\ PageOf(a) \in DOMAIN pool_pages \cup DOMAIN large_blocks
          /\ PageOf(b) \in DOMAIN pool_pages \cup DOMAIN large_blocks
      BY <2>3, <3>1, BlockInRun
    <3>3. CASE PageOf(a) # PageOf(b)
      <4>1. Span(PageOf(a), Run(PageOf(a))) \cap Span(PageOf(b), Run(PageOf(b))) = {}
        BY <3>2, <3>3, RunsDisjoint
      <4>2. /\ \A unit \in units(a) : PageOf(unit) \in Span(PageOf(a), Run(PageOf(a)))
            /\ \A unit \in units(b) : PageOf(unit) \in Span(PageOf(b), Run(PageOf(b)))
        BY <2>3, <3>1, BlockUnits
      <4> HIDE DEF units
      <4> QED BY <4>1, <4>2
    <3>4. CASE PageOf(a) = PageOf(b)
      <4> DEFINE page == PageOf(a)
      <4>1. page \in DOMAIN pool_pages
        <5> SUFFICES ASSUME page \notin DOMAIN pool_pages PROVE FALSE
          OBVIOUS
        <5>1. AddressOf(page) + LargeHeader = a /\ AddressOf(page) + LargeHeader = b
          BY <2>3, <3>1, <3>4, BlockInRun
        <5> QED BY <1>3, <2>1, <5>1
      <4>2. a \in HeldIn(page, blocks) /\ b \in HeldIn(page, blocks)
        BY <3>4 DEF HeldIn
      <4> HIDE DEF page
      <4> DEFINE class == pool_pages[page].chunk_size
      <4>3. /\ page \in Pages /\ class \in SizeClasses /\ class \in Nat
            /\ ChunksExact(page, pool_pages[page], blocks)
        BY <4>1, HeapFacts, ClassFacts DEF HeapInv, PagesExact, Headers
      <4>4. a \in Chunks(page, class) /\ b \in Chunks(page, class) /\ blocks[a] <= class
        BY <4>2, <4>3 DEF ChunksExact
      <4>5. a + class <= b
        BY <1>3, <4>3, <4>4, ChunkFacts
      <4> HIDE DEF class
      <4> QED BY <2>1, <4>3, <4>4, <4>5 DEF Span
    <3> QED BY <3>3, <3>4
  <2> QED BY <2>2, <2>3
<1>4. ASSUME NEW a \in DOMAIN blocks, NEW b \in DOMAIN blocks, a # b PROVE units(a) \cap units(b) = {}
  <2>1. a < b \/ b < a
    BY <1>1, <1>4
  <2> HIDE DEF units
  <2> QED BY <1>3, <2>1
<1>5. \* A header is in the first page of a run, and behind it the blocks of the run begin.
      ASSUME NEW a \in DOMAIN blocks, NEW page \in DOMAIN pool_pages \cup DOMAIN large_blocks,
             NEW size \in Nat, size < PageUnits, NEW k \in 0 .. size - 1, AddressOf(page) + k \in units(a),
             ~(a < heap_end) /\ PageOf(a) = page => AddressOf(page) + size <= a
      PROVE  FALSE
  <2> DEFINE unit == AddressOf(page) + k
  <2>1. PageUnits \in Nat \ {0} /\ page \in Nat /\ page \in Pages /\ AddressOf(page) \in Nat
    BY PageSize, RunFacts, HeapFacts DEF HeapInv, AddressOf
  <2>2. k \in 0 .. PageUnits - 1
    BY <1>5, <2>1
  <2>3. PageOf(unit) = page /\ unit \in Nat /\ unit >= heap_end
    BY <2>1, <2>2, PageOfUnit, Regions
  <2>4. a <= unit /\ unit < a + blocks[a]
    BY <1>1, <1>5, <2>3 DEF Span
  <2>5. ~(a < heap_end)
    BY <1>1, <1>2, <2>3, <2>4
  <2>6. page \in Span(PageOf(a), Run(PageOf(a))) /\ PageOf(a) \in DOMAIN pool_pages \cup DOMAIN large_blocks
    BY <1>5, <2>3, <2>5, BlockUnits, BlockInRun
  <2>7. page \in Span(page, Run(page))
    BY RunFacts
  <2>8. PageOf(a) = page
    BY <2>6, <2>7, RunsDisjoint
  <2>9. AddressOf(page) + size <= a
    BY <1>5, <2>5, <2>8
  <2> QED BY <1>1, <2>1, <2>4, <2>9
<1>6. ASSUME NEW a \in DOMAIN blocks PROVE units(a) \cap poolHeaders = {}
  <2> SUFFICES ASSUME NEW page \in DOMAIN pool_pages, NEW k \in 0 .. PoolHeader - 1,
                      AddressOf(page) + k \in units(a)
               PROVE  FALSE
    OBVIOUS
  <2>1. PoolHeader \in Nat /\ PoolHeader < PageUnits
    BY PageSize
  <2>2. ~(a < heap_end) /\ PageOf(a) = page => AddressOf(page) + PoolHeader <= a
    BY BlockInRun
  <2> HIDE DEF units
  <2> QED BY <1>5, <2>1, <2>2
<1>7. ASSUME NEW a \in DOMAIN blocks PROVE units(a) \cap largeHeaders = {}
  <2> SUFFICES ASSUME NEW page \in DOMAIN large_blocks, NEW k \in 0 .. LargeHeader - 1,
                      AddressOf(page) + k \in units(a)
               PROVE  FALSE
    OBVIOUS
  <2>1. LargeHeader \in Nat /\ LargeHeader < PageUnits
    BY PageSize
  <2>2. page \notin DOMAIN pool_pages
    <3>1. page \in Nat /\ large_blocks[page] \in Nat \ {0}
      BY HeapFacts, Regions DEF HeapInv
    <3>2. page \in Span(page, large_blocks[page])
      BY <3>1 DEF Span
    <3> QED BY <3>2 DEF HeapInv, RunsApart
  <2>3. ~(a < heap_end) /\ PageOf(a) = page => AddressOf(page) + LargeHeader = a
    BY <2>2, BlockInRun
  <2>4. ~(a < heap_end) /\ PageOf(a) = page => AddressOf(page) + LargeHeader <= a
    BY <1>1, <2>3
  <2> HIDE DEF units
  <2> QED BY <1>5, <2>1, <2>4
<1>8. ASSUME NEW a \in DOMAIN blocks
      PROVE  \/ units(a) \subseteq heap_begin .. heap_current - 1
             \/ {PageOf(unit) : unit \in units(a)} \subseteq TakenPages
  <2>1. CASE a < heap_end
    BY <1>1, <1>2, <2>1 DEF Span, heap_begin
  <2>2. CASE ~(a < heap_end)
    <3>1. PageOf(a) \in DOMAIN pool_pages \cup DOMAIN large_blocks
      BY <2>2, BlockInRun
    <3>2. Span(PageOf(a), Run(PageOf(a))) \subseteq TakenPages
      BY <3>1, RunFacts
    <3> QED BY <2>2, <3>2, BlockUnits
  <2> QED BY <2>1, <2>2
<1> HIDE DEF poolHeaders, largeHeaders
<1>9. \A a \in DOMAIN blocks : units(a) \cap (poolHeaders \cup largeHeaders) = {}
  <2> HIDE DEF units
  <2> QED BY <1>6, <1>7
<1> QED BY <1>4, <1>8, <1>9 DEF BlocksDisjoint, poolHeaders, largeHeaders

\* free_small and allocate_small: chunks and lists agree.
LEMMA HeapExact == ASSUME HeapInv PROVE PoolsExact
<1>1. ASSUME NEW page \in DOMAIN pool_pages
      PROVE  LET header == pool_pages[page]
                 free == {header.first_free[k] : k \in DOMAIN header.first_free}
                 held == {address \in DOMAIN blocks : PageOf(address) = page}
             IN /\ Cardinality(free) = Len(header.first_free)
                /\ free \cap held = {}
                /\ held # {}
                /\ Cardinality(free) + Cardinality(held) = header.chunk_count
                /\ (free # {}) <=> \E k \in DOMAIN available_pages[header.chunk_size] :
                                      available_pages[header.chunk_size][k] = page
  <2> DEFINE header == pool_pages[page]
             class == header.chunk_size
             free == Listed(header.first_free)
             held == HeldIn(page, blocks)
  <2>1. /\ page \in Pages /\ header \in Headers /\ class \in SizeClasses
        /\ header.first_free \in Seq(Addresses)
        /\ ChunksExact(page, header, blocks) /\ held # {}
    BY HeapFacts DEF HeapInv, PagesExact, Headers
  <2>2. Cardinality(free) = Len(header.first_free)
    BY <2>1, ListSize DEF ChunksExact
  <2>3. free \cap held = {}
    BY <2>1 DEF ChunksExact
  <2>4. Len(header.first_free) + Cardinality(held) = header.chunk_count
    BY <2>1, EmptyPage
  <2>5. Listed(available_pages[class]) = Available(class)
    BY <2>1 DEF HeapInv, PagesListed
  <2>6. page \in Available(class) <=> header.first_free # <<>>
    BY DEF Available
  <2>7. free # {} <=> header.first_free # <<>>
    <3>1. \A q \in Seq(Addresses) : {q[k] : k \in DOMAIN q} # {} <=> q # <<>>
      <4> SUFFICES ASSUME NEW q \in Seq(Addresses) PROVE {q[k] : k \in DOMAIN q} # {} <=> q # <<>>
        OBVIOUS
      <4>1. Len(q) \in Nat /\ DOMAIN q = 1 .. Len(q) /\ (q = <<>> <=> Len(q) = 0)
        OBVIOUS
      <4>2. Len(q) # 0 => 1 \in DOMAIN q
        BY <4>1
      <4>3. Len(q) = 0 => DOMAIN q = {}
        BY <4>1
      <4> QED BY <4>1, <4>2, <4>3
    <3> QED BY <2>1, <3>1 DEF Listed
  <2>8. (free # {}) <=> page \in Listed(available_pages[class])
    BY <2>5, <2>6, <2>7
  <2>9. page \in Listed(available_pages[class])
          <=> \E k \in DOMAIN available_pages[class] : available_pages[class][k] = page
    BY DEF Listed
  <2>10. /\ free = {header.first_free[k] : k \in DOMAIN header.first_free}
         /\ held = {address \in DOMAIN blocks : PageOf(address) = page}
    BY DEF Listed, HeldIn
  <2> HIDE DEF free, held
  <2> QED BY <2>1, <2>2, <2>3, <2>4, <2>8, <2>9, <2>10
<1>2. ASSUME NEW class \in SizeClasses
      PROVE  LET queue == available_pages[class]
             IN /\ \A j, k \in DOMAIN queue : queue[j] = queue[k] => j = k
                /\ \A k \in DOMAIN queue : /\ queue[k] \in DOMAIN pool_pages
                                           /\ pool_pages[queue[k]].chunk_size = class
  <2> DEFINE queue == available_pages[class]
  <2>1. Distinct(queue) /\ Listed(queue) = Available(class)
    BY DEF HeapInv, PagesListed
  <2>2. \A k \in DOMAIN queue : queue[k] \in Available(class)
    BY <2>1 DEF Listed
  <2> QED BY <2>1, <2>2 DEF Distinct, Available
<1> QED BY <1>1, <1>2 DEF PoolsExact

\* kernel_free finds every block that is held: no check of free_small rejects it, and no
\* block of a run is mistaken.
FreesSucceed ==
    \A address \in DOMAIN blocks :
        ready /\ address >= heap_end =>
            IF PageOf(address) \in DOMAIN pool_pages THEN IsChunk(PageOf(address), address)
            ELSE address = AddressOf(PageOf(address)) + LargeHeader

\* The invariant implies it: a held block is one of the chunks of its page.
LEMMA HeapFrees == ASSUME HeapInv PROVE FreesSucceed
<1> SUFFICES ASSUME NEW address \in DOMAIN blocks, address >= heap_end
             PROVE  IF PageOf(address) \in DOMAIN pool_pages THEN IsChunk(PageOf(address), address)
                    ELSE address = AddressOf(PageOf(address)) + LargeHeader
  BY DEF FreesSucceed
<1> DEFINE page == PageOf(address)
           header == pool_pages[page]
<1>1. address \in Nat /\ heap_end \in Nat /\ ~(address < heap_end)
  BY HeapFacts DEF HeapInv
<1>2. CASE page \notin DOMAIN pool_pages
  BY <1>1, <1>2, BlockInRun
<1>3. CASE page \in DOMAIN pool_pages
  <2>1. /\ page \in Pages /\ header \in Headers /\ header.chunk_size \in SizeClasses
        /\ ChunksExact(page, header, blocks) /\ HeldIn(page, blocks) # {}
    BY <1>3, HeapFacts DEF HeapInv, PagesExact, Headers
  <2>2. address \in Chunks(page, header.chunk_size) /\ header.chunk_count = ChunkCount(header.chunk_size)
    BY <2>1 DEF ChunksExact, HeldIn
  <2>3. /\ address - AddressOf(page) - PoolHeader \in Nat
        /\ address - AddressOf(page) - PoolHeader < header.chunk_count * header.chunk_size
        /\ (address - AddressOf(page) - PoolHeader) % header.chunk_size = 0
    BY <2>1, <2>2, ChunkFacts
  <2>4. Len(header.first_free) < header.chunk_count
    <3>1. header.first_free \in Seq(Addresses) /\ header.chunk_count \in Nat
      BY <2>1 DEF Headers
    <3>2. Len(header.first_free) \in Nat
      BY <3>1
    <3>3. Len(header.first_free) <= header.chunk_count /\ Len(header.first_free) # header.chunk_count
      BY <2>1, EmptyPage
    <3> QED BY <3>1, <3>2, <3>3
  <2> HIDE DEF page
  <2>5. IsChunk(page, address)
    BY <2>3, <2>4 DEF IsChunk
  <2> QED BY <1>3, <2>5 DEF page
<1> QED BY <1>2, <1>3
-------------------------------------------------------------------------------
(* The invariant of the mailbox *)

\* The request that has been sent and whose answer has not been read.
Outstanding == IF pending_allocation # NULL THEN <<Request(pending_allocation)>>
               ELSE IF phase = "waiting" THEN <<Request(allocation)>> ELSE <<>>

\* The variables of the mailbox keep their types.
CallType == /\ phase \in Phases /\ request_size \in CallSizes \cup {0}
            /\ {allocation, pending_allocation} \subseteq Addresses \cup {NULL}
            /\ requests \in Seq(Addresses) /\ responses \in Seq(Addresses)

\* The block of a call is held while its request is made or waited for, that of a call that
\* timed out until the answer comes, and there is never one of each.
BlocksHeld ==
    /\ allocation # NULL <=> phase \in {"sending", "waiting"}
    /\ pending_allocation # NULL => phase \in {"idle", "draining"}
    /\ pending_request = IF pending_allocation = NULL THEN NULL ELSE Request(pending_allocation)
    /\ Held \subseteq DOMAIN blocks
    /\ allocation # NULL => blocks[allocation] = request_size + Slack
    /\ pending_allocation # NULL => blocks[pending_allocation] >= Slack

\* The outstanding request is in one of the FIFOs, alone.
FifosExact == \/ requests = Outstanding /\ responses = <<>>
              \/ requests = <<>> /\ responses = Outstanding

\* The inductive invariant.
IInv == HeapInv /\ CallType /\ BlocksHeld /\ FifosExact

\* The request of a block of the mailbox is the address of a unit in it.
LEMMA RequestFacts ==
    ASSUME HeapInv, NEW a \in DOMAIN blocks, blocks[a] >= Slack
    PROVE  Request(a) \in {a, a + 1} /\ Request(a) \in Addresses /\ Request(a) \in Nat /\ a # NULL
<1>1. a \in Nat /\ blocks[a] \in Nat
  BY HeapFacts DEF HeapInv
<1>2. Request(a) \in {a, a + 1}
  BY <1>1 DEF Request
<1>3. a \in Span(a, blocks[a]) /\ a + 1 \in Span(a, blocks[a])
  BY <1>1 DEF Span, Slack
<1>4. a \in Addresses /\ a + 1 \in Addresses
  BY <1>3, BlockInMemory
<1> QED BY <1>1, <1>2, <1>4 DEF NULL

\* What the type of a call says.
LEMMA CallFacts ==
    ASSUME IInv
    PROVE  /\ request_size \in Nat /\ NULL \notin Nat /\ Addresses \subseteq Nat /\ NULL \notin Addresses
           /\ \A a \in Held : a \in DOMAIN blocks /\ blocks[a] >= Slack
           /\ Outstanding = <<>> \/ \E a \in Held : Outstanding = <<Request(a)>>
           /\ phase = "waiting" => allocation # NULL
<1>1. request_size \in Nat
  BY CallSizesAssumption DEF IInv, CallType
<1>2. Addresses \subseteq Nat /\ NULL \notin Nat
  BY Regions DEF NULL
<1>3. ASSUME NEW a \in Held PROVE a \in DOMAIN blocks /\ blocks[a] >= Slack
  BY <1>1, <1>3 DEF IInv, BlocksHeld, Held, Slack
<1>4. phase = "waiting" => allocation # NULL
  BY DEF IInv, BlocksHeld
<1>5. Outstanding = <<>> \/ \E a \in Held : Outstanding = <<Request(a)>>
  BY <1>4 DEF Outstanding, Held
<1> QED BY <1>1, <1>2, <1>3, <1>4, <1>5

\* Initially nothing is held.
LEMMA InitInv == Init => IInv
<1> SUFFICES ASSUME Init PROVE IInv
  OBVIOUS
<1>1. /\ heap_current = 0 /\ ready = FALSE /\ pool_pages = << >> /\ large_blocks = << >>
      /\ available_pages = NoPools /\ blocks = << >>
  BY DEF Init, HeapInit, heap_begin
<1>2. DOMAIN pool_pages = {} /\ DOMAIN large_blocks = {} /\ DOMAIN blocks = {}
  BY <1>1
<1>3. HeapType
  <2>1. heap_current \in heap_begin .. heap_end
    BY <1>1, Regions DEF heap_begin
  <2>2. available_pages \in [SizeClasses -> Seq(Pages)]
    BY <1>1 DEF NoPools
  <2>3. \A f, S : f = << >> => f \in [DOMAIN f -> S]
    OBVIOUS
  <2>4. /\ pool_pages \in [DOMAIN pool_pages -> Headers]
        /\ large_blocks \in [DOMAIN large_blocks -> Nat \ {0}]
        /\ blocks \in [DOMAIN blocks -> Nat \ {0}]
    BY <1>1, <2>3
  <2> QED BY <1>1, <1>2, <2>1, <2>2, <2>4 DEF HeapType
<1>4. NothingTaken /\ PagesExact /\ RunsApart /\ BlocksPlaced /\ StartupApart
  BY <1>2 DEF NothingTaken, PagesExact, RunsApart, BlocksPlaced, StartupApart
<1>5. PagesListed
  <2>1. \A class \in SizeClasses : available_pages[class] = <<>>
    BY <1>1 DEF NoPools
  <2> QED BY <1>2, <2>1 DEF PagesListed, Distinct, Listed, Available
<1>6. CallType
  BY DEF Init, CallType, Phases
<1>7. BlocksHeld
  BY DEF Init, BlocksHeld, Held
<1>8. FifosExact
  BY DEF Init, FifosExact, Outstanding
<1> QED BY <1>3, <1>4, <1>5, <1>6, <1>7, <1>8 DEF IInv, HeapInv

\* The invariant of the heap is about the variables of the heap only.
LEMMA HeapUnchanged == ASSUME HeapInv, heap' = heap PROVE HeapInv'
<1>1. /\ heap_current' = heap_current /\ ready' = ready /\ pool_pages' = pool_pages
      /\ large_blocks' = large_blocks /\ available_pages' = available_pages /\ blocks' = blocks
  BY DEF heap
<1>2. HeapType' /\ NothingTaken'
  BY <1>1 DEF HeapInv, HeapType, NothingTaken
<1>3. PagesExact' /\ RunsApart'
  BY <1>1 DEF HeapInv, PagesExact, RunsApart
<1>4. BlocksPlaced' /\ StartupApart'
  BY <1>1 DEF HeapInv, BlocksPlaced, StartupApart, InStartup, InPool, InRun
<1>5. PagesListed'
  BY <1>1 DEF HeapInv, PagesListed, Available
<1> QED BY <1>2, <1>3, <1>4, <1>5 DEF HeapInv

\* kernel_allocator_init: nothing has been taken of the buddy system yet.
LEMMA ReadyKeeps == ASSUME HeapInv, KernelAllocatorInit PROVE HeapInv' /\ blocks' = blocks
<1>1. /\ heap_current' = heap_current /\ ready' = TRUE /\ pool_pages' = pool_pages
      /\ large_blocks' = large_blocks /\ available_pages' = available_pages /\ blocks' = blocks
  BY DEF KernelAllocatorInit
<1>2. HeapType' /\ NothingTaken'
  BY <1>1 DEF HeapInv, HeapType, NothingTaken
<1>3. PagesExact' /\ RunsApart'
  BY <1>1 DEF HeapInv, PagesExact, RunsApart
<1>4. BlocksPlaced' /\ StartupApart'
  BY <1>1 DEF HeapInv, BlocksPlaced, StartupApart, InStartup, InPool, InRun
<1>5. PagesListed'
  BY <1>1 DEF HeapInv, PagesListed, Available
<1> QED BY <1>1, <1>2, <1>3, <1>4, <1>5 DEF HeapInv
-------------------------------------------------------------------------------
(* Each step of a call keeps the invariant *)

\* A call begins: nothing is allocated yet.
LEMMA CallKeeps == ASSUME IInv, NEW bytes \in CallSizes, Call(bytes) PROVE IInv'
<1>1. /\ phase = "idle" /\ request_size' = bytes /\ heap' = heap /\ allocation' = allocation
      /\ phase' = IF pending_allocation = NULL THEN "allocating" ELSE "draining"
      /\ pending_allocation' = pending_allocation /\ pending_request' = pending_request
      /\ requests' = requests /\ responses' = responses
  BY DEF Call, pending, fifos
<1>2. blocks' = blocks
  BY <1>1 DEF heap
<1>3. allocation = NULL
  BY <1>1 DEF IInv, BlocksHeld
<1>4. HeapInv'
  BY <1>1, HeapUnchanged DEF IInv
<1>5. CallType'
  BY <1>1 DEF IInv, CallType, Phases
<1>6. BlocksHeld'
  BY <1>1, <1>2, <1>3 DEF IInv, BlocksHeld, Held
<1>7. FifosExact'
  <2>1. Outstanding' = Outstanding
    BY <1>1 DEF Outstanding
  <2> QED BY <1>1, <2>1 DEF IInv, FifosExact
<1> QED BY <1>4, <1>5, <1>6, <1>7 DEF IInv

\* The late answer is the only one there is.
LEMMA DrainReadKeeps == ASSUME IInv, DrainRead PROVE IInv'
<1>1. /\ phase = "draining" /\ responses # <<>> /\ responses' = Tail(responses)
      /\ request_size' = request_size /\ allocation' = allocation /\ requests' = requests
  BY DEF DrainRead
<1>2. allocation = NULL
  BY <1>1 DEF IInv, BlocksHeld
<1>3. pending_allocation # NULL /\ requests = <<>> /\ responses = <<Request(pending_allocation)>>
  <2>1. Outstanding # <<>> /\ requests = <<>> /\ responses = Outstanding
    BY <1>1 DEF IInv, FifosExact
  <2> QED BY <1>1, <2>1 DEF Outstanding
<1>4. Head(responses) = pending_request /\ Tail(responses) = <<>>
  BY <1>3 DEF IInv, BlocksHeld
<1>5. /\ Free(pending_allocation) /\ pending_allocation' = NULL /\ pending_request' = NULL
      /\ phase' = "allocating"
  BY <1>4 DEF DrainRead
<1>6. pending_allocation \in DOMAIN blocks
  BY <1>3, CallFacts DEF Held
<1>7. HeapInv'
  BY <1>5, <1>6, FreeKeeps DEF IInv
<1>8. CallType'
  BY <1>1, <1>3, <1>4, <1>5 DEF IInv, CallType, Phases
<1>9. BlocksHeld'
  BY <1>1, <1>2, <1>5 DEF BlocksHeld, Held
<1>10. FifosExact'
  BY <1>1, <1>3, <1>4, <1>5 DEF FifosExact, Outstanding
<1> QED BY <1>7, <1>8, <1>9, <1>10 DEF IInv

\* The late answer has still not come: the block stays retained.
LEMMA DrainTimeoutKeeps == ASSUME IInv, DrainTimeout PROVE IInv'
<1>1. /\ phase = "draining" /\ phase' = "idle" /\ request_size' = 0 /\ allocation' = NULL /\ heap' = heap
      /\ pending_allocation' = pending_allocation /\ pending_request' = pending_request
      /\ requests' = requests /\ responses' = responses
  BY DEF DrainTimeout, Return, pending, fifos
<1>2. blocks' = blocks /\ allocation = NULL
  BY <1>1 DEF heap, IInv, BlocksHeld
<1>3. HeapInv'
  BY <1>1, HeapUnchanged DEF IInv
<1>4. CallType'
  BY <1>1 DEF IInv, CallType, Phases
<1>5. BlocksHeld'
  BY <1>1, <1>2 DEF IInv, BlocksHeld, Held
<1>6. FifosExact'
  <2>1. Outstanding' = Outstanding
    BY <1>1 DEF Outstanding
  <2> QED BY <1>1, <2>1 DEF IInv, FifosExact
<1> QED BY <1>3, <1>4, <1>5, <1>6 DEF IInv

\* A call gets a block nobody holds.
LEMMA AllocateKeeps == ASSUME IInv, Allocate PROVE IInv'
<1>1. PICK address \in Addresses : Malloc(request_size + Slack, address) /\ allocation' = address
  BY DEF Allocate
<1>2. /\ phase = "allocating" /\ phase' = "sending" /\ request_size' = request_size
      /\ pending_allocation' = pending_allocation /\ pending_request' = pending_request
      /\ requests' = requests /\ responses' = responses
  BY DEF Allocate, pending, fifos
<1>3. pending_allocation = NULL /\ allocation = NULL
  BY <1>2 DEF IInv, BlocksHeld
<1>4. request_size + Slack \in Nat \ {0} /\ address # NULL
  BY CallFacts DEF Slack
<1>5. /\ HeapInv' /\ DOMAIN blocks' = DOMAIN blocks \cup {address}
      /\ blocks'[address] = request_size + Slack
  BY <1>1, <1>4, MallocKeeps DEF IInv
<1>6. CallType'
  BY <1>1, <1>2 DEF IInv, CallType, Phases
<1>7. BlocksHeld'
  BY <1>1, <1>2, <1>3, <1>4, <1>5 DEF IInv, BlocksHeld, Held
<1>8. FifosExact'
  <2>1. Outstanding' = Outstanding
    BY <1>2, <1>3 DEF Outstanding
  <2> QED BY <1>2, <2>1 DEF IInv, FifosExact
<1> QED BY <1>5, <1>6, <1>7, <1>8 DEF IInv

\* A call that gets no block leaves everything as it was.
LEMMA AllocateFailsKeeps == ASSUME IInv, AllocateFails PROVE IInv'
<1>1. /\ phase = "allocating" /\ phase' = "idle" /\ request_size' = 0 /\ allocation' = NULL /\ heap' = heap
      /\ pending_allocation' = pending_allocation /\ pending_request' = pending_request
      /\ requests' = requests /\ responses' = responses
  BY DEF AllocateFails, MallocFails, Return, pending, fifos
<1>2. blocks' = blocks /\ allocation = NULL
  BY <1>1 DEF heap, IInv, BlocksHeld
<1>3. HeapInv'
  BY <1>1, HeapUnchanged DEF IInv
<1>4. CallType'
  BY <1>1 DEF IInv, CallType, Phases
<1>5. BlocksHeld'
  BY <1>1, <1>2 DEF IInv, BlocksHeld, Held
<1>6. FifosExact'
  <2>1. Outstanding' = Outstanding
    BY <1>1 DEF Outstanding
  <2> QED BY <1>1, <2>1 DEF IInv, FifosExact
<1> QED BY <1>3, <1>4, <1>5, <1>6 DEF IInv

\* The request is sent when no other is outstanding.
LEMMA SendKeeps == ASSUME IInv, Send PROVE IInv'
<1>1. /\ phase = "sending" /\ phase' = "waiting" /\ requests' = Append(requests, Request(allocation))
      /\ heap' = heap /\ request_size' = request_size /\ allocation' = allocation
      /\ pending_allocation' = pending_allocation /\ pending_request' = pending_request
      /\ responses' = responses
  BY DEF Send, pending
<1>2. blocks' = blocks /\ allocation # NULL /\ pending_allocation = NULL
  BY <1>1 DEF heap, IInv, BlocksHeld
<1>3. requests = <<>> /\ responses = <<>>
  BY <1>1, <1>2 DEF IInv, FifosExact, Outstanding
<1>4. requests' = <<Request(allocation)>>
  BY <1>1, <1>3
<1>5. allocation \in Held
  BY <1>2 DEF Held
<1>6. Request(allocation) \in Addresses
  BY <1>5, CallFacts, RequestFacts DEF IInv
<1>7. HeapInv'
  BY <1>1, HeapUnchanged DEF IInv
<1>8. CallType'
  BY <1>1, <1>4, <1>6 DEF IInv, CallType, Phases
<1>9. BlocksHeld'
  BY <1>1, <1>2 DEF IInv, BlocksHeld, Held
<1>10. FifosExact'
  BY <1>1, <1>2, <1>3, <1>4 DEF FifosExact, Outstanding
<1> QED BY <1>7, <1>8, <1>9, <1>10 DEF IInv

\* A request that was not sent leaves its block to be freed.
LEMMA SendFailsKeeps == ASSUME IInv, SendFails PROVE IInv'
<1>1. /\ phase = "sending" /\ phase' = "idle" /\ request_size' = 0 /\ allocation' = NULL
      /\ Free(allocation)
      /\ pending_allocation' = pending_allocation /\ pending_request' = pending_request
      /\ requests' = requests /\ responses' = responses
  BY DEF SendFails, Return, pending, fifos
<1>2. allocation # NULL /\ pending_allocation = NULL
  BY <1>1 DEF IInv, BlocksHeld
<1>3. allocation \in DOMAIN blocks
  BY <1>2, CallFacts DEF Held
<1>4. HeapInv'
  BY <1>1, <1>3, FreeKeeps DEF IInv
<1>5. CallType'
  BY <1>1 DEF IInv, CallType, Phases
<1>6. BlocksHeld'
  BY <1>1, <1>2 DEF IInv, BlocksHeld, Held
<1>7. FifosExact'
  <2>1. Outstanding' = Outstanding
    BY <1>1, <1>2 DEF Outstanding
  <2> QED BY <1>1, <2>1 DEF IInv, FifosExact
<1> QED BY <1>4, <1>5, <1>6, <1>7 DEF IInv

\* The answer is that of the request waited for: the answers of earlier ones have been read.
LEMMA ReadKeeps == ASSUME IInv, Read PROVE IInv'
<1>1. /\ phase = "waiting" /\ responses # <<>> /\ responses' = Tail(responses)
      /\ pending_allocation' = pending_allocation /\ pending_request' = pending_request
      /\ requests' = requests
  BY DEF Read, pending
<1>2. allocation # NULL /\ pending_allocation = NULL
  BY <1>1 DEF IInv, BlocksHeld
<1>3. requests = <<>> /\ responses = <<Request(allocation)>>
  <2>1. Outstanding = <<Request(allocation)>>
    BY <1>1, <1>2 DEF Outstanding
  <2> QED BY <1>1, <2>1 DEF IInv, FifosExact
<1>4. Head(responses) = Request(allocation) /\ Tail(responses) = <<>>
  BY <1>3
<1>5. Free(allocation) /\ phase' = "idle" /\ request_size' = 0 /\ allocation' = NULL
  BY <1>4 DEF Read, Return
<1>6. allocation \in DOMAIN blocks
  BY <1>2, CallFacts DEF Held
<1>7. HeapInv'
  BY <1>5, <1>6, FreeKeeps DEF IInv
<1>8. CallType'
  BY <1>1, <1>4, <1>5 DEF IInv, CallType, Phases
<1>9. BlocksHeld'
  BY <1>1, <1>2, <1>5 DEF IInv, BlocksHeld, Held
<1>10. FifosExact'
  BY <1>1, <1>2, <1>3, <1>4, <1>5 DEF FifosExact, Outstanding
<1> QED BY <1>7, <1>8, <1>9, <1>10 DEF IInv

\* The block becomes that of the retained request, which is still outstanding.
LEMMA ReadTimeoutKeeps == ASSUME IInv, ReadTimeout PROVE IInv'
<1>1. /\ phase = "waiting" /\ phase' = "idle" /\ request_size' = 0 /\ allocation' = NULL
      /\ pending_allocation' = allocation /\ pending_request' = Request(allocation)
      /\ heap' = heap /\ requests' = requests /\ responses' = responses
  BY DEF ReadTimeout, Return, fifos
<1>2. blocks' = blocks /\ allocation # NULL /\ pending_allocation = NULL
  BY <1>1 DEF heap, IInv, BlocksHeld
<1>3. blocks[allocation] >= Slack /\ allocation \in DOMAIN blocks
  BY <1>2, CallFacts DEF Held
<1>4. HeapInv'
  BY <1>1, HeapUnchanged DEF IInv
<1>5. CallType'
  BY <1>1 DEF IInv, CallType, Phases
<1>6. BlocksHeld'
  BY <1>1, <1>2, <1>3 DEF BlocksHeld, Held
<1>7. FifosExact'
  <2>1. Outstanding' = Outstanding
    BY <1>1, <1>2 DEF Outstanding
  <2> QED BY <1>1, <2>1 DEF IInv, FifosExact
<1> QED BY <1>4, <1>5, <1>6, <1>7 DEF IInv

\* The firmware moves the request from one FIFO to the other.
LEMMA AnswerKeeps == ASSUME IInv, Answer PROVE IInv'
<1>1. /\ requests # <<>> /\ requests' = Tail(requests) /\ responses' = Append(responses, Head(requests))
      /\ heap' = heap /\ phase' = phase /\ request_size' = request_size /\ allocation' = allocation
      /\ pending_allocation' = pending_allocation /\ pending_request' = pending_request
  BY DEF Answer, call, pending
<1>2. blocks' = blocks
  BY <1>1 DEF heap
<1>3. responses = <<>> /\ requests = Outstanding
  BY <1>1 DEF IInv, FifosExact
<1>4. PICK a \in Held : Outstanding = <<Request(a)>>
  BY <1>1, <1>3, CallFacts
<1>5. requests = <<Request(a)>>
  BY <1>3, <1>4
<1>6. requests' = <<>> /\ responses' = <<Request(a)>>
  BY <1>1, <1>3, <1>5
<1>7. Request(a) \in Addresses
  BY CallFacts, RequestFacts DEF IInv
<1>8. HeapInv'
  BY <1>1, HeapUnchanged DEF IInv
<1>9. CallType'
  BY <1>1, <1>6, <1>7 DEF IInv, CallType
<1>10. BlocksHeld'
  BY <1>1, <1>2 DEF IInv, BlocksHeld, Held
<1>11. FifosExact'
  <2>1. Outstanding' = Outstanding
    BY <1>1 DEF Outstanding
  <2> QED BY <1>4, <1>6, <2>1 DEF FifosExact
<1> QED BY <1>8, <1>9, <1>10, <1>11 DEF IInv

\* Other clients free nothing the mailbox holds, and get nothing it holds.
LEMMA ClientsKeep == ASSUME IInv, Clients PROVE IInv'
<1>1. /\ phase = "idle" /\ phase' = phase /\ request_size' = request_size /\ allocation' = allocation
      /\ pending_allocation' = pending_allocation /\ pending_request' = pending_request
      /\ requests' = requests /\ responses' = responses
  BY DEF Clients, call, pending, fifos
<1>2. HeapInv' /\ \A a \in Held : a \in DOMAIN blocks' /\ blocks'[a] = blocks[a]
  <2>1. \A a \in Held : a \in DOMAIN blocks
    BY CallFacts
  <2>2. CASE ClientMalloc
    <3>1. PICK size \in Sizes, address \in Addresses : Malloc(size, address)
      BY <2>2 DEF ClientMalloc
    <3>2. size \in Nat \ {0}
      BY SizesAssumption
    <3>3. /\ HeapInv' /\ DOMAIN blocks' = DOMAIN blocks \cup {address}
          /\ \A a \in DOMAIN blocks : blocks'[a] = blocks[a]
      BY <3>1, <3>2, MallocKeeps DEF IInv
    <3> QED BY <2>1, <3>3
  <2>3. CASE \E address \in DOMAIN blocks \ Held : Free(address)
    <3>1. PICK address \in DOMAIN blocks \ Held : Free(address)
      BY <2>3
    <3>2. /\ HeapInv' /\ DOMAIN blocks' = DOMAIN blocks \ {address}
          /\ \A a \in DOMAIN blocks' : blocks'[a] = blocks[a]
      BY <3>1, FreeKeeps DEF IInv
    <3> QED BY <2>1, <3>1, <3>2
  <2>4. CASE KernelAllocatorInit
    BY <2>1, <2>4, ReadyKeeps DEF IInv
  <2> QED BY <2>2, <2>3, <2>4 DEF Clients
<1>3. CallType'
  BY <1>1 DEF IInv, CallType
<1>4. BlocksHeld'
  BY <1>1, <1>2 DEF IInv, BlocksHeld, Held
<1>5. FifosExact'
  <2>1. Outstanding' = Outstanding
    BY <1>1 DEF Outstanding
  <2> QED BY <1>1, <2>1 DEF IInv, FifosExact
<1> QED BY <1>2, <1>3, <1>4, <1>5 DEF IInv
-------------------------------------------------------------------------------
(* Theorems *)

\* Every step keeps the invariant.
LEMMA StepKeeps == IInv /\ [Next]_vars => IInv'
<1> SUFFICES ASSUME IInv, [Next]_vars PROVE IInv'
  OBVIOUS
<1>1. CASE \E bytes \in CallSizes : Call(bytes)
  BY <1>1, CallKeeps
<1>2. CASE Transaction
  BY <1>2, DrainReadKeeps, DrainTimeoutKeeps, AllocateKeeps, AllocateFailsKeeps, SendKeeps,
     SendFailsKeeps, ReadKeeps, ReadTimeoutKeeps DEF Transaction
<1>3. CASE Answer
  BY <1>3, AnswerKeeps
<1>4. CASE Clients
  BY <1>4, ClientsKeep
<1>5. CASE UNCHANGED vars
  <2>1. /\ heap' = heap /\ phase' = phase /\ request_size' = request_size /\ allocation' = allocation
        /\ pending_allocation' = pending_allocation /\ pending_request' = pending_request
        /\ requests' = requests /\ responses' = responses
    BY <1>5 DEF vars, call, pending, fifos
  <2>2. HeapInv' /\ blocks' = blocks
    BY <2>1, HeapUnchanged DEF IInv, heap
  <2>3. CallType'
    BY <2>1 DEF IInv, CallType
  <2>4. BlocksHeld'
    BY <2>1, <2>2 DEF IInv, BlocksHeld, Held
  <2>5. FifosExact'
    <3>1. Outstanding' = Outstanding
      BY <2>1 DEF Outstanding
    <3> QED BY <2>1, <3>1 DEF IInv, FifosExact
  <2> QED BY <2>2, <2>3, <2>4, <2>5 DEF IInv
<1> QED BY <1>1, <1>2, <1>3, <1>4, <1>5 DEF Next

\* The heap below the mailbox is exact, and the mailbox holds what the firmware has.
THEOREM InductiveInvariant == Spec => []IInv
<1>1. Init => IInv
  BY InitInv
<1>2. IInv /\ [Next]_vars => IInv'
  BY StepKeeps
<1> QED BY <1>1, <1>2, PTL DEF Spec

\* kernel_malloc and kernel_free, whoever calls them: what clients hold is disjoint, clear of
\* headers, and in memory the heap has.
THEOREM DisjointCorrect == Spec => []BlocksDisjoint
<1>1. IInv => BlocksDisjoint
  BY HeapDisjoint DEF IInv
<1> QED BY <1>1, InductiveInvariant, PTL

\* allocate_small and free_small: a chunk is free or held, and a page listed exactly while one
\* is free.
THEOREM PoolsCorrect == Spec => []PoolsExact
<1>1. IInv => PoolsExact
  BY HeapExact DEF IInv
<1> QED BY <1>1, InductiveInvariant, PTL

\* kernel_free: what is held can be freed.
THEOREM FreesCorrect == Spec => []FreesSucceed
<1>1. IInv => FreesSucceed
  BY HeapFrees DEF IInv
<1> QED BY <1>1, InductiveInvariant, PTL

\* mailbox_call: one request is outstanding at most, the one waited for or the retained one.
THEOREM OutstandingCorrect == Spec => []OutstandingExact
<1>1. IInv => OutstandingExact
  <2> SUFFICES ASSUME IInv PROVE OutstandingExact
    OBVIOUS
  <2>1. TypeOK
    <3>1. {allocation, pending_allocation, pending_request} \subseteq Addresses \cup {NULL}
      <4>1. pending_allocation # NULL => pending_allocation \in Held
        BY DEF Held
      <4>2. pending_allocation # NULL => Request(pending_allocation) \in Addresses
        BY <4>1, CallFacts, RequestFacts DEF IInv
      <4> QED BY <4>2 DEF IInv, CallType, BlocksHeld
    <3> QED BY <3>1 DEF TypeOK, IInv, HeapInv, HeapType, CallType
  <2>2. requests \o responses = Outstanding
    <3>1. \A s \in Seq(Addresses) : s \o <<>> = s /\ <<>> \o s = s
      OBVIOUS
    <3> QED BY <3>1 DEF IInv, FifosExact, CallType
  <2>3. Outstanding = <<>> \/ \E x : Outstanding = <<x>>
    BY DEF Outstanding
  <2>4. Len(Outstanding) <= 1
    <3>1. CASE Outstanding = <<>>
      BY <3>1
    <3>2. CASE \E x : Outstanding = <<x>>
      <4>1. PICK x : Outstanding = <<x>>
        BY <3>2
      <4>2. Len(<<x>>) = 1
        OBVIOUS
      <4> QED BY <4>1, <4>2
    <3> QED BY <2>3, <3>1, <3>2
  <2>5. pending_allocation # NULL => Outstanding = <<pending_request>>
    BY DEF IInv, BlocksHeld, Outstanding
  <2>6. phase = "waiting" => Outstanding = <<Request(allocation)>>
    BY DEF IInv, BlocksHeld, Outstanding
  <2>7. pending_allocation = NULL /\ phase # "waiting" => Outstanding = <<>>
    BY DEF Outstanding
  <2> QED BY <2>1, <2>2, <2>4, <2>5, <2>6, <2>7 DEF OutstandingExact
<1> QED BY <1>1, InductiveInvariant, PTL

\* mailbox_call: "never reuse memory still used by VC".
THEOREM BuffersCorrect == Spec => []VcOwnsItsBuffer
<1>1. IInv => VcOwnsItsBuffer
  <2> SUFFICES ASSUME IInv PROVE VcOwnsItsBuffer
    OBVIOUS
  <2>1. Held \subseteq DOMAIN blocks
    BY DEF IInv, BlocksHeld
  <2>2. ASSUME NEW k \in DOMAIN requests
        PROVE  \E address \in Held :
                  /\ requests[k] = Request(address)
                  /\ phase \in {"sending", "waiting"} /\ address = allocation =>
                       Span(requests[k], request_size) \subseteq Span(address, blocks[address])
    <3>1. requests # <<>> /\ requests = Outstanding
      BY <2>2 DEF IInv, FifosExact
    <3>2. PICK a \in Held : Outstanding = <<Request(a)>>
      BY <3>1, CallFacts
    <3>3. requests[k] = Request(a)
      BY <3>1, <3>2
    <3>4. /\ a \in DOMAIN blocks /\ blocks[a] >= Slack /\ a \in Nat /\ blocks[a] \in Nat
          /\ Request(a) \in {a, a + 1} /\ request_size \in Nat
      BY <2>1, CallFacts, RequestFacts, HeapFacts DEF IInv, HeapInv
    <3>5. ASSUME phase \in {"sending", "waiting"}, a = allocation
          PROVE  Span(Request(a), request_size) \subseteq Span(a, blocks[a])
      <4>1. blocks[a] = request_size + 2
        BY <3>5 DEF IInv, BlocksHeld, Slack
      <4> QED BY <3>4, <4>1 DEF Span
    <3> QED BY <3>3, <3>5
  <2> QED BY <2>1, <2>2 DEF VcOwnsItsBuffer
<1> QED BY <1>1, InductiveInvariant, PTL
===============================================================================
