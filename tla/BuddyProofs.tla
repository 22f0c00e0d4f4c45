------------------------------- MODULE BuddyProofs -------------------------------
(***************************************************************************)
(* Theorems about Buddy, for every number of pages, every largest order    *)
(* and every set of reserved pages.                                        *)
(***************************************************************************)
EXTENDS Buddy, FiniteSetTheorems, TLAPS
-------------------------------------------------------------------------------
(* The inductive invariant *)

\* The elements of a list, and that none is in it twice.
Listed(queue) == {queue[k] : k \in DOMAIN queue}
Distinct(queue) == \A j, k \in DOMAIN queue : queue[j] = queue[k] => j = k

\* A table of page descriptors, its blocks and their pages.
Tables == [Pages -> [state : States, order : Orders]]
Heads(pg) == {p \in Pages : pg[p].state \in {"free", "allocated"}}
Ext(pg, p) == Span(p, Size[pg[p].order])

\* Blocks lie inside the managed range, aligned and disjoint, and tails lie inside blocks.
Tiles(pg) ==
    /\ \A p \in Heads(pg) : /\ Ext(pg, p) \subseteq Pages
                            /\ p % Size[pg[p].order] = 0
                            /\ \A q \in Ext(pg, p) \ {p} : pg[q].state = "tail"
    /\ \A q \in Pages : pg[q].state = "tail" => \E p \in Heads(pg) : q \in Ext(pg, p)

\* The free blocks of an order that are not hidden, and lists that hold them.
FreeAt(pg, hidden, k) == {p \in Pages \ hidden : pg[p].state = "free" /\ pg[p].order = k}
Lists(list, count, pg, hidden) ==
    \A k \in Orders : /\ Distinct(list[k])
                      /\ Listed(list[k]) = FreeAt(pg, hidden, k)
                      /\ count[k] = Len(list[k])

\* What the running operation w has taken in hand, and the pages whose blocks are on no list.
Hand(w) == IF w.op \in {"splitting", "merging"} THEN {w.page} ELSE {}
HiddenBy(w) == IF w.op \in {"reserving", "joining"} THEN Pages
               ELSE IF w.op = "listing" THEN w.page .. PageCount - 1 ELSE Hand(w)

\* The pages of allocated blocks, and a set that consists of whole ones.
AllocatedPages(pg) == UNION {Ext(pg, p) : p \in {q \in Pages : pg[q].state = "allocated"}}
Whole(pg, S) == /\ S \subseteq Pages
                /\ \A q \in S : \E p \in S : /\ pg[p].state = "allocated"
                                             /\ Ext(pg, p) \subseteq S /\ q \in Ext(pg, p)

\* The allocated pages of the running operation, which no caller owns yet, or any more.
HeldBy(w) == IF w.op = "trimming" THEN Span(w.base, w.page - w.base + Size[w.order])
             ELSE IF w.op = "freeing" THEN Span(w.page, w.left)
             ELSE IF w.op = "merging" THEN Span(w.base, w.left)
             ELSE {}

\* Callers own whole blocks, and together with the operation all of them.
Covered(ow) == UNION {Span(a[1], a[2]) : a \in ow}
Owning(pg, ow, held) ==
    /\ \A a \in ow : Whole(pg, Span(a[1], a[2])) /\ Span(a[1], a[2]) \cap held = {}
    /\ \A a, b \in ow : a # b => Span(a[1], a[2]) \cap Span(b[1], b[2]) = {}
    /\ Whole(pg, held)
    /\ Covered(ow) \cup held = AllocatedPages(pg)

\* Two free halves of a block do not stay apart: none do behind the sweep of buddy_build, and
\* later one of them is in hand.
Swept(w, p, k) == w.op = "joining" => k < w.order \/ (k = w.order /\ p < w.page)
Joinless(pg, w) ==
    w.op # "reserving" =>
        \A k \in 0 .. MaxOrder - 1 : \A p \in FreeAt(pg, Hand(w), k) :
            Swept(w, p, k) /\ p % Size[k + 1] = 0 => p + Size[k] \notin FreeAt(pg, Hand(w), k)

\* What the variables of each loop are.
Starting == work.op \in {"reserving", "joining", "listing"} =>
                owned = {} /\ \A p \in Pages : pages[p].state # "allocated"
Reserving == Doing("reserving") =>
                /\ work.page = 0 /\ work.order = 0
                /\ \A p \in Pages : pages[p].order = 0 /\ pages[p].state \in {"free", "reserved"}
Joining == Doing("joining") /\ work.order < MaxOrder => work.page % Size[work.order + 1] = 0
HandFree == work.op \in {"splitting", "merging"} =>
                /\ work.page \in Pages
                /\ pages[work.page].state = "free" /\ pages[work.page].order = work.order
Splitting == Doing("splitting") => /\ work.count \in 1 .. Size[MaxOrder] /\ work.left = work.count
                                   /\ OrderFor(work.count) <= work.order /\ work.base = work.page
Trimming == Doing("trimming") =>
                /\ work.page \in Pages /\ work.base <= work.page
                /\ pages[work.page].state = "allocated" /\ pages[work.page].order = work.order
                /\ work.left \in 1 .. Size[work.order]
                /\ work.page + work.left = work.base + work.count
Checking == Doing("checking") =>
                /\ <<work.base, work.count>> \in Requests
                /\ work.base <= work.page /\ work.page + work.left = work.base + work.count
                /\ work.base + work.count <= PageCount
                /\ Whole(pages, Span(work.base, work.page - work.base))
Loops == Starting /\ Reserving /\ Joining /\ HandFree /\ Splitting /\ Trimming /\ Checking

\* The inductive invariant.
IInv == /\ TypeOK /\ Tiles(pages) /\ Lists(free_list, free_count, pages, HiddenBy(work))
        /\ Owning(pages, owned, HeldBy(work)) /\ Joinless(pages, work) /\ Loops
-------------------------------------------------------------------------------
(* The lists *)

\* Appending an element that is not in a list of distinct elements keeps them distinct.
LEMMA AppendDistinct ==
    ASSUME NEW S, NEW q \in Seq(S), NEW x \in S, Distinct(q), x \notin Listed(q)
    PROVE  /\ Append(q, x) \in Seq(S)
           /\ Listed(Append(q, x)) = Listed(q) \cup {x}
           /\ Distinct(Append(q, x))
<1>1. Append(q, x) \in Seq(S) /\ Len(Append(q, x)) = Len(q) + 1
  OBVIOUS
<1>2. \A i \in 1 .. Len(q) : Append(q, x)[i] = q[i]
  OBVIOUS
<1>3. Append(q, x)[Len(q) + 1] = x
  OBVIOUS
<1>4. DOMAIN Append(q, x) = 1 .. Len(q) + 1 /\ DOMAIN q = 1 .. Len(q) /\ Len(q) \in Nat
  BY <1>1
<1>5. Listed(Append(q, x)) = Listed(q) \cup {x}
  BY <1>2, <1>3, <1>4 DEF Listed
<1>6. Distinct(Append(q, x))
  BY <1>2, <1>3, <1>4 DEF Listed, Distinct
<1> QED BY <1>1, <1>5, <1>6

\* Unlinking an element of a list of distinct elements leaves the others.
LEMMA WithoutDistinct ==
    ASSUME NEW S, NEW q \in Seq(S), NEW t \in Listed(q), Distinct(q)
    PROVE  /\ Without(q, t) \in Seq(S)
           /\ Listed(Without(q, t)) = Listed(q) \ {t}
           /\ Distinct(Without(q, t))
<1>1. Len(q) \in Nat /\ DOMAIN q = 1 .. Len(q) /\ \A i \in 1 .. Len(q) : q[i] \in S
  OBVIOUS
<1> DEFINE p == CHOOSE i \in DOMAIN q : q[i] = t
           w == [i \in 1 .. Len(q) - 1 |-> IF i < p THEN q[i] ELSE q[i + 1]]
<1>2. p \in 1 .. Len(q) /\ q[p] = t
  BY <1>1 DEF Listed
<1>3. Without(q, t) = w
  BY DEF Without
<1> HIDE DEF p
<1>4. w \in Seq(S)
  <2>1. \A i \in 1 .. Len(q) - 1 : w[i] \in S
    BY <1>1, <1>2
  <2>2. Len(q) - 1 \in Nat
    BY <1>1, <1>2
  <2> QED BY <2>1, <2>2
<1>5. DOMAIN w = 1 .. Len(q) - 1
  OBVIOUS
<1>6. \A i \in 1 .. Len(q) - 1 : w[i] = IF i < p THEN q[i] ELSE q[i + 1]
  OBVIOUS
<1> HIDE DEF w
<1>7. Listed(w) \subseteq Listed(q) \ {t}
  <2> SUFFICES ASSUME NEW i \in 1 .. Len(q) - 1 PROVE w[i] \in Listed(q) /\ w[i] # t
    BY <1>5 DEF Listed
  <2>1. PICK j \in 1 .. Len(q) : j # p /\ w[i] = q[j]
    BY <1>1, <1>2, <1>6
  <2> QED BY <1>1, <1>2, <2>1 DEF Listed, Distinct
<1>8. ASSUME NEW x \in Listed(q), x # t PROVE x \in Listed(w)
  <2>1. PICK i \in 1 .. Len(q) : q[i] = x
    BY <1>1 DEF Listed
  <2>2. CASE i < p
    <3>1. i \in 1 .. Len(q) - 1 /\ w[i] = x
      BY <1>1, <1>2, <1>6, <2>1, <2>2
    <3> QED BY <1>5, <3>1 DEF Listed
  <2>3. CASE i > p
    <3>1. i - 1 \in 1 .. Len(q) - 1 /\ w[i - 1] = x
      BY <1>1, <1>2, <1>6, <2>1, <2>3
    <3> QED BY <1>5, <3>1 DEF Listed
  <2> QED BY <1>1, <1>2, <1>8, <2>1, <2>2, <2>3
<1>9. ASSUME NEW i \in DOMAIN w, NEW j \in DOMAIN w, w[i] = w[j] PROVE i = j
  <2>1. /\ i \in 1 .. Len(q) /\ i + 1 \in 1 .. Len(q)
        /\ j \in 1 .. Len(q) /\ j + 1 \in 1 .. Len(q)
    BY <1>1, <1>5
  <2>2. \A k, l \in 1 .. Len(q) : q[k] = q[l] => k = l
    BY <1>1 DEF Distinct
  <2>3. CASE i < p /\ j < p
    BY <1>5, <1>6, <1>9, <2>1, <2>2, <2>3
  <2>4. CASE i < p /\ ~(j < p)
    <3>1. i = j + 1
      BY <1>5, <1>6, <1>9, <2>1, <2>2, <2>4
    <3> QED BY <1>2, <1>5, <2>1, <2>4, <3>1
  <2>5. CASE ~(i < p) /\ j < p
    <3>1. j = i + 1
      BY <1>5, <1>6, <1>9, <2>1, <2>2, <2>5
    <3> QED BY <1>2, <1>5, <2>1, <2>5, <3>1
  <2>6. CASE ~(i < p) /\ ~(j < p)
    <3>1. i + 1 = j + 1
      BY <1>5, <1>6, <1>9, <2>1, <2>2, <2>6
    <3> QED BY <1>5, <2>1, <3>1
  <2> QED BY <2>3, <2>4, <2>5, <2>6
<1>10. Distinct(w)
  BY <1>9 DEF Distinct
<1> QED BY <1>3, <1>4, <1>7, <1>8, <1>10

\* A list of distinct elements is as long as it has elements.
LEMMA ListSize ==
    ASSUME NEW S, NEW q \in Seq(S), Distinct(q)
    PROVE  IsFiniteSet(Listed(q)) /\ Cardinality(Listed(q)) = Len(q)
<1> DEFINE f == [k \in 1 .. Len(q) |-> q[k]]
<1>1. Len(q) \in Nat /\ DOMAIN q = 1 .. Len(q)
  OBVIOUS
<1>2. f \in Bijection(1 .. Len(q), Listed(q))
  BY <1>1, SMTT(30) DEF Bijection, Injection, Surjection, IsInjective, Distinct, Listed
<1>3. IsFiniteSet(1 .. Len(q)) /\ Cardinality(1 .. Len(q)) = Len(q)
  BY <1>1, FS_Interval, SMTT(30)
<1>4. IsFiniteSet(Listed(q)) /\ Cardinality(Listed(q)) = Cardinality(1 .. Len(q))
  <2> HIDE DEF f
  <2> QED BY <1>2, <1>3, FS_Bijection DEF ExistsBijection
<1> QED BY <1>3, <1>4

\* Every set of natural numbers that is not empty has a least element.
LEMMA SmallestOf ==
    ASSUME NEW T \in SUBSET Nat, T # {}
    PROVE  \E x \in T : \A y \in T : x <= y
<1>1. \E x \in T : \A y \in T : ~(<<y, x>> \in OpToRel(<, Nat))
  BY NatLessThanWellFounded, WFMin
<1>2. \A x, y \in Nat : <<y, x>> \in OpToRel(<, Nat) <=> y < x
  BY DEF OpToRel
<1>3. \A x, y \in Nat : ~(y < x) => x <= y
  OBVIOUS
<1> QED BY <1>1, <1>2, <1>3

\* A node of a list: its head.
LEMMA HeadListed ==
    ASSUME NEW S, NEW q \in Seq(S), q # <<>>
    PROVE  Head(q) \in Listed(q) /\ Head(q) \in S
<1>1. 1 \in DOMAIN q /\ Head(q) = q[1] /\ Head(q) \in S
  OBVIOUS
<1> QED BY <1>1 DEF Listed

\* The lists, the counts and the blocks of the other orders do not change.
Elsewhere(k, list, count, pg, hidden, nl, nc, ng, covered) ==
    \A j \in Orders \ {k} : /\ nl[j] = list[j] /\ nc[j] = count[j]
                          /\ FreeAt(ng, covered, j) = FreeAt(pg, hidden, j)

\* add_free_block.
LEMMA ListsAdd ==
    ASSUME NEW list \in [Orders -> Seq(Pages)], NEW count \in [Orders -> Nat], NEW pg, NEW hidden,
           Lists(list, count, pg, hidden), NEW k \in Orders, NEW p \in Pages,
           p \notin FreeAt(pg, hidden, k), NEW ng, NEW covered,
           FreeAt(ng, covered, k) = FreeAt(pg, hidden, k) \cup {p},
           NEW nl, nl[k] = Append(list[k], p), NEW nc, nc[k] = count[k] + 1,
           Elsewhere(k, list, count, pg, hidden, nl, nc, ng, covered)
    PROVE  Lists(nl, nc, ng, covered)
<1> DEFINE one == Append(list[k], p)
<1>1. list[k] \in Seq(Pages) /\ count[k] \in Nat
  OBVIOUS
<1>2. one \in Seq(Pages) /\ Listed(one) = Listed(list[k]) \cup {p} /\ Distinct(one)
  BY <1>1, AppendDistinct DEF Lists
<1>3. Len(one) = Len(list[k]) + 1
  BY <1>1
<1>4. nl[k] = one /\ nc[k] = count[k] + 1
  OBVIOUS
<1>5. \A j \in Orders : j # k => /\ nl[j] = list[j] /\ nc[j] = count[j]
                                /\ FreeAt(ng, covered, j) = FreeAt(pg, hidden, j)
  BY DEF Elsewhere
<1> HIDE DEF one
<1>7. ASSUME NEW j \in Orders
      PROVE  Distinct(nl[j]) /\ Listed(nl[j]) = FreeAt(ng, covered, j) /\ nc[j] = Len(nl[j])
  <2>1. CASE j = k
    BY <1>2, <1>3, <1>4, <2>1 DEF Lists
  <2>2. CASE j # k
    BY <1>5, <2>2 DEF Lists
  <2> QED BY <2>1, <2>2
<1>8. Lists(nl, nc, ng, covered)
  BY <1>7 DEF Lists
<1> QED BY <1>8

\* remove_free_block.
LEMMA ListsRemove ==
    ASSUME NEW list \in [Orders -> Seq(Pages)], NEW count \in [Orders -> Nat], NEW pg, NEW hidden,
           Lists(list, count, pg, hidden), NEW k \in Orders, NEW p \in FreeAt(pg, hidden, k),
           NEW ng, NEW covered,
           FreeAt(ng, covered, k) = FreeAt(pg, hidden, k) \ {p},
           NEW nl, nl[k] = Without(list[k], p), NEW nc, nc[k] = count[k] - 1,
           Elsewhere(k, list, count, pg, hidden, nl, nc, ng, covered)
    PROVE  /\ Without(list[k], p) \in Seq(Pages) /\ count[k] - 1 \in Nat
           /\ Lists(nl, nc, ng, covered)
<1> DEFINE one == Without(list[k], p)
<1>1. list[k] \in Seq(Pages) /\ count[k] \in Nat /\ p \in Listed(list[k])
  BY DEF Lists
<1>2. one \in Seq(Pages) /\ Listed(one) = Listed(list[k]) \ {p} /\ Distinct(one)
  BY <1>1, WithoutDistinct DEF Lists
<1>3. Len(one) = Len(list[k]) - 1 /\ Len(list[k]) \in Nat \ {0}
  <2>1. Len(list[k]) \in Nat /\ DOMAIN list[k] # {}
    BY <1>1 DEF Listed
  <2>2. Len(list[k]) \in Nat \ {0}
    BY <1>1, <2>1
  <2>3. Len(list[k]) - 1 \in Nat
    BY <2>2
  <2> QED BY <2>2, <2>3 DEF Without
<1>4. nl[k] = one /\ nc[k] = count[k] - 1
  OBVIOUS
<1>5. \A j \in Orders : j # k => /\ nl[j] = list[j] /\ nc[j] = count[j]
                                /\ FreeAt(ng, covered, j) = FreeAt(pg, hidden, j)
  BY DEF Elsewhere
<1> HIDE DEF one
<1>6. count[k] - 1 \in Nat
  BY <1>3 DEF Lists
<1>7. ASSUME NEW j \in Orders
      PROVE  Distinct(nl[j]) /\ Listed(nl[j]) = FreeAt(ng, covered, j) /\ nc[j] = Len(nl[j])
  <2>1. CASE j = k
    BY <1>2, <1>3, <1>4, <2>1 DEF Lists
  <2>2. CASE j # k
    BY <1>5, <2>2 DEF Lists
  <2> QED BY <2>1, <2>2
<1>8. Lists(nl, nc, ng, covered)
  BY <1>7 DEF Lists
<1> QED BY <1>2, <1>6, <1>8 DEF one

\* The lists stay exact as long as the same blocks are to be on them.
LEMMA ListsSame ==
    ASSUME NEW list, NEW count, NEW pg, NEW hidden, Lists(list, count, pg, hidden),
           NEW ng, NEW covered,
           \A j \in Orders : FreeAt(ng, covered, j) = FreeAt(pg, hidden, j)
    PROVE  Lists(list, count, ng, covered)
  BY DEF Lists
-------------------------------------------------------------------------------
(* Sizes and alignment *)

\* Quotient and remainder.
LEMMA DivFacts ==
    ASSUME NEW n \in Nat, NEW m \in Nat \ {0}
    PROVE  n \div m \in Nat /\ n % m \in 0 .. m - 1 /\ n = m * (n \div m) + (n % m)
OBVIOUS

\* There is only one of each.
LEMMA DivUnique ==
    ASSUME NEW n \in Nat, NEW m \in Nat \ {0}, NEW q \in Nat, NEW r \in 0 .. m - 1, n = m * q + r
    PROVE  n \div m = q /\ n % m = r
OBVIOUS

\* A number that divides without remainder is a multiple.
LEMMA Multiple ==
    ASSUME NEW n \in Nat, NEW m \in Nat \ {0}
    PROVE  n % m = 0 <=> \E q \in Nat : n = m * q
<1>1. ASSUME n % m = 0 PROVE \E q \in Nat : n = m * q
  <2>1. n \div m \in Nat /\ n = m * (n \div m)
    BY <1>1, DivFacts
  <2> QED BY <2>1
<1>2. ASSUME NEW q \in Nat, n = m * q PROVE n % m = 0
  <2>1. n = m * q + 0 /\ 0 \in 0 .. m - 1
    BY <1>2
  <2> QED BY <2>1, DivUnique
<1> QED BY <1>1, <1>2

\* The sizes of blocks.
LEMMA Sizes ==
    /\ \A k \in Orders : Size[k] \in Nat \ {0}
    /\ Size[0] = 1 /\ 0 \in Orders /\ MaxOrder \in Orders /\ MaxOrder \in Nat
    /\ \A k \in 0 .. MaxOrder - 1 : k \in Orders /\ k + 1 \in Orders /\ Size[k + 1] = Size[k] + Size[k]
<1>1. MaxOrder \in Nat
  BY MaxOrderAssumption
<1>2. \A k \in Orders : Size[k] \in Nat \ {0}
  BY SizeAssumption DEF Orders
<1>3. ASSUME NEW k \in 0 .. MaxOrder - 1
      PROVE  k \in Orders /\ k + 1 \in Orders /\ Size[k + 1] = Size[k] + Size[k]
  <2>1. k \in Orders /\ k + 1 \in Orders /\ k + 1 \in 1 .. MaxOrder /\ (k + 1) - 1 = k
    BY <1>1 DEF Orders
  <2>2. Size[k + 1] = 2 * Size[k]
    BY <2>1, SizeAssumption
  <2> QED BY <1>2, <2>1, <2>2
<1> QED BY <1>1, <1>2, <1>3, SizeAssumption DEF Orders

\* The size of a larger block is a multiple of that of a smaller one.
LEMMA SizesDivide ==
    ASSUME NEW j \in Orders, NEW k \in Orders, j <= k
    PROVE  /\ \E m \in Nat \ {0} : Size[k] = Size[j] * m
           /\ Size[j] <= Size[k]
           /\ j < k => Size[j] < Size[k]
<1> DEFINE Good(i) == \E m \in Nat \ {0} : Size[i] = Size[j] * m /\ (j < i => m > 1)
           T == {i \in Orders : j <= i /\ ~Good(i)}
<1>1. Size[j] \in Nat \ {0} /\ j \in Nat /\ k \in Nat /\ Orders \subseteq Nat
  BY Sizes DEF Orders
<1>2. T = {}
  <2> SUFFICES ASSUME T # {} PROVE FALSE
    OBVIOUS
  <2>1. T \in SUBSET Nat
    BY <1>1
  <2>2. PICK i \in T : \A l \in T : i <= l
    BY <2>1, SmallestOf
  <2>3. i \in Orders /\ j <= i /\ ~Good(i)
    BY <2>2
  <2>4. i # j
    <3>1. Size[j] = Size[j] * 1 /\ 1 \in Nat \ {0}
      BY <1>1
    <3>2. ~(j < j)
      BY <1>1
    <3>3. Good(j)
      BY <3>1, <3>2
    <3> QED BY <2>3, <3>3
  <2>5. i - 1 \in 0 .. MaxOrder - 1 /\ j <= i - 1 /\ (i - 1) + 1 = i
    BY <1>1, <2>3, <2>4, Sizes DEF Orders
  <2>6. i - 1 \in Orders /\ i - 1 \notin T
    BY <2>2, <2>5, <1>1, Sizes
  <2>7. PICK m \in Nat \ {0} : Size[i - 1] = Size[j] * m
    BY <2>5, <2>6
  <2>8. Size[i] = Size[j] * (m + m) /\ m + m \in Nat \ {0} /\ m + m > 1
    <3>1. Size[i] = Size[i - 1] + Size[i - 1]
      BY <2>5, Sizes
    <3> QED BY <1>1, <2>7, <3>1
  <2> QED BY <2>3, <2>8
<1>3. PICK m \in Nat \ {0} : Size[k] = Size[j] * m /\ (j < k => m > 1)
  BY <1>2
<1>4. Size[j] * m >= Size[j] /\ (m > 1 => Size[j] * m > Size[j])
  BY <1>1
<1> QED BY <1>1, <1>3, <1>4

\* A block that begins at a multiple of its size has its halves at multiples of theirs.
LEMMA Halved ==
    ASSUME NEW k \in 0 .. MaxOrder - 1, NEW p \in Nat
    PROVE  /\ p % Size[k + 1] = 0 => /\ p % Size[k] = 0 /\ (p + Size[k]) % Size[k] = 0
                                     /\ BuddyOf(p, k) = p + Size[k]
                                     /\ BuddyOf(p + Size[k], k) = p
           /\ p % Size[k] = 0 => \/ p % Size[k + 1] = 0
                                 \/ p >= Size[k] /\ (p - Size[k]) % Size[k + 1] = 0
<1> DEFINE s == Size[k]
           t == Size[k + 1]
<1>1. s \in Nat \ {0} /\ t = s + s /\ t \in Nat \ {0}
  BY Sizes
<1>2. ASSUME p % t = 0
      PROVE  /\ p % s = 0 /\ (p + s) % s = 0
             /\ (p \div s) % 2 = 0 /\ ((p + s) \div s) % 2 = 1
  <2>1. PICK m \in Nat : p = t * m
    BY <1>1, <1>2, Multiple
  <2>2. p = s * (m + m) + 0 /\ p + s = s * (m + m + 1) + 0 /\ 0 \in 0 .. s - 1
    BY <1>1, <2>1
  <2>3. m + m \in Nat /\ m + m + 1 \in Nat /\ p + s \in Nat
    BY <1>1
  <2> HIDE DEF s, t
  <2>4. p \div s = m + m /\ p % s = 0
    BY <1>1, <2>2, <2>3, DivUnique
  <2>5. (p + s) \div s = m + m + 1 /\ (p + s) % s = 0
    BY <1>1, <2>2, <2>3, DivUnique
  <2>6. (m + m) % 2 = 0 /\ (m + m + 1) % 2 = 1
    OBVIOUS
  <2> QED BY <2>4, <2>5, <2>6
<1>3. ASSUME p % s = 0
      PROVE  p % t = 0 \/ (p >= s /\ (p - s) % t = 0)
  <2>1. PICK q \in Nat : p = s * q
    BY <1>1, <1>3, Multiple
  <2>2. CASE q % 2 = 0
    <3>1. PICK m \in Nat : q = 2 * m
      BY <2>2, Multiple
    <3>2. p = t * m
      BY <1>1, <2>1, <3>1
    <3> QED BY <1>1, <3>2, Multiple
  <2>3. CASE q % 2 # 0
    <3>1. q \div 2 \in Nat /\ q = 2 * (q \div 2) + 1
      BY <2>3
    <3> DEFINE m == q \div 2
    <3>2. m \in Nat /\ q = 2 * m + 1
      BY <3>1
    <3> HIDE DEF m
    <3>3. p - s = t * m /\ p = t * m + s
      BY <1>1, <2>1, <3>2
    <3>4. t * m \in Nat
      BY <1>1, <3>2
    <3>5. p - s \in Nat /\ p >= s
      BY <1>1, <3>3, <3>4
    <3> QED BY <1>1, <3>2, <3>3, <3>5, Multiple
  <2> QED BY <2>2, <2>3
<1>4. ASSUME p % t = 0 PROVE BuddyOf(p, k) = p + s /\ BuddyOf(p + s, k) = p
  <2>1. (p \div s) % 2 = 0 /\ ((p + s) \div s) % 2 = 1
    BY <1>2, <1>4
  <2>2. (p + s) - s = p
    BY <1>1
  <2> QED BY <2>1, <2>2 DEF BuddyOf
<1> QED BY <1>2, <1>3, <1>4

\* Its pages are those of its halves.
LEMMA SpanHalved ==
    ASSUME NEW k \in 0 .. MaxOrder - 1, NEW p \in Nat
    PROVE  /\ Span(p, Size[k + 1]) = Span(p, Size[k]) \cup Span(p + Size[k], Size[k])
           /\ Span(p, Size[k]) \cap Span(p + Size[k], Size[k]) = {}
           /\ p \in Span(p, Size[k]) /\ p + Size[k] \in Span(p + Size[k], Size[k])
<1>1. Size[k] \in Nat \ {0} /\ Size[k + 1] = Size[k] + Size[k]
  BY Sizes
<1> QED BY <1>1 DEF Span

\* An aligned stretch lies inside every larger aligned one that it touches at its beginning.
LEMMA Nested ==
    ASSUME NEW j \in Orders, NEW k \in Orders, j <= k, NEW p \in Nat, NEW q \in Nat,
           p % Size[j] = 0, q % Size[k] = 0, p \in Span(q, Size[k])
    PROVE  Span(p, Size[j]) \subseteq Span(q, Size[k])
<1> DEFINE s == Size[j]
           t == Size[k]
<1>1. s \in Nat \ {0} /\ t \in Nat \ {0}
  BY Sizes
<1>2. PICK m \in Nat \ {0} : t = s * m
  BY SizesDivide
<1>3. PICK a \in Nat : p = s * a
  BY <1>1, Multiple
<1>4. PICK b \in Nat : q = t * b
  BY <1>1, Multiple
<1>5. q <= p /\ p < q + t
  BY <1>1 DEF Span
<1> HIDE DEF s, t
<1>6. q = s * (m * b) /\ q + t = s * (m * b + m) /\ p + s = s * (a + 1)
  BY <1>1, <1>2, <1>3, <1>4
<1> DEFINE c == m * b + m
<1>7. c \in Nat
  OBVIOUS
<1> HIDE DEF c
<1>8. q + t = s * c
  BY <1>6 DEF c
<1>9. a < c
  <2>1. s * a < s * c
    BY <1>3, <1>5, <1>8
  <2>2. a >= c => s * a >= s * c
    BY <1>1, <1>7
  <2>3. s * a \in Int /\ s * c \in Int
    BY <1>1, <1>7
  <2> QED BY <1>7, <2>1, <2>2, <2>3
<1>10. s * (a + 1) <= s * c
  BY <1>1, <1>7, <1>9
<1>11. p + s <= q + t
  BY <1>6, <1>8, <1>10
<1> QED BY <1>1, <1>5, <1>11 DEF Span, s, t

\* page_count_to_order finds the smallest order that is large enough.
LEMMA OrderForFacts ==
    ASSUME NEW count \in 1 .. Size[MaxOrder]
    PROVE  /\ OrderFor(count) \in Orders /\ Size[OrderFor(count)] >= count
           /\ \A j \in 0 .. OrderFor(count) - 1 : Size[j] < count
<1> DEFINE T == {k \in Orders : Size[k] >= count}
<1>1. T \in SUBSET Nat /\ Orders \subseteq Nat
  BY Sizes DEF Orders
<1>2. MaxOrder \in T
  BY Sizes
<1>3. PICK k \in T : \A l \in T : k <= l
  BY <1>1, <1>2, SmallestOf
<1>4. \A j \in 0 .. k - 1 : Size[j] < count
  <2> SUFFICES ASSUME NEW j \in 0 .. k - 1 PROVE Size[j] < count
    OBVIOUS
  <2>1. j \in Orders /\ j \notin T
    BY <1>1, <1>3, Sizes DEF Orders
  <2>2. Size[j] \in Nat /\ count \in Nat
    BY <2>1, Sizes
  <2> QED BY <2>1, <2>2
<1>5. \E i \in Orders : Size[i] >= count /\ \A j \in 0 .. i - 1 : Size[j] < count
  BY <1>3, <1>4
<1> QED BY <1>5 DEF OrderFor
-------------------------------------------------------------------------------
(* Blocks and their pages *)

\* What the type of a table says of a page.
LEMMA PageFacts ==
    ASSUME NEW pg \in Tables, NEW p \in Pages
    PROVE  /\ pg[p].state \in States /\ pg[p].order \in Orders
           /\ p \in Nat /\ Size[pg[p].order] \in Nat \ {0} /\ p \in Ext(pg, p)
<1>1. pg[p].state \in States /\ pg[p].order \in Orders
  BY DEF Tables
<1>2. p \in Nat
  BY PageCountAssumption DEF Pages
<1>3. Size[pg[p].order] \in Nat \ {0}
  BY <1>1, Sizes
<1> QED BY <1>1, <1>2, <1>3 DEF Ext, Span

\* A page descriptor.
LEMMA BlockFacts ==
    ASSUME NEW s \in States, NEW k \in Orders
    PROVE  /\ Block(s, k) \in [state : States, order : Orders]
           /\ Block(s, k).state = s /\ Block(s, k).order = k
           /\ \A b \in [state : States, order : Orders] : b = Block(s, k) <=> b.state = s /\ b.order = k
  BY DEF Block

\* The states of pages.
LEMMA StateFacts == /\ "free" \in States /\ "allocated" \in States /\ "tail" \in States
                    /\ "reserved" \in States
  BY DEF States

\* Different blocks have no page in common.
LEMMA Overlap ==
    ASSUME NEW pg \in Tables, Tiles(pg), NEW p \in Heads(pg), NEW q \in Heads(pg), p # q
    PROVE  Ext(pg, p) \cap Ext(pg, q) = {} /\ q \notin Ext(pg, p)
<1>1. p \in Pages /\ q \in Pages /\ pg[p].state # "tail" /\ pg[q].state # "tail"
  BY DEF Heads
<1>2. p \in Nat /\ q \in Nat /\ Size[pg[p].order] \in Nat /\ Size[pg[q].order] \in Nat
  BY <1>1, PageFacts
<1>3. q \notin Ext(pg, p) /\ p \notin Ext(pg, q)
  BY <1>1 DEF Tiles
<1>4. ASSUME NEW x \in Ext(pg, p), x \in Ext(pg, q) PROVE FALSE
  <2>1. CASE p < q
    <3>1. q \in Ext(pg, p)
      BY <1>2, <1>4, <2>1 DEF Ext, Span
    <3> QED BY <1>3, <3>1
  <2>2. CASE q < p
    <3>1. p \in Ext(pg, q)
      BY <1>2, <1>4, <2>2 DEF Ext, Span
    <3> QED BY <1>3, <3>1
  <2> QED BY <1>2, <2>1, <2>2
<1> QED BY <1>3, <1>4

\* Page descriptors that do not change.
SameBut(pg, ng, S) == \A q \in Pages \ S : ng[q] = pg[q]

\* The halves of a block.
LEMMA HalfFacts ==
    ASSUME NEW pg \in Tables, Tiles(pg), NEW p \in Heads(pg), NEW k \in 0 .. MaxOrder - 1,
           pg[p].order = k + 1, NEW u, u = p + Size[k]
    PROVE  /\ u \in Pages /\ u # p /\ pg[u].state = "tail"
           /\ p % Size[k + 1] = 0 /\ p % Size[k] = 0 /\ u % Size[k] = 0
           /\ Ext(pg, p) = Span(p, Size[k]) \cup Span(u, Size[k])
           /\ Span(p, Size[k]) \cap Span(u, Size[k]) = {}
           /\ p \in Span(p, Size[k]) /\ u \in Span(u, Size[k])
<1>1. /\ p \in Pages /\ p \in Nat /\ k \in Orders /\ Size[k] \in Nat \ {0}
  BY PageFacts, Sizes DEF Heads
<1>2. /\ Ext(pg, p) \subseteq Pages /\ p % Size[k + 1] = 0
      /\ \A q \in Ext(pg, p) \ {p} : pg[q].state = "tail"
  BY DEF Tiles
<1>3. /\ Ext(pg, p) = Span(p, Size[k]) \cup Span(u, Size[k])
      /\ Span(p, Size[k]) \cap Span(u, Size[k]) = {}
      /\ p \in Span(p, Size[k]) /\ u \in Span(u, Size[k])
  BY <1>1, SpanHalved DEF Ext
<1>4. u \in Pages /\ u # p /\ pg[u].state = "tail"
  BY <1>1, <1>2, <1>3
<1>5. p % Size[k] = 0 /\ u % Size[k] = 0
  BY <1>1, <1>2, Halved
<1> QED BY <1>2, <1>3, <1>4, <1>5

\* Cutting a block in halves.
LEMMA SplitTiles ==
    ASSUME NEW pg \in Tables, Tiles(pg), NEW p \in Heads(pg), NEW k \in 0 .. MaxOrder - 1,
           pg[p].order = k + 1, NEW u, u = p + Size[k], NEW ng \in Tables,
           ng[p].state \in {"free", "allocated"}, ng[p].order = k,
           ng[u].state \in {"free", "allocated"}, ng[u].order = k,
           SameBut(pg, ng, {p, u})
    PROVE  /\ Tiles(ng) /\ Heads(ng) = Heads(pg) \cup {u}
           /\ Ext(pg, p) = Ext(ng, p) \cup Ext(ng, u) /\ Ext(ng, p) \cap Ext(ng, u) = {}
<1>1. /\ p \in Pages /\ p \in Nat /\ k \in Orders /\ Size[k] \in Nat \ {0}
      /\ pg[p].state \in {"free", "allocated"}
  BY PageFacts, Sizes DEF Heads
<1>2. /\ Ext(pg, p) \subseteq Pages
      /\ \A q \in Ext(pg, p) \ {p} : pg[q].state = "tail"
  BY DEF Tiles
<1>3. /\ u \in Pages /\ u # p /\ pg[u].state = "tail"
      /\ Ext(pg, p) = Span(p, Size[k]) \cup Span(u, Size[k])
      /\ Span(p, Size[k]) \cap Span(u, Size[k]) = {}
      /\ p \in Span(p, Size[k]) /\ u \in Span(u, Size[k])
      /\ p % Size[k] = 0 /\ u % Size[k] = 0
  <2>1. /\ pg \in Tables /\ Tiles(pg) /\ p \in Heads(pg) /\ k \in 0 .. MaxOrder - 1
        /\ pg[p].order = k + 1 /\ u = p + Size[k]
    OBVIOUS
  <2> QED BY ONLY <2>1, HalfFacts
<1> \A q \in Pages \ {p, u} : ng[q] = pg[q]
  BY DEF SameBut
<1>9. /\ Ext(ng, p) = Span(p, Size[k]) /\ Ext(ng, u) = Span(u, Size[k])
      /\ \A q \in Pages \ {p, u} : Ext(ng, q) = Ext(pg, q)
  BY DEF Ext
<1>10. Heads(ng) = Heads(pg) \cup {u}
  <2>1. p \in Heads(ng) /\ u \in Heads(ng)
    BY <1>1, <1>3 DEF Heads
  <2>2. \A q \in Pages \ {p, u} : q \in Heads(ng) <=> q \in Heads(pg)
    BY DEF Heads
  <2>3. Heads(ng) \subseteq Pages /\ Heads(pg) \subseteq Pages
    BY DEF Heads
  <2> QED BY <2>1, <2>2, <2>3
<1>11. ASSUME NEW x \in Heads(ng)
       PROVE  /\ Ext(ng, x) \subseteq Pages
              /\ x % Size[ng[x].order] = 0
              /\ \A q \in Ext(ng, x) \ {x} : ng[q].state = "tail"
  <2>1. CASE x = p
    <3>1. \A q \in Ext(ng, x) \ {x} : q \in Ext(pg, p) \ {p} /\ q # u /\ ng[q] = pg[q]
      BY <1>1, <1>2, <1>3, <1>9, <2>1
    <3> QED BY <1>2, <1>3, <1>9, <2>1, <3>1
  <2>2. CASE x = u
    <3>1. \A q \in Ext(ng, x) \ {x} : q \in Ext(pg, p) \ {p} /\ q # u /\ ng[q] = pg[q]
      BY <1>1, <1>2, <1>3, <1>9, <2>2
    <3> QED BY <1>2, <1>3, <1>9, <2>2, <3>1
  <2>3. CASE x # p /\ x # u
    <3>1. x \in Heads(pg) /\ x \in Pages \ {p, u}
      BY <1>10, <2>3 DEF Heads
    <3>2. Ext(pg, x) \cap Ext(pg, p) = {}
      BY <2>3, <3>1, Overlap
    <3>3. /\ Ext(pg, x) \subseteq Pages /\ x % Size[pg[x].order] = 0
          /\ \A q \in Ext(pg, x) \ {x} : pg[q].state = "tail"
      BY <3>1 DEF Tiles
    <3>4. p \notin Ext(pg, x) /\ u \notin Ext(pg, x)
      BY <1>3, <3>2
    <3>5. Ext(ng, x) = Ext(pg, x) /\ ng[x] = pg[x]
      BY <1>9, <3>1
    <3>6. \A q \in Ext(ng, x) : ng[q] = pg[q]
      BY <3>3, <3>4, <3>5
    <3> QED BY <3>3, <3>5, <3>6
  <2> QED BY <2>1, <2>2, <2>3
<1>12. ASSUME NEW q \in Pages, ng[q].state = "tail" PROVE \E x \in Heads(ng) : q \in Ext(ng, x)
  <2>1. q \in Pages \ {p, u} /\ pg[q].state = "tail"
    BY <1>12
  <2>2. PICK x \in Heads(pg) : q \in Ext(pg, x)
    BY <2>1 DEF Tiles
  <2>3. CASE x = p
    BY <1>1, <1>3, <1>9, <1>10, <2>2, <2>3
  <2>4. CASE x # p
    <3>1. x \in Pages \ {p, u}
      BY <1>3, <2>4 DEF Heads
    <3> QED BY <1>9, <1>10, <2>2, <3>1
  <2> QED BY <2>3, <2>4
<1>13. Tiles(ng)
  BY <1>11, <1>12 DEF Tiles
<1> QED BY <1>3, <1>9, <1>10, <1>13

\* Joining two halves to one free block.
LEMMA JoinTiles ==
    ASSUME NEW pg \in Tables, Tiles(pg), NEW k \in 0 .. MaxOrder - 1, NEW p \in Heads(pg),
           p % Size[k + 1] = 0, NEW u \in Heads(pg), u = p + Size[k],
           pg[p].order = k, pg[u].order = k,
           NEW ng \in Tables, ng[p].state = "free", ng[p].order = k + 1, ng[u].state = "tail",
           SameBut(pg, ng, {p, u})
    PROVE  Tiles(ng) /\ Heads(ng) = Heads(pg) \ {u}
<1> \A q \in Pages \ {p, u} : ng[q] = pg[q]
  BY DEF SameBut
<1>1. p \in Pages /\ p \in Nat /\ u \in Pages /\ Size[k] \in Nat \ {0} /\ u # p
  BY PageFacts, Sizes DEF Heads
<1>2. /\ Ext(ng, p) = Ext(pg, p) \cup Ext(pg, u) /\ Ext(pg, p) \cap Ext(pg, u) = {}
      /\ p \in Ext(pg, p) /\ u \in Ext(pg, u)
  <2>1. /\ Ext(ng, p) = Span(p, Size[k + 1]) /\ Ext(pg, p) = Span(p, Size[k])
        /\ Ext(pg, u) = Span(u, Size[k])
    BY DEF Ext
  <2>2. /\ Span(p, Size[k + 1]) = Span(p, Size[k]) \cup Span(u, Size[k])
        /\ Span(p, Size[k]) \cap Span(u, Size[k]) = {}
        /\ p \in Span(p, Size[k]) /\ u \in Span(u, Size[k])
    BY ONLY <1>1, SpanHalved, k \in 0 .. MaxOrder - 1, u = p + Size[k]
  <2> QED BY <2>1, <2>2
<1>3. /\ p \in Heads(pg) /\ u \in Heads(pg)
      /\ ng[u].state = "tail" /\ \A q \in Pages \ {p, u} : ng[q] = pg[q] /\ Ext(ng, q) = Ext(pg, q)
  BY DEF Ext
<1>4. Heads(ng) = Heads(pg) \ {u}
  <2>1. p \in Heads(ng) /\ u \notin Heads(ng)
    BY <1>1, <1>3 DEF Heads
  <2>2. \A q \in Pages \ {p, u} : q \in Heads(ng) <=> q \in Heads(pg)
    BY <1>3 DEF Heads
  <2>3. Heads(ng) \subseteq Pages /\ Heads(pg) \subseteq Pages
    BY DEF Heads
  <2> QED BY <1>1, <1>3, <2>1, <2>2, <2>3
<1>5. /\ Ext(pg, p) \subseteq Pages /\ Ext(pg, u) \subseteq Pages
      /\ \A q \in Ext(pg, p) \ {p} : pg[q].state = "tail"
      /\ \A q \in Ext(pg, u) \ {u} : pg[q].state = "tail"
  BY <1>3 DEF Tiles
<1>6. ASSUME NEW x \in Heads(ng)
      PROVE  /\ Ext(ng, x) \subseteq Pages
             /\ x % Size[ng[x].order] = 0
             /\ \A q \in Ext(ng, x) \ {x} : ng[q].state = "tail"
  <2>1. CASE x = p
    <3>1. \A q \in Ext(ng, p) \ {p} : ng[q].state = "tail"
      <4> SUFFICES ASSUME NEW q \in Ext(ng, p), q # p PROVE ng[q].state = "tail"
        OBVIOUS
      <4>1. CASE q = u
        BY <1>3, <4>1
      <4>2. CASE q # u
        <5>1. pg[q].state = "tail" /\ q \in Pages
          BY <1>2, <1>5, <4>2
        <5> QED BY <1>3, <4>2, <5>1
      <4> QED BY <4>1, <4>2
    <3> QED BY <1>2, <1>5, <2>1, <3>1
  <2>2. CASE x # p
    <3>1. x \in Heads(pg) /\ x # u /\ x \in Pages \ {p, u}
      BY <1>4, <2>2 DEF Heads
    <3>2. Ext(pg, x) \cap Ext(pg, p) = {} /\ Ext(pg, x) \cap Ext(pg, u) = {}
      BY <1>3, <2>2, <3>1, Overlap
    <3>3. /\ Ext(pg, x) \subseteq Pages /\ x % Size[pg[x].order] = 0
          /\ \A q \in Ext(pg, x) \ {x} : pg[q].state = "tail"
      BY <3>1 DEF Tiles
    <3>4. Ext(ng, x) = Ext(pg, x) /\ ng[x] = pg[x]
      BY <1>3, <3>1
    <3>5. \A q \in Ext(ng, x) : ng[q] = pg[q]
      BY <1>2, <1>3, <3>2, <3>3, <3>4
    <3> QED BY <3>3, <3>4, <3>5
  <2> QED BY <2>1, <2>2
<1>7. ASSUME NEW q \in Pages, ng[q].state = "tail" PROVE \E x \in Heads(ng) : q \in Ext(ng, x)
  <2>1. p \in Heads(ng)
    BY <1>1, <1>3, <1>4
  <2>2. CASE q = u
    BY <1>2, <2>1, <2>2
  <2>3. CASE q # u
    <3>1. q # p /\ pg[q].state = "tail"
      BY <1>3, <1>7, <2>3
    <3>2. PICK x \in Heads(pg) : q \in Ext(pg, x)
      BY <3>1 DEF Tiles
    <3>3. CASE x \in {p, u}
      BY <1>2, <2>1, <3>2, <3>3
    <3>4. CASE x \notin {p, u}
      <4>1. x \in Pages \ {p, u} /\ x \in Heads(ng)
        BY <1>4, <3>4 DEF Heads
      <4> QED BY <1>3, <3>2, <4>1
    <3> QED BY <3>3, <3>4
  <2> QED BY <2>2, <2>3
<1>8. Tiles(ng)
  BY <1>6, <1>7 DEF Tiles
<1> QED BY <1>4, <1>8

\* Giving out a block, or taking it back.
LEMMA RetaggedTiles ==
    ASSUME NEW pg \in Tables, Tiles(pg), NEW p \in Heads(pg), NEW ng \in Tables,
           ng[p].state \in {"free", "allocated"}, ng[p].order = pg[p].order,
           SameBut(pg, ng, {p})
    PROVE  Tiles(ng) /\ Heads(ng) = Heads(pg) /\ \A q \in Pages : Ext(ng, q) = Ext(pg, q)
<1> \A q \in Pages \ {p} : ng[q] = pg[q]
  BY DEF SameBut
<1>1. \A q \in Pages : Ext(ng, q) = Ext(pg, q) /\ ng[q].order = pg[q].order
  BY DEF Ext
<1>2. Heads(ng) = Heads(pg) /\ Heads(pg) \subseteq Pages
  <2>1. p \in Heads(ng)
    BY DEF Heads
  <2>2. \A q \in Pages \ {p} : q \in Heads(ng) <=> q \in Heads(pg)
    BY DEF Heads
  <2>3. Heads(ng) \subseteq Pages /\ Heads(pg) \subseteq Pages
    BY DEF Heads
  <2> QED BY <2>1, <2>2, <2>3
<1>3. \A q \in Pages : ng[q].state = "tail" <=> pg[q].state = "tail"
  BY DEF Heads
<1>4. Tiles(ng)
  BY <1>1, <1>2, <1>3 DEF Tiles
<1> QED BY <1>1, <1>2, <1>4
-------------------------------------------------------------------------------
(* Allocated pages *)

\* Allocated blocks are blocks.
LEMMA AllocatedHeads ==
    ASSUME NEW pg \in Tables
    PROVE  /\ \A p \in Pages : pg[p].state = "allocated" => p \in Heads(pg)
           /\ \A x : x \in AllocatedPages(pg) <=>
                        \E p \in Pages : pg[p].state = "allocated" /\ x \in Ext(pg, p)
  BY DEF Heads, AllocatedPages

\* Whole blocks stay whole as long as nothing happens to the allocated ones.
LEMMA WholeKept ==
    ASSUME NEW pg, NEW S, Whole(pg, S), NEW ng,
           \A p \in S : pg[p].state = "allocated" => ng[p] = pg[p]
    PROVE  Whole(ng, S)
  BY DEF Whole, Ext

\* Whole blocks are allocated.
LEMMA WholeAllocated ==
    ASSUME NEW pg, NEW S, Whole(pg, S)
    PROVE  S \subseteq AllocatedPages(pg)
<1> SUFFICES ASSUME NEW x \in S PROVE x \in AllocatedPages(pg)
  OBVIOUS
<1>1. PICK p \in S : pg[p].state = "allocated" /\ x \in Ext(pg, p)
  BY DEF Whole
<1>2. p \in Pages
  BY DEF Whole
<1> QED BY <1>1, <1>2 DEF AllocatedPages

\* One more block.
LEMMA WholePlus ==
    ASSUME NEW pg \in Tables, Tiles(pg), NEW S, Whole(pg, S), NEW p \in Pages,
           pg[p].state = "allocated"
    PROVE  Whole(pg, S \cup Ext(pg, p))
<1>1. p \in Ext(pg, p) /\ Ext(pg, p) \subseteq Pages
  BY PageFacts DEF Heads, Tiles
<1> QED BY <1>1 DEF Whole

\* One block less.
LEMMA WholeMinus ==
    ASSUME NEW pg \in Tables, Tiles(pg), NEW S, Whole(pg, S), NEW p \in Pages,
           pg[p].state = "allocated"
    PROVE  Whole(pg, S \ Ext(pg, p))
<1>1. S \subseteq Pages /\ p \in Heads(pg)
  BY DEF Whole, Heads
<1>2. ASSUME NEW q \in S \ Ext(pg, p)
      PROVE  \E x \in S \ Ext(pg, p) :
                pg[x].state = "allocated" /\ Ext(pg, x) \subseteq S \ Ext(pg, p) /\ q \in Ext(pg, x)
  <2>1. PICK x \in S : pg[x].state = "allocated" /\ Ext(pg, x) \subseteq S /\ q \in Ext(pg, x)
    BY DEF Whole
  <2>2. x # p /\ x \in Heads(pg)
    BY <1>1, <1>2, <2>1 DEF Heads
  <2>3. Ext(pg, x) \cap Ext(pg, p) = {}
    BY <1>1, <2>2, Overlap
  <2>4. x \in Ext(pg, x)
    BY <1>1, <2>1, PageFacts
  <2> QED BY <2>1, <2>3, <2>4
<1> QED BY <1>1, <1>2 DEF Whole

\* The first block of a stretch begins where the stretch begins.
LEMMA WholeFirst ==
    ASSUME NEW pg \in Tables, NEW first \in Nat, NEW count \in Nat \ {0},
           Whole(pg, Span(first, count))
    PROVE  /\ first \in Pages /\ pg[first].state = "allocated"
           /\ Ext(pg, first) \subseteq Span(first, count) /\ Size[pg[first].order] <= count
<1>1. first \in Span(first, count)
  BY DEF Span
<1>2. PICK p \in Span(first, count) : /\ pg[p].state = "allocated"
                                      /\ Ext(pg, p) \subseteq Span(first, count) /\ first \in Ext(pg, p)
  BY <1>1 DEF Whole
<1>3. p \in Pages /\ first \in Pages
  BY <1>1 DEF Whole
<1>4. p \in Nat /\ Size[pg[p].order] \in Nat \ {0}
  BY <1>3, PageFacts
<1>5. first <= p /\ p <= first
  BY <1>2, <1>4 DEF Span, Ext
<1>6. p = first
  BY <1>4, <1>5
<1> DEFINE s == Size[pg[first].order]
<1>7. s \in Nat \ {0}
  BY <1>4, <1>6
<1>8. first + s - 1 \in Ext(pg, first)
  <2> HIDE DEF s
  <2>1. first + s - 1 \in Span(first, s)
    BY <1>7 DEF Span
  <2> QED BY <2>1 DEF Ext, s
<1>9. first + s - 1 \in Span(first, count)
  BY <1>2, <1>6, <1>8
<1>10. s <= count
  <2> HIDE DEF s
  <2> QED BY <1>7, <1>9 DEF Span
<1> QED BY <1>2, <1>3, <1>6, <1>10

\* Nobody owns anything.
LEMMA NothingOwned ==
    ASSUME NEW pg, \A p \in Pages : pg[p].state # "allocated"
    PROVE  Owning(pg, {}, {})
<1>1. AllocatedPages(pg) = {}
  BY DEF AllocatedPages
<1>2. Whole(pg, {})
  BY DEF Whole
<1>3. Covered({}) = {}
  BY DEF Covered
<1> QED BY <1>1, <1>2, <1>3 DEF Owning

\* Owners keep what they own while the allocated blocks do not change.
LEMMA OwningKept ==
    ASSUME NEW pg \in Tables, NEW ow, NEW held, Owning(pg, ow, held), NEW ng \in Tables,
           \A p \in Pages : /\ pg[p].state = "allocated" <=> ng[p].state = "allocated"
                            /\ pg[p].state = "allocated" => ng[p] = pg[p]
    PROVE  Owning(ng, ow, held)
<1>1. ASSUME NEW S, Whole(pg, S) PROVE Whole(ng, S)
  <2>1. S \subseteq Pages
    BY <1>1 DEF Whole
  <2> QED BY <1>1, <2>1, WholeKept
<1>2. AllocatedPages(ng) = AllocatedPages(pg)
  <2>1. \A p \in Pages : pg[p].state = "allocated" => Ext(ng, p) = Ext(pg, p)
    BY DEF Ext
  <2>2. \A x : x \in AllocatedPages(ng) <=> x \in AllocatedPages(pg)
    BY <2>1, AllocatedHeads
  <2> QED BY <2>2
<1> QED BY <1>1, <1>2 DEF Owning

\* Give the operation another block: it is allocated now, and it was not before.
LEMMA OwningTake ==
    ASSUME NEW pg \in Tables, Tiles(pg), NEW ow, Owning(pg, ow, {}), NEW p \in Heads(pg),
           pg[p].state = "free", NEW ng \in Tables, ng[p].state = "allocated",
           ng[p].order = pg[p].order, SameBut(pg, ng, {p})
    PROVE  Owning(ng, ow, Ext(ng, p))
<1> \A q \in Pages \ {p} : ng[q] = pg[q]
  BY DEF SameBut
<1>1. Tiles(ng) /\ Heads(ng) = Heads(pg) /\ \A q \in Pages : Ext(ng, q) = Ext(pg, q)
  BY RetaggedTiles
<1>2. p \in Pages /\ p \in Heads(ng)
  BY <1>1 DEF Heads
<1>3. ASSUME NEW S, Whole(pg, S) PROVE Whole(ng, S)
  <2>1. S \subseteq Pages
    BY <1>3 DEF Whole
  <2>2. \A q \in S : pg[q].state = "allocated" => ng[q] = pg[q]
    BY <2>1
  <2> QED BY <1>3, <2>2, WholeKept
<1>4. AllocatedPages(ng) = AllocatedPages(pg) \cup Ext(ng, p)
  <2>1. \A x : x \in AllocatedPages(ng) <=> x \in AllocatedPages(pg) \/ x \in Ext(ng, p)
    BY <1>1, <1>2, AllocatedHeads
  <2> QED BY <2>1
<1>5. AllocatedPages(pg) \cap Ext(ng, p) = {}
  <2> SUFFICES ASSUME NEW q \in Pages, pg[q].state = "allocated" PROVE Ext(pg, q) \cap Ext(pg, p) = {}
    BY <1>1, <1>2, AllocatedHeads
  <2>1. q \in Heads(pg) /\ q # p
    BY DEF Heads
  <2> QED BY <2>1, Overlap
<1>6. Whole(ng, Ext(ng, p))
  <2>1. Whole(ng, {})
    BY DEF Whole
  <2>2. Whole(ng, {} \cup Ext(ng, p))
    BY <1>1, <1>2, <2>1, WholePlus
  <2>3. {} \cup Ext(ng, p) = Ext(ng, p)
    OBVIOUS
  <2> QED BY <2>2, <2>3
<1>7. \A a \in ow : Span(a[1], a[2]) \subseteq AllocatedPages(pg)
  BY DEF Owning, Covered
<1>8. \A a \in ow : Whole(ng, Span(a[1], a[2])) /\ Span(a[1], a[2]) \cap Ext(ng, p) = {}
  BY <1>3, <1>5, <1>7 DEF Owning
<1>9. Covered(ow) \cup Ext(ng, p) = AllocatedPages(ng)
  BY <1>4 DEF Owning
<1> QED BY <1>6, <1>8, <1>9 DEF Owning

\* The operation frees its first block.
LEMMA OwningFree ==
    ASSUME NEW pg \in Tables, Tiles(pg), NEW ow, NEW held, Owning(pg, ow, held), NEW p \in held,
           pg[p].state = "allocated", NEW ng \in Tables, ng[p].state = "free",
           ng[p].order = pg[p].order, SameBut(pg, ng, {p})
    PROVE  Owning(ng, ow, held \ Ext(pg, p))
<1> \A q \in Pages \ {p} : ng[q] = pg[q]
  BY DEF SameBut
<1>1. held \subseteq Pages /\ p \in Pages /\ p \in Heads(pg)
  BY DEF Owning, Whole, Heads
<1>2. Tiles(ng) /\ Heads(ng) = Heads(pg) /\ \A q \in Pages : Ext(ng, q) = Ext(pg, q)
  BY <1>1, RetaggedTiles
<1>3. p \in Ext(pg, p)
  BY <1>1, PageFacts
<1>4. ASSUME NEW S, Whole(pg, S), p \notin S PROVE Whole(ng, S)
  <2>1. S \subseteq Pages
    BY <1>4 DEF Whole
  <2>2. \A q \in S : pg[q].state = "allocated" => ng[q] = pg[q]
    BY <1>4, <2>1
  <2> QED BY <1>4, <2>2, WholeKept
<1>5. Whole(ng, held \ Ext(pg, p))
  <2>1. Whole(pg, held \ Ext(pg, p))
    BY <1>1, WholeMinus DEF Owning
  <2> QED BY <1>3, <1>4, <2>1
<1>6. \A a \in ow : /\ Whole(ng, Span(a[1], a[2]))
                    /\ Span(a[1], a[2]) \cap (held \ Ext(pg, p)) = {}
  BY <1>4 DEF Owning
<1>7. AllocatedPages(ng) = AllocatedPages(pg) \ Ext(pg, p)
  <2>1. \A q \in Pages : ng[q].state = "allocated" <=> pg[q].state = "allocated" /\ q # p
    BY <1>1
  <2>2. \A q \in Pages : pg[q].state = "allocated" /\ q # p => Ext(pg, q) \cap Ext(pg, p) = {}
    BY <1>1, Overlap DEF Heads
  <2>3. \A x : x \in AllocatedPages(ng) <=> x \in AllocatedPages(pg) /\ x \notin Ext(pg, p)
    <3>1. ASSUME NEW x, x \in AllocatedPages(ng) PROVE x \in AllocatedPages(pg) /\ x \notin Ext(pg, p)
      <4>1. PICK q \in Pages : ng[q].state = "allocated" /\ x \in Ext(ng, q)
        BY <3>1, AllocatedHeads
      <4> QED BY <1>2, <2>1, <2>2, <4>1, AllocatedHeads
    <3>2. ASSUME NEW x, x \in AllocatedPages(pg), x \notin Ext(pg, p) PROVE x \in AllocatedPages(ng)
      <4>1. PICK q \in Pages : pg[q].state = "allocated" /\ x \in Ext(pg, q)
        BY <3>2, AllocatedHeads
      <4>2. ng[q].state = "allocated" /\ x \in Ext(ng, q)
        BY <1>2, <2>1, <3>2, <4>1
      <4> QED BY <4>2, AllocatedHeads
    <3> QED BY <3>1, <3>2
  <2> QED BY <2>3
<1>8. Ext(pg, p) \subseteq held
  <2>1. PICK q \in held : pg[q].state = "allocated" /\ Ext(pg, q) \subseteq held /\ p \in Ext(pg, q)
    BY DEF Owning, Whole
  <2>2. q \in Heads(pg)
    BY <1>1, <2>1 DEF Heads
  <2>3. q = p
    BY <1>1, <2>1, <2>2, Overlap
  <2> QED BY <2>1, <2>3
<1>9. Covered(ow) \cup (held \ Ext(pg, p)) = AllocatedPages(ng)
  <2>1. Covered(ow) \cap Ext(pg, p) = {}
    BY <1>8 DEF Owning, Covered
  <2> QED BY <1>7, <2>1 DEF Owning
<1> QED BY <1>5, <1>6, <1>9 DEF Owning

\* The operation cuts one of its blocks in halves, and keeps both or the lower one.
LEMMA OwningSplit ==
    ASSUME NEW pg \in Tables, Tiles(pg), NEW ow, NEW held, Owning(pg, ow, held), NEW p \in held,
           pg[p].state = "allocated", NEW k \in 0 .. MaxOrder - 1, pg[p].order = k + 1,
           NEW u, u = p + Size[k], NEW t \in {"free", "allocated"}, NEW ng \in Tables,
           ng[p].state = "allocated", ng[p].order = k, ng[u].state = t, ng[u].order = k,
           SameBut(pg, ng, {p, u}),
           NEW kept, t = "allocated" => kept = held, t = "free" => kept = held \ Ext(ng, u)
    PROVE  Owning(ng, ow, kept)
<1> \A q \in Pages \ {p, u} : ng[q] = pg[q]
  BY DEF SameBut
<1> DEFINE rest == held \ Ext(pg, p)
<1>1. held \subseteq Pages /\ p \in Pages /\ p \in Heads(pg)
  BY DEF Owning, Whole, Heads
<1>2. /\ Tiles(ng) /\ Heads(ng) = Heads(pg) \cup {u}
      /\ u \in Pages /\ u # p /\ pg[u].state = "tail"
      /\ Ext(pg, p) = Ext(ng, p) \cup Ext(ng, u) /\ Ext(ng, p) \cap Ext(ng, u) = {}
  <2> HIDE DEF rest
  <2>1. u \in Pages /\ u # p /\ pg[u].state = "tail"
    BY <1>1, HalfFacts
  <2> QED BY <1>1, <2>1, SplitTiles
<1>3. \A q \in Pages \ {p, u} : Ext(ng, q) = Ext(pg, q)
  BY <1>2 DEF Ext
<1>4. p \in Ext(pg, p) /\ p \in Ext(ng, p)
  BY <1>1, <1>2, PageFacts
<1>5. Ext(pg, p) \subseteq held
  <2>1. PICK q \in held : pg[q].state = "allocated" /\ Ext(pg, q) \subseteq held /\ p \in Ext(pg, q)
    BY DEF Owning, Whole
  <2>2. q \in Heads(pg)
    BY <1>1, <2>1 DEF Heads
  <2>3. q = p
    BY <1>1, <2>1, <2>2, Overlap
  <2> QED BY <2>1, <2>3
<1>6. ASSUME NEW S, Whole(pg, S), p \notin S PROVE Whole(ng, S)
  <2>1. S \subseteq Pages
    BY <1>6 DEF Whole
  <2>2. \A q \in S : pg[q].state = "allocated" => ng[q] = pg[q]
    BY <1>2, <1>6, <2>1
  <2> QED BY <1>6, <2>2, WholeKept
<1>7. Whole(ng, rest \cup Ext(ng, p))
  <2>1. Whole(pg, rest)
    BY <1>1, WholeMinus DEF Owning
  <2>2. Whole(ng, rest)
    BY <1>4, <1>6, <2>1
  <2> HIDE DEF rest
  <2> QED BY <1>1, <1>2, <2>2, WholePlus
<1>8. Whole(ng, kept)
  <2>1. CASE t = "allocated"
    <3>1. Whole(ng, (rest \cup Ext(ng, p)) \cup Ext(ng, u))
      <4> HIDE DEF rest
      <4> QED BY <1>2, <1>7, <2>1, WholePlus
    <3>2. (rest \cup Ext(ng, p)) \cup Ext(ng, u) = kept
      BY <1>2, <1>5, <2>1
    <3> QED BY <3>1, <3>2
  <2>2. CASE t = "free"
    <3>1. rest \cup Ext(ng, p) = kept
      BY <1>2, <1>5, <2>2
    <3> QED BY <1>7, <3>1
  <2> QED BY <2>1, <2>2
<1>9. \A a \in ow : Whole(ng, Span(a[1], a[2])) /\ Span(a[1], a[2]) \cap kept = {}
  BY <1>6 DEF Owning
<1>10. AllocatedPages(ng) = IF t = "allocated" THEN AllocatedPages(pg)
                            ELSE AllocatedPages(pg) \ Ext(ng, u)
  <2>1. \A q \in Pages \ {p, u} : /\ ng[q].state = "allocated" <=> pg[q].state = "allocated"
                                  /\ Ext(ng, q) = Ext(pg, q)
    BY <1>2, <1>3
  <2>2. \A x : x \in AllocatedPages(ng) <=>
                  \/ \E q \in Pages \ {p, u} : pg[q].state = "allocated" /\ x \in Ext(pg, q)
                  \/ x \in Ext(ng, p)
                  \/ t = "allocated" /\ x \in Ext(ng, u)
    <3> SUFFICES ASSUME NEW x
                 PROVE  x \in AllocatedPages(ng) <=>
                  \/ \E q \in Pages \ {p, u} : pg[q].state = "allocated" /\ x \in Ext(pg, q)
                  \/ x \in Ext(ng, p)
                  \/ t = "allocated" /\ x \in Ext(ng, u)
      OBVIOUS
    <3>1. x \in AllocatedPages(ng) <=> \E q \in Pages : ng[q].state = "allocated" /\ x \in Ext(ng, q)
      BY <1>2, AllocatedHeads
    <3> QED BY <1>1, <1>2, <2>1, <3>1
  <2>3. \A x : x \in AllocatedPages(pg) <=>
                  \/ \E q \in Pages \ {p, u} : pg[q].state = "allocated" /\ x \in Ext(pg, q)
                  \/ x \in Ext(pg, p)
    <3> SUFFICES ASSUME NEW x
                 PROVE  x \in AllocatedPages(pg) <=>
                  \/ \E q \in Pages \ {p, u} : pg[q].state = "allocated" /\ x \in Ext(pg, q)
                  \/ x \in Ext(pg, p)
      OBVIOUS
    <3>1. x \in AllocatedPages(pg) <=> \E q \in Pages : pg[q].state = "allocated" /\ x \in Ext(pg, q)
      BY AllocatedHeads
    <3> QED BY <1>1, <1>2, <3>1
  <2>4. \A q \in Pages \ {p, u} : pg[q].state = "allocated" => Ext(pg, q) \cap Ext(pg, p) = {}
    BY <1>1, Overlap DEF Heads
  <2>5. CASE t = "allocated"
    <3>1. \A x : x \in AllocatedPages(ng) <=> x \in AllocatedPages(pg)
      BY <1>2, <2>2, <2>3, <2>5
    <3> QED BY <2>5, <3>1
  <2>6. CASE t = "free"
    <3>1. \A x : x \in AllocatedPages(ng) <=> x \in AllocatedPages(pg) /\ x \notin Ext(ng, u)
      BY <1>2, <2>2, <2>3, <2>4, <2>6
    <3>2. AllocatedPages(ng) = AllocatedPages(pg) \ Ext(ng, u)
      BY <3>1
    <3> QED BY <2>6, <3>2
  <2> QED BY <2>5, <2>6
<1>11. Covered(ow) \cup kept = AllocatedPages(ng)
  <2>1. Covered(ow) \cap held = {}
    BY DEF Owning, Covered
  <2>2. Ext(ng, u) \subseteq held
    BY <1>2, <1>5
  <2>3. Covered(ow) \cup held = AllocatedPages(pg)
    BY DEF Owning
  <2>4. CASE t = "allocated"
    BY <1>10, <2>3, <2>4
  <2>5. CASE t = "free"
    <3>1. kept = held \ Ext(ng, u) /\ AllocatedPages(ng) = AllocatedPages(pg) \ Ext(ng, u)
      BY <1>10, <2>5
    <3> QED BY <2>1, <2>2, <2>3, <3>1
  <2> QED BY <2>4, <2>5
<1> HIDE DEF rest
<1>12. Owning(ng, ow, kept)
  BY <1>8, <1>9, <1>11 DEF Owning
<1> QED BY <1>12
-------------------------------------------------------------------------------
(* The free lists after buddy_build *)

\* buddy_build is done.
Built(w) == w.op \notin {"reserving", "joining", "listing"}

\* Then exactly the block in hand is on no list.
LEMMA HiddenBuilt ==
    ASSUME NEW w, Built(w)
    PROVE  HiddenBy(w) = Hand(w) /\ w.op # "reserving" /\ w.op # "joining"
BY DEF Built, HiddenBy

\* Fewer listed blocks are no closer.
LEMMA JoinlessFewer ==
    ASSUME NEW pg, NEW w, Joinless(pg, w), w.op # "reserving", w.op # "joining", NEW ng, NEW nw,
           \A j \in Orders : FreeAt(ng, Hand(nw), j) \subseteq FreeAt(pg, Hand(w), j)
    PROVE  Joinless(ng, nw)
<1>1. ASSUME NEW j \in 0 .. MaxOrder - 1, NEW x \in FreeAt(ng, Hand(nw), j), x % Size[j + 1] = 0,
             x + Size[j] \in FreeAt(ng, Hand(nw), j)
      PROVE  FALSE
  <2>1. j \in Orders
    BY Sizes
  <2>2. x \in FreeAt(pg, Hand(w), j) /\ x + Size[j] \in FreeAt(pg, Hand(w), j)
    BY <1>1, <2>1
  <2> QED BY <1>1, <2>2 DEF Joinless, Swept
<1> QED BY <1>1 DEF Joinless

\* The same free blocks are to be listed.
SameFree(pg, hidden, ng, covered) ==
    \A j \in Orders : FreeAt(ng, covered, j) = FreeAt(pg, hidden, j)

\* A step that lists no other block.
LEMMA SameKeeps ==
    ASSUME NEW list, NEW count, NEW pg, NEW w, Built(w), Lists(list, count, pg, HiddenBy(w)),
           Joinless(pg, w), NEW ng, NEW nw, Built(nw),
           SameFree(pg, Hand(w), ng, Hand(nw))
    PROVE  Lists(list, count, ng, HiddenBy(nw)) /\ Joinless(ng, nw)
<1> \A j \in Orders : FreeAt(ng, Hand(nw), j) = FreeAt(pg, Hand(w), j)
  BY DEF SameFree
<1>1. /\ HiddenBy(w) = Hand(w) /\ w.op # "reserving" /\ w.op # "joining"
      /\ HiddenBy(nw) = Hand(nw) /\ nw.op # "reserving" /\ nw.op # "joining"
  BY HiddenBuilt
<1>2. Lists(list, count, ng, HiddenBy(nw))
  BY <1>1, ListsSame
<1>3. Joinless(ng, nw)
  <2>1. \A j \in Orders : FreeAt(ng, Hand(nw), j) \subseteq FreeAt(pg, Hand(w), j)
    OBVIOUS
  <2> QED BY ONLY <1>1, <2>1, Joinless(pg, w), JoinlessFewer
<1> QED BY <1>2, <1>3

\* A block leaves its list.
LEMMA RemoveKeeps ==
    ASSUME NEW list \in [Orders -> Seq(Pages)], NEW count \in [Orders -> Nat],
           NEW pg, NEW w, Built(w), Lists(list, count, pg, HiddenBy(w)), Joinless(pg, w),
           NEW k \in Orders, NEW p \in FreeAt(pg, Hand(w), k), NEW ng, NEW nw, Built(nw),
           FreeAt(ng, Hand(nw), k) = FreeAt(pg, Hand(w), k) \ {p},
           NEW nl, nl[k] = Without(list[k], p), NEW nc, nc[k] = count[k] - 1,
           Elsewhere(k, list, count, pg, Hand(w), nl, nc, ng, Hand(nw))
    PROVE  /\ Without(list[k], p) \in Seq(Pages) /\ count[k] - 1 \in Nat
           /\ Lists(nl, nc, ng, HiddenBy(nw)) /\ Joinless(ng, nw)
<1>1. /\ HiddenBy(w) = Hand(w) /\ w.op # "reserving" /\ w.op # "joining"
      /\ HiddenBy(nw) = Hand(nw) /\ nw.op # "reserving" /\ nw.op # "joining"
  BY HiddenBuilt
<1>2. p \in Pages
  BY DEF FreeAt
<1>3. /\ Without(list[k], p) \in Seq(Pages) /\ count[k] - 1 \in Nat
      /\ Lists(nl, nc, ng, HiddenBy(nw))
  <2>1. /\ p \in FreeAt(pg, HiddenBy(w), k)
        /\ FreeAt(ng, HiddenBy(nw), k) = FreeAt(pg, HiddenBy(w), k) \ {p}
        /\ Elsewhere(k, list, count, pg, HiddenBy(w), nl, nc, ng, HiddenBy(nw))
    BY <1>1
  <2> QED BY <1>2, <2>1, ListsRemove
<1>4. \A j \in Orders : FreeAt(ng, Hand(nw), j) \subseteq FreeAt(pg, Hand(w), j)
  BY DEF Elsewhere
<1>5. Joinless(ng, nw)
  BY ONLY <1>1, <1>4, Joinless(pg, w), JoinlessFewer
<1> QED BY <1>3, <1>5

\* A block whose buddy is not a free block of the same order goes on its list.
LEMMA AddKeeps ==
    ASSUME NEW list \in [Orders -> Seq(Pages)], NEW count \in [Orders -> Nat],
           NEW pg, NEW w, Built(w), Lists(list, count, pg, HiddenBy(w)), Joinless(pg, w),
           NEW k \in Orders, NEW p \in Pages, p \notin FreeAt(pg, Hand(w), k),
           k < MaxOrder => BuddyOf(p, k) \notin FreeAt(pg, Hand(w), k), NEW ng, NEW nw, Built(nw),
           FreeAt(ng, Hand(nw), k) = FreeAt(pg, Hand(w), k) \cup {p},
           NEW nl, nl[k] = Append(list[k], p), NEW nc, nc[k] = count[k] + 1,
           Elsewhere(k, list, count, pg, Hand(w), nl, nc, ng, Hand(nw))
    PROVE  Lists(nl, nc, ng, HiddenBy(nw)) /\ Joinless(ng, nw)
<1>1. /\ HiddenBy(w) = Hand(w) /\ w.op # "reserving" /\ w.op # "joining"
      /\ HiddenBy(nw) = Hand(nw) /\ nw.op # "reserving" /\ nw.op # "joining"
  BY HiddenBuilt
<1>2. Lists(nl, nc, ng, HiddenBy(nw))
  <2>1. /\ p \notin FreeAt(pg, HiddenBy(w), k)
        /\ FreeAt(ng, HiddenBy(nw), k) = FreeAt(pg, HiddenBy(w), k) \cup {p}
        /\ Elsewhere(k, list, count, pg, HiddenBy(w), nl, nc, ng, HiddenBy(nw))
    BY <1>1
  <2> QED BY <2>1, ListsAdd
<1>3. ASSUME NEW j \in 0 .. MaxOrder - 1, NEW x \in FreeAt(ng, Hand(nw), j), x % Size[j + 1] = 0,
             x + Size[j] \in FreeAt(ng, Hand(nw), j)
      PROVE  FALSE
  <2>1. /\ j \in Orders /\ Size[j] \in Nat \ {0} /\ x \in Nat
    <3>1. x \in Pages
      BY <1>3 DEF FreeAt
    <3>2. j \in Orders /\ Size[j] \in Nat \ {0}
      BY ONLY Sizes, j \in 0 .. MaxOrder - 1
    <3> QED BY <3>1, <3>2 DEF Pages
  <2>2. BuddyOf(x, j) = x + Size[j] /\ BuddyOf(x + Size[j], j) = x
    BY <1>3, <2>1, Halved
  <2>3. x \in FreeAt(pg, Hand(w), j) => x + Size[j] \notin FreeAt(pg, Hand(w), j)
    BY <1>1, <1>3 DEF Joinless, Swept
  <2>4. CASE j # k
    BY <1>3, <2>1, <2>3, <2>4 DEF Elsewhere
  <2>5. CASE j = k
    <3>1. k < MaxOrder
      BY <2>5, MaxOrderAssumption
    <3>2. /\ x \in FreeAt(pg, Hand(w), k) \/ x = p
          /\ x + Size[k] \in FreeAt(pg, Hand(w), k) \/ x + Size[k] = p
      BY <1>3, <2>5
    <3>3. x + Size[k] # x
      BY <2>1, <2>5
    <3> QED BY <2>2, <2>3, <2>5, <3>1, <3>2, <3>3
  <2> QED BY <2>4, <2>5
<1>4. Joinless(ng, nw)
  BY <1>3 DEF Joinless
<1> QED BY <1>2, <1>4
-------------------------------------------------------------------------------
(* Steps of the operations *)

\* Blocks of one page.
LEMMA UnitTiles ==
    ASSUME NEW pg \in Tables,
           \A p \in Pages : pg[p].order = 0 /\ pg[p].state \in {"free", "reserved"}
    PROVE  Tiles(pg)
<1>1. ASSUME NEW p \in Pages PROVE Ext(pg, p) = {p} /\ p % Size[pg[p].order] = 0
  <2>1. Size[pg[p].order] = 1 /\ p \in Nat
    BY Sizes DEF Pages
  <2> QED BY <2>1 DEF Ext, Span
<1> QED BY <1>1 DEF Tiles, Heads

\* A caller gets what the operation holds.
LEMMA OwningGain ==
    ASSUME NEW pg, NEW ow, NEW held, Owning(pg, ow, held), NEW first, NEW count,
           held = Span(first, count)
    PROVE  Owning(pg, ow \cup {<<first, count>>}, {})
<1> DEFINE a == <<first, count>>
           no == ow \cup {a}
<1>1. a[1] = first /\ a[2] = count
  OBVIOUS
<1>2. \A c \in no : Whole(pg, Span(c[1], c[2])) /\ (c # a => c \in ow)
  BY <1>1 DEF Owning
<1>3. \A c \in ow : c # a => Span(c[1], c[2]) \cap Span(a[1], a[2]) = {}
  BY <1>1 DEF Owning
<1>4. Covered(no) = Covered(ow) \cup held
  BY <1>1 DEF Covered
<1> HIDE DEF a, no
<1>5. \A c, d \in no : c # d => Span(c[1], c[2]) \cap Span(d[1], d[2]) = {}
  BY <1>2, <1>3 DEF Owning
<1>6. Whole(pg, {})
  BY DEF Whole
<1>7. Owning(pg, no, {})
  BY <1>2, <1>4, <1>5, <1>6 DEF Owning
<1> QED BY <1>7 DEF no, a

\* A caller gives up what it owns.
LEMMA OwningLoss ==
    ASSUME NEW pg, NEW ow, Owning(pg, ow, {}), NEW a \in ow
    PROVE  Owning(pg, ow \ {a}, Span(a[1], a[2]))
<1>1. Whole(pg, Span(a[1], a[2]))
  BY DEF Owning
<1>2. \A c \in ow \ {a} : Whole(pg, Span(c[1], c[2])) /\ Span(c[1], c[2]) \cap Span(a[1], a[2]) = {}
  BY DEF Owning
<1>3. \A c, d \in ow \ {a} : c # d => Span(c[1], c[2]) \cap Span(d[1], d[2]) = {}
  BY DEF Owning
<1>4. Covered(ow) = Covered(ow \ {a}) \cup Span(a[1], a[2])
  BY DEF Covered
<1> QED BY <1>1, <1>2, <1>3, <1>4 DEF Owning

\* What the type invariant says of the running operation.
LEMMA WorkFacts ==
    ASSUME TypeOK
    PROVE  /\ pages \in Tables /\ work \in Work
           /\ work.op \in Operations /\ work.page \in Nat /\ work.page <= PageCount
           /\ work.order \in Orders /\ work.left \in Nat /\ work.left <= PageCount
           /\ work.base \in Nat /\ work.base <= PageCount /\ work.count \in Nat
           /\ work.count <= PageCount /\ PageCount \in Nat \ {0}
BY PageCountAssumption DEF TypeOK, Tables, Work

\* The initial state.
LEMMA InitHolds == Init => IInv
<1> SUFFICES ASSUME Init PROVE IInv
  OBVIOUS
<1>1. 0 \in Orders /\ "free" \in States /\ MaxOrder \in Nat /\ PageCount \in Nat \ {0}
  BY MaxOrderAssumption, PageCountAssumption DEF Orders, States
<1>2. /\ work.op = "reserving" /\ work.page = 0 /\ work.order = 0 /\ work \in Work /\ owned = {}
  BY <1>1 DEF Init, Idle, Work, Operations
<1>3. /\ pages \in Tables
      /\ \A p \in Pages : pages[p].order = 0 /\ pages[p].state = "free"
  BY <1>1, BlockFacts DEF Init, Tables
<1>4. TypeOK
  BY <1>2, <1>3 DEF Init, TypeOK, Tables
<1>5. Tiles(pages)
  BY <1>3, UnitTiles
<1>6. Lists(free_list, free_count, pages, HiddenBy(work))
  <2>1. \A k \in Orders : FreeAt(pages, HiddenBy(work), k) = {}
    BY <1>2 DEF FreeAt, HiddenBy
  <2> QED BY <2>1 DEF Init, Lists, Listed, Distinct
<1>7. Owning(pages, owned, HeldBy(work))
  BY <1>2, <1>3, NothingOwned DEF HeldBy
<1>8. Joinless(pages, work)
  BY <1>2 DEF Joinless
<1>9. Loops
  BY <1>2, <1>3 DEF Loops, Starting, Reserving, Joining, HandFree, Splitting, Trimming, Checking, Doing
<1> QED BY <1>4, <1>5, <1>6, <1>7, <1>8, <1>9 DEF IInv

\* buddy_reserve.
LEMMA ReserveHolds == IInv /\ Reserve => IInv'
<1> SUFFICES ASSUME IInv, Reserve PROVE IInv'
  OBVIOUS
<1>1. /\ work.op = "reserving" /\ work' = work /\ owned' = owned
      /\ free_list' = free_list /\ free_count' = free_count
      /\ \A p \in Pages : pages[p].order = 0 /\ pages[p].state \in {"free", "reserved"}
      /\ owned = {} /\ TypeOK /\ 0 \in Orders /\ "reserved" \in States /\ pages \in Tables
  BY WorkFacts, MaxOrderAssumption
     DEF Reserve, Doing, IInv, Loops, Reserving, Starting, States, Orders
<1>2. PICK first \in Pages : \E last \in first .. PageCount - 1 :
          pages' = [p \in Pages |-> IF p \in first .. last
                                    THEN Block("reserved", OrderOf(p)) ELSE pages[p]]
  BY DEF Reserve
<1>3. PICK last \in first .. PageCount - 1 :
          pages' = [p \in Pages |-> IF p \in first .. last
                                    THEN Block("reserved", OrderOf(p)) ELSE pages[p]]
  BY <1>2
<1>4. /\ pages' \in Tables
      /\ \A p \in Pages : pages'[p].order = 0 /\ pages'[p].state \in {"free", "reserved"}
  BY <1>1, <1>3, BlockFacts DEF Tables, OrderOf
<1>5. TypeOK'
  BY <1>1, <1>4 DEF TypeOK, Tables
<1>6. Tiles(pages')
  BY <1>4, UnitTiles
<1>7. Lists(free_list', free_count', pages', HiddenBy(work'))
  <2>1. \A k \in Orders : /\ FreeAt(pages', HiddenBy(work'), k) = {}
                          /\ FreeAt(pages, HiddenBy(work), k) = {}
    BY <1>1 DEF FreeAt, HiddenBy
  <2> QED BY <1>1, <2>1 DEF IInv, Lists
<1>8. Owning(pages', owned', HeldBy(work'))
  BY <1>1, <1>4, NothingOwned DEF HeldBy
<1>9. Joinless(pages', work')
  BY <1>1 DEF Joinless
<1>10. Loops'
  BY <1>1, <1>4 DEF IInv, Loops, Starting, Reserving, Joining, HandFree, Splitting, Trimming, Checking,
                    Doing
<1> QED BY <1>5, <1>6, <1>7, <1>8, <1>9, <1>10 DEF IInv

\* buddy_build starts.
LEMMA BuildHolds == IInv /\ Build => IInv'
<1> SUFFICES ASSUME IInv, Build PROVE IInv'
  OBVIOUS
<1>1. /\ work.op = "reserving" /\ work'.op = "joining" /\ work'.page = 0 /\ work'.order = 0
      /\ work' \in Work /\ UNCHANGED <<pages, free_list, free_count, owned>>
      /\ owned = {} /\ (\A p \in Pages : pages[p].state # "allocated") /\ TypeOK
  BY WorkFacts DEF Build, Doing, IInv, Loops, Reserving, Starting, Work, Operations
<1>2. TypeOK'
  BY <1>1 DEF TypeOK
<1>3. Tiles(pages')
  BY <1>1 DEF IInv
<1>4. Lists(free_list', free_count', pages', HiddenBy(work'))
  BY <1>1 DEF IInv, HiddenBy
<1>5. Owning(pages', owned', HeldBy(work'))
  BY <1>1, NothingOwned DEF HeldBy
<1>6. Joinless(pages', work')
  <2>1. \A k \in 0 .. MaxOrder - 1 : \A p \in Pages : ~Swept(work', p, k)
    BY <1>1, MaxOrderAssumption DEF Swept, Pages
  <2> QED BY <2>1 DEF Joinless, FreeAt
<1>7. Loops'
  <2>1. 0 < MaxOrder => 0 % Size[0 + 1] = 0
    <3>1. ASSUME 0 < MaxOrder PROVE 0 % Size[1] = 0
      <4>1. Size[1] \in Nat \ {0}
        BY <3>1, Sizes, MaxOrderAssumption DEF Orders
      <4>2. 0 = Size[1] * 0 /\ 0 \in 0 .. Size[1] - 1
        BY <4>1
      <4> QED BY <4>1, <4>2, DivUnique
    <3> QED BY <3>1
  <2>2. work'.order < MaxOrder => work'.page % Size[work'.order + 1] = 0
    BY <1>1, <2>1
  <2>3. Joining'
    BY <2>2 DEF Joining
  <2> QED BY <1>1, <2>3 DEF Loops, Starting, Reserving, HandFree, Splitting, Trimming,
                            Checking, Doing
<1> QED BY <1>2, <1>3, <1>4, <1>5, <1>6, <1>7 DEF IInv

\* Where the sweep of buddy_build goes next.
LEMMA NextPair ==
    ASSUME NEW k \in 0 .. MaxOrder - 1, NEW p \in Nat, p % Size[k + 1] = 0
    PROVE  /\ (p + 2 * Size[k]) % Size[k + 1] = 0
           /\ \A x \in Nat : x % Size[k + 1] = 0 /\ p <= x /\ x < p + 2 * Size[k] => x = p
<1> DEFINE t == Size[k + 1]
<1>1. t \in Nat \ {0} /\ t = 2 * Size[k] /\ Size[k] \in Nat \ {0}
  BY Sizes
<1> HIDE DEF t
<1>2. PICK m \in Nat : p = t * m
  BY <1>1, Multiple DEF t
<1>3. p + t = t * (m + 1) /\ m + 1 \in Nat /\ p + t \in Nat
  BY <1>1, <1>2
<1>4. (p + t) % t = 0
  BY <1>1, <1>3, Multiple
<1>5. ASSUME NEW x \in Nat, x % t = 0, p <= x, x < p + t PROVE x = p
  <2>1. PICK n \in Nat : x = t * n
    BY <1>1, <1>5, Multiple
  <2>2. DEFINE r == x - p
  <2>3. r \in 0 .. t - 1 /\ x = t * m + r
    BY <1>1, <1>2, <1>5
  <2> HIDE DEF r
  <2>4. x % t = r
    BY <1>1, <2>3, DivUnique
  <2> QED BY <1>5, <2>4 DEF r
<1> QED BY <1>1, <1>4, <1>5 DEF t

\* buddy_build pairs blocks: the sweep leaves no pair behind.
LEMMA JoinHolds == IInv /\ Join => IInv'
<1> SUFFICES ASSUME IInv, Join PROVE IInv'
  OBVIOUS
<1> DEFINE k == work.order
           p == work.page
           u == p + Size[k]
<1>1. /\ work.op = "joining" /\ k \in 0 .. MaxOrder - 1 /\ p \in Pages /\ p \in Nat
      /\ UNCHANGED <<free_list, free_count, owned>> /\ owned = {}
      /\ (\A q \in Pages : pages[q].state # "allocated") /\ TypeOK /\ pages \in Tables /\ Tiles(pages)
      /\ p % Size[k + 1] = 0 /\ Size[k] \in Nat \ {0} /\ k \in Orders /\ k + 1 \in Orders
      /\ work \in Work
  <2>1. TypeOK /\ work.op = "joining" /\ k < MaxOrder /\ p < PageCount /\ Starting /\ Joining /\ Tiles(pages)
    BY DEF Join, Doing, IInv, Loops
  <2>2. k \in 0 .. MaxOrder - 1 /\ p \in Pages /\ p \in Nat
    BY <2>1, WorkFacts, MaxOrderAssumption DEF Orders, Pages
  <2> QED BY <2>1, <2>2, WorkFacts, Sizes DEF Join, Starting, Joining, Doing
<1>2. /\ pages' = IF Joinable(p, k) THEN [pages EXCEPT ![p].order = k + 1, ![u].state = "tail"]
                  ELSE pages
      /\ work' = IF p + 2 * Size[k] < PageCount
                 THEN [work EXCEPT !.page = p + 2 * Size[k]]
                 ELSE [work EXCEPT !.page = 0, !.order = k + 1]
  BY DEF Join
<1> HIDE DEF k, p, u
<1>3. /\ pages' \in Tables /\ Tiles(pages') /\ \A q \in Pages : pages'[q].state # "allocated"
      /\ \A j \in 0 .. k : FreeAt(pages', {}, j) \subseteq FreeAt(pages, {}, j)
      /\ p \in FreeAt(pages', {}, k) => u \notin FreeAt(pages', {}, k)
  <2>1. CASE Joinable(p, k)
    <3>1. /\ u \in Pages /\ u = p + Size[k] /\ u # p
          /\ pages[p] = Block("free", k) /\ pages[u] = Block("free", k)
          /\ pages' = [pages EXCEPT ![p].order = k + 1, ![u].state = "tail"]
      <4>1. u = p + Size[k] /\ u \in Nat /\ u # p
        BY <1>1 DEF u
      <4>2. u \in Pages
        BY <2>1, <4>1, PageCountAssumption DEF Joinable, Pages
      <4> QED BY <1>2, <2>1, <4>1, <4>2 DEF Joinable
    <3>2. /\ pages[p].state = "free" /\ pages[p].order = k
          /\ pages[u].state = "free" /\ pages[u].order = k
      BY <1>1, <3>1, BlockFacts, StateFacts
    <3>3. /\ pages'[p] = [pages[p] EXCEPT !.order = k + 1]
          /\ pages'[u] = [pages[u] EXCEPT !.state = "tail"]
          /\ \A q \in Pages \ {p, u} : pages'[q] = pages[q]
          /\ DOMAIN pages' = Pages
      BY <1>1, <3>1 DEF Tables
    <3>4. /\ pages'[p] \in [state : States, order : Orders]
          /\ pages'[u] \in [state : States, order : Orders]
          /\ pages'[p].state = "free" /\ pages'[p].order = k + 1 /\ pages'[u].state = "tail"
      BY <1>1, <3>1, <3>2, <3>3, StateFacts DEF Tables
    <3>5. pages' \in Tables
      BY <1>1, <3>1, <3>3, <3>4 DEF Tables
    <3>6. Tiles(pages')
      <4>1. p \in Heads(pages) /\ u \in Heads(pages)
        BY <1>1, <3>1, <3>2 DEF Heads
      <4>2. SameBut(pages, pages', {p, u})
        BY <3>3 DEF SameBut
      <4>3. pages \in Tables /\ Tiles(pages) /\ k \in 0 .. MaxOrder - 1 /\ p % Size[k + 1] = 0
        BY <1>1
      <4>4. u = p + Size[k]
        BY <3>1
      <4> QED BY <3>2, <3>4, <3>5, <4>1, <4>2, <4>3, <4>4, JoinTiles
    <3>7. \A q \in Pages : pages'[q].state # "allocated"
      BY <1>1, <3>3, <3>4
    <3>8. ASSUME NEW j \in 0 .. k, NEW q \in FreeAt(pages', {}, j) PROVE q \in FreeAt(pages, {}, j)
      <4>1. q \in Pages /\ pages'[q].state = "free" /\ pages'[q].order = j
        BY DEF FreeAt
      <4>2. q # p /\ q # u
        BY <1>1, <3>4, <4>1
      <4> QED BY <3>3, <4>1, <4>2 DEF FreeAt
    <3>9. p \in FreeAt(pages', {}, k) => u \notin FreeAt(pages', {}, k)
      BY <3>4 DEF FreeAt
    <3> QED BY <3>5, <3>6, <3>7, <3>8, <3>9
  <2>2. CASE ~Joinable(p, k)
    <3>1. pages' = pages
      BY <1>2, <2>2
    <3>2. ASSUME p \in FreeAt(pages, {}, k), u \in FreeAt(pages, {}, k) PROVE FALSE
      <4>1. pages[p] = Block("free", k) /\ pages[u] = Block("free", k)
        BY <1>1, <3>2, BlockFacts, StateFacts DEF FreeAt, Tables
      <4>2. u = p + Size[k] /\ u < PageCount
        BY <3>2, PageCountAssumption DEF u, FreeAt, Pages
      <4> QED BY <2>2, <4>1, <4>2 DEF Joinable
    <3> QED BY <1>1, <3>1, <3>2
  <2> QED BY <2>1, <2>2
<1>4. /\ work' \in Work /\ work'.op = "joining"
      /\ \/ p + 2 * Size[k] < PageCount /\ work'.page = p + 2 * Size[k] /\ work'.order = k
         \/ p + 2 * Size[k] >= PageCount /\ work'.page = 0 /\ work'.order = k + 1
  <2>1. PageCount \in Nat /\ Size[k] \in Nat /\ p \in Nat /\ 0 \in 0 .. PageCount
    BY <1>1, PageCountAssumption
  <2>2. CASE p + 2 * Size[k] < PageCount
    <3>1. p + 2 * Size[k] \in 0 .. PageCount
      BY <2>1, <2>2
    <3> QED BY <1>1, <1>2, <2>2, <3>1 DEF Work, k
  <2>3. CASE p + 2 * Size[k] >= PageCount
    <3>1. work' = [work EXCEPT !.page = 0, !.order = k + 1]
      BY <1>2, <2>1, <2>3
    <3> QED BY <1>1, <2>1, <2>3, <3>1 DEF Work
  <2> QED BY <2>1, <2>2, <2>3
<1>5. TypeOK'
  BY <1>1, <1>3, <1>4 DEF TypeOK, Tables
<1>6. Lists(free_list', free_count', pages', HiddenBy(work'))
  <2>1. Lists(free_list, free_count, pages, HiddenBy(work))
    BY DEF IInv
  <2>2. \A j \in Orders : FreeAt(pages', HiddenBy(work'), j) = FreeAt(pages, HiddenBy(work), j)
    BY <1>1, <1>4 DEF FreeAt, HiddenBy
  <2> QED BY <1>1, <2>1, <2>2, ListsSame
<1>7. Owning(pages', owned', HeldBy(work'))
  BY <1>1, <1>3, <1>4, NothingOwned DEF HeldBy
<1>8. Joinless(pages', work')
  <2>1. Hand(work) = {} /\ Hand(work') = {}
    BY <1>1, <1>4 DEF Hand
  <2> SUFFICES ASSUME NEW j \in 0 .. MaxOrder - 1, NEW x \in FreeAt(pages', {}, j),
                      Swept(work', x, j), x % Size[j + 1] = 0, x + Size[j] \in FreeAt(pages', {}, j)
               PROVE  FALSE
    BY <2>1 DEF Joinless
  <2>2. x \in Pages /\ x \in Nat /\ x < PageCount /\ PageCount \in Nat
    BY PageCountAssumption DEF FreeAt, Pages
  <2>3. j \in 0 .. k
    BY <1>1, <1>4, <2>2 DEF Swept
  <2>4. x \in FreeAt(pages, {}, j) /\ x + Size[j] \in FreeAt(pages, {}, j)
    BY <1>3, <2>3
  <2>5. ~Swept(work, x, j)
    <3>1. Joinless(pages, work) /\ work.op # "reserving"
      BY <1>1 DEF IInv
    <3> QED BY <2>1, <2>4, <3>1 DEF Joinless
  <2>6. j = k /\ p <= x
    BY <1>1, <2>2, <2>3, <2>5 DEF Swept, k, p
  <2>7. x < p + 2 * Size[k]
    BY <1>1, <1>4, <2>2, <2>6 DEF Swept
  <2>8. x = p
    BY <1>1, <2>2, <2>6, <2>7, NextPair
  <2> QED BY <1>3, <2>6, <2>8 DEF u
<1>9. Loops'
  <2>1. Joining'
    <3>1. CASE work'.page = p + 2 * Size[k] /\ work'.order = k
      BY <1>1, <3>1, NextPair DEF Joining
    <3>2. CASE work'.page = 0 /\ work'.order = k + 1
      <4>1. ASSUME k + 1 < MaxOrder PROVE 0 % Size[(k + 1) + 1] = 0
        <5>1. Size[(k + 1) + 1] \in Nat \ {0}
          BY <1>1, <4>1, Sizes, MaxOrderAssumption DEF Orders
        <5>2. 0 = Size[(k + 1) + 1] * 0 /\ 0 \in 0 .. Size[(k + 1) + 1] - 1
          BY <5>1
        <5> QED BY <5>1, <5>2, DivUnique
      <4>2. work'.order < MaxOrder => work'.page % Size[work'.order + 1] = 0
        BY <3>2, <4>1
      <4> QED BY <4>2 DEF Joining
    <3> QED BY <1>4, <3>1, <3>2
  <2> QED BY <1>1, <1>3, <1>4, <2>1 DEF Loops, Starting, Reserving, HandFree, Splitting, Trimming,
                                        Checking, Doing
<1> QED BY <1>3, <1>5, <1>6, <1>7, <1>8, <1>9 DEF IInv

\* buddy_build has paired the blocks.
LEMMA JoinedHolds == IInv /\ Joined => IInv'
<1> SUFFICES ASSUME IInv, Joined PROVE IInv'
  OBVIOUS
<1>1. /\ work.op = "joining" /\ work.order = MaxOrder /\ work'.op = "listing" /\ work'.page = 0
      /\ work' \in Work /\ UNCHANGED <<pages, free_list, free_count, owned>>
      /\ owned = {} /\ (\A p \in Pages : pages[p].state # "allocated") /\ TypeOK
      /\ Joinless(pages, work)
  <2>1. TypeOK /\ Starting /\ Joinless(pages, work)
    BY DEF IInv, Loops
  <2>2. work' = [work EXCEPT !.op = "listing", !.page = 0] /\ work \in Work /\ 0 \in 0 .. PageCount
    BY <2>1, WorkFacts DEF Joined
  <2>3. work' \in Work /\ work'.op = "listing" /\ work'.page = 0
    BY <2>2 DEF Work, Operations
  <2> QED BY <2>1, <2>3 DEF Joined, Doing, Starting
<1>2. TypeOK'
  BY <1>1 DEF TypeOK
<1>3. Tiles(pages')
  BY <1>1 DEF IInv
<1>4. Lists(free_list', free_count', pages', HiddenBy(work'))
  <2>1. HiddenBy(work) = Pages /\ HiddenBy(work') = Pages
    BY <1>1 DEF HiddenBy, Pages
  <2> QED BY <1>1, <2>1 DEF IInv
<1>5. Owning(pages', owned', HeldBy(work'))
  BY <1>1, NothingOwned DEF HeldBy
<1>6. Joinless(pages', work')
  <2>1. \A k \in 0 .. MaxOrder - 1 : \A p : Swept(work, p, k)
    BY <1>1, MaxOrderAssumption DEF Swept
  <2>2. Hand(work) = {} /\ Hand(work') = {}
    BY <1>1 DEF Hand
  <2> QED BY <1>1, <2>1, <2>2 DEF Joinless
<1>7. Loops'
  BY <1>1 DEF Loops, Starting, Reserving, Joining, HandFree, Splitting, Trimming, Checking, Doing
<1> QED BY <1>2, <1>3, <1>4, <1>5, <1>6, <1>7 DEF IInv

\* buddy_build lists a block.
LEMMA ListBlockHolds == IInv /\ ListBlock => IInv'
<1> SUFFICES ASSUME IInv, ListBlock PROVE IInv'
  OBVIOUS
<1> DEFINE p == work.page
           k == OrderOf(p)
           free == pages[p].state = "free"
<1>1. /\ TypeOK /\ Starting /\ Joinless(pages, work) /\ Tiles(pages)
      /\ Lists(free_list, free_count, pages, HiddenBy(work))
  BY DEF IInv, Loops
<1>2. /\ work.op = "listing" /\ p \in Pages /\ p + 1 \in 0 .. PageCount /\ p \in Nat /\ k \in Orders
      /\ owned = {} /\ (\A q \in Pages : pages[q].state # "allocated")
      /\ UNCHANGED <<pages, owned>> /\ work' = [work EXCEPT !.page = p + 1] /\ work \in Work
      /\ k = pages[p].order
  BY <1>1, WorkFacts, PageFacts DEF ListBlock, Starting, Doing, Pages, OrderOf
<1>3. /\ free => /\ free_list' = [free_list EXCEPT ![k] = Append(free_list[k], p)]
                 /\ free_count' = [free_count EXCEPT ![k] = free_count[k] + 1]
      /\ ~free => free_list' = free_list /\ free_count' = free_count
  BY DEF ListBlock, AddFreeBlock
<1>4. work' \in Work /\ work'.op = "listing" /\ work'.page = p + 1
  BY <1>2 DEF Work
<1> HIDE DEF p, k, free
<1>5. /\ free_list \in [Orders -> Seq(Pages)] /\ free_count \in [Orders -> Nat]
  BY <1>1 DEF TypeOK
<1>6. TypeOK'
  <2>1. free_list' \in [Orders -> Seq(Pages)] /\ free_count' \in [Orders -> Nat]
    <3>1. Append(free_list[k], p) \in Seq(Pages) /\ free_count[k] + 1 \in Nat
      BY <1>2, <1>5
    <3>2. CASE free
      <4>1. /\ free_list' = [free_list EXCEPT ![k] = Append(free_list[k], p)]
            /\ free_count' = [free_count EXCEPT ![k] = free_count[k] + 1]
        BY <1>3, <3>2
      <4> QED BY <1>2, <1>5, <3>1, <4>1
    <3>3. CASE ~free
      BY <1>3, <1>5, <3>3
    <3> QED BY <3>2, <3>3
  <2> QED BY <1>1, <1>2, <1>4, <2>1 DEF TypeOK
<1>7. Lists(free_list', free_count', pages', HiddenBy(work'))
  <2> DEFINE before == p .. PageCount - 1
             after == p + 1 .. PageCount - 1
  <2>1. HiddenBy(work) = before /\ HiddenBy(work') = after
    BY <1>2, <1>4 DEF HiddenBy, p
  <2>2. before = after \cup {p} /\ p \notin after
    BY <1>2 DEF Pages
  <2>3. \A j \in Orders : FreeAt(pages, after, j) =
           IF free /\ j = k THEN FreeAt(pages, before, j) \cup {p} ELSE FreeAt(pages, before, j)
    <3> SUFFICES ASSUME NEW j \in Orders
                 PROVE  \A q : q \in FreeAt(pages, after, j) <=>
                                   q \in FreeAt(pages, before, j) \/ (free /\ j = k /\ q = p)
      OBVIOUS
    <3> HIDE DEF before, after
    <3> QED BY <1>2, <2>2 DEF FreeAt, free
  <2>4. p \notin FreeAt(pages, before, k)
    BY <2>2 DEF FreeAt
  <2> HIDE DEF before, after
  <2>5. Lists(free_list, free_count, pages, before)
    BY <1>1, <2>1
  <2>6. CASE free
    <3>1. FreeAt(pages, after, k) = FreeAt(pages, before, k) \cup {p}
      BY <1>2, <2>3, <2>6
    <3>2. free_list'[k] = Append(free_list[k], p) /\ free_count'[k] = free_count[k] + 1
      BY <1>2, <1>3, <1>5, <2>6
    <3>3. Elsewhere(k, free_list, free_count, pages, before, free_list', free_count', pages, after)
      BY <1>2, <1>3, <1>5, <2>3, <2>6 DEF Elsewhere
    <3>4. Lists(free_list', free_count', pages, after)
      BY <1>2, <1>5, <2>4, <2>5, <3>1, <3>2, <3>3, ListsAdd
    <3> QED BY <1>2, <2>1, <3>4
  <2>7. CASE ~free
    <3>1. Lists(free_list, free_count, pages, after)
      BY <2>3, <2>5, <2>7, ListsSame
    <3> QED BY <1>2, <1>3, <2>1, <2>7, <3>1
  <2> QED BY <2>6, <2>7
<1>8. Owning(pages', owned', HeldBy(work'))
  BY <1>2, <1>4, NothingOwned DEF HeldBy
<1>9. Joinless(pages', work')
  <2>1. Hand(work) = {} /\ Hand(work') = {}
    BY <1>2, <1>4 DEF Hand
  <2> QED BY <1>1, <1>2, <1>4, <2>1 DEF Joinless, Swept
<1>10. Loops'
  BY <1>2, <1>4 DEF Loops, Starting, Reserving, Joining, HandFree, Splitting, Trimming, Checking, Doing
<1> QED BY <1>1, <1>2, <1>6, <1>7, <1>8, <1>9, <1>10 DEF IInv

\* buddy_build ends.
LEMMA ReadyHolds == IInv /\ Ready => IInv'
<1> SUFFICES ASSUME IInv, Ready PROVE IInv'
  OBVIOUS
<1>1. /\ TypeOK /\ Starting /\ Joinless(pages, work) /\ Tiles(pages)
      /\ Lists(free_list, free_count, pages, HiddenBy(work))
  BY DEF IInv, Loops
<1>2. /\ work.op = "listing" /\ work.page = PageCount /\ PageCount \in Nat
      /\ owned = {} /\ (\A q \in Pages : pages[q].state # "allocated")
      /\ UNCHANGED <<pages, free_list, free_count, owned>>
  BY <1>1, PageCountAssumption DEF Ready, Starting, Doing
<1>3. work' \in Work /\ work'.op = "idle"
  BY MaxOrderAssumption, PageCountAssumption DEF Ready, Idle, Work, Operations, Orders
<1>4. TypeOK'
  BY <1>1, <1>2, <1>3 DEF TypeOK
<1>5. Lists(free_list', free_count', pages', HiddenBy(work'))
  <2>1. HiddenBy(work) = {} /\ HiddenBy(work') = {}
    BY <1>2, <1>3 DEF HiddenBy, Hand
  <2> QED BY <1>1, <1>2, <2>1
<1>6. Owning(pages', owned', HeldBy(work'))
  BY <1>2, <1>3, NothingOwned DEF HeldBy
<1>7. Joinless(pages', work')
  <2>1. Hand(work) = {} /\ Hand(work') = {}
    BY <1>2, <1>3 DEF Hand
  <2> QED BY <1>1, <1>2, <1>3, <2>1 DEF Joinless, Swept
<1>8. Loops'
  BY <1>3 DEF Loops, Starting, Reserving, Joining, HandFree, Splitting, Trimming, Checking, Doing
<1> QED BY <1>1, <1>2, <1>4, <1>5, <1>6, <1>7, <1>8 DEF IInv

\* What the invariant says, in parts.
LEMMA InvFacts ==
    ASSUME IInv
    PROVE  /\ TypeOK /\ Tiles(pages) /\ Lists(free_list, free_count, pages, HiddenBy(work))
           /\ Owning(pages, owned, HeldBy(work)) /\ Joinless(pages, work) /\ pages \in Tables
           /\ Starting /\ Reserving /\ Joining /\ HandFree /\ Splitting /\ Trimming /\ Checking
           /\ free_list \in [Orders -> Seq(Pages)] /\ free_count \in [Orders -> Nat]
           /\ owned \subseteq Pages \X (1 .. PageCount) /\ work \in Work
BY WorkFacts DEF IInv, Loops, TypeOK

\* buddy_alloc_pages: a block leaves its list.
LEMMA AllocateHolds == ASSUME NEW count \in 1 .. Size[MaxOrder] PROVE IInv /\ Allocate(count) => IInv'
<1> SUFFICES ASSUME IInv, Allocate(count) PROVE IInv'
  OBVIOUS
<1>1. /\ TypeOK /\ Tiles(pages) /\ Lists(free_list, free_count, pages, HiddenBy(work))
      /\ Owning(pages, owned, HeldBy(work)) /\ Joinless(pages, work) /\ pages \in Tables
      /\ free_list \in [Orders -> Seq(Pages)] /\ free_count \in [Orders -> Nat]
      /\ owned \subseteq Pages \X (1 .. PageCount)
  BY InvFacts
<1>2. /\ OrderFor(count) \in Orders /\ Size[OrderFor(count)] >= count
      /\ \A j \in Orders : Size[j] \in Nat \ {0}
      /\ count \in Nat \ {0}
  BY OrderForFacts, Sizes
<1>3. PICK k \in OrderFor(count) .. MaxOrder :
          /\ free_list[k] # <<>>
          /\ RemoveFreeBlock(Head(free_list[k]), k)
          /\ work' = [op |-> "splitting", page |-> Head(free_list[k]), order |-> k,
                      left |-> count, base |-> Head(free_list[k]), count |-> count]
  BY DEF Allocate
<1> DEFINE p == Head(free_list[k])
<1>4. k \in Orders /\ OrderFor(count) <= k
  BY <1>2, MaxOrderAssumption DEF Orders
<1>5. work.op = "idle" /\ Built(work) /\ Hand(work) = {} /\ HiddenBy(work) = {} /\ HeldBy(work) = {}
  BY DEF Allocate, Doing, Built, Hand, HiddenBy, HeldBy
<1>6. p \in FreeAt(pages, {}, k)
  <2>1. free_list[k] \in Seq(Pages) /\ Listed(free_list[k]) = FreeAt(pages, {}, k)
    BY <1>1, <1>4, <1>5 DEF Lists
  <2> QED BY <1>3, <2>1, HeadListed
<1>7. /\ free_list' = [free_list EXCEPT ![k] = Without(free_list[k], p)]
      /\ free_count' = [free_count EXCEPT ![k] = free_count[k] - 1]
      /\ pages' = pages /\ owned' = owned
      /\ work' = [op |-> "splitting", page |-> p, order |-> k,
                  left |-> count, base |-> p, count |-> count]
  BY <1>3 DEF Allocate, RemoveFreeBlock
<1> HIDE DEF p
<1>8. p \in Pages /\ pages[p].state = "free" /\ pages[p].order = k /\ p \in Heads(pages) /\ p \in Nat
  BY <1>6 DEF FreeAt, Heads, Pages
<1>9. count <= PageCount
  <2>1. Span(p, Size[k]) \subseteq Pages
    BY <1>1, <1>8 DEF Tiles, Ext
  <2>2. p + Size[k] - 1 \in Span(p, Size[k])
    BY <1>2, <1>4, <1>8 DEF Span
  <2>3. p + Size[k] - 1 < PageCount
    BY <2>1, <2>2, PageCountAssumption DEF Pages
  <2>4. Size[OrderFor(count)] <= Size[k]
    BY <1>2, <1>4, SizesDivide
  <2> QED BY <1>2, <1>4, <1>8, <2>3, <2>4, PageCountAssumption
<1>10. /\ work' \in Work /\ work'.op = "splitting" /\ work'.page = p /\ work'.order = k
       /\ work'.left = count /\ work'.base = p /\ work'.count = count
  <2>1. p \in 0 .. PageCount /\ count \in 0 .. PageCount
    BY <1>2, <1>8, <1>9, PageCountAssumption DEF Pages
  <2> QED BY <1>4, <1>7, <2>1 DEF Work, Operations
<1>11. Built(work') /\ Hand(work') = {p} /\ HeldBy(work') = {}
  BY <1>10 DEF Built, Hand, HeldBy
<1>12. /\ FreeAt(pages', Hand(work'), k) = FreeAt(pages, Hand(work), k) \ {p}
       /\ \A j \in Orders \ {k} : FreeAt(pages', Hand(work'), j) = FreeAt(pages, Hand(work), j)
  BY <1>5, <1>7, <1>8, <1>11 DEF FreeAt
<1>13. /\ free_list'[k] = Without(free_list[k], p) /\ free_count'[k] = free_count[k] - 1
       /\ Elsewhere(k, free_list, free_count, pages, Hand(work), free_list', free_count', pages',
                    Hand(work'))
  BY <1>1, <1>4, <1>7, <1>12 DEF Elsewhere
<1>14. /\ Without(free_list[k], p) \in Seq(Pages) /\ free_count[k] - 1 \in Nat
       /\ Lists(free_list', free_count', pages', HiddenBy(work')) /\ Joinless(pages', work')
  BY <1>1, <1>4, <1>5, <1>6, <1>11, <1>12, <1>13, RemoveKeeps
<1>15. TypeOK'
  <2>1. free_list' \in [Orders -> Seq(Pages)] /\ free_count' \in [Orders -> Nat]
    BY <1>1, <1>4, <1>7, <1>14
  <2> QED BY <1>1, <1>7, <1>10, <2>1 DEF TypeOK
<1>16. Owning(pages', owned', HeldBy(work'))
  BY <1>1, <1>5, <1>7, <1>11
<1>17. Loops'
  BY <1>4, <1>7, <1>8, <1>10 DEF Loops, Starting, Reserving, Joining, HandFree, Splitting, Trimming,
                                 Checking, Doing
<1> QED BY <1>1, <1>7, <1>14, <1>15, <1>16, <1>17 DEF IInv

\* split_free_block: the upper half goes on its list, the lower stays in hand.
LEMMA SplitHolds == IInv /\ Split => IInv'
<1> SUFFICES ASSUME IInv, Split PROVE IInv'
  OBVIOUS
<1>1. /\ TypeOK /\ Tiles(pages) /\ Lists(free_list, free_count, pages, HiddenBy(work))
      /\ Owning(pages, owned, HeldBy(work)) /\ Joinless(pages, work) /\ pages \in Tables
      /\ free_list \in [Orders -> Seq(Pages)] /\ free_count \in [Orders -> Nat]
      /\ HandFree /\ Splitting /\ work \in Work
  BY InvFacts
<1> DEFINE p == work.page
           k == work.order - 1
           u == p + Size[k]
           o == OrderFor(work.count)
<1>2. /\ work.op = "splitting" /\ work.order > o /\ work.order \in Orders
      /\ p \in Pages /\ pages[p].state = "free" /\ pages[p].order = work.order
      /\ work.count \in 1 .. Size[MaxOrder] /\ work.left = work.count /\ work.base = p
  BY <1>1, WorkFacts DEF Split, Doing, HandFree, Splitting
<1>3. o \in Orders /\ o <= k /\ k \in 0 .. MaxOrder - 1 /\ k \in Orders /\ work.order = k + 1
  <2>1. o \in Orders
    BY <1>2, OrderForFacts
  <2> HIDE DEF o
  <2> QED BY <1>2, <2>1, MaxOrderAssumption DEF Orders
<1>4. /\ pages' = [pages EXCEPT ![p] = Block("free", k), ![u] = Block("free", k)]
      /\ free_list' = [free_list EXCEPT ![k] = Append(free_list[k], u)]
      /\ free_count' = [free_count EXCEPT ![k] = free_count[k] + 1]
      /\ work' = [work EXCEPT !.order = k] /\ owned' = owned
  BY DEF Split, AddFreeBlock
<1>5. u = p + Size[k]
  OBVIOUS
<1>6. work' \in Work /\ work'.op = "splitting" /\ work'.page = p /\ work'.order = k
      /\ work'.left = work.left /\ work'.base = work.base /\ work'.count = work.count
  BY <1>1, <1>2, <1>3, <1>4 DEF Work
<1> HIDE DEF p, k, u, o
<1>7. p \in Heads(pages) /\ pages[p].order = k + 1 /\ p \in Nat
  BY <1>2, <1>3 DEF Heads, Pages
<1>8. u \in Pages /\ u # p /\ pages[u].state = "tail" /\ p % Size[k + 1] = 0
  BY <1>1, <1>3, <1>5, <1>7, HalfFacts
<1>9. /\ Block("free", k) \in [state : States, order : Orders]
      /\ Block("free", k).state = "free" /\ Block("free", k).order = k
  BY <1>3, BlockFacts, StateFacts
<1>10. /\ pages' \in Tables /\ pages'[p] = Block("free", k) /\ pages'[u] = Block("free", k)
       /\ \A q \in Pages \ {p, u} : pages'[q] = pages[q]
  BY <1>1, <1>2, <1>4, <1>8, <1>9 DEF Tables
<1>11. /\ pages'[p].state = "free" /\ pages'[p].order = k
       /\ pages'[u].state = "free" /\ pages'[u].order = k /\ SameBut(pages, pages', {p, u})
  BY <1>9, <1>10 DEF SameBut
<1>12. Tiles(pages')
  BY <1>1, <1>3, <1>5, <1>7, <1>10, <1>11, SplitTiles
<1>13. /\ Built(work) /\ Built(work') /\ Hand(work) = {p} /\ Hand(work') = {p}
       /\ HeldBy(work) = {} /\ HeldBy(work') = {}
  BY <1>2, <1>6 DEF Built, Hand, HeldBy, p
<1>14. /\ FreeAt(pages', Hand(work'), k) = FreeAt(pages, Hand(work), k) \cup {u}
       /\ \A j \in Orders \ {k} : FreeAt(pages', Hand(work'), j) = FreeAt(pages, Hand(work), j)
  <2>1. \A j \in Orders : \A q :
           q \in FreeAt(pages', {p}, j) <=> q \in FreeAt(pages, {p}, j) \/ (j = k /\ q = u)
    BY <1>8, <1>10, <1>11 DEF FreeAt
  <2>2. FreeAt(pages', {p}, k) = FreeAt(pages, {p}, k) \cup {u}
    BY <1>3, <2>1
  <2>3. \A j \in Orders \ {k} : FreeAt(pages', {p}, j) = FreeAt(pages, {p}, j)
    BY <2>1
  <2> QED BY <1>13, <2>2, <2>3
<1>15. u \notin FreeAt(pages, Hand(work), k) /\ BuddyOf(u, k) \notin FreeAt(pages, Hand(work), k)
  <2>1. BuddyOf(u, k) = p
    BY <1>3, <1>5, <1>7, <1>8, Halved
  <2> QED BY <1>8, <1>13, <2>1 DEF FreeAt
<1>16. /\ free_list'[k] = Append(free_list[k], u) /\ free_count'[k] = free_count[k] + 1
       /\ Elsewhere(k, free_list, free_count, pages, Hand(work), free_list', free_count', pages',
                    Hand(work'))
  BY <1>1, <1>3, <1>4, <1>14 DEF Elsewhere
<1>17. Lists(free_list', free_count', pages', HiddenBy(work')) /\ Joinless(pages', work')
  BY <1>1, <1>3, <1>8, <1>13, <1>14, <1>15, <1>16, AddKeeps
<1>18. TypeOK'
  <2>1. Append(free_list[k], u) \in Seq(Pages) /\ free_count[k] + 1 \in Nat
    BY <1>1, <1>3, <1>8
  <2>2. free_list' \in [Orders -> Seq(Pages)] /\ free_count' \in [Orders -> Nat]
    BY <1>1, <1>3, <1>4, <2>1
  <2> QED BY <1>1, <1>4, <1>6, <1>10, <2>2 DEF TypeOK, Tables
<1>19. Owning(pages', owned', HeldBy(work'))
  <2>1. \A q \in Pages : /\ pages[q].state = "allocated" <=> pages'[q].state = "allocated"
                         /\ pages[q].state = "allocated" => pages'[q] = pages[q]
    BY <1>2, <1>8, <1>10, <1>11
  <2> QED BY <1>1, <1>4, <1>10, <1>13, <2>1, OwningKept
<1>20. Loops'
  <2>1. HandFree'
    BY <1>2, <1>6, <1>11 DEF HandFree
  <2>2. Splitting'
    BY <1>2, <1>3, <1>6 DEF Splitting, o
  <2> QED BY <1>6, <2>1, <2>2 DEF Loops, Starting, Reserving, Joining, Trimming, Checking, Doing
<1> QED BY <1>12, <1>17, <1>18, <1>19, <1>20 DEF IInv

\* allocate_order ends: the block in hand is allocated.
LEMMA TakeHolds == IInv /\ Take => IInv'
<1> SUFFICES ASSUME IInv, Take PROVE IInv'
  OBVIOUS
<1>1. /\ TypeOK /\ Tiles(pages) /\ Lists(free_list, free_count, pages, HiddenBy(work))
      /\ Owning(pages, owned, HeldBy(work)) /\ Joinless(pages, work) /\ pages \in Tables
      /\ HandFree /\ Splitting /\ work \in Work
  BY InvFacts
<1> DEFINE p == work.page
           k == work.order
<1>2. /\ work.op = "splitting" /\ k = OrderFor(work.count) /\ k \in Orders
      /\ p \in Pages /\ pages[p].state = "free" /\ pages[p].order = k
      /\ work.count \in 1 .. Size[MaxOrder] /\ work.left = work.count /\ work.base = p
  BY <1>1, WorkFacts DEF Take, Doing, HandFree, Splitting
<1>3. /\ pages' = [pages EXCEPT ![p] = Block("allocated", k)]
      /\ work' = [work EXCEPT !.op = "trimming"]
      /\ UNCHANGED <<free_list, free_count, owned>>
  BY DEF Take
<1>4. work' \in Work /\ work'.op = "trimming" /\ work'.page = p /\ work'.order = k
      /\ work'.left = work.left /\ work'.base = work.base /\ work'.count = work.count
  BY <1>1, <1>3 DEF Work, Operations
<1> HIDE DEF p, k
<1>5. /\ Block("allocated", k) \in [state : States, order : Orders]
      /\ Block("allocated", k).state = "allocated" /\ Block("allocated", k).order = k
  BY <1>2, BlockFacts, StateFacts
<1>6. /\ pages' \in Tables /\ pages'[p].state = "allocated" /\ pages'[p].order = pages[p].order
      /\ \A q \in Pages \ {p} : pages'[q] = pages[q]
  BY <1>1, <1>2, <1>3, <1>5 DEF Tables
<1>7. SameBut(pages, pages', {p}) /\ p \in Heads(pages) /\ p \in Nat
  BY <1>2, <1>6 DEF SameBut, Heads, Pages
<1>8. Tiles(pages')
  <2>1. pages'[p].state \in {"free", "allocated"}
    BY <1>6
  <2> QED BY <1>1, <1>6, <1>7, <2>1, RetaggedTiles
<1>9. Built(work) /\ Built(work') /\ Hand(work) = {p} /\ Hand(work') = {} /\ HeldBy(work) = {}
  BY <1>2, <1>4 DEF Built, Hand, HeldBy, p
<1>10. SameFree(pages, Hand(work), pages', Hand(work'))
  <2>1. \A j \in Orders : \A q : q \in FreeAt(pages', {}, j) <=> q \in FreeAt(pages, {p}, j)
    BY <1>6 DEF FreeAt
  <2>2. \A j \in Orders : FreeAt(pages', {}, j) = FreeAt(pages, {p}, j)
    BY <2>1
  <2> QED BY <1>9, <2>2 DEF SameFree
<1>11. Lists(free_list', free_count', pages', HiddenBy(work')) /\ Joinless(pages', work')
  <2>1. Lists(free_list, free_count, pages', HiddenBy(work')) /\ Joinless(pages', work')
    BY <1>1, <1>9, <1>10, SameKeeps
  <2> QED BY <1>3, <2>1
<1>12. TypeOK'
  BY <1>1, <1>3, <1>4, <1>6 DEF TypeOK, Tables
<1>13. Owning(pages', owned', HeldBy(work'))
  <2>1. Owning(pages', owned, Ext(pages', p))
    BY <1>1, <1>2, <1>6, <1>7, <1>9, OwningTake
  <2>2. HeldBy(work') = Span(p, p - p + Size[k])
    BY <1>2, <1>4 DEF HeldBy
  <2>3. Size[k] \in Nat
    BY <1>2, Sizes
  <2>4. p - p + Size[k] = Size[k]
    BY <1>7, <2>3
  <2>5. HeldBy(work') = Ext(pages', p)
    BY <1>2, <1>6, <2>2, <2>4 DEF Ext
  <2> QED BY <1>3, <2>1, <2>5
<1>14. Loops'
  <2>1. Trimming'
    <3>1. Size[k] >= work.count /\ work.count \in Nat /\ Size[k] \in Nat /\ work.count >= 1
      <4>1. Size[OrderFor(work.count)] >= work.count
        BY <1>2, OrderForFacts
      <4>2. Size[MaxOrder] \in Nat /\ Size[k] \in Nat
        BY <1>2, Sizes
      <4> QED BY <1>2, <4>1, <4>2
    <3>2. work.count \in 1 .. Size[k]
      BY <3>1
    <3> QED BY <1>2, <1>4, <1>6, <1>7, <3>2 DEF Trimming, Doing
  <2> QED BY <1>4, <2>1 DEF Loops, Starting, Reserving, Joining, HandFree, Splitting, Checking, Doing
<1> QED BY <1>8, <1>11, <1>12, <1>13, <1>14 DEF IInv

\* trim_allocated_block: the operation holds the block cut in halves, without a released half.
LEMMA TrimHolds == IInv /\ Trim => IInv'
<1> SUFFICES ASSUME IInv, Trim PROVE IInv'
  OBVIOUS
<1>1. /\ TypeOK /\ Tiles(pages) /\ Lists(free_list, free_count, pages, HiddenBy(work))
      /\ Owning(pages, owned, HeldBy(work)) /\ Joinless(pages, work) /\ pages \in Tables
      /\ free_list \in [Orders -> Seq(Pages)] /\ free_count \in [Orders -> Nat]
      /\ Trimming /\ work \in Work
  BY InvFacts
<1> DEFINE p == work.page
           k == work.order - 1
           u == p + Size[k]
           released == work.left <= Size[k]
           t == IF released THEN "free" ELSE "allocated"
           held == HeldBy(work)
<1>2. /\ work.op = "trimming" /\ Size[work.order] > work.left /\ work.order \in Orders
      /\ p \in Pages /\ work.base <= p /\ pages[p].state = "allocated" /\ pages[p].order = work.order
      /\ work.left \in 1 .. Size[work.order] /\ p + work.left = work.base + work.count
      /\ work.base \in Nat /\ work.left <= PageCount /\ work.left \in Nat /\ work.count \in Nat
  BY <1>1, WorkFacts DEF Trim, Doing, Trimming
<1>3. k \in 0 .. MaxOrder - 1 /\ k \in Orders /\ work.order = k + 1 /\ Size[k] \in Nat \ {0}
      /\ Size[k + 1] = Size[k] + Size[k]
  <2>1. work.order # 0
    <3>1. Size[0] = 1
      BY Sizes
    <3> QED BY <1>2, <3>1
  <2>2. k \in 0 .. MaxOrder - 1 /\ work.order = k + 1
    <3>1. work.order \in Orders
      BY <1>2
    <3> QED BY ONLY <2>1, <3>1, MaxOrderAssumption DEF Orders
  <2> HIDE DEF k
  <2> QED BY <2>2, Sizes
<1>4. /\ pages' = [pages EXCEPT ![p] = Block("allocated", k), ![u] = Block(t, k)]
      /\ released => /\ free_list' = [free_list EXCEPT ![k] = Append(free_list[k], u)]
                     /\ free_count' = [free_count EXCEPT ![k] = free_count[k] + 1]
                     /\ work' = [work EXCEPT !.order = k]
      /\ ~released => /\ free_list' = free_list /\ free_count' = free_count
                      /\ work' = [work EXCEPT !.order = k, !.left = @ - Size[k], !.page = u]
      /\ owned' = owned
  BY DEF Trim, AddFreeBlock
<1>5. u = p + Size[k] /\ p = work.page /\ t \in {"free", "allocated"} /\ held = HeldBy(work)
      /\ (released <=> work.left <= Size[k]) /\ (released => t = "free") /\ (~released => t = "allocated")
  OBVIOUS
<1> HIDE DEF p, k, u, t, released, held
<1>6. p \in Heads(pages) /\ pages[p].order = k + 1 /\ p \in Nat
  BY <1>2, <1>3 DEF Heads, Pages
<1>7. u \in Pages /\ u # p /\ pages[u].state = "tail" /\ p % Size[k + 1] = 0 /\ u \in Nat
  <2>1. u \in Pages /\ u # p /\ pages[u].state = "tail" /\ p % Size[k + 1] = 0
    BY <1>1, <1>3, <1>5, <1>6, HalfFacts
  <2> QED BY <2>1 DEF Pages
<1>8. /\ Block("allocated", k) \in [state : States, order : Orders]
      /\ Block("allocated", k).state = "allocated" /\ Block("allocated", k).order = k
      /\ Block(t, k) \in [state : States, order : Orders]
      /\ Block(t, k).state = t /\ Block(t, k).order = k
  <2>1. t \in States
    BY <1>5, StateFacts
  <2> QED BY <1>3, <2>1, BlockFacts, StateFacts
<1>9. /\ pages' \in Tables /\ pages'[p] = Block("allocated", k) /\ pages'[u] = Block(t, k)
      /\ \A q \in Pages \ {p, u} : pages'[q] = pages[q]
  BY <1>1, <1>2, <1>4, <1>7, <1>8 DEF Tables
<1>10. /\ pages'[p].state = "allocated" /\ pages'[p].order = k
       /\ pages'[u].state = t /\ pages'[u].order = k /\ SameBut(pages, pages', {p, u})
  BY <1>8, <1>9 DEF SameBut
<1>11. Tiles(pages') /\ Ext(pages', u) = Span(u, Size[k])
  <2>1. pages'[p].state \in {"free", "allocated"} /\ pages'[u].state \in {"free", "allocated"}
    BY <1>5, <1>10
  <2> QED BY <1>1, <1>3, <1>5, <1>6, <1>9, <1>10, <2>1, SplitTiles DEF Ext
<1>12. /\ work' \in Work /\ work'.op = "trimming" /\ work'.order = k
       /\ work'.base = work.base /\ work'.count = work.count
       /\ released => work'.left = work.left /\ work'.page = p
       /\ ~released => work'.left = work.left - Size[k] /\ work'.page = u
  <2>1. CASE released
    <3>1. work' = [work EXCEPT !.order = k]
      BY <1>4, <2>1
    <3> QED BY <1>1, <1>2, <1>3, <1>5, <2>1, <3>1 DEF Work
  <2>2. CASE ~released
    <3>1. work' = [work EXCEPT !.order = k, !.left = work.left - Size[k], !.page = u]
      BY <1>4, <2>2
    <3>2. work.left - Size[k] \in 0 .. PageCount /\ u \in 0 .. PageCount
      BY <1>2, <1>3, <1>5, <1>7, <2>2, PageCountAssumption DEF Pages
    <3> QED BY <1>1, <1>2, <1>3, <2>2, <3>1, <3>2 DEF Work
  <2> QED BY <2>1, <2>2
<1>13. Built(work) /\ Built(work') /\ Hand(work) = {} /\ Hand(work') = {}
  BY <1>2, <1>12 DEF Built, Hand
<1>14. held = Span(work.base, p - work.base + Size[k + 1])
  BY <1>2, <1>3, <1>5 DEF HeldBy
<1>15. p \in held
  BY <1>2, <1>3, <1>6, <1>14 DEF Span
<1>16. Lists(free_list', free_count', pages', HiddenBy(work')) /\ Joinless(pages', work') /\ TypeOK'
  <2>1. CASE released
    <3>1. \A j \in Orders : \A q :
             q \in FreeAt(pages', {}, j) <=> q \in FreeAt(pages, {}, j) \/ (j = k /\ q = u)
      BY <1>2, <1>5, <1>7, <1>9, <1>10, <2>1 DEF FreeAt
    <3>2. FreeAt(pages', Hand(work'), k) = FreeAt(pages, Hand(work), k) \cup {u}
      BY <1>3, <1>13, <3>1
    <3>3. \A j \in Orders \ {k} : FreeAt(pages', {}, j) = FreeAt(pages, {}, j)
      BY <3>1
    <3>4. u \notin FreeAt(pages, Hand(work), k) /\ BuddyOf(u, k) \notin FreeAt(pages, Hand(work), k)
      <4>1. BuddyOf(u, k) = p
        BY <1>3, <1>5, <1>6, <1>7, Halved
      <4> QED BY <1>2, <1>7, <1>13, <4>1 DEF FreeAt
    <3>5. /\ free_list' = [free_list EXCEPT ![k] = Append(free_list[k], u)]
          /\ free_count' = [free_count EXCEPT ![k] = free_count[k] + 1]
      BY <1>4, <2>1
    <3>6. /\ free_list'[k] = Append(free_list[k], u) /\ free_count'[k] = free_count[k] + 1
          /\ Elsewhere(k, free_list, free_count, pages, Hand(work), free_list', free_count', pages',
                       Hand(work'))
      BY <1>1, <1>3, <1>13, <3>3, <3>5 DEF Elsewhere
    <3>7. Lists(free_list', free_count', pages', HiddenBy(work')) /\ Joinless(pages', work')
      BY <1>1, <1>3, <1>7, <1>13, <3>2, <3>4, <3>6, AddKeeps
    <3>8. Append(free_list[k], u) \in Seq(Pages) /\ free_count[k] + 1 \in Nat
      BY <1>1, <1>3, <1>7
    <3>9. free_list' \in [Orders -> Seq(Pages)] /\ free_count' \in [Orders -> Nat]
      BY <1>1, <1>3, <3>5, <3>8
    <3> QED BY <1>1, <1>4, <1>9, <1>12, <3>7, <3>9 DEF TypeOK, Tables
  <2>2. CASE ~released
    <3>1. \A j \in Orders : \A q : q \in FreeAt(pages', {}, j) <=> q \in FreeAt(pages, {}, j)
      BY <1>2, <1>5, <1>7, <1>9, <1>10, <2>2 DEF FreeAt
    <3>2. SameFree(pages, Hand(work), pages', Hand(work'))
      <4>1. \A j \in Orders : FreeAt(pages', {}, j) = FreeAt(pages, {}, j)
        BY <3>1
      <4> QED BY <1>13, <4>1 DEF SameFree
    <3>3. Lists(free_list, free_count, pages', HiddenBy(work')) /\ Joinless(pages', work')
      BY <1>1, <1>13, <3>2, SameKeeps
    <3>4. free_list' = free_list /\ free_count' = free_count
      BY <1>4, <2>2
    <3> QED BY <1>1, <1>4, <1>9, <1>12, <3>3, <3>4 DEF TypeOK, Tables
  <2> QED BY <2>1, <2>2
<1>17. Owning(pages', owned', HeldBy(work'))
  <2> DEFINE kept == IF t = "allocated" THEN held ELSE held \ Ext(pages', u)
  <2>1. Owning(pages', owned, kept)
    <3>1. Owning(pages, owned, held) /\ k \in 0 .. MaxOrder - 1
      BY <1>1, <1>3, <1>5
    <3>2. (t = "allocated" => kept = held) /\ (t = "free" => kept = held \ Ext(pages', u))
      OBVIOUS
    <3>3. /\ pages \in Tables /\ Tiles(pages) /\ pages[p].state = "allocated"
          /\ pages[p].order = k + 1 /\ u = p + Size[k] /\ t \in {"free", "allocated"}
          /\ pages' \in Tables
      BY <1>1, <1>2, <1>5, <1>6, <1>9
    <3> HIDE DEF kept
    <3> QED BY ONLY <1>10, <1>15, <3>1, <3>2, <3>3, OwningSplit
  <2>2. HeldBy(work') = Span(work.base, work'.page - work.base + Size[k])
    BY <1>12 DEF HeldBy
  <2>3. CASE released
    <3>1. work'.page = p /\ t = "free"
      BY <1>5, <1>12, <2>3
    <3>2. Span(work.base, p - work.base + Size[k]) = held \ Span(u, Size[k])
      <4>1. Span(work.base, p - work.base + Size[k])
              = Span(work.base, p - work.base + Size[k + 1]) \ Span(u, Size[k])
        <5> DEFINE n == p - work.base + Size[k]
                   m == p - work.base + Size[k + 1]
        <5>1. n \in Nat /\ m = n + Size[k] /\ u = work.base + n
          BY <1>2, <1>3, <1>5, <1>6 DEF n, m
        <5> HIDE DEF n, m
        <5>2. Span(work.base, n) = Span(work.base, m) \ Span(u, Size[k])
          <6>1. \A x \in Int : x \in Span(work.base, n) <=>
                                 x \in Span(work.base, m) /\ x \notin Span(u, Size[k])
            BY <1>2, <1>3, <5>1 DEF Span
          <6>2. Span(work.base, n) \subseteq Int /\ Span(work.base, m) \subseteq Int
            BY DEF Span
          <6> QED BY <6>1, <6>2
        <5> QED BY <5>2 DEF n, m
      <4> QED BY <1>14, <4>1
    <3>3. HeldBy(work') = held \ Ext(pages', u)
      BY <1>11, <2>2, <3>1, <3>2
    <3> QED BY <1>4, <2>1, <3>1, <3>3
  <2>4. CASE ~released
    <3>1. work'.page = u /\ t = "allocated"
      BY <1>5, <1>12, <2>4
    <3>2. u - work.base + Size[k] = p - work.base + Size[k + 1]
      BY <1>2, <1>3, <1>5, <1>6
    <3>3. HeldBy(work') = held
      BY <1>14, <2>2, <3>1, <3>2
    <3> QED BY <1>4, <2>1, <3>1, <3>3
  <2> QED BY <2>3, <2>4
<1>18. Loops'
  <2>1. Trimming'
    <3>1. CASE released
      <4>1. work.left \in 1 .. Size[k]
        BY <1>2, <1>3, <1>5, <3>1
      <4> QED BY <1>2, <1>10, <1>12, <3>1, <4>1 DEF Trimming, Doing
    <3>2. CASE ~released
      <4>1. work.left - Size[k] \in 1 .. Size[k] /\ work.base <= u
            /\ u + (work.left - Size[k]) = work.base + work.count
        BY <1>2, <1>3, <1>5, <1>6, <3>2
      <4>2. pages'[u].state = "allocated"
        BY <1>5, <1>10, <3>2
      <4> QED BY <1>7, <1>10, <1>12, <3>2, <4>1, <4>2 DEF Trimming, Doing
    <3> QED BY <3>1, <3>2
  <2> QED BY <1>12, <2>1 DEF Loops, Starting, Reserving, Joining, HandFree, Splitting, Checking, Doing
<1> QED BY <1>11, <1>16, <1>17, <1>18 DEF IInv

\* buddy_alloc_pages ends: the caller has exactly the pages it asked for.
LEMMA AllocatedHolds == IInv /\ Allocated => IInv'
<1> SUFFICES ASSUME IInv, Allocated PROVE IInv'
  OBVIOUS
<1>1. /\ TypeOK /\ Tiles(pages) /\ Lists(free_list, free_count, pages, HiddenBy(work))
      /\ Owning(pages, owned, HeldBy(work)) /\ Joinless(pages, work) /\ pages \in Tables
      /\ Trimming /\ work \in Work
  BY InvFacts
<1>2. /\ work.op = "trimming" /\ Size[work.order] <= work.left /\ work.order \in Orders
      /\ work.page \in Pages /\ work.page \in Nat /\ work.base <= work.page
      /\ work.left \in 1 .. Size[work.order] /\ Size[work.order] \in Nat
      /\ work.page + work.left = work.base + work.count
      /\ work.base \in Nat /\ work.count \in Nat /\ work.count <= PageCount /\ PageCount \in Nat
  BY <1>1, WorkFacts, Sizes DEF Allocated, Doing, Trimming, Pages
<1>3. work' \in Work /\ work'.op = "idle"
  BY <1>2, MaxOrderAssumption DEF Allocated, Idle, Work, Operations, Orders
<1>4. /\ owned' = owned \cup {<<work.base, work.count>>}
      /\ UNCHANGED <<pages, free_list, free_count>>
  BY DEF Allocated
<1>5. HeldBy(work) = Span(work.base, work.count)
  <2>1. work.page - work.base + Size[work.order] = work.count
    BY <1>2
  <2> QED BY <1>2, <2>1 DEF HeldBy
<1>6. TypeOK'
  <2>1. work.base \in Pages /\ work.count \in 1 .. PageCount
    BY <1>2 DEF Pages
  <2> QED BY <1>1, <1>3, <1>4, <2>1 DEF TypeOK
<1>7. Owning(pages', owned', HeldBy(work'))
  <2>1. Owning(pages, owned \cup {<<work.base, work.count>>}, {})
    BY <1>1, <1>5, OwningGain
  <2> QED BY <1>3, <1>4, <2>1 DEF HeldBy
<1>8. Lists(free_list', free_count', pages', HiddenBy(work')) /\ Joinless(pages', work')
  <2>1. Built(work) /\ Built(work') /\ Hand(work) = Hand(work')
    BY <1>2, <1>3 DEF Built, Hand
  <2>2. SameFree(pages, Hand(work), pages, Hand(work'))
    BY <2>1 DEF SameFree
  <2>3. Lists(free_list, free_count, pages, HiddenBy(work')) /\ Joinless(pages, work')
    BY <1>1, <2>1, <2>2, SameKeeps
  <2> QED BY <1>4, <2>3
<1>9. Loops'
  BY <1>3 DEF Loops, Starting, Reserving, Joining, HandFree, Splitting, Trimming, Checking, Doing
<1> QED BY <1>1, <1>4, <1>6, <1>7, <1>8, <1>9 DEF IInv

\* buddy_free_pages starts.
LEMMA FreeHolds == IInv /\ Free => IInv'
<1> SUFFICES ASSUME IInv, Free PROVE IInv'
  OBVIOUS
<1>1. /\ TypeOK /\ Tiles(pages) /\ Lists(free_list, free_count, pages, HiddenBy(work))
      /\ Owning(pages, owned, HeldBy(work)) /\ Joinless(pages, work) /\ pages \in Tables
      /\ owned \subseteq Pages \X (1 .. PageCount)
  BY InvFacts
<1>2. work.op = "idle" /\ UNCHANGED <<pages, free_list, free_count, owned>>
  BY DEF Free, Doing
<1>3. PICK r \in Requests :
        /\ r[2] <= PageCount - r[1]
        /\ work' = [op |-> "checking", page |-> r[1], order |-> 0, left |-> r[2],
                    base |-> r[1], count |-> r[2]]
  BY DEF Free
<1> DEFINE first == r[1]
           count == r[2]
<1>4. /\ first \in Pages /\ first \in Nat /\ count \in Nat \ {0} /\ count <= PageCount
      /\ first + count <= PageCount /\ PageCount \in Nat /\ r = <<first, count>>
  <2>1. Size[MaxOrder] \in Nat /\ PageCount \in Nat
    BY Sizes, PageCountAssumption
  <2>2. /\ r \in Pages \X (1 .. PageCount) \/ r \in Pages \X (1 .. Size[MaxOrder])
    BY <1>1 DEF Requests
  <2>3. first \in Pages /\ count \in Nat \ {0} /\ r = <<first, count>>
    BY <2>1, <2>2
  <2>4. count <= PageCount - first
    BY <1>3
  <2> HIDE DEF first, count
  <2> QED BY <2>1, <2>3, <2>4 DEF Pages
<1>5. work' = [op |-> "checking", page |-> first, order |-> 0, left |-> count,
               base |-> first, count |-> count]
  BY <1>3
<1> HIDE DEF first, count
<1>6. /\ work' \in Work /\ work'.op = "checking" /\ work'.page = first /\ work'.left = count
      /\ work'.base = first /\ work'.count = count
  <2>1. first \in 0 .. PageCount /\ count \in 0 .. PageCount /\ 0 \in Orders
    BY <1>4, MaxOrderAssumption DEF Orders
  <2> QED BY <1>5, <2>1 DEF Work, Operations
<1>7. TypeOK'
  BY <1>1, <1>2, <1>6 DEF TypeOK
<1>8. Owning(pages', owned', HeldBy(work'))
  BY <1>1, <1>2, <1>6 DEF HeldBy
<1>9. Lists(free_list', free_count', pages', HiddenBy(work')) /\ Joinless(pages', work')
  <2>1. Built(work) /\ Built(work') /\ Hand(work) = Hand(work')
    BY <1>2, <1>6 DEF Built, Hand
  <2>2. SameFree(pages, Hand(work), pages, Hand(work'))
    BY <2>1 DEF SameFree
  <2>3. Lists(free_list, free_count, pages, HiddenBy(work')) /\ Joinless(pages, work')
    BY <1>1, <2>1, <2>2, SameKeeps
  <2> QED BY <1>2, <2>3
<1>10. Loops'
  <2>1. Checking'
    <3>1. Requests' = Requests
      BY <1>2 DEF Requests, InUse
    <3>2. <<work'.base, work'.count>> \in Requests'
      BY <1>4, <1>6, <3>1
    <3>3. work'.page - work'.base = 0
      BY <1>4, <1>6
    <3>4. Span(work'.base, 0) = {}
      BY <1>4, <1>6 DEF Span
    <3>5. Whole(pages', Span(work'.base, work'.page - work'.base))
      BY <3>3, <3>4 DEF Whole
    <3> QED BY <1>4, <1>6, <3>2, <3>5 DEF Checking
  <2> QED BY <1>6, <2>1 DEF Loops, Starting, Reserving, Joining, HandFree, Splitting, Trimming, Doing
<1> QED BY <1>1, <1>2, <1>7, <1>8, <1>9, <1>10 DEF IInv

\* The next piece of a request.
LEMMA CheckHolds == IInv /\ Check => IInv'
<1> SUFFICES ASSUME IInv, Check PROVE IInv'
  OBVIOUS
<1>1. /\ TypeOK /\ Tiles(pages) /\ Lists(free_list, free_count, pages, HiddenBy(work))
      /\ Owning(pages, owned, HeldBy(work)) /\ Joinless(pages, work) /\ pages \in Tables
      /\ Checking /\ work \in Work
  BY InvFacts
<1> DEFINE p == work.page
           s == Size[OrderOf(work.page)]
<1>2. /\ work.op = "checking" /\ work.left > 0 /\ UNCHANGED <<pages, free_list, free_count, owned>>
      /\ <<work.base, work.count>> \in Requests
      /\ work.base <= p /\ p + work.left = work.base + work.count
      /\ work.base + work.count <= PageCount /\ PageCount \in Nat
      /\ Whole(pages, Span(work.base, p - work.base))
      /\ p \in Nat /\ work.left \in Nat /\ work.base \in Nat /\ work.count \in Nat
  BY <1>1, WorkFacts DEF Check, Doing, Checking
<1>3. p \in Pages
  BY <1>2 DEF Pages
<1>4. s \in Nat \ {0} /\ s = Size[pages[p].order]
  BY <1>1, <1>3, PageFacts DEF OrderOf
<1>5. work' = IF Valid THEN [work EXCEPT !.page = p + s, !.left = work.left - s] ELSE Idle
  BY DEF Check
<1>6. Valid => pages[p].state = "allocated" /\ s <= work.left
  BY DEF Valid
<1> HIDE DEF p, s
<1>7. CASE ~Valid
  <2>1. work' \in Work /\ work'.op = "idle"
    BY <1>2, <1>5, <1>7, MaxOrderAssumption DEF Idle, Work, Operations, Orders
  <2>2. TypeOK'
    BY <1>1, <1>2, <2>1 DEF TypeOK
  <2>3. Owning(pages', owned', HeldBy(work'))
    BY <1>1, <1>2, <2>1 DEF HeldBy
  <2>4. Lists(free_list', free_count', pages', HiddenBy(work')) /\ Joinless(pages', work')
    <3>1. Built(work) /\ Built(work') /\ Hand(work) = Hand(work')
      BY <1>2, <2>1 DEF Built, Hand
    <3>2. SameFree(pages, Hand(work), pages, Hand(work'))
      BY <3>1 DEF SameFree
    <3>3. Lists(free_list, free_count, pages, HiddenBy(work')) /\ Joinless(pages, work')
      BY <1>1, <3>1, <3>2, SameKeeps
    <3> QED BY <1>2, <3>3
  <2>5. Loops'
    BY <2>1 DEF Loops, Starting, Reserving, Joining, HandFree, Splitting, Trimming, Checking, Doing
  <2> QED BY <1>1, <1>2, <2>2, <2>3, <2>4, <2>5 DEF IInv
<1>8. CASE Valid
  <2>1. /\ pages[p].state = "allocated" /\ s <= work.left
        /\ work' = [work EXCEPT !.page = p + s, !.left = work.left - s]
    BY <1>5, <1>6, <1>8
  <2>2. p + s \in 0 .. PageCount /\ work.left - s \in 0 .. PageCount
    BY <1>2, <1>4, <2>1
  <2>3. /\ work' \in Work /\ work'.op = "checking" /\ work'.page = p + s
        /\ work'.left = work.left - s /\ work'.base = work.base /\ work'.count = work.count
    BY <1>1, <1>2, <2>1, <2>2 DEF Work
  <2>4. TypeOK'
    BY <1>1, <1>2, <2>3 DEF TypeOK
  <2>5. Owning(pages', owned', HeldBy(work'))
    BY <1>1, <1>2, <2>3 DEF HeldBy
  <2>6. Lists(free_list', free_count', pages', HiddenBy(work')) /\ Joinless(pages', work')
    <3>1. Built(work) /\ Built(work') /\ Hand(work) = Hand(work')
      BY <1>2, <2>3 DEF Built, Hand
    <3>2. SameFree(pages, Hand(work), pages, Hand(work'))
      BY <3>1 DEF SameFree
    <3>3. Lists(free_list, free_count, pages, HiddenBy(work')) /\ Joinless(pages, work')
      BY <1>1, <3>1, <3>2, SameKeeps
    <3> QED BY <1>2, <3>3
  <2>7. Loops'
    <3>1. Checking'
      <4>1. Requests' = Requests
        BY <1>2 DEF Requests, InUse
      <4>2. Whole(pages, Span(work.base, p - work.base) \cup Ext(pages, p))
        BY <1>1, <1>2, <1>3, <2>1, WholePlus
      <4>3. Span(work.base, p - work.base) \cup Ext(pages, p) = Span(work.base, (p + s) - work.base)
        <5>1. Ext(pages, p) = Span(p, s)
          BY <1>4 DEF Ext
        <5> DEFINE n == p - work.base
                   m == (p + s) - work.base
        <5>2. n \in Nat /\ m = n + s /\ p = work.base + n
          BY <1>2, <1>4
        <5> HIDE DEF n, m
        <5>3. Span(work.base, m) = Span(work.base, n) \cup Span(p, s)
          <6>1. \A x \in Int : x \in Span(work.base, m) <=>
                                 x \in Span(work.base, n) \/ x \in Span(p, s)
            <7>1. work.base \in Nat /\ s \in Nat \ {0}
              BY <1>2, <1>4
            <7> QED BY ONLY <5>2, <7>1 DEF Span
          <6>2. /\ Span(work.base, n) \subseteq Int /\ Span(work.base, m) \subseteq Int
                /\ Span(p, s) \subseteq Int
            BY DEF Span
          <6> QED BY <6>1, <6>2
        <5> QED BY <5>1, <5>3 DEF n, m
      <4>4. Whole(pages', Span(work'.base, work'.page - work'.base))
        BY <1>2, <2>3, <4>2, <4>3
      <4>5. work'.base <= work'.page /\ work'.page + work'.left = work'.base + work'.count
        BY <1>2, <1>4, <2>1, <2>3
      <4> QED BY <1>2, <2>3, <4>1, <4>4, <4>5 DEF Checking
    <3> QED BY <2>3, <3>1 DEF Loops, Starting, Reserving, Joining, HandFree, Splitting, Trimming, Doing
  <2> QED BY <1>1, <1>2, <2>4, <2>5, <2>6, <2>7 DEF IInv
<1> QED BY <1>7, <1>8

\* The request is valid: the caller gives it up, and the operation holds it.
LEMMA CheckedHolds == IInv /\ Checked => IInv'
<1> SUFFICES ASSUME IInv, Checked PROVE IInv'
  OBVIOUS
<1>1. /\ TypeOK /\ Tiles(pages) /\ Lists(free_list, free_count, pages, HiddenBy(work))
      /\ Owning(pages, owned, HeldBy(work)) /\ Joinless(pages, work) /\ pages \in Tables
      /\ Checking /\ work \in Work
  BY InvFacts
<1>2. /\ work.op = "checking" /\ work.left = 0 /\ UNCHANGED <<pages, free_list, free_count>>
      /\ <<work.base, work.count>> \in Requests
      /\ work.base <= work.page /\ work.page + work.left = work.base + work.count
      /\ Whole(pages, Span(work.base, work.page - work.base))
      /\ work.page \in Nat /\ work.base \in Nat /\ work.count \in Nat
      /\ owned' = owned \ {<<work.base, work.count>>}
      /\ work' = [work EXCEPT !.op = "freeing", !.page = work.base, !.left = work.count]
  BY <1>1, WorkFacts DEF Checked, Doing, Checking
<1>3. work' \in Work /\ work'.op = "freeing" /\ work'.page = work.base /\ work'.left = work.count
  BY <1>1, <1>2 DEF Work, Operations
<1>4. HeldBy(work) = {} /\ HeldBy(work') = Span(work.base, work.count)
  BY <1>2, <1>3 DEF HeldBy
<1>5. <<work.base, work.count>> \in owned
  <2>1. work.page - work.base = work.count
    BY <1>2
  <2>2. Span(work.base, work.count) \subseteq AllocatedPages(pages)
    BY <1>2, <2>1, WholeAllocated
  <2>3. AllocatedPages(pages) = InUse
    BY <1>1, <1>4 DEF Owning, Covered, InUse
  <2> DEFINE r == <<work.base, work.count>>
  <2>4. r[1] = work.base /\ r[2] = work.count /\ r \in Requests
    BY <1>2
  <2> HIDE DEF r
  <2>5. r \in owned
    BY <2>2, <2>3, <2>4 DEF Requests
  <2> QED BY <2>5 DEF r
<1>6. TypeOK'
  BY <1>1, <1>2, <1>3 DEF TypeOK
<1>7. Owning(pages', owned', HeldBy(work'))
  <2> DEFINE a == <<work.base, work.count>>
  <2>1. a \in owned /\ a[1] = work.base /\ a[2] = work.count
    BY <1>5
  <2>2. owned' = owned \ {a} /\ Owning(pages, owned, {})
    BY <1>1, <1>2, <1>4
  <2> HIDE DEF a
  <2>3. Owning(pages, owned \ {a}, Span(a[1], a[2]))
    BY <2>1, <2>2, OwningLoss
  <2> QED BY <1>2, <1>4, <2>1, <2>2, <2>3
<1>8. Lists(free_list', free_count', pages', HiddenBy(work')) /\ Joinless(pages', work')
  <2>1. Built(work) /\ Built(work') /\ Hand(work) = Hand(work')
    BY <1>2, <1>3 DEF Built, Hand
  <2>2. SameFree(pages, Hand(work), pages, Hand(work'))
    BY <2>1 DEF SameFree
  <2>3. Lists(free_list, free_count, pages, HiddenBy(work')) /\ Joinless(pages, work')
    BY <1>1, <2>1, <2>2, SameKeeps
  <2> QED BY <1>2, <2>3
<1>9. Loops'
  BY <1>3 DEF Loops, Starting, Reserving, Joining, HandFree, Splitting, Trimming, Checking, Doing
<1> QED BY <1>1, <1>2, <1>6, <1>7, <1>8, <1>9 DEF IInv

\* A block of the request is free and in hand.
LEMMA FreePieceHolds == IInv /\ FreePiece => IInv'
<1> SUFFICES ASSUME IInv, FreePiece PROVE IInv'
  OBVIOUS
<1>1. /\ TypeOK /\ Tiles(pages) /\ Lists(free_list, free_count, pages, HiddenBy(work))
      /\ Owning(pages, owned, HeldBy(work)) /\ Joinless(pages, work) /\ pages \in Tables
      /\ work \in Work
  BY InvFacts
<1> DEFINE p == work.page
           k == OrderOf(work.page)
           held == Span(p, work.left)
<1>2. /\ work.op = "freeing" /\ work.left \in Nat \ {0} /\ UNCHANGED <<free_list, free_count, owned>>
      /\ pages' = [pages EXCEPT ![p].state = "free"]
      /\ work' = [work EXCEPT !.op = "merging", !.order = k, !.base = p + Size[k],
                              !.left = work.left - Size[k]]
      /\ p \in Nat /\ work.left <= PageCount
  BY <1>1, WorkFacts DEF FreePiece, Doing
<1>3. HeldBy(work) = held
  BY <1>2 DEF HeldBy
<1>4. /\ p \in Pages /\ pages[p].state = "allocated" /\ Ext(pages, p) \subseteq held
      /\ Size[pages[p].order] <= work.left
  <2>1. Whole(pages, Span(p, work.left))
    BY <1>1, <1>3 DEF Owning
  <2> HIDE DEF p
  <2> QED BY <1>1, <1>2, <2>1, WholeFirst
<1>5. k = pages[p].order /\ p = work.page
  BY DEF OrderOf
<1> HIDE DEF p, k, held
<1>6. /\ k \in Orders /\ Size[k] \in Nat \ {0} /\ p \in Heads(pages)
      /\ Ext(pages, p) \subseteq Pages /\ Ext(pages, p) = Span(p, Size[k]) /\ Size[k] <= work.left
  BY <1>1, <1>4, <1>5, PageFacts, Sizes DEF Heads, Tiles, Ext
<1>7. p + Size[k] \in 0 .. PageCount /\ work.left - Size[k] \in 0 .. PageCount
  <2>1. p + Size[k] - 1 \in Span(p, Size[k])
    BY <1>2, <1>6 DEF Span
  <2>2. p + Size[k] - 1 < PageCount
    BY <1>6, <2>1, PageCountAssumption DEF Pages
  <2> QED BY <1>2, <1>6, <2>2, PageCountAssumption
<1>8. /\ work' \in Work /\ work'.op = "merging" /\ work'.page = p /\ work'.order = k
      /\ work'.base = p + Size[k] /\ work'.left = work.left - Size[k]
  BY <1>1, <1>2, <1>5, <1>6, <1>7 DEF Work, Operations
<1>9. /\ pages' \in Tables /\ pages'[p].state = "free" /\ pages'[p].order = pages[p].order
      /\ \A q \in Pages \ {p} : pages'[q] = pages[q]
  <2>1. pages'[p] = [pages[p] EXCEPT !.state = "free"] /\ \A q \in Pages \ {p} : pages'[q] = pages[q]
    BY <1>1, <1>2, <1>4 DEF Tables
  <2>2. pages'[p] \in [state : States, order : Orders] /\ pages'[p].state = "free"
        /\ pages'[p].order = pages[p].order
    BY <1>1, <1>4, <2>1, StateFacts DEF Tables
  <2> QED BY <1>1, <1>2, <2>1, <2>2 DEF Tables
<1>10. SameBut(pages, pages', {p})
  BY <1>9 DEF SameBut
<1>11. Tiles(pages')
  <2>1. pages'[p].state \in {"free", "allocated"}
    BY <1>9
  <2> QED BY <1>1, <1>6, <1>9, <1>10, <2>1, RetaggedTiles
<1>12. Built(work) /\ Built(work') /\ Hand(work) = {} /\ Hand(work') = {p}
  BY <1>2, <1>8 DEF Built, Hand
<1>13. SameFree(pages, Hand(work), pages', Hand(work'))
  <2>1. \A j \in Orders : \A q : q \in FreeAt(pages', {p}, j) <=> q \in FreeAt(pages, {}, j)
    BY <1>4, <1>9 DEF FreeAt
  <2>2. \A j \in Orders : FreeAt(pages', {p}, j) = FreeAt(pages, {}, j)
    BY <2>1
  <2> QED BY <1>12, <2>2 DEF SameFree
<1>14. Lists(free_list', free_count', pages', HiddenBy(work')) /\ Joinless(pages', work')
  <2>1. Lists(free_list, free_count, pages', HiddenBy(work')) /\ Joinless(pages', work')
    BY <1>1, <1>12, <1>13, SameKeeps
  <2> QED BY <1>2, <2>1
<1>15. TypeOK'
  BY <1>1, <1>2, <1>8, <1>9 DEF TypeOK, Tables
<1>16. Owning(pages', owned', HeldBy(work'))
  <2>1. Owning(pages, owned, held)
    BY <1>1, <1>3
  <2>2. p \in held
    BY <1>1, <1>4, PageFacts
  <2>3. Owning(pages', owned, held \ Ext(pages, p))
    BY <1>1, <1>4, <1>9, <1>10, <2>1, <2>2, OwningFree
  <2>4. HeldBy(work') = Span(p + Size[k], work.left - Size[k])
    BY <1>8 DEF HeldBy
  <2>5. held \ Ext(pages, p) = Span(p + Size[k], work.left - Size[k])
    <3> DEFINE s == Size[k]
               n == work.left
    <3>1. /\ p \in Nat /\ s \in Nat \ {0} /\ n \in Nat \ {0} /\ s <= n /\ held = Span(p, n)
          /\ Ext(pages, p) = Span(p, s)
      BY <1>2, <1>6 DEF held
    <3> HIDE DEF s, n
    <3>2. \A x \in Int : x \in Span(p + s, n - s) <=> x \in Span(p, n) /\ x \notin Span(p, s)
      BY ONLY <3>1 DEF Span
    <3>3. Span(p + s, n - s) \subseteq Int /\ Span(p, n) \subseteq Int
      BY DEF Span
    <3>4. Span(p, n) \ Span(p, s) = Span(p + s, n - s)
      BY <3>2, <3>3
    <3> QED BY <3>1, <3>4 DEF s, n
  <2> QED BY <1>2, <2>3, <2>4, <2>5
<1>17. Loops'
  <2>1. HandFree'
    BY <1>4, <1>5, <1>8, <1>9 DEF HandFree
  <2> QED BY <1>8, <2>1 DEF Loops, Starting, Reserving, Joining, Splitting, Trimming, Checking, Doing
<1> QED BY <1>11, <1>14, <1>15, <1>16, <1>17 DEF IInv

\* Where the buddy of an aligned block is.
LEMMA BuddyFacts ==
    ASSUME NEW k \in 0 .. MaxOrder - 1, NEW p \in Nat, p % Size[k] = 0,
           NEW b, b = BuddyOf(p, k), NEW lower, NEW upper,
           p < b => lower = p /\ upper = b, ~(p < b) => lower = b /\ upper = p
    PROVE  /\ b \in Nat /\ b # p /\ lower % Size[k + 1] = 0 /\ upper = lower + Size[k]
           /\ lower \in Nat /\ {lower, upper} = {p, b}
<1>1. Size[k] \in Nat \ {0}
  BY Sizes
<1>2. CASE p % Size[k + 1] = 0
  <2>1. b = p + Size[k]
    BY <1>2, Halved
  <2> QED BY <1>1, <1>2, <2>1
<1>3. CASE p >= Size[k] /\ (p - Size[k]) % Size[k + 1] = 0
  <2> DEFINE q == p - Size[k]
  <2>1. q \in Nat /\ q + Size[k] = p
    BY <1>1, <1>3
  <2>2. q % Size[k + 1] = 0
    BY <1>3
  <2> HIDE DEF q
  <2>3. BuddyOf(q + Size[k], k) = q
    BY <2>1, <2>2, Halved
  <2>4. b = q
    BY <2>1, <2>3
  <2> QED BY <1>1, <2>1, <2>2, <2>4
<1> QED BY <1>2, <1>3, Halved

\* free_order_block: the block in hand becomes the block of the next order.
LEMMA MergeHolds == IInv /\ Merge => IInv'
<1> SUFFICES ASSUME IInv, Merge PROVE IInv'
  OBVIOUS
<1>1. /\ TypeOK /\ Tiles(pages) /\ Lists(free_list, free_count, pages, HiddenBy(work))
      /\ Owning(pages, owned, HeldBy(work)) /\ Joinless(pages, work) /\ pages \in Tables
      /\ free_list \in [Orders -> Seq(Pages)] /\ free_count \in [Orders -> Nat]
      /\ HandFree /\ work \in Work
  BY InvFacts
<1> DEFINE p == work.page
           k == work.order
           b == BuddyOf(p, k)
           lower == IF p < b THEN p ELSE b
           upper == IF p < b THEN b ELSE p
<1>2. /\ work.op = "merging" /\ p \in Pages /\ pages[p].state = "free" /\ pages[p].order = k
      /\ k \in Orders /\ k < MaxOrder /\ b < PageCount /\ pages[b] = Block("free", k)
  BY <1>1, WorkFacts DEF Merge, Mergeable, Doing, HandFree
<1>3. /\ free_list' = [free_list EXCEPT ![k] = Without(free_list[k], b)]
      /\ free_count' = [free_count EXCEPT ![k] = free_count[k] - 1]
      /\ pages' = [pages EXCEPT ![upper].state = "tail", ![lower] = Block("free", k + 1)]
      /\ work' = [work EXCEPT !.page = lower, !.order = k + 1]
      /\ owned' = owned
  BY DEF Merge, RemoveFreeBlock
<1>4. /\ b = BuddyOf(p, k) /\ p = work.page /\ k = work.order
      /\ lower = (IF p < b THEN p ELSE b) /\ upper = (IF p < b THEN b ELSE p)
  OBVIOUS
<1> HIDE DEF p, k, b, lower, upper
<1>5. /\ k \in 0 .. MaxOrder - 1 /\ k + 1 \in Orders /\ p \in Nat /\ p \in Heads(pages)
      /\ p % Size[k] = 0
  <2>1. k \in 0 .. MaxOrder - 1 /\ p \in Nat /\ p \in Heads(pages)
    BY <1>2, MaxOrderAssumption DEF Orders, Pages, Heads
  <2>2. p % Size[k] = 0
    BY <1>1, <1>2, <2>1 DEF Tiles
  <2> QED BY <2>1, <2>2, Sizes
<1>6. /\ b \in Nat /\ b # p /\ lower % Size[k + 1] = 0 /\ upper = lower + Size[k]
      /\ lower \in Nat /\ {lower, upper} = {p, b}
  <2>1. (p < b => lower = p /\ upper = b) /\ (~(p < b) => lower = b /\ upper = p)
    BY <1>4
  <2>2. p % Size[k] = 0 /\ b = BuddyOf(p, k) /\ k \in 0 .. MaxOrder - 1 /\ p \in Nat
    BY <1>4, <1>5
  <2> QED BY ONLY <2>1, <2>2, BuddyFacts
<1>7. b \in Pages /\ pages[b].state = "free" /\ pages[b].order = k /\ b \in Heads(pages)
  <2>1. b \in Pages
    BY <1>2, <1>6, PageCountAssumption DEF Pages
  <2> QED BY <1>2, <2>1, BlockFacts, StateFacts DEF Heads
<1>8. lower # upper /\ {lower, upper} \subseteq Pages
      /\ \A q \in {lower, upper} : /\ pages[q].state = "free" /\ pages[q].order = k
                                   /\ q \in Heads(pages)
  <2>1. (lower = p /\ upper = b) \/ (lower = b /\ upper = p)
    BY <1>4
  <2>2. CASE lower = p /\ upper = b
    BY <1>2, <1>5, <1>6, <1>7, <2>2
  <2>3. CASE lower = b /\ upper = p
    BY <1>2, <1>5, <1>6, <1>7, <2>3
  <2> QED BY <2>1, <2>2, <2>3
<1>9. /\ Block("free", k + 1) \in [state : States, order : Orders]
      /\ Block("free", k + 1).state = "free" /\ Block("free", k + 1).order = k + 1
  BY <1>5, BlockFacts, StateFacts
<1>10. /\ pages' \in Tables /\ pages'[lower].state = "free" /\ pages'[lower].order = k + 1
       /\ pages'[upper].state = "tail" /\ \A q \in Pages \ {lower, upper} : pages'[q] = pages[q]
  <2>1. /\ pages'[lower] = Block("free", k + 1)
        /\ pages'[upper] = [pages[upper] EXCEPT !.state = "tail"]
        /\ \A q \in Pages \ {lower, upper} : pages'[q] = pages[q]
    <3>1. DOMAIN pages = Pages /\ lower \in Pages /\ upper \in Pages /\ lower # upper
      BY <1>1, <1>8 DEF Tables
    <3>2. pages' = [pages EXCEPT ![upper].state = "tail", ![lower] = Block("free", k + 1)]
      BY <1>3
    <3> QED BY ONLY <3>1, <3>2
  <2>2. /\ pages'[upper] \in [state : States, order : Orders] /\ pages'[upper].state = "tail"
    BY <1>1, <1>8, <2>1, StateFacts DEF Tables
  <2> QED BY <1>1, <1>3, <1>8, <1>9, <2>1, <2>2 DEF Tables
<1>11. SameBut(pages, pages', {lower, upper})
  BY <1>10 DEF SameBut
<1>12. Tiles(pages')
  <2>1. /\ lower \in Heads(pages) /\ upper \in Heads(pages)
        /\ pages[lower].order = k /\ pages[upper].order = k
        /\ pages \in Tables /\ Tiles(pages) /\ k \in 0 .. MaxOrder - 1
        /\ lower % Size[k + 1] = 0 /\ upper = lower + Size[k]
    BY <1>1, <1>5, <1>6, <1>8
  <2> DEFINE ng == pages'
  <2>2. /\ ng \in Tables /\ ng[lower].state = "free" /\ ng[lower].order = k + 1
        /\ ng[upper].state = "tail" /\ SameBut(pages, ng, {lower, upper})
    BY <1>10, <1>11
  <2> HIDE DEF ng
  <2>3. Tiles(ng)
    BY ONLY <2>1, <2>2, JoinTiles
  <2> QED BY <2>3 DEF ng
<1>13. /\ work' \in Work /\ work'.op = "merging" /\ work'.page = lower /\ work'.order = k + 1
       /\ work'.base = work.base /\ work'.left = work.left
  <2>1. lower \in 0 .. PageCount
    BY <1>8, PageCountAssumption DEF Pages
  <2> QED BY <1>1, <1>2, <1>3, <1>5, <2>1 DEF Work
<1>14. Built(work) /\ Built(work') /\ Hand(work) = {p} /\ Hand(work') = {lower}
  BY <1>2, <1>4, <1>13 DEF Built, Hand
<1>15. /\ b \in FreeAt(pages, Hand(work), k)
       /\ FreeAt(pages', Hand(work'), k) = FreeAt(pages, Hand(work), k) \ {b}
       /\ \A j \in Orders \ {k} : FreeAt(pages', {lower}, j) = FreeAt(pages, {p}, j)
  <2>1. b \in FreeAt(pages, {p}, k)
    BY <1>6, <1>7 DEF FreeAt
  <2>2. ASSUME NEW j \in Orders, NEW q
        PROVE  q \in FreeAt(pages', {lower}, j) <=> q \in FreeAt(pages, {p}, j) /\ ~(j = k /\ q = b)
    <3>1. CASE q \in {lower, upper}
      BY <1>2, <1>6, <1>7, <1>8, <1>10, <3>1 DEF FreeAt
    <3>2. CASE q \notin {lower, upper}
      BY <1>6, <1>10, <3>2 DEF FreeAt
    <3> QED BY <3>1, <3>2
  <2>3. FreeAt(pages', {lower}, k) = FreeAt(pages, {p}, k) \ {b}
    BY <1>2, <2>2
  <2>4. \A j \in Orders \ {k} : FreeAt(pages', {lower}, j) = FreeAt(pages, {p}, j)
    BY <2>2
  <2> QED BY <1>14, <2>1, <2>3, <2>4
<1>16. /\ free_list'[k] = Without(free_list[k], b) /\ free_count'[k] = free_count[k] - 1
       /\ Elsewhere(k, free_list, free_count, pages, Hand(work), free_list', free_count', pages',
                    Hand(work'))
  BY <1>1, <1>2, <1>3, <1>14, <1>15 DEF Elsewhere
<1>17. /\ Without(free_list[k], b) \in Seq(Pages) /\ free_count[k] - 1 \in Nat
       /\ Lists(free_list', free_count', pages', HiddenBy(work')) /\ Joinless(pages', work')
  BY <1>1, <1>2, <1>14, <1>15, <1>16, RemoveKeeps
<1>18. TypeOK'
  <2>1. free_list' \in [Orders -> Seq(Pages)] /\ free_count' \in [Orders -> Nat]
    BY <1>1, <1>2, <1>3, <1>17
  <2> QED BY <1>1, <1>3, <1>10, <1>13, <2>1 DEF TypeOK, Tables
<1>19. Owning(pages', owned', HeldBy(work'))
  <2>1. \A q \in Pages : /\ pages[q].state = "allocated" <=> pages'[q].state = "allocated"
                         /\ pages[q].state = "allocated" => pages'[q] = pages[q]
    BY <1>8, <1>10
  <2>2. HeldBy(work') = HeldBy(work)
    BY <1>2, <1>13 DEF HeldBy
  <2>3. Owning(pages', owned, HeldBy(work))
    BY <1>1, <1>10, <2>1, OwningKept
  <2> QED BY <1>3, <2>2, <2>3
<1>20. Loops'
  <2>1. HandFree'
    BY <1>8, <1>10, <1>13 DEF HandFree
  <2> QED BY <1>13, <2>1 DEF Loops, Starting, Reserving, Joining, Splitting, Trimming, Checking, Doing
<1> QED BY <1>12, <1>17, <1>18, <1>19, <1>20 DEF IInv

\* free_order_block ends: the block's buddy is not free, and the block goes on its list.
LEMMA MergedHolds == IInv /\ Merged => IInv'
<1> SUFFICES ASSUME IInv, Merged PROVE IInv'
  OBVIOUS
<1>1. /\ TypeOK /\ Tiles(pages) /\ Lists(free_list, free_count, pages, HiddenBy(work))
      /\ Owning(pages, owned, HeldBy(work)) /\ Joinless(pages, work) /\ pages \in Tables
      /\ free_list \in [Orders -> Seq(Pages)] /\ free_count \in [Orders -> Nat]
      /\ HandFree /\ work \in Work
  BY InvFacts
<1> DEFINE p == work.page
           k == work.order
           b == BuddyOf(p, k)
<1>2. /\ work.op = "merging" /\ p \in Pages /\ pages[p].state = "free" /\ pages[p].order = k
      /\ k \in Orders
  BY <1>1, WorkFacts DEF Merged, Doing, HandFree
<1>3. /\ free_list' = [free_list EXCEPT ![k] = Append(free_list[k], p)]
      /\ free_count' = [free_count EXCEPT ![k] = free_count[k] + 1]
      /\ work' = [work EXCEPT !.op = "freeing", !.page = work.base, !.order = 0]
      /\ pages' = pages /\ owned' = owned
  BY DEF Merged, AddFreeBlock
<1>4. ~(k < MaxOrder /\ b < PageCount /\ pages[b] = Block("free", k))
  BY DEF Merged, Mergeable
<1>5. b = BuddyOf(p, k) /\ p = work.page
  OBVIOUS
<1> HIDE DEF p, k, b
<1>6. /\ work' \in Work /\ work'.op = "freeing" /\ work'.page = work.base /\ work'.left = work.left
  <2>1. 0 \in Orders /\ work.base \in 0 .. PageCount
    BY <1>1, MaxOrderAssumption DEF Orders, Work
  <2> QED BY <1>1, <1>3, <2>1 DEF Work, Operations
<1>7. Built(work) /\ Built(work') /\ Hand(work) = {p} /\ Hand(work') = {}
  BY <1>2, <1>5, <1>6 DEF Built, Hand
<1>8. /\ p \notin FreeAt(pages, Hand(work), k)
      /\ k < MaxOrder => BuddyOf(p, k) \notin FreeAt(pages, Hand(work), k)
  <2>1. ASSUME k < MaxOrder, b \in FreeAt(pages, {p}, k) PROVE FALSE
    <3>1. b \in Pages /\ pages[b].state = "free" /\ pages[b].order = k
      BY <2>1 DEF FreeAt
    <3>2. pages[b] = Block("free", k)
      BY <1>1, <1>2, <3>1, BlockFacts, StateFacts DEF Tables
    <3>3. b < PageCount
      BY <3>1, PageCountAssumption DEF Pages
    <3> QED BY <1>4, <2>1, <3>2, <3>3
  <2>2. p \notin FreeAt(pages, {p}, k)
    BY DEF FreeAt
  <2> QED BY <1>5, <1>7, <2>1, <2>2
<1>9. /\ FreeAt(pages', Hand(work'), k) = FreeAt(pages, Hand(work), k) \cup {p}
      /\ \A j \in Orders \ {k} : FreeAt(pages', Hand(work'), j) = FreeAt(pages, Hand(work), j)
  <2>1. \A j \in Orders : \A q :
           q \in FreeAt(pages, {}, j) <=> q \in FreeAt(pages, {p}, j) \/ (j = k /\ q = p)
    BY <1>2 DEF FreeAt
  <2>2. FreeAt(pages, {}, k) = FreeAt(pages, {p}, k) \cup {p}
    BY <1>2, <2>1
  <2>3. \A j \in Orders \ {k} : FreeAt(pages, {}, j) = FreeAt(pages, {p}, j)
    BY <2>1
  <2> QED BY <1>3, <1>7, <2>2, <2>3
<1>10. /\ free_list'[k] = Append(free_list[k], p) /\ free_count'[k] = free_count[k] + 1
       /\ Elsewhere(k, free_list, free_count, pages, Hand(work), free_list', free_count', pages',
                    Hand(work'))
  BY <1>1, <1>2, <1>3, <1>9 DEF Elsewhere
<1>11. Lists(free_list', free_count', pages', HiddenBy(work')) /\ Joinless(pages', work')
  BY <1>1, <1>2, <1>7, <1>8, <1>9, <1>10, AddKeeps
<1>12. TypeOK'
  <2>1. Append(free_list[k], p) \in Seq(Pages) /\ free_count[k] + 1 \in Nat
    BY <1>1, <1>2
  <2>2. free_list' \in [Orders -> Seq(Pages)] /\ free_count' \in [Orders -> Nat]
    BY <1>1, <1>2, <1>3, <2>1
  <2> QED BY <1>1, <1>3, <1>6, <2>2 DEF TypeOK
<1>13. Owning(pages', owned', HeldBy(work'))
  <2>1. HeldBy(work') = HeldBy(work)
    BY <1>2, <1>6 DEF HeldBy
  <2> QED BY <1>1, <1>3, <2>1
<1>14. Loops'
  BY <1>6 DEF Loops, Starting, Reserving, Joining, HandFree, Splitting, Trimming, Checking, Doing
<1> QED BY <1>1, <1>3, <1>11, <1>12, <1>13, <1>14 DEF IInv

\* buddy_free_pages ends.
LEMMA FreedHolds == IInv /\ Freed => IInv'
<1> SUFFICES ASSUME IInv, Freed PROVE IInv'
  OBVIOUS
<1>1. /\ TypeOK /\ Tiles(pages) /\ Lists(free_list, free_count, pages, HiddenBy(work))
      /\ Owning(pages, owned, HeldBy(work)) /\ Joinless(pages, work)
  BY InvFacts
<1>2. /\ work.op = "freeing" /\ work.left = 0 /\ UNCHANGED <<pages, free_list, free_count, owned>>
      /\ work.page \in Nat
  BY <1>1, WorkFacts DEF Freed, Doing
<1>3. work' \in Work /\ work'.op = "idle"
  BY MaxOrderAssumption, PageCountAssumption DEF Freed, Idle, Work, Operations, Orders
<1>4. TypeOK'
  BY <1>1, <1>2, <1>3 DEF TypeOK
<1>5. Owning(pages', owned', HeldBy(work'))
  <2>1. HeldBy(work) = {} /\ HeldBy(work') = {}
    BY <1>2, <1>3 DEF HeldBy, Span
  <2> QED BY <1>1, <1>2, <2>1
<1>6. Lists(free_list', free_count', pages', HiddenBy(work')) /\ Joinless(pages', work')
  <2>1. Built(work) /\ Built(work') /\ Hand(work) = Hand(work')
    BY <1>2, <1>3 DEF Built, Hand
  <2>2. SameFree(pages, Hand(work), pages, Hand(work'))
    BY <2>1 DEF SameFree
  <2>3. Lists(free_list, free_count, pages, HiddenBy(work')) /\ Joinless(pages, work')
    BY <1>1, <2>1, <2>2, SameKeeps
  <2> QED BY <1>2, <2>3
<1>7. Loops'
  BY <1>3 DEF Loops, Starting, Reserving, Joining, HandFree, Splitting, Trimming, Checking, Doing
<1> QED BY <1>1, <1>2, <1>4, <1>5, <1>6, <1>7 DEF IInv
-------------------------------------------------------------------------------
(* The theorems *)

\* Every step keeps the inductive invariant.
LEMMA NextHolds == IInv /\ [Next]_vars => IInv'
<1> SUFFICES ASSUME IInv, [Next]_vars PROVE IInv'
  OBVIOUS
<1>1. CASE Reserve
  BY <1>1, ReserveHolds
<1>2. CASE Build
  BY <1>2, BuildHolds
<1>3. CASE Join
  BY <1>3, JoinHolds
<1>4. CASE Joined
  BY <1>4, JoinedHolds
<1>5. CASE ListBlock
  BY <1>5, ListBlockHolds
<1>6. CASE Ready
  BY <1>6, ReadyHolds
<1>7. CASE \E count \in 1 .. Size[MaxOrder] : Allocate(count)
  BY <1>7, AllocateHolds
<1>8. CASE Split
  BY <1>8, SplitHolds
<1>9. CASE Take
  BY <1>9, TakeHolds
<1>10. CASE Trim
  BY <1>10, TrimHolds
<1>11. CASE Allocated
  BY <1>11, AllocatedHolds
<1>12. CASE Free
  BY <1>12, FreeHolds
<1>13. CASE Check
  BY <1>13, CheckHolds
<1>14. CASE Checked
  BY <1>14, CheckedHolds
<1>15. CASE FreePiece
  BY <1>15, FreePieceHolds
<1>16. CASE Merge
  BY <1>16, MergeHolds
<1>17. CASE Merged
  BY <1>17, MergedHolds
<1>18. CASE Freed
  BY <1>18, FreedHolds
<1>19. CASE UNCHANGED vars
  BY <1>19 DEF vars, IInv, TypeOK, Loops, Starting, Reserving, Joining, HandFree, Splitting,
               Trimming, Checking, Doing, Requests, InUse
<1> QED BY <1>1, <1>2, <1>3, <1>4, <1>5, <1>6, <1>7, <1>8, <1>9, <1>10, <1>11, <1>12, <1>13,
           <1>14, <1>15, <1>16, <1>17, <1>18, <1>19 DEF Next

\* buddy_build, buddy_alloc_pages and buddy_free_pages keep, at every step of every loop: the
\* blocks tile the managed range; the lists hold the free blocks that are not in hand; owners
\* and operation hold whole blocks; and no two free halves of a block wait to be joined.
THEOREM InductiveInvariant == Spec => []IInv
BY InitHolds, NextHolds, PTL DEF Spec

\* At every step of the page allocator its blocks lie inside the managed range, aligned to
\* their size and disjoint, and every page is reserved or in exactly one of them.
THEOREM TilingCorrect == Spec => []BlocksTile
<1>1. IInv => BlocksTile
  <2> SUFFICES ASSUME IInv PROVE BlocksTile
    OBVIOUS
  <2>1. TypeOK /\ Tiles(pages)
    BY DEF IInv
  <2>2. /\ Heads(pages) = {p \in Pages : IsBlock(p)}
        /\ \A p \in Pages : Ext(pages, p) = Extent(p)
    BY DEF Heads, IsBlock, Ext, Extent, OrderOf
  <2> QED BY <2>1, <2>2 DEF BlocksTile, Tiles, OrderOf
<1> QED BY <1>1, InductiveInvariant, PTL

\* Once buddy_build is done the free lists hold each free block once and under its order,
\* except the block that the running operation has in hand, and the counts are exact.
THEOREM ListsCorrect == Spec => []ListsExact
<1>1. IInv => ListsExact
  <2> SUFFICES ASSUME IInv, work.op \notin {"reserving", "joining", "listing"}, NEW k \in Orders
               PROVE  /\ {free_list[k][i] : i \in DOMAIN free_list[k]}
                           = {p \in Pages : pages[p] = Block("free", k)} \ InHand
                      /\ free_count[k] = Len(free_list[k])
                      /\ free_count[k] = Cardinality({free_list[k][i] : i \in DOMAIN free_list[k]})
    BY DEF ListsExact
  <2>1. /\ Distinct(free_list[k]) /\ Listed(free_list[k]) = FreeAt(pages, InHand, k)
        /\ free_count[k] = Len(free_list[k])
    BY DEF IInv, Lists, HiddenBy, Hand, InHand
  <2>2. free_list[k] \in Seq(Pages) /\ pages \in Tables
    BY DEF IInv, TypeOK, Tables
  <2>3. FreeAt(pages, InHand, k) = {p \in Pages : pages[p] = Block("free", k)} \ InHand
    BY <2>2, BlockFacts, StateFacts DEF FreeAt, Tables
  <2>4. Cardinality(Listed(free_list[k])) = Len(free_list[k])
    BY <2>1, <2>2, ListSize
  <2> QED BY <2>1, <2>3, <2>4 DEF Listed
<1> QED BY <1>1, InductiveInvariant, PTL

\* Between operations the callers of the page allocator own exactly the allocated pages, and
\* no two of them own the same page.
THEOREM OwnersCorrect == Spec => []OwnersExact
<1>1. IInv => OwnersExact
  <2> SUFFICES ASSUME IInv, Doing("idle")
               PROVE  /\ InUse = UNION {Extent(p) : p \in {q \in Pages : pages[q].state = "allocated"}}
                      /\ \A a, b \in owned : a # b => Span(a[1], a[2]) \cap Span(b[1], b[2]) = {}
    BY DEF OwnersExact
  <2>1. Owning(pages, owned, {})
    BY DEF IInv, HeldBy, Doing
  <2>2. InUse = Covered(owned)
    BY DEF InUse, Covered
  <2>3. AllocatedPages(pages)
          = UNION {Extent(p) : p \in {q \in Pages : pages[q].state = "allocated"}}
    BY DEF AllocatedPages, Ext, Extent, OrderOf
  <2> QED BY <2>1, <2>2, <2>3 DEF Owning
<1> QED BY <1>1, InductiveInvariant, PTL

\* An aligned stretch of free pages that lies in one free block.
InOneBlock(p, k) ==
    \E q \in Pages : pages[q].state = "free" /\ Span(p, Size[k]) \subseteq Extent(q)

\* The block that holds a stretch of its size, and is not larger, begins with it.
LEMMA SameStretch ==
    ASSUME NEW p \in Nat, NEW q \in Nat, NEW m \in Nat \ {0}, NEW n \in Nat \ {0},
           Span(p, n) \subseteq Span(q, m), m <= n
    PROVE  p = q /\ m = n
<1>1. p \in Span(p, n) /\ p + n - 1 \in Span(p, n)
  BY DEF Span
<1>2. p \in Span(q, m) /\ p + n - 1 \in Span(q, m)
  BY <1>1
<1> QED BY <1>2 DEF Span

\* If both halves of a stretch lie in free blocks, either the stretch lies in one, or each
\* half is a block.
LEMMA HalvesInBlocks ==
    ASSUME IInv, NEW j \in 0 .. MaxOrder - 1, NEW p \in Pages, p % Size[j + 1] = 0,
           NEW u \in Pages, u = p + Size[j], InOneBlock(p, j), InOneBlock(u, j),
           ~InOneBlock(p, j + 1)
    PROVE  /\ pages[p].state = "free" /\ pages[p].order = j
           /\ pages[u].state = "free" /\ pages[u].order = j
<1>1. /\ pages \in Tables /\ Tiles(pages) /\ p \in Nat /\ u \in Nat /\ j \in Orders
      /\ j + 1 \in Orders /\ Size[j] \in Nat \ {0} /\ Size[j + 1] = Size[j] + Size[j] /\ j \in Int
  <2>1. pages \in Tables /\ Tiles(pages) /\ p \in Nat /\ u \in Nat
    BY DEF IInv, TypeOK, Tables, Pages
  <2>2. /\ j \in Orders /\ j + 1 \in Orders /\ Size[j] \in Nat \ {0}
        /\ Size[j + 1] = Size[j] + Size[j] /\ j \in Int
    BY ONLY Sizes, j \in 0 .. MaxOrder - 1
  <2> QED BY ONLY <2>1, <2>2
<1>2. p % Size[j] = 0 /\ u % Size[j] = 0 /\ BuddyOf(u, j) = p
  BY <1>1, Halved
<1>3. PICK q \in Pages : pages[q].state = "free" /\ Span(p, Size[j]) \subseteq Extent(q)
  BY DEF InOneBlock
<1>4. PICK r \in Pages : pages[r].state = "free" /\ Span(u, Size[j]) \subseteq Extent(r)
  BY DEF InOneBlock
<1> DEFINE m == pages[q].order
           n == pages[r].order
<1>5. /\ q \in Heads(pages) /\ r \in Heads(pages) /\ q \in Nat /\ r \in Nat
      /\ m \in Orders /\ n \in Orders /\ Size[m] \in Nat \ {0} /\ Size[n] \in Nat \ {0}
      /\ m \in Int /\ n \in Int
  <2>1. q \in Heads(pages) /\ r \in Heads(pages)
    BY <1>3, <1>4 DEF Heads
  <2>2. /\ q \in Nat /\ m \in Orders /\ Size[m] \in Nat \ {0}
        /\ r \in Nat /\ n \in Orders /\ Size[n] \in Nat \ {0}
    BY <1>1, PageFacts
  <2>3. m \in Int /\ n \in Int
    BY <2>2 DEF Orders
  <2> QED BY <2>1, <2>2, <2>3
<1>6. /\ Ext(pages, q) = Span(q, Size[m]) /\ Ext(pages, r) = Span(r, Size[n])
      /\ Extent(q) = Span(q, Size[m]) /\ Extent(r) = Span(r, Size[n])
  BY DEF Ext, Extent, OrderOf
<1>7. /\ q % Size[m] = 0 /\ r % Size[n] = 0
      /\ \A x \in Span(r, Size[n]) \ {r} : pages[x].state = "tail"
      /\ \A x \in Span(q, Size[m]) \ {q} : pages[x].state = "tail"
  BY <1>1, <1>5, <1>6 DEF Tiles
<1> HIDE DEF m, n
<1>8. m <= j
  <2> SUFFICES ASSUME m > j PROVE FALSE
    BY <1>1, <1>5
  <2>1. j + 1 <= m
    BY <1>1, <1>5
  <2>2. p \in Span(q, Size[m])
    BY <1>1, <1>3, <1>6 DEF Span
  <2>3. Span(p, Size[j + 1]) \subseteq Span(q, Size[m])
    BY <1>1, <1>5, <1>7, <2>1, <2>2, Nested
  <2> QED BY <1>3, <1>6, <2>3 DEF InOneBlock
<1>9. p = q /\ m = j
  <2>1. Size[m] <= Size[j] /\ (m < j => Size[m] < Size[j])
    BY <1>1, <1>5, <1>8, SizesDivide
  <2>2. Span(p, Size[j]) \subseteq Span(q, Size[m])
    BY <1>3, <1>6
  <2>3. p = q /\ Size[m] = Size[j]
    BY ONLY <1>1, <1>5, <2>1, <2>2, SameStretch
  <2> QED BY <1>1, <1>5, <1>8, <2>1, <2>3
<1>10. u \in Span(r, Size[n]) /\ u + Size[j] - 1 \in Span(r, Size[n])
  <2>1. u \in Span(u, Size[j]) /\ u + Size[j] - 1 \in Span(u, Size[j])
    BY ONLY <1>1 DEF Span
  <2> QED BY <1>4, <1>6, <2>1
<1>11. u = r
  <2>1. CASE r < p
    <3>1. p \in Span(r, Size[n]) \ {r}
      BY <1>1, <1>5, <1>10, <2>1 DEF Span
    <3> QED BY <1>3, <1>7, <1>9, <3>1
  <2>2. CASE p < r /\ r < u
    <3>1. r \in Span(q, Size[m]) \ {q}
      BY <1>1, <1>5, <1>9, <2>2 DEF Span
    <3> QED BY <1>4, <1>7, <3>1
  <2>3. CASE r = p
    <3>1. Size[n] = Size[j]
      BY <1>9, <2>3 DEF m, n
    <3> QED BY <1>1, <1>5, <1>10, <2>3, <3>1 DEF Span
  <2>4. r <= u
    BY <1>1, <1>5, <1>10 DEF Span
  <2>5. p \in Int /\ u \in Int /\ r \in Int
    BY <1>1, <1>5
  <2> QED BY ONLY <2>1, <2>2, <2>3, <2>4, <2>5
<1>12. n = j
  <2>1. CASE n < j
    <3>1. Size[n] < Size[j]
      BY <1>1, <1>5, <2>1, SizesDivide
    <3> QED BY <1>1, <1>5, <1>10, <1>11, <3>1 DEF Span
  <2>2. CASE n > j
    <3>1. PICK c \in Nat \ {0} : Size[n] = Size[j + 1] * c
      BY <1>1, <1>5, <2>2, SizesDivide
    <3>2. PICK d \in Nat : u = Size[n] * d
      <4>1. u \in Nat /\ Size[n] \in Nat \ {0} /\ u % Size[n] = 0
        BY <1>1, <1>5, <1>7, <1>11
      <4> QED BY ONLY <4>1, Multiple
    <3>3. u = Size[j + 1] * (c * d) /\ c * d \in Nat
      BY ONLY <1>1, <3>1, <3>2
    <3>4. u % Size[j + 1] = 0
      <4>1. u \in Nat /\ Size[j + 1] \in Nat \ {0} /\ \E e \in Nat : u = Size[j + 1] * e
        BY <1>1, <3>3
      <4> QED BY ONLY <4>1, Multiple
    <3>5. BuddyOf(u, j) = u + Size[j]
      BY <1>1, <3>4, Halved
    <3> QED BY <1>1, <1>2, <3>5
  <2> QED BY <1>1, <1>5, <2>1, <2>2
<1> QED BY <1>3, <1>4, <1>9, <1>11, <1>12 DEF m, n

\* Between operations every aligned stretch of free pages lies in one free block: a request
\* fails only if there is no stretch for it, and freeing everything restores the blocks of
\* buddy_build.
THEOREM MergedCorrect == Spec => []MaximallyMerged
<1>1. IInv => MaximallyMerged
  <2> SUFFICES ASSUME IInv, Doing("idle") PROVE MaximallyMerged
    BY DEF MaximallyMerged
  <2> DEFINE Apart(k) == \E p \in Pages : /\ p % Size[k] = 0 /\ Span(p, Size[k]) \subseteq FreePages
                                           /\ ~InOneBlock(p, k)
             T == {k \in Orders : Apart(k)}
  <2>1. SUFFICES ASSUME T # {} PROVE FALSE
    BY <2>1 DEF MaximallyMerged, InOneBlock
  <2>2. pages \in Tables /\ Tiles(pages) /\ T \in SUBSET Nat
    BY MaxOrderAssumption DEF IInv, TypeOK, Tables, Orders
  <2>3. PICK k \in T : \A i \in T : k <= i
    BY <2>1, <2>2, SmallestOf
  <2>4. PICK p \in Pages : /\ p % Size[k] = 0 /\ Span(p, Size[k]) \subseteq FreePages
                           /\ ~InOneBlock(p, k)
    BY <2>3
  <2>5. k \in Orders /\ k \in Nat /\ p \in Nat
    BY <2>2, <2>3 DEF Pages
  <2>6. \A i \in Orders : i < k => ~Apart(i)
    BY <2>3, <2>5 DEF Orders
  <2> HIDE DEF T, Apart
  <2>7. CASE k = 0
    <3>1. Span(p, Size[k]) = {p}
      BY <2>5, <2>7, Sizes DEF Span
    <3>2. p \in FreePages
      BY <2>4, <3>1
    <3> QED BY <2>4, <3>1, <3>2 DEF FreePages, InOneBlock
  <2>8. CASE k > 0
    <3> DEFINE j == k - 1
               u == p + Size[j]
    <3>1. j \in 0 .. MaxOrder - 1 /\ j \in Orders /\ j + 1 = k /\ j < k
      BY <2>5, <2>8, MaxOrderAssumption DEF Orders
    <3> HIDE DEF j
    <3>2. u = p + Size[j] /\ u \in Nat
      BY <2>5, <3>1, Sizes
    <3> HIDE DEF u
    <3>3. p % Size[j] = 0 /\ u % Size[j] = 0 /\ p % Size[j + 1] = 0
      BY <2>4, <2>5, <3>1, <3>2, Halved
    <3>4. /\ Span(p, Size[j]) \subseteq FreePages /\ Span(u, Size[j]) \subseteq FreePages
          /\ u \in Span(u, Size[j])
      BY <2>4, <2>5, <3>1, <3>2, SpanHalved
    <3>5. u \in Pages
      <4>1. PICK q \in Pages : pages[q].state = "free" /\ u \in Extent(q)
        BY <3>4 DEF FreePages
      <4>2. q \in Heads(pages) /\ Ext(pages, q) = Extent(q)
        BY <4>1 DEF Heads, Ext, Extent, OrderOf
      <4> QED BY <2>2, <4>1, <4>2 DEF Tiles
    <3>6. InOneBlock(p, j) /\ InOneBlock(u, j)
      BY <2>6, <3>1, <3>3, <3>4, <3>5 DEF Apart
    <3>7. /\ pages[p].state = "free" /\ pages[p].order = j
          /\ pages[u].state = "free" /\ pages[u].order = j
      BY <2>4, <3>1, <3>2, <3>3, <3>5, <3>6, HalvesInBlocks
    <3>8. p \in FreeAt(pages, Hand(work), j) /\ u \in FreeAt(pages, Hand(work), j)
      BY <3>5, <3>7 DEF FreeAt, Hand, Doing
    <3>9. Joinless(pages, work) /\ work.op = "idle"
      BY DEF IInv, Doing
    <3> QED BY <3>1, <3>2, <3>3, <3>8, <3>9 DEF Joinless, Swept
  <2> QED BY <2>5, <2>7, <2>8
<1> QED BY <1>1, InductiveInvariant, PTL

===============================================================================
