--------------------------------- MODULE Buddy ---------------------------------
(***************************************************************************)
(* Lab5/c/src/buddy.c: the page allocator.  Pages are numbered from the    *)
(* managed base.  The page descriptors hold the state and the order of a   *)
(* block at its first page; the free lists hold the first pages of free    *)
(* blocks by order.                                                        *)
(*                                                                         *)
(* Each iteration of a loop is a step; work is where the running operation *)
(* is.  allocator.c calls with interrupts masked, so nothing comes in      *)
(* between, and operations start only when work is idle.                   *)
(***************************************************************************)
EXTENDS Integers, Sequences, FiniteSets

CONSTANTS PageCount,   \* buddy_system.page_count
          MaxOrder,    \* CONFIG_BUDDY_MAX_ORDER
          Size,        \* the pages of a block of each order
          Reservable   \* the pages that the ranges reserved by main.c can touch

ASSUME PageCountAssumption == PageCount \in Nat \ {0}
ASSUME MaxOrderAssumption == MaxOrder \in Nat
ASSUME SizeAssumption == /\ Size \in [0 .. MaxOrder -> Nat \ {0}]
                         /\ Size[0] = 1
                         /\ \A k \in 1 .. MaxOrder : Size[k] = 2 * Size[k - 1]

Pages == 0 .. PageCount - 1
Orders == 0 .. MaxOrder
States == {"free", "allocated", "tail", "reserved"}

(***************************************************************************)
(* The operation in progress:                                              *)
(*   reserving  buddy_init is done, buddy_build not called                 *)
(*   joining    buddy_build, pairing blocks                                *)
(*   listing    buddy_build, listing the free blocks                       *)
(*   idle       no operation                                               *)
(*   splitting  split_free_block                                           *)
(*   trimming   trim_allocated_block                                       *)
(*   checking   the validation loop of buddy_free_pages                    *)
(*   freeing    its second loop, before the next piece                     *)
(*   merging    free_order_block                                           *)
(* page, order and left are the loop's variables: the page index, the      *)
(* order, the remaining pages.  base and count are the caller's arguments. *)
(***************************************************************************)
Operations == {"reserving", "joining", "listing", "idle", "splitting", "trimming",
               "checking", "freeing", "merging"}
Work == [op : Operations, page : 0 .. PageCount, order : Orders, left : 0 .. PageCount,
         base : 0 .. PageCount, count : 0 .. PageCount]

VARIABLES pages, free_list, free_count, work,
          owned    \* the allocations of the callers, <<first page, page count>>

vars == <<pages, free_list, free_count, work, owned>>

Doing(op) == work.op = op
Idle == [op |-> "idle", page |-> 0, order |-> 0, left |-> 0, base |-> 0, count |-> 0]

Span(first, count) == first .. first + count - 1
OrderOf(p) == pages[p].order
Block(state, order) == [state |-> state, order |-> order]

\* page_index ^ (1UL << order)
BuddyOf(p, k) == IF (p \div Size[k]) % 2 = 0 THEN p + Size[k] ELSE p - Size[k]

\* page_count_to_order
OrderFor(count) == CHOOSE k \in Orders : Size[k] >= count /\ \A j \in 0 .. k - 1 : Size[j] < count

\* list_remove: the other nodes keep their order.
Without(list, p) == LET i == CHOOSE i \in DOMAIN list : list[i] = p
                    IN  [j \in 1 .. Len(list) - 1 |-> IF j < i THEN list[j] ELSE list[j + 1]]

AddFreeBlock(p, k) == /\ free_list' = [free_list EXCEPT ![k] = Append(@, p)]
                      /\ free_count' = [free_count EXCEPT ![k] = @ + 1]
RemoveFreeBlock(p, k) == /\ free_list' = [free_list EXCEPT ![k] = Without(@, p)]
                         /\ free_count' = [free_count EXCEPT ![k] = @ - 1]
-------------------------------------------------------------------------------
(* Start-up *)

\* buddy_reserve, for the pages touched by the range.
Reserve ==
    /\ Doing("reserving")
    /\ \E first \in Pages : \E last \in first .. PageCount - 1 :
          /\ first .. last \subseteq Reservable
          /\ pages' = [p \in Pages |-> IF p \in first .. last
                                       THEN Block("reserved", OrderOf(p)) ELSE pages[p]]
    /\ UNCHANGED <<free_list, free_count, work, owned>>

Build == /\ Doing("reserving")
         /\ work' = [work EXCEPT !.op = "joining"]
         /\ UNCHANGED <<pages, free_list, free_count, owned>>

\* Mutation: the order of the right half is not compared.
JoinableLeft(p, k) == /\ p + Size[k] < PageCount
                      /\ pages[p] = Block("free", k)
                      /\ pages[p + Size[k]].state = "free"

Joinable(p, k) == /\ p + Size[k] < PageCount
                  /\ pages[p] = Block("free", k)
                  /\ pages[p + Size[k]] = Block("free", k)

\* buddy_build: pairs of free blocks, by order and page.
Join ==
    /\ Doing("joining") /\ work.order < MaxOrder /\ work.page < PageCount
    /\ pages' = IF Joinable(work.page, work.order)
                THEN [pages EXCEPT ![work.page].order = work.order + 1,
                                   ![work.page + Size[work.order]].state = "tail"]
                ELSE pages
    /\ work' = IF work.page + 2 * Size[work.order] < PageCount
               THEN [work EXCEPT !.page = @ + 2 * Size[work.order]]
               ELSE [work EXCEPT !.page = 0, !.order = @ + 1]
    /\ UNCHANGED <<free_list, free_count, owned>>

Joined == /\ Doing("joining") /\ work.order = MaxOrder
          /\ work' = [work EXCEPT !.op = "listing", !.page = 0]
          /\ UNCHANGED <<pages, free_list, free_count, owned>>

\* buddy_build: the free blocks, by page.
ListBlock ==
    /\ Doing("listing") /\ work.page < PageCount
    /\ IF pages[work.page].state = "free"
       THEN AddFreeBlock(work.page, OrderOf(work.page))
       ELSE UNCHANGED <<free_list, free_count>>
    /\ work' = [work EXCEPT !.page = @ + 1]
    /\ UNCHANGED <<pages, owned>>

Ready == /\ Doing("listing") /\ work.page = PageCount
         /\ work' = Idle
         /\ UNCHANGED <<pages, free_list, free_count, owned>>
-------------------------------------------------------------------------------
(* buddy_alloc_pages *)

\* allocate_order: the first block of the smallest order that has one.
Allocate(count) ==
    /\ Doing("idle")
    /\ \E k \in OrderFor(count) .. MaxOrder :
          /\ free_list[k] # <<>>
          /\ \A j \in OrderFor(count) .. k - 1 : free_list[j] = <<>>
          /\ RemoveFreeBlock(Head(free_list[k]), k)
          /\ work' = [op |-> "splitting", page |-> Head(free_list[k]), order |-> k,
                      left |-> count, base |-> Head(free_list[k]), count |-> count]
    /\ UNCHANGED <<pages, owned>>

\* split_free_block: the upper half becomes a free block.
Split ==
    /\ Doing("splitting") /\ work.order > OrderFor(work.count)
    /\ LET k == work.order - 1
           upper == work.page + Size[k]
       IN  /\ pages' = [pages EXCEPT ![work.page] = Block("free", k),
                                     ![upper] = Block("free", k)]
           /\ AddFreeBlock(upper, k)
           /\ work' = [work EXCEPT !.order = k]
    /\ UNCHANGED owned

\* The end of allocate_order.
Take ==
    /\ Doing("splitting") /\ work.order = OrderFor(work.count)
    /\ pages' = [pages EXCEPT ![work.page] = Block("allocated", work.order)]
    /\ work' = [work EXCEPT !.op = "trimming"]
    /\ UNCHANGED <<free_list, free_count, owned>>

\* trim_allocated_block: the upper half is released, or the lower half is a whole piece.
Trim ==
    /\ Doing("trimming") /\ Size[work.order] > work.left
    /\ LET k == work.order - 1
           upper == work.page + Size[k]
       IN  IF work.left <= Size[k]
           THEN /\ pages' = [pages EXCEPT ![work.page] = Block("allocated", k),
                                          ![upper] = Block("free", k)]
                /\ AddFreeBlock(upper, k)
                /\ work' = [work EXCEPT !.order = k]
           ELSE /\ pages' = [pages EXCEPT ![work.page] = Block("allocated", k),
                                          ![upper] = Block("allocated", k)]
                /\ work' = [work EXCEPT !.order = k, !.left = @ - Size[k], !.page = upper]
                /\ UNCHANGED <<free_list, free_count>>
    /\ UNCHANGED owned

\* The pages are the caller's.
Allocated ==
    /\ Doing("trimming") /\ Size[work.order] <= work.left
    /\ owned' = owned \cup {<<work.base, work.count>>}
    /\ work' = Idle
    /\ UNCHANGED <<pages, free_list, free_count>>
-------------------------------------------------------------------------------
(* buddy_free_pages *)

(***************************************************************************)
(* allocator.c frees exactly what it allocated.  buddy_free_pages also     *)
(* checks for requests of which a page is not allocated: a second free, a  *)
(* damaged header with a size too large.  It cannot tell a part of an      *)
(* allocation, or two at once, from a whole one; nobody asks for these.    *)
(***************************************************************************)
InUse == UNION {Span(a[1], a[2]) : a \in owned}
Requests == owned \cup {r \in Pages \X (1 .. Size[MaxOrder]) : ~(Span(r[1], r[2]) \subseteq InUse)}

\* Up to the range checks.
Free ==
    /\ Doing("idle")
    /\ \E r \in Requests :
          /\ r[2] <= PageCount - r[1]
          /\ work' = [op |-> "checking", page |-> r[1], order |-> 0, left |-> r[2],
                      base |-> r[1], count |-> r[2]]
    /\ UNCHANGED <<pages, free_list, free_count, owned>>

\* Mutation: only the first piece is validated.
ValidFirst == work.page # work.base \/ pages[work.page].state = "allocated"

\* The piece is an allocated block that the rest of the request covers.
Valid == /\ pages[work.page].state = "allocated"
         /\ Size[OrderOf(work.page)] <= work.left

Check ==
    /\ Doing("checking") /\ work.left > 0
    /\ work' = IF Valid
               THEN [work EXCEPT !.page = @ + Size[OrderOf(work.page)],
                                 !.left = @ - Size[OrderOf(work.page)]]
               ELSE Idle
    /\ UNCHANGED <<pages, free_list, free_count, owned>>

\* The whole chain is valid: the caller gives up the pages.
Checked ==
    /\ Doing("checking") /\ work.left = 0
    /\ owned' = owned \ {<<work.base, work.count>>}
    /\ work' = [work EXCEPT !.op = "freeing", !.page = work.base, !.left = work.count]
    /\ UNCHANGED <<pages, free_list, free_count>>

\* The next piece; free_order_block starts.  base becomes the index of the piece after it.
FreePiece ==
    /\ Doing("freeing") /\ work.left > 0
    /\ pages' = [pages EXCEPT ![work.page].state = "free"]
    /\ work' = [work EXCEPT !.op = "merging", !.order = OrderOf(work.page),
                            !.base = work.page + Size[OrderOf(work.page)],
                            !.left = @ - Size[OrderOf(work.page)]]
    /\ UNCHANGED <<free_list, free_count, owned>>

\* Mutation: only a buddy above the block is looked at.
MergeableUpper == LET b == BuddyOf(work.page, work.order)
                  IN  /\ work.order < MaxOrder
                      /\ work.page < b /\ b < PageCount
                      /\ pages[b] = Block("free", work.order)

\* The condition of free_order_block's loop.
Mergeable == LET b == BuddyOf(work.page, work.order)
             IN  /\ work.order < MaxOrder
                 /\ b < PageCount
                 /\ pages[b] = Block("free", work.order)

\* Mutation: the buddy stays on its list.
MergeKeepsListed ==
    /\ Doing("merging") /\ Mergeable
    /\ LET b == BuddyOf(work.page, work.order)
           lower == IF work.page < b THEN work.page ELSE b
           upper == IF work.page < b THEN b ELSE work.page
       IN  /\ pages' = [pages EXCEPT ![upper].state = "tail",
                                     ![lower] = Block("free", work.order + 1)]
           /\ work' = [work EXCEPT !.page = lower, !.order = @ + 1]
    /\ UNCHANGED <<free_list, free_count, owned>>

Merge ==
    /\ Doing("merging") /\ Mergeable
    /\ LET b == BuddyOf(work.page, work.order)
           lower == IF work.page < b THEN work.page ELSE b
           upper == IF work.page < b THEN b ELSE work.page
       IN  /\ RemoveFreeBlock(b, work.order)
           /\ pages' = [pages EXCEPT ![upper].state = "tail",
                                     ![lower] = Block("free", work.order + 1)]
           /\ work' = [work EXCEPT !.page = lower, !.order = @ + 1]
    /\ UNCHANGED owned

\* The block is listed; on to the next piece.
Merged ==
    /\ Doing("merging") /\ ~Mergeable
    /\ AddFreeBlock(work.page, work.order)
    /\ work' = [work EXCEPT !.op = "freeing", !.page = work.base, !.order = 0]
    /\ UNCHANGED <<pages, owned>>

Freed == /\ Doing("freeing") /\ work.left = 0
         /\ work' = Idle
         /\ UNCHANGED <<pages, free_list, free_count, owned>>
-------------------------------------------------------------------------------
\* The state that buddy_init leaves.
Init == /\ pages = [p \in Pages |-> Block("free", 0)]
        /\ free_list = [k \in Orders |-> <<>>]
        /\ free_count = [k \in Orders |-> 0]
        /\ work = [Idle EXCEPT !.op = "reserving"]
        /\ owned = {}

Next == \/ Reserve \/ Build \/ Join \/ Joined \/ ListBlock \/ Ready
        \/ \E count \in 1 .. Size[MaxOrder] : Allocate(count)
        \/ Split \/ Take \/ Trim \/ Allocated
        \/ Free \/ Check \/ Checked \/ FreePiece \/ Merge \/ Merged \/ Freed

Spec == Init /\ [][Next]_vars
-------------------------------------------------------------------------------
(* Properties *)

\* The variables keep their types.
TypeOK == /\ pages \in [Pages -> [state : States, order : Orders]]
          /\ free_list \in [Orders -> Seq(Pages)]
          /\ free_count \in [Orders -> Nat]
          /\ work \in Work
          /\ owned \subseteq Pages \X (1 .. PageCount)

\* The blocks, and the pages of one.
IsBlock(p) == pages[p].state \in {"free", "allocated"}
Extent(p) == Span(p, Size[OrderOf(p)])

\* The variables keep their types, and at every step of every loop the blocks lie inside the
\* managed range, are aligned to their size and disjoint, and the pages that are neither
\* reserved nor the first of a block are inside one.
BlocksTile ==
    /\ TypeOK
    /\ \A p \in Pages : IsBlock(p) => /\ Extent(p) \subseteq Pages
                                      /\ p % Size[OrderOf(p)] = 0
                                      /\ \A q \in Extent(p) \ {p} : pages[q].state = "tail"
    /\ \A q \in Pages : pages[q].state = "tail" => \E p \in Pages : IsBlock(p) /\ q \in Extent(p)

\* The free block that the running operation has taken from its list or not yet listed.
InHand == IF work.op \in {"splitting", "merging"} THEN {work.page} ELSE {}

\* The free lists hold each free block once, under its order, and the counts shown to the
\* user are their lengths.  No list node lies in pages that belong to a caller.
ListsExact ==
    work.op \notin {"reserving", "joining", "listing"} =>
        \A k \in Orders :
            /\ {free_list[k][i] : i \in DOMAIN free_list[k]}
                 = {p \in Pages : pages[p] = Block("free", k)} \ InHand
            /\ free_count[k] = Len(free_list[k])
            /\ free_count[k] = Cardinality({free_list[k][i] : i \in DOMAIN free_list[k]})

FreePages == UNION {Extent(p) : p \in {q \in Pages : pages[q].state = "free"}}

\* Between operations memory is not fragmented more than its use requires: every aligned
\* stretch of free pages lies in one free block.  So a request fails only if there is no
\* such stretch, and freeing everything restores the blocks of buddy_build.
MaximallyMerged ==
    Doing("idle") =>
        \A k \in Orders : \A p \in {q \in Pages : q % Size[k] = 0} :
            Span(p, Size[k]) \subseteq FreePages =>
                \E q \in Pages : pages[q].state = "free" /\ Span(p, Size[k]) \subseteq Extent(q)

\* Between operations the callers own exactly the allocated pages, and no page twice: an
\* invalid free leaves everything as it was, and a trimmed allocation has its exact size.
OwnersExact ==
    Doing("idle") =>
        /\ InUse = UNION {Extent(p) : p \in {q \in Pages : pages[q].state = "allocated"}}
        /\ \A a, b \in owned : a # b => Span(a[1], a[2]) \cap Span(b[1], b[2]) = {}
===============================================================================
