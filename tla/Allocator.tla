------------------------------- MODULE Allocator -------------------------------
(***************************************************************************)
(* allocator.c of Lab5/c: the startup heap, and the size classes and large *)
(* blocks the kernel heap makes of buddy pages.  Memory is counted in      *)
(* units of KERNEL_ALLOC_ALIGNMENT.  The startup heap lies below the pages *)
(* of the buddy system, of which Buddy checks what is assumed here: an     *)
(* allocation is a run of pages nobody else has, and giving back exactly   *)
(* such a run succeeds.                                                    *)
(*                                                                         *)
(* Every operation runs with interrupts masked and is one step.            *)
(***************************************************************************)
EXTENDS Integers, Sequences, FiniteSets

CONSTANTS PageShift,    \* CONFIG_BUDDY_PAGE_SHIFT - 3, at least 256 bytes
          PoolHeader,   \* sizeof(dynamic_pool_page_t)
          LargeHeader,  \* sizeof(dynamic_large_block_t)
          HeapPages,    \* the size of the startup heap, in pages
          PageCount,    \* the pages of the buddy system
          Sizes         \* the sizes clients ask for

ASSUME PageAssumption == PageShift \in Nat /\ PageShift >= 5
PageUnits == 2 ^ PageShift
\* What the proofs need to know of the powers of two below a page.
ASSUME PowerAssumption == /\ PageUnits \in Nat
                          /\ \A k \in 0 .. PageShift - 2 : 2 ^ k \in Nat \ {0} /\ 4 * 2 ^ k <= PageUnits
ASSUME HeaderAssumption == {PoolHeader, LargeHeader} \subseteq 1 .. PageUnits \div 4
ASSUME MemoryAssumption == HeapPages \in Nat /\ PageCount \in Nat \ {0}
ASSUME SizesAssumption == Sizes \subseteq Nat \ {0}

NULL == -1
Pages == HeapPages .. HeapPages + PageCount - 1
heap_begin == 0
heap_end == HeapPages * PageUnits
Addresses == 0 .. (HeapPages + PageCount) * PageUnits - 1
PageOf(address) == address \div PageUnits
AddressOf(page) == page * PageUnits
Span(address, size) == address .. address + size - 1

\* The chunk sizes dynamic_allocator_init lists: 1, 2, then 4 and 6, 8 and 12, ... up to a
\* quarter of a page and half as much again.
SizeClasses == {1, 2} \cup {2 ^ k : k \in 2 .. PageShift - 2}
                      \cup {2 ^ k + 2 ^ (k - 1) : k \in 2 .. PageShift - 2}

VARIABLES
    heap_current,
    ready,                  \* dynamic_allocator.ready
    pool_pages,             \* the pages that carry a dynamic_pool_page_t header
    large_blocks,           \* the blocks with a dynamic_large_block_t header, by first page
    available_pages,        \* by chunk size
    blocks                  \* history: what clients hold, the size asked for by address

heap == <<heap_current, ready, pool_pages, large_blocks, available_pages, blocks>>

NoPools == [size \in SizeClasses |-> <<>>]
\* list_remove on a list that holds page once: the others keep their order.
Without(queue, page) == LET p == CHOOSE i \in DOMAIN queue : queue[i] = page
                        IN  [i \in 1 .. Len(queue) - 1 |-> IF i < p THEN queue[i] ELSE queue[i + 1]]

\* The pages the buddy system has handed out to the heap.
TakenPages == DOMAIN pool_pages
                \cup UNION {Span(page, large_blocks[page]) : page \in DOMAIN large_blocks}
FreeRuns(count) == {page \in Pages : /\ Span(page, count) \subseteq Pages
                                     /\ Span(page, count) \cap TakenPages = {}}

With(f, x, value) == [y \in DOMAIN f \cup {x} |-> IF y = x THEN value ELSE f[y]]
Minus(f, x) == [y \in DOMAIN f \ {x} |-> f[y]]
-------------------------------------------------------------------------------
(* Allocation.  Each operator also says which block it returns. *)

SimpleMalloc(size, address) ==
    /\ heap_current + size <= heap_end
    /\ address = heap_current
    /\ heap_current' = heap_current + size
    /\ UNCHANGED <<ready, pool_pages, large_blocks, available_pages>>

\* create_pool_page: its chunks are pushed in the order of their addresses.
PoolPage(page, size) ==
    LET count == (PageUnits - PoolHeader) \div size
    IN [chunk_size |-> size, chunk_count |-> count,
        first_free |-> [k \in 1 .. count |-> AddressOf(page) + PoolHeader + (count - k) * size]]

\* find_pool_index: the size class of a request, if it has one.
Fitting(size) == {class \in SizeClasses : class >= size}
PoolFor(size) == CHOOSE class \in Fitting(size) : \A other \in Fitting(size) : class <= other

\* Mutation: a page without free chunks stays listed.
ListedFull(queue, page, header) == queue

\* The page keeps its place in the list unless its last free chunk is taken.
ListedUnlessFull(queue, page, header) == IF header.first_free = <<>> THEN Without(queue, page) ELSE queue

AllocateSmall(class, address) ==
    /\ \E page \in IF available_pages[class] = <<>> THEN FreeRuns(1) ELSE {Head(available_pages[class])} :
        LET found == IF page \in DOMAIN pool_pages THEN pool_pages[page] ELSE PoolPage(page, class)
            header == [found EXCEPT !.first_free = Tail(found.first_free)]
            queue == IF page \in DOMAIN pool_pages THEN available_pages[class] ELSE <<page>>
        IN /\ address = Head(found.first_free)
           /\ pool_pages' = With(pool_pages, page, header)
           /\ available_pages' = [available_pages EXCEPT ![class] = ListedUnlessFull(queue, page, header)]
    /\ UNCHANGED <<heap_current, ready, large_blocks>>

\* Mutation: the header is not counted.
HeaderlessPages(size) == (size - 1) \div PageUnits + 1

LargePages(size) == (LargeHeader + size - 1) \div PageUnits + 1

AllocateLarge(size, address) ==
    /\ \E page \in FreeRuns(LargePages(size)) :
        /\ address = AddressOf(page) + LargeHeader
        /\ large_blocks' = With(large_blocks, page, LargePages(size))
    /\ UNCHANGED <<heap_current, ready, pool_pages, available_pages>>

\* kernel_malloc for a request that can be met.
Malloc(size, address) ==
    /\ IF ~ready THEN SimpleMalloc(size, address)
       ELSE IF Fitting(size) # {} THEN AllocateSmall(PoolFor(size), address)
       ELSE AllocateLarge(size, address)
    /\ blocks' = With(blocks, address, size)

\* It returns NULL if the startup heap is full, or the buddy system has no block for it;
\* that can happen even if enough pages are free, as they need not make a block.
MallocFails(size) ==
    /\ IF ready THEN Fitting(size) # {} => available_pages[PoolFor(size)] = <<>>
       ELSE heap_current + size > heap_end
    /\ UNCHANGED heap
-------------------------------------------------------------------------------
(* Release *)

\* Mutation: a page that was full is not listed again.
ForgetRelisted(page, header) ==
    [available_pages EXCEPT ![header.chunk_size] =
        IF Len(header.first_free) = header.chunk_count THEN Without(@, page) ELSE @]

\* free_small: a page that was full is listed again, at the end, and an empty one is not.
Relisted(page, header) ==
    [available_pages EXCEPT ![header.chunk_size] =
        LET queue == IF Len(header.first_free) = 1 THEN Append(@, page) ELSE @
        IN IF Len(header.first_free) = header.chunk_count THEN Without(queue, page) ELSE queue]

\* The checks of free_small: a chunk of the page, and not all of them free.
IsChunk(page, address) ==
    LET header == pool_pages[page]
        offset == address - AddressOf(page) - PoolHeader
    IN /\ offset >= 0 /\ offset < header.chunk_count * header.chunk_size
       /\ offset % header.chunk_size = 0
       /\ Len(header.first_free) < header.chunk_count

FreeSmall(page, address) ==
    /\ IsChunk(page, address)
    /\ LET header == [pool_pages[page] EXCEPT !.first_free = <<address>> \o @]
       IN /\ pool_pages' = IF Len(header.first_free) = header.chunk_count
                             THEN Minus(pool_pages, page) ELSE With(pool_pages, page, header)
          /\ available_pages' = Relisted(page, header)
    /\ UNCHANGED <<heap_current, ready, large_blocks>>

FreeLarge(page, address) ==
    /\ address = AddressOf(page) + LargeHeader
    /\ large_blocks' = Minus(large_blocks, page)
    /\ UNCHANGED <<heap_current, ready, pool_pages, available_pages>>

\* kernel_free: blocks of the startup heap are permanent, and before the kernel heap is
\* ready every block is.  Otherwise the header of the block's page tells its kind.
Free(address) ==
    /\ IF address < heap_end \/ ~ready
         THEN UNCHANGED <<heap_current, ready, pool_pages, large_blocks, available_pages>>
       ELSE IF PageOf(address) \in DOMAIN pool_pages THEN FreeSmall(PageOf(address), address)
       ELSE FreeLarge(PageOf(address), address)
    /\ blocks' = Minus(blocks, address)
-------------------------------------------------------------------------------
\* kernel_allocator_init, once the buddy system is ready.
KernelAllocatorInit == /\ ~ready
                       /\ ready' = TRUE
                       /\ UNCHANGED <<heap_current, pool_pages, large_blocks, available_pages, blocks>>

\* Clients free what they hold, each block once.
ClientMalloc == \E size \in Sizes, address \in Addresses : Malloc(size, address)
ClientFree == \E address \in DOMAIN blocks : Free(address)

HeapInit == /\ heap_current = heap_begin
            /\ ready = FALSE
            /\ pool_pages = << >> /\ large_blocks = << >>
            /\ available_pages = NoPools
            /\ blocks = << >>
-------------------------------------------------------------------------------
(* Properties *)

\* What clients hold is disjoint, clear of the headers the heap keeps in its pages, and in
\* memory the heap has: of the startup heap what has been given out, of the buddy system
\* pages it has taken and not given back.
BlocksDisjoint ==
    LET units(address) == Span(address, blocks[address])
        headers == {AddressOf(page) + k : page \in DOMAIN pool_pages, k \in 0 .. PoolHeader - 1}
                     \cup {AddressOf(page) + k : page \in DOMAIN large_blocks, k \in 0 .. LargeHeader - 1}
    IN /\ \A a, b \in DOMAIN blocks : a # b => units(a) \cap units(b) = {}
       /\ \A a \in DOMAIN blocks :
            /\ units(a) \cap headers = {}
            /\ \/ units(a) \subseteq heap_begin .. heap_current - 1
               \/ {PageOf(unit) : unit \in units(a)} \subseteq TakenPages

\* The chunks of a pool page are free or held by one client, never both or neither.  A page
\* is kept only while a chunk is held, and listed, once, exactly while one is free: what is
\* freed can be had again, in its size class or through the buddy system.
PoolsExact ==
    /\ \A page \in DOMAIN pool_pages :
        LET header == pool_pages[page]
            free == {header.first_free[k] : k \in DOMAIN header.first_free}
            held == {address \in DOMAIN blocks : PageOf(address) = page}
        IN /\ Cardinality(free) = Len(header.first_free)
           /\ free \cap held = {}
           /\ held # {}
           /\ Cardinality(free) + Cardinality(held) = header.chunk_count
           /\ (free # {}) <=> \E k \in DOMAIN available_pages[header.chunk_size] :
                                 available_pages[header.chunk_size][k] = page
    /\ \A class \in SizeClasses :
        LET queue == available_pages[class]
        IN /\ \A j, k \in DOMAIN queue : queue[j] = queue[k] => j = k
           /\ \A k \in DOMAIN queue : /\ queue[k] \in DOMAIN pool_pages
                                      /\ pool_pages[queue[k]].chunk_size = class
===============================================================================
