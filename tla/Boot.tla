--------------------------------- MODULE Boot ---------------------------------
(***************************************************************************)
(* main.c of Lab5/c up to the shell, and what the shell and the threads do *)
(* with the regions it sets up: the device tree says where memory and the  *)
(* initramfs are (fdt.c, initramfs.c), main reserves what early boot uses  *)
(* (buddy.c) and gives the rest to the page allocator, and the commands    *)
(* walk the archive and copy a program out of it.                          *)
(*                                                                         *)
(* An address is a number of units; the data behind it is not modelled.    *)
(* A header and a name of the archive are chosen when they are read.       *)
(***************************************************************************)
EXTENDS Fdt, FiniteSets

CONSTANTS
    Blobs,               \* the device trees firmware may pass
    BlobBase,            \* dtb_addr
    PageSize,            \* 2^CONFIG_BUDDY_PAGE_SHIFT
    PageMetadata,        \* sizeof(buddy_page_t)
    FallbackMemory,      \* CONFIG_BUDDY_FALLBACK_MEMORY_BASE, _END
    DefaultInitramfs,    \* CONFIG_INITRAMFS_BASE, _END
    SpinTable, KernelStack, KernelImage,
    StartupHeap,         \* what is left of it, simple_allocator_begin and _end
    UserArea,            \* CONFIG_EL0_USER_ENTRY, CONFIG_EL0_USER_STACK
    ArchiveHeader,       \* CPIO_NEWC_HEADER_SIZE
    ArchiveAlignment,    \* CPIO_NEWC_ALIGNMENT
    NameSizes, FileSizes,
    MaxUsed              \* pages in use at once, of the model

ASSUME PageAssumption == PageSize \in Nat \ {0} /\ ArchiveAlignment \in Nat \ {0}
ASSUME ArchiveAssumption == ArchiveHeader \in Nat \ {0} /\ NameSizes \cup FileSizes \subseteq Nat

\* Addresses and sizes are numbers, a tree is made of tokens and a property of cells.
ASSUME LayoutAssumption ==
    /\ {FallbackMemory, DefaultInitramfs, SpinTable, KernelStack, KernelImage, StartupHeap}
          \subseteq Nat \X Nat
    /\ BlobBase \in Nat
ASSUME TreeAssumption ==
    \A tree \in Blobs :
        /\ tree.total_size \in Nat /\ tree.struct_size \in Nat
        /\ \A i \in 1 .. tree.struct_size :
              /\ tree.tokens[i].token \in {"BEGIN", "END_NODE", "PROP", "NOP", "END", "BAD"}
              /\ tree.tokens[i].token = "PROP" => tree.tokens[i].cells \in Seq(Nat)

VARIABLES
    blob, pc, walk,                  \* the boot thread, and its traversal of the tree
    memory, initramfs,               \* the ranges found, [begin, end)
    cells,                           \* lookup.address_cells and size_cells
    initrd_begin,
    buddy_state, reserved, used,     \* the page allocator: page indices
    command, cursor, file            \* an archive being walked, and the spans it read

bootVars == <<blob, pc, walk, memory, initramfs, cells, initrd_begin>>
pageVars == <<buddy_state, reserved, used>>
archiveVars == <<command, cursor, file>>
vars == <<bootVars, pageVars, archiveVars>>

NoSpan == <<0, 0>>
Inside(span, range) == range[1] <= span[1] /\ span[2] <= range[2]
AlignUp(address, alignment) == ((address + alignment - 1) \div alignment) * alignment

\* Mutation: the last page is rounded down.
PagesRoundedIn(range) == range[1] \div PageSize .. (range[2] \div PageSize) - 1

\* The pages a range touches, rounded outward.
PagesOf(range) == range[1] \div PageSize .. (range[2] - 1) \div PageSize

Managed == PagesOf(memory)
Free == IF buddy_state = "READY" THEN Managed \ (reserved \cup used) ELSE {}
FdtRange == <<BlobBase, BlobBase + blob.total_size>>
FdtOk == FdtInit(blob)

Init ==
    /\ blob \in Blobs
    /\ pc = "fdt_init" /\ walk = Start(Lookup(<<>>, "#address-cells"))
    /\ memory = FallbackMemory /\ initramfs = DefaultInitramfs
    /\ cells = <<2, 1>> /\ initrd_begin = 0
    /\ buddy_state = "UNINITIALIZED" /\ reserved = {} /\ used = {}
    /\ command = "none" /\ cursor = 0 /\ file = NoSpan

(***************************************************************************)
(* main up to initramfs_set_range: the lookups, in their order.            *)
(***************************************************************************)
Seek(lookup, step) == pc' = step /\ walk' = Start(lookup)
SeekInitrd == Seek(Lookup(<<"chosen">>, "linux,initrd-start"), "initrd_start")

\* fdt_init; without a tree main keeps its fallbacks.
BootFdtInit ==
    /\ pc = "fdt_init"
    /\ IF FdtOk THEN Seek(Lookup(<<>>, "#address-cells"), "address_cells")
       ELSE pc' = "buddy_init" /\ UNCHANGED walk
    /\ UNCHANGED <<blob, memory, initramfs, cells, initrd_begin, pageVars, archiveVars>>

\* One turn of the traversal of the lookup in progress.
TraverseTree ==
    /\ pc \in {"address_cells", "size_cells", "memory", "initrd_start", "initrd_end"}
    /\ walk.status = "walking"
    /\ walk' = Traverse(blob, walk)
    /\ UNCHANGED <<blob, pc, memory, initramfs, cells, initrd_begin, pageVars, archiveVars>>

LookupReturns(step) == pc = step /\ walk.status # "walking"

\* fdt_get_memory_range: a cell count of one cell, or its default where there is none.  An
\* error leaves main its fallback.
GotCells(step, index, next) ==
    /\ LookupReturns(step)
    /\ \/ /\ walk.status = "FOUND" /\ Len(walk.value) = 1
          /\ cells' = [cells EXCEPT ![index] = walk.value[1]]
          /\ next
       \/ walk.status = "NOT_FOUND" /\ cells' = cells /\ next
       \/ /\ walk.status # "NOT_FOUND" /\ (walk.status = "FOUND" => Len(walk.value) # 1)
          /\ cells' = cells /\ SeekInitrd
    /\ UNCHANGED <<blob, memory, initramfs, initrd_begin, pageVars, archiveVars>>

GotAddressCells == GotCells("address_cells", 1, Seek(Lookup(<<>>, "#size-cells"), "size_cells"))
GotSizeCells ==
    GotCells("size_cells", 2,
             IF cells'[1] \in 1 .. 2 /\ cells'[2] \in 1 .. 2
               THEN Seek(MemoryLookup(cells'[1], cells'[2]), "memory")
               ELSE SeekInitrd)

GotMemory ==
    /\ LookupReturns("memory")
    /\ memory' = IF walk.status = "FOUND" THEN walk.value ELSE memory
    /\ SeekInitrd
    /\ UNCHANGED <<blob, initramfs, cells, initrd_begin, pageVars, archiveVars>>

\* initramfs_read_range_from_fdt: the first cell of each property.
HasAddress == walk.status = "FOUND" /\ Len(walk.value) > 0

GotInitrdStart ==
    /\ LookupReturns("initrd_start")
    /\ IF HasAddress
         THEN /\ initrd_begin' = walk.value[1]
              /\ Seek(Lookup(<<"chosen">>, "linux,initrd-end"), "initrd_end")
         ELSE pc' = "buddy_init" /\ UNCHANGED <<walk, initrd_begin>>
    /\ UNCHANGED <<blob, memory, initramfs, cells, pageVars, archiveVars>>

GotInitrdEnd ==
    /\ LookupReturns("initrd_end")
    /\ initramfs' = IF HasAddress /\ initrd_begin # 0 /\ initrd_begin < walk.value[1]
                      THEN <<initrd_begin, walk.value[1]>> ELSE initramfs
    /\ pc' = "buddy_init"
    /\ UNCHANGED <<blob, walk, memory, cells, initrd_begin, pageVars, archiveVars>>

(***************************************************************************)
(* buddy_initialize: a step that fails leaves the allocator as it is, and  *)
(* main goes on without it.                                                *)
(***************************************************************************)
\* Mutation: the tree is not reserved.
ReservationsWithoutFdt == <<SpinTable, KernelStack, KernelImage, StartupHeap, initramfs>>

\* The regions reserved, in order, and the label of the step that reserves each.
Reservations == <<SpinTable, KernelStack, KernelImage, StartupHeap, initramfs>>
                    \o (IF FdtOk THEN <<FdtRange>> ELSE <<>>)
Step == <<"spin_table", "kernel_stack", "kernel_image", "startup_heap", "initramfs", "fdt">>

InitFails ==
    \/ memory[2] <= memory[1]
    \/ memory[1] % PageSize # 0 \/ memory[2] % PageSize # 0
    \/ ((memory[2] - memory[1]) \div PageSize) * PageMetadata > StartupHeap[2] - StartupHeap[1]

BuddyInit ==
    /\ pc = "buddy_init"
    /\ IF InitFails THEN pc' = "shell" /\ UNCHANGED buddy_state
       ELSE pc' = Step[1] /\ buddy_state' = "RESERVING"
    /\ UNCHANGED <<blob, walk, memory, initramfs, cells, initrd_begin, reserved, used, archiveVars>>

\* buddy_reserve
BuddyReserve(i) ==
    LET range == Reservations[i]
    IN /\ pc = Step[i]
       /\ IF range[2] <= range[1] \/ ~Inside(range, memory)
            THEN pc' = "shell" /\ UNCHANGED reserved
            ELSE /\ reserved' = reserved \cup PagesOf(range)
                 /\ pc' = IF i = Len(Reservations) THEN "buddy_build" ELSE Step[i + 1]
       /\ UNCHANGED <<blob, walk, memory, initramfs, cells, initrd_begin, buddy_state, used,
                      archiveVars>>

BuddyBuild ==
    /\ pc = "buddy_build"
    /\ buddy_state' = "READY" /\ pc' = "shell"
    /\ UNCHANGED <<blob, walk, memory, initramfs, cells, initrd_begin, reserved, used, archiveVars>>

BootStep ==
    \/ BootFdtInit \/ TraverseTree
    \/ GotAddressCells \/ GotSizeCells \/ GotMemory \/ GotInitrdStart \/ GotInitrdEnd
    \/ BuddyInit \/ \E i \in 1 .. Len(Reservations) : BuddyReserve(i)
    \/ BuddyBuild

(***************************************************************************)
(* The threads and the shell: pages are taken and given back (Buddy, one   *)
(* page stands for a block), and initramfs_next walks the archive for ls,  *)
(* cat, the loader of a user process and svc.                              *)
(***************************************************************************)
Running == pc = "shell" /\ command # "el0"

AllocPage(page) ==
    /\ Running /\ page \in Free /\ Cardinality(used) < MaxUsed
    /\ used' = used \cup {page}
    /\ UNCHANGED <<bootVars, buddy_state, reserved, archiveVars>>

FreePage(page) ==
    /\ Running /\ page \in used
    /\ used' = used \ {page}
    /\ UNCHANGED <<bootVars, buddy_state, reserved, archiveVars>>

\* ls, cat, user_image_load and svc start at initramfs_begin.
Walkers == {"ls", "cat", "load", "svc"}

StartCommand(walker) ==
    /\ pc = "shell" /\ command = "none"
    /\ command' = walker /\ cursor' = initramfs[1] /\ file' = NoSpan
    /\ UNCHANGED <<bootVars, pageVars>>

\* The parts of an entry, each from where the one before it ends.
Header == <<cursor, cursor + ArchiveHeader>>
Name(name_size) == <<Header[2], Header[2] + name_size>>
Data(name_size, file_size) ==
    LET begin == AlignUp(Name(name_size)[2], ArchiveAlignment) IN <<begin, begin + file_size>>
NextEntry(name_size, file_size) == AlignUp(Data(name_size, file_size)[2], ArchiveAlignment)

\* Mutation: only where the data starts is checked.
DataFitsStart(name_size, file_size) ==
    Inside(<<Data(name_size, file_size)[1], Data(name_size, file_size)[1]>>, initramfs)

DataFits(name_size, file_size) ==
    /\ Inside(Data(name_size, file_size), initramfs)
    /\ NextEntry(name_size, file_size) <= initramfs[2]

\* initramfs_next returns anything but SUCCESS, having read so much of the entry.
WalkEnds(read) == command' = "none" /\ file' = read /\ UNCHANGED cursor

\* The header does not fit, or is not one.
BadHeader ==
    /\ command \in Walkers
    /\ WalkEnds(IF Inside(Header, initramfs) THEN Header ELSE NoSpan)
    /\ UNCHANGED <<bootVars, pageVars>>

\* The name does not fit, is not one or is the trailer's, or the data does not fit.
BadEntry(name_size, file_size) ==
    /\ command \in Walkers /\ Inside(Header, initramfs)
    /\ IF Inside(Name(name_size), initramfs) THEN WalkEnds(<<cursor, Name(name_size)[2]>>)
       ELSE WalkEnds(Header)
    /\ UNCHANGED <<bootVars, pageVars>>

\* A file.  ls goes on; the others stop at the one they look for.
Entry(name_size, file_size, matches) ==
    /\ command \in Walkers /\ Inside(Header, initramfs)
    /\ name_size > 0 /\ Inside(Name(name_size), initramfs) /\ DataFits(name_size, file_size)
    /\ cursor' = NextEntry(name_size, file_size)
    /\ file' = <<cursor, Data(name_size, file_size)[2]>>
    /\ command' = IF command = "ls" \/ ~matches THEN command
                  ELSE IF command = "svc" THEN "el0" ELSE "none"
    /\ UNCHANGED <<bootVars, pageVars>>

RunStep ==
    \/ \E page \in Managed : AllocPage(page) \/ FreePage(page)
    \/ \E walker \in Walkers : StartCommand(walker)
    \/ BadHeader
    \/ \E name_size \in NameSizes, file_size \in FileSizes :
          \/ BadEntry(name_size, file_size)
          \/ \E matches \in BOOLEAN : Entry(name_size, file_size, matches)

Next == BootStep \/ RunStep

Spec == Init /\ [][Next]_vars
-------------------------------------------------------------------------------
(* Every finished lookup found what the tree holds: the first property of that name in a node *)
(* of that path before the end and before anything malformed, and reg only of a memory node   *)
(* under the root (fdt_traverse and its callbacks).                                           *)
LookupExact ==
    walk.status # "walking" /\ pc # "shell" =>
        LET i == Stop(blob, walk.lookup)
        IN /\ walk.at = i
           /\ walk.status = "NOT_FOUND" <=> i \in Ends(blob)
           /\ walk.status = "FOUND" => i \in Hits(blob, walk.lookup)
           /\ i \in Hits(blob, walk.lookup) /\ walk.lookup.kind = "property" =>
                walk.status = "FOUND" /\ walk.value = blob.tokens[i].cells

\* No part of the page is in the range.
Apart(page, range) == (page + 1) * PageSize <= range[1] \/ range[2] <= page * PageSize

(* "Reserve memory used during early boot": once the allocator is ready, no page it has or    *)
(* gave out holds a byte of the spin table, the stack, the image, the startup heap, the       *)
(* initramfs the shell will walk or the tree it will read (buddy_initialize).                 *)
InUseNotFree ==
    \A page \in Free \cup used :
        /\ page * PageSize >= memory[1] /\ (page + 1) * PageSize <= memory[2]
        /\ \A range \in {SpinTable, KernelStack, KernelImage, StartupHeap, initramfs} :
              Apart(page, range)
        /\ FdtOk => Apart(page, FdtRange)

(* What a walk reads, and what a command then copies, is the archive's: inside its range and  *)
(* in no page the allocator gives out, whatever sizes the headers state (initramfs_next).     *)
ArchiveReadsOwned ==
    file # NoSpan => /\ Inside(file, initramfs)
                     /\ \A page \in Free \cup used : Apart(page, file)

(* "Reserved frames do not enter the free lists": the area svc copies its program to, and     *)
(* runs it in, belongs to nobody else (cmd_svc, CONFIG_EL0_USER_ENTRY).                        *)
SvcOwnsItsArea == command = "el0" => \A page \in used : Apart(page, UserArea)
===============================================================================
