---------------------------------- MODULE Fdt ----------------------------------
(***************************************************************************)
(* fdt.c of Lab5/c: what one turn of the loop of fdt_traverse does to the  *)
(* traversal and to the lookup that listens to it.  The structure block is *)
(* a sequence of tokens, each one unit long with its payload; a name is a  *)
(* value, a path the sequence of its components, a property value the      *)
(* sequence of its cells.                                                  *)
(***************************************************************************)
EXTENDS Integers, Sequences

CONSTANTS MaxDepth,    \* CONFIG_FDT_MAX_DEPTH
          CellBase,    \* 2^32
          HeaderSize   \* FDT_HEADER_SIZE

ASSUME DepthAssumption == MaxDepth \in Nat \ {0}
ASSUME CellAssumption == CellBase \in Nat \ {0} /\ HeaderSize \in Nat

RootName == ""
MemoryNames == {"memory", "memory@0"}

\* FDT_BEGIN_NODE, FDT_END_NODE, FDT_PROP, FDT_NOP, FDT_END, and a word that is none of them
\* or whose payload the block cuts off.
Begin(name) == [token |-> "BEGIN", name |-> name]
End == [token |-> "END_NODE"]
Property(name_offset, cells) == [token |-> "PROP", name_offset |-> name_offset, cells |-> cells]
Nop == [token |-> "NOP"]
Finish == [token |-> "END"]
Bad == [token |-> "BAD"]

MaxAddress == CellBase * CellBase - 1

(***************************************************************************)
(* A blob: whether its magic is right, the offsets and sizes its header    *)
(* states, its tokens from the structure offset on, and its strings by     *)
(* offset ("" where the block ends before the string does).                *)
(***************************************************************************)
\* fdt_init: the blocks lie inside the blob.
FdtInit(blob) ==
    /\ blob.magic
    /\ blob.total_size >= HeaderSize
    /\ blob.struct_offset <= blob.total_size /\ blob.strings_offset <= blob.total_size
    /\ blob.struct_size <= blob.total_size - blob.struct_offset
    /\ blob.strings_size <= blob.total_size - blob.strings_offset

\* fdt_string_at, "" for its NULL.
StringAt(blob, offset) == IF offset >= blob.strings_size THEN "" ELSE blob.strings[offset + 1]

\* fdt_path_component_matches and fdt_path_ends_at_depth.
ComponentMatches(path, depth, name) ==
    IF depth = 0 THEN name = RootName ELSE depth <= Len(path) /\ path[depth] = name
EndsAtDepth(path, depth) == Len(path) = depth

(***************************************************************************)
(* A lookup is fdt_get_property's for a path and a name, or for kind       *)
(* "memory" the one of fdt_get_memory_range.  A traversal in progress: the *)
(* token it is at, the open nodes, the callback's flags, and how it ended. *)
(***************************************************************************)
Lookup(path, name) == [kind |-> "property", path |-> path, name |-> name]
MemoryLookup(address_cells, size_cells) ==
    [kind |-> "memory", address_cells |-> address_cells, size_cells |-> size_cells]

Start(lookup) == [lookup |-> lookup, at |-> 1, node_stack |-> <<>>, memory_depth |-> -1,
                  path_matches |-> [depth \in 0 .. MaxDepth - 1 |-> FALSE],
                  status |-> "walking", value |-> <<>>]

Stopped(walk, status) == [walk EXCEPT !.status = status]
Depth(walk) == Len(walk.node_stack) - 1

\* A node is opened: it matches if its parent does and it is the path's next component.
BeginNode(walk, name) ==
    LET depth == Len(walk.node_stack)
    IN IF depth >= MaxDepth THEN Stopped(walk, "INVALID_STRUCTURE")
       ELSE [walk EXCEPT !.at = @ + 1, !.node_stack = Append(@, name),
                !.memory_depth = IF depth = 1 /\ name \in MemoryNames THEN depth ELSE @,
                !.path_matches[depth] = /\ walk.lookup.kind = "property"
                                        /\ depth > 0 => walk.path_matches[depth - 1]
                                        /\ ComponentMatches(walk.lookup.path, depth, name)]

\* Mutation: a memory node that is closed is still the one to read.
EndNodeKeepsMemory(walk) ==
    LET depth == Depth(walk)
    IN IF depth < 0 THEN Stopped(walk, "INVALID_STRUCTURE")
       ELSE [walk EXCEPT !.at = @ + 1, !.node_stack = SubSeq(@, 1, depth),
                !.path_matches[depth] = FALSE]

EndNode(walk) ==
    LET depth == Depth(walk)
    IN IF depth < 0 THEN Stopped(walk, "INVALID_STRUCTURE")
       ELSE [walk EXCEPT !.at = @ + 1, !.node_stack = SubSeq(@, 1, depth),
                !.memory_depth = IF @ = depth THEN -1 ELSE @,
                !.path_matches[depth] = FALSE]

\* fdt_read_cells
Cells(cells) == IF Len(cells) = 1 THEN cells[1] ELSE cells[1] * CellBase + cells[2]

\* The reg property of a memory node: its first tuple, which must not be empty or wrap.
Decode(walk, cells) ==
    LET address_cells == walk.lookup.address_cells
        tuple == address_cells + walk.lookup.size_cells
        address == Cells(SubSeq(cells, 1, address_cells))
        region == Cells(SubSeq(cells, address_cells + 1, tuple))
    IN IF Len(cells) < tuple THEN Stopped(walk, "INVALID_STRUCTURE")
       ELSE IF region = 0 \/ region > MaxAddress - address THEN Stopped(walk, "INVALID_STRUCTURE")
       ELSE [walk EXCEPT !.status = "FOUND", !.value = <<address, address + region>>]

\* Whether the callback takes the property.
Takes(walk, name) ==
    LET depth == Depth(walk)
    IN IF walk.lookup.kind = "memory" THEN depth = walk.memory_depth /\ name = "reg"
       ELSE walk.path_matches[depth] /\ EndsAtDepth(walk.lookup.path, depth) /\ name = walk.lookup.name

\* fdt_parse_property and the callbacks.
ParseProperty(blob, walk, token) ==
    LET name == StringAt(blob, token.name_offset)
    IN IF Depth(walk) < 0 THEN Stopped(walk, "INVALID_STRUCTURE")
       ELSE IF name = "" THEN Stopped(walk, "OUT_OF_RANGE")
       ELSE IF ~Takes(walk, name) THEN [walk EXCEPT !.at = @ + 1]
       ELSE IF walk.lookup.kind = "memory" THEN Decode(walk, token.cells)
       ELSE [walk EXCEPT !.status = "FOUND", !.value = token.cells]

\* fdt_traverse, one turn.  FOUND is the callbacks' FDT_TRAVERSE_STOP.
Traverse(blob, walk) ==
    IF walk.at > blob.struct_size THEN Stopped(walk, "INVALID_STRUCTURE")
    ELSE LET token == blob.tokens[walk.at]
         IN IF token.token = "BEGIN" THEN BeginNode(walk, token.name)
            ELSE IF token.token = "END_NODE" THEN EndNode(walk)
            ELSE IF token.token = "PROP" THEN ParseProperty(blob, walk, token)
            ELSE IF token.token = "NOP" THEN [walk EXCEPT !.at = @ + 1]
            ELSE IF token.token = "END" THEN Stopped(walk, "NOT_FOUND")
            ELSE Stopped(walk, "INVALID_STRUCTURE")
-------------------------------------------------------------------------------
(* What a lookup should find, said of the tree instead of the walk. *)

\* The names from the root to the node that holds token i.
Open(blob) ==
    LET open[i \in 1 .. blob.struct_size + 1] ==
            IF i = 1 THEN <<>>
            ELSE LET token == blob.tokens[i - 1]
                 IN IF token.token = "BEGIN" THEN Append(open[i - 1], token.name)
                    ELSE IF token.token = "END_NODE" /\ open[i - 1] # <<>>
                           THEN SubSeq(open[i - 1], 1, Len(open[i - 1]) - 1)
                    ELSE open[i - 1]
    IN open

\* The first token at which the tree is not one, or the end of the block.
FirstBad(blob) ==
    LET open == Open(blob)
        bad(i) == LET token == blob.tokens[i].token
                  IN \/ token = "BAD"
                     \/ token = "BEGIN" /\ Len(open[i]) >= MaxDepth
                     \/ token \in {"END_NODE", "PROP"} /\ open[i] = <<>>
                     \/ token = "PROP" /\ StringAt(blob, blob.tokens[i].name_offset) = ""
    IN CHOOSE i \in 1 .. blob.struct_size + 1 :
        /\ i <= blob.struct_size => bad(i)
        /\ \A j \in 1 .. i - 1 : ~bad(j)

\* The properties of that name in a node of that path.
Hits(blob, lookup) ==
    LET open == Open(blob)
    IN {i \in 1 .. blob.struct_size :
        /\ blob.tokens[i].token = "PROP"
        /\ IF lookup.kind = "memory"
             THEN /\ Len(open[i]) = 2 /\ open[i][2] \in MemoryNames
                  /\ StringAt(blob, blob.tokens[i].name_offset) = "reg"
             ELSE /\ open[i] = <<RootName>> \o lookup.path
                  /\ StringAt(blob, blob.tokens[i].name_offset) = lookup.name}

Ends(blob) == {i \in 1 .. blob.struct_size : blob.tokens[i].token = "END"}

\* Where the lookup stops in the whole tree: its first hit, the end or the first bad token.
Stop(blob, lookup) ==
    LET candidates == Hits(blob, lookup) \cup Ends(blob) \cup {FirstBad(blob)}
    IN CHOOSE i \in candidates : \A j \in candidates : i <= j
===============================================================================
