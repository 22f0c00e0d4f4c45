-------------------------------- MODULE MCBoot --------------------------------
(***************************************************************************)
(* Twelve pages of 16 units, laid out as the linker script and config.h    *)
(* lay out the first megabytes: spin table, the user area of svc, stack,   *)
(* image and startup heap, the default initramfs, the tree.                *)
(***************************************************************************)
EXTENDS Boot, SequencesExt

MCFallbackMemory == <<0, 192>>
MCDefaultInitramfs == <<128, 150>>
MCSpinTable == <<0, 16>>
MCUserArea == <<32, 36>>
MCKernelStack == <<48, 64>>
MCKernelImage == <<64, 90>>
MCStartupHeap == <<90, 120>>

Strings == <<"#address-cells", "#size-cells", "reg", "linux,initrd-start", "linux,initrd-end", "">>
StringOffset(name) == (CHOOSE i \in 1 .. Len(Strings) : Strings[i] = name) - 1
Prop(name, propertyCells) == Property(StringOffset(name), propertyCells)

\* Cell counts the root states, or states wrongly.
CellTokens == {<<>>,
               <<Prop("#address-cells", <<1>>), Prop("#size-cells", <<1>>)>>,
               <<Prop("#address-cells", <<2>>), Prop("#size-cells", <<2>>)>>,
               <<Prop("#address-cells", <<1, 1>>)>>,
               <<Prop("#size-cells", <<0>>)>>}

\* A memory node, one in another node, and reg values: one cell each, two each, short, empty;
\* and reg in a node of a memory node or after one.
Memory(name, reg) == <<Begin(name), Prop("reg", reg), End>>
MemoryTokens == {<<>>,
                 Memory("memory", <<0, 0, 192>>),
                 Memory("memory@0", <<0, 176>>),
                 Memory("memory", <<0, 0, 0, 170>>),
                 <<Begin("soc")>> \o Memory("memory", <<0, 0, 64>>) \o <<End>>
                    \o Memory("memory", <<16, 0, 0, 0>>),
                 <<Begin("memory"), Begin("bank"), Prop("reg", <<0, 0, 32>>), End, End>>,
                 <<Begin("memory"), End, Begin("uart"), Prop("reg", <<0, 0, 96>>), End>>}

\* A chosen node, one in another node before it, and initrd ranges: good, reversed, half, outside.
Chosen(from, to) == <<Begin("chosen"), Prop("linux,initrd-start", <<from>>),
                      Prop("linux,initrd-end", <<to>>), End>>
ChosenTokens == {<<>>,
                 Chosen(20, 45),
                 <<Begin("soc")>> \o Chosen(130, 140) \o <<End>> \o Chosen(122, 150),
                 <<Begin("chosen")>> \o Chosen(16, 20) \o <<End>>,
                 Chosen(150, 130),
                 Chosen(184, 200),
                 <<Begin("chosen"), Prop("linux,initrd-start", <<20>>), End>>}

\* How the block ends: well, cut off, with a node closed twice, with a word that is no token, or
\* with a property whose name the strings cut off.
Endings == {<<End, Finish>>, <<End>>, <<End, End, Finish>>, <<Nop, Bad, End, Finish>>,
            <<Prop("", <<1>>), End, Finish>>}

Tree(tokens) == [magic |-> TRUE, total_size |-> 30, struct_offset |-> 2, struct_size |-> Len(tokens),
                 strings_offset |-> 2, strings_size |-> Len(Strings), tokens |-> tokens,
                 strings |-> Strings]

Deep == <<Begin(""), Begin("a"), Begin("b"), Begin("c"), End, End, End, End, Finish>>
Plain == Memory("memory", <<0, 0, 192>>) \o Chosen(20, 45)

MCBlobs ==
    {Tree(<<Begin("")>> \o c \o m \o h \o <<End, Finish>>) :
        c \in CellTokens, m \in MemoryTokens, h \in ChosenTokens}
    \cup {Tree(<<Begin("")>> \o t \o e) : t \in ChosenTokens \cup MemoryTokens \cup {Plain}, e \in Endings}
    \cup {Tree(<<Begin("x")>> \o Plain \o <<End, Finish>>), Tree(Deep), [Tree(Deep) EXCEPT !.magic = FALSE], [Tree(Deep) EXCEPT !.total_size = 1],
          [Tree(Deep) EXCEPT !.total_size = 10], [Tree(<<Finish>>) EXCEPT !.total_size = 60]}
===============================================================================
