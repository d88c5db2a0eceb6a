--------------------------- MODULE MCPayloadLoader ---------------------------
(***************************************************************************)
(* Small instances of PayloadLoader: pages of 4 bytes, 40 addresses.       *)
(***************************************************************************)
EXTENDS PayloadLoaderInv

Load(off, vaddr, filesz, memsz) ==
    [load |-> TRUE, aligned |-> TRUE, off |-> off,
     vaddr |-> vaddr, filesz |-> filesz, memsz |-> memsz]
Note(off) ==
    [load |-> FALSE, aligned |-> FALSE, off |-> off,
     vaddr |-> 0, filesz |-> 3, memsz |-> 3]
Misaligned(s) == [s EXCEPT !.aligned = FALSE]
File(kind, coffset, fileLen, secs) ==
    [kind |-> kind, headersOk |-> TRUE, coffset |-> coffset,
     fileLen |-> fileLen, secs |-> secs]
Broken(p) == [p EXCEPT !.headersOk = FALSE]

\* Text and data in one or several chunks, odd sizes, a bss of either parity.
CoffLayouts ==
    {<<Load(2, 2, t, t), Load(2 + t, d0, d, d), Load(0, d0 + d, 0, b)>> :
        t \in {0, 3, 6}, d0 \in {8, 9}, d \in {0, 5}, b \in {0, 3, 4}}
CoffFiles == {File("coff", 3, len, s) : len \in {40, 15, 12, 5}, s \in CoffLayouts}

\* Segments with and without a cleared tail, notes between them.
ElfLayouts ==
    {<<Note(1), Load(4, v, 4, 4), Load(9, v + 6, f, m), Note(0)>> :
        v \in {4, 8}, f \in {3, 4, 9}, m \in {9, 10}}
    \cup {<<Load(4, 4, 4, 4), Misaligned(Load(9, 8, 2, 2))>>,
          <<Load(3, 20, 5, 6)>>,
          <<Load(0, 6, 3, 4)>>,
          <<Load(0, 6, 7, 8)>>,
          <<Load(0, 6, 3, 3)>>,
          <<Note(2)>>,
          <<Load(2, 0, 3, 4), Load(6, 8, 4, 4)>>,
          << >>}
ElfFiles == {File("elf", c, len, s) : c \in {0, 3}, len \in {40, 14, 9}, s \in ElfLayouts}

MCPayloads ==
    CoffFiles \cup ElfFiles \cup {Broken(p) : p \in {File("elf", 0, 9, << >>),
        File("coff", 3, 40, <<Load(2, 2, 3, 3), Load(2, 8, 0, 0), Load(0, 8, 0, 3)>>)}}

\* Enough for the runs that look at one failing read.
MCFewPayloads ==
    {File("elf", 3, 40, <<Load(4, 4, 4, 4), Load(9, 10, 9, 10)>>),
     File("elf", 3, 23, <<Load(4, 4, 4, 4), Load(9, 10, 9, 10)>>)}

\* The first block lies below most images, so that the base wraps; the last
\* ends where the address space does.
MCBlocks == {2, 12, 24}
=============================================================================
