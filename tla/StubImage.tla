------------------------------ MODULE StubImage ------------------------------
(***************************************************************************)
(* A program file as djstubify2.py writes it and as fullstub() in          *)
(* src/src/stub.c reads it.                                                *)
(*                                                                         *)
(* A file is a sequence of cells and offsets count cells.  The 0x40 bytes  *)
(* of an exe header are one cell; a payload's first cell carries its magic *)
(* and the others say which payload they belong to.  Of the header the     *)
(* fields that either program reads are kept: the size words at 0x1c, the  *)
(* type map at 0x36, the flags at 0x38, the version at 0x3b and lfanew at  *)
(* 0x3c.                                                                   *)
(***************************************************************************)
EXTENDS Integers, Sequences

\* class ObjType.
OT_COFF == 0
OT_DJ32 == 1
OT_E32 == 2
OT_E64 == 3
OT_D64 == 4
OT_D32 == 5
DebugTypes == {OT_D64, OT_D32}

\* Word 3 of the size words lies at 0x28 and is also the name offset that -n
\* writes; type nibble i belongs to word i.
Slots == 0 .. 3
NameWord == 3

\* 0x80, 0x2000 and 0x4000 of the word at 0x38.
Flags == {"elf", "dj32", "static"}

Header(words, types, flags, ver, lfanew) ==
    [words |-> words, types |-> types, flags |-> flags, ver |-> ver,
     lfanew |-> lfanew]

Headers ==
    [words : [Slots -> Nat], types : [Slots -> 0 .. 15], flags : SUBSET Flags,
     ver : Nat, lfanew : Nat]

MzCell(h) == [what |-> "mz", hdr |-> h]
ExeCell(end) == [what |-> "exe", end |-> end]
Payload(kind, name, len) ==
    <<[what |-> kind, of |-> name, at |-> 0]>>
        \o [k \in 1 .. len - 1 |-> [what |-> "data", of |-> name, at |-> k]]

\* A stub: its header and the code behind it, which is the stub's own unless
\* something else was written over it.
StubOf(code, h, len) ==
    <<MzCell(h)>> \o [k \in 1 .. len - 1 |-> [what |-> "code", of |-> code, at |-> k]]
Stub(h, len) == StubOf("stub", h, len)

\* A sequence of cells with nothing in a header that its fields cannot hold.
IsFile(f) ==
    /\ f \in Seq({f[k] : k \in DOMAIN f})
    /\ \A k \in DOMAIN f : /\ f[k].what = "mz" => f[k].hdr \in Headers
                           /\ f[k].what = "exe" => f[k].end \in Nat

HasCell(f, off) == off < Len(f)
CellAt(f, off) == f[off + 1]
From(f, off) == IF off < Len(f) THEN SubSeq(f, off + 1, Len(f)) ELSE << >>
\* What reading len cells at off returns: less at the end of the file.
Region(f, off, len) ==
    IF off + len <= Len(f) THEN SubSeq(f, off + 1, off + len) ELSE From(f, off)

StartsWith(f, kind) == HasCell(f, 0) /\ CellAt(f, 0).what = kind
\* The payload of a file that has no djstub header.
Bare(f) == IF StartsWith(f, "exe") THEN From(f, CellAt(f, 0).end) ELSE f

\* Where the header leads: to a payload, and not to another header.
HeaderEnd(f) ==
    IF StartsWith(f, "mz") THEN CellAt(f, 0).hdr.lfanew
    ELSE IF StartsWith(f, "exe") THEN CellAt(f, 0).end ELSE 0
OneHeader(f) ==
    HasCell(f, HeaderEnd(f)) => CellAt(f, HeaderEnd(f)).what \notin {"mz", "exe"}
\* ...which describes overlays without a gap.
Packed(h) == \A s \in 0 .. 1 : h.words[s] = 0 => h.words[s + 1] = 0
Plain(f) == OneHeader(f) /\ (StartsWith(f, "mz") => Packed(CellAt(f, 0).hdr))

-----------------------------------------------------------------------------
(* How djstubify2.py looks an overlay up.                                  *)

\* How many nibbles "while type_map" visits: up to the highest that is set.
TypeCount(h) ==
    IF \A s \in Slots : h.types[s] = 0 THEN 0
    ELSE 1 + CHOOSE s \in Slots :
                h.types[s] # 0 /\ \A t \in Slots : t > s => h.types[t] = 0

\* The slot of the first overlay of a type, or -1.  A header without a type
\* map describes one COFF payload.
find_idx(type, h) ==
    LET found == {s \in Slots : s < TypeCount(h) /\ h.types[s] = type}
    IN  IF type = OT_COFF /\ TypeCount(h) = 0 THEN 0
        ELSE IF found = {} THEN -1
        ELSE CHOOSE s \in found : \A t \in found : s <= t

\* Variant: the size of the first overlay, whichever was found.
find_size_first(type, h) ==
    IF find_idx(type, h) = -1 THEN -1 ELSE h.words[0]

find_size(type, h) ==
    LET idx == find_idx(type, h) IN IF idx = -1 THEN -1 ELSE h.words[idx]

\* Where a slot's overlay starts, counted from the first one.
SlotOffs(h, slot) ==
    LET offs[s \in 0 .. slot] == IF s = 0 THEN 0 ELSE offs[s - 1] + h.words[s - 1]
    IN  offs[slot]

\* Variant: one overlay too far.
find_offs_next(type, h) ==
    LET idx == find_idx(type, h) IN IF idx = -1 THEN -1 ELSE SlotOffs(h, idx + 1)

find_offs(type, h) ==
    LET idx == find_idx(type, h) IN IF idx = -1 THEN -1 ELSE SlotOffs(h, idx)

\* The walk of coff2exe over the overlays stops at the first empty one: how
\* many it passes, and the type and size it holds when it stops.
Walk(h) ==
    LET top == TypeCount(h)
        empty == {s \in Slots : s < top /\ h.words[s] = 0}
        passed == IF empty = {} THEN top
                  ELSE CHOOSE s \in empty : \A t \in empty : s <= t
    IN  IF top = 0 THEN [passed |-> 0, type |-> OT_COFF, size |-> h.words[0]]
        ELSE IF empty = {}
             THEN [passed |-> passed, type |-> h.types[top - 1], size |-> h.words[top - 1]]
             ELSE [passed |-> passed, type |-> h.types[passed], size |-> 0]

-----------------------------------------------------------------------------
(* How the stub finds the payloads.                                        *)

StubStart ==
    [coffset |-> 0, coffsize |-> 0, noffset |-> 0, nsize |-> 0,
     noffset2 |-> 0, nsize2 |-> 0, ops |-> "none"]

\* Variant: the second offset follows the first one of the header before.
FromHeaderOldOffset(s, h) ==
    [s EXCEPT !.coffset = h.lfanew, !.coffsize = h.words[0],
              !.noffset = IF h.words[0] # 0 THEN h.lfanew + h.words[0] ELSE @,
              !.nsize = h.words[1],
              !.noffset2 = IF h.words[1] # 0 THEN s.noffset + h.words[1] ELSE @,
              !.nsize2 = h.words[2]]

\* What fullstub takes from an exe header.  What an earlier header set stays
\* set when a later one has nothing to say about it.
FromHeader(s, h) ==
    LET noffs == IF h.words[0] # 0 THEN h.lfanew + h.words[0] ELSE s.noffset
    IN  [s EXCEPT !.coffset = h.lfanew, !.coffsize = h.words[0],
                  !.noffset = noffs, !.nsize = h.words[1],
                  !.noffset2 = IF h.words[1] # 0 THEN noffs + h.words[1] ELSE @,
                  !.nsize2 = h.words[2]]

\* One turn of "while (!done)" of fullstub.
StubTurn(f, s) ==
    IF s.ops # "none" THEN s
    ELSE IF ~HasCell(f, s.coffset) THEN [s EXCEPT !.ops = "refused"]
    ELSE LET c == CellAt(f, s.coffset)
         IN  CASE c.what = "mz" -> FromHeader(s, c.hdr)
             [] c.what \in {"coff", "elf"} -> [s EXCEPT !.ops = c.what]
             [] OTHER -> [s EXCEPT !.ops = "refused"]

\* What fullstub knows of a file when its loop ends.
StubRead(f) ==
    LET after[n \in 0 .. Len(f) + 1] ==
            IF n = 0 THEN StubStart ELSE StubTurn(f, after[n - 1])
    IN  after[Len(f) + 1]

\* The three regions the program is told about in the stub info, from what
\* fullstub knows.
Regions(f, s) ==
    <<Region(f, s.coffset, s.coffsize), Region(f, s.noffset, s.nsize),
      Region(f, s.noffset2, s.nsize2)>>
StubRegions(f) == Regions(f, StubRead(f))

\* The overlay of word n - 1, where the walk over the words finds it.
Overlay(f, h, n) == Region(f, h.lfanew + SlotOffs(h, n - 1), h.words[n - 1])
=============================================================================
