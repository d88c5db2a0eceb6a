---------------------------- MODULE PayloadLoader ----------------------------
(***************************************************************************)
(* The loading half of fullstub() in src/src/stub.c, with the two payload  *)
(* formats behind struct ldops (src/src/coff.c, src/src/elf.c) and the far *)
(* memory helpers of src/src/util.c.                                       *)
(*                                                                         *)
(* Once the chain of exe headers has led to a payload, the stub reads the  *)
(* payload's headers, computes the lowest address and the length of the    *)
(* image, asks the DPMI host for one block, points a flat descriptor       *)
(* before the block so that the lowest address falls on the first byte,    *)
(* and reads the sections through a one-page buffer.                       *)
(*                                                                         *)
(* A byte of the file is its file offset, so a byte of memory says where   *)
(* it came from; Junk, Zero and Stale are the bytes that came from no file *)
(* offset.  Section names, entry points and messages are left out.         *)
(***************************************************************************)
EXTENDS Integers, Sequences

CONSTANTS
    PageSize,     \* PAGE_SIZE: size of the read buffer and allocation unit
    AddrLimit,    \* number of linear addresses (2^32): arithmetic wraps here
    MinInitial,   \* smallest image size asked of the host (0x10000)
    Payloads,     \* the payload files that may be started
    Blocks,       \* linear addresses the DPMI host may hand out
    MaxIoErrors   \* bound: how often read() may return -1

Addr == 0 .. AddrLimit - 1

\* A program header or a COFF section.  Fields a section does not have hold
\* what the code uses in their place: a COFF bss has filesz = 0.
Sections ==
    [load: BOOLEAN, aligned: BOOLEAN, off: Nat,
     vaddr: Addr, filesz: Addr, memsz: Addr]

\* headersOk: no check of read_coff_headers or of read_elf_headers before its
\* loop fails.  coffset: file offset of the payload.
PayloadFiles ==
    [kind: {"coff", "elf"}, headersOk: BOOLEAN, coffset: Nat, fileLen: Nat,
     secs: Seq(Sections)]

Secs(p) == DOMAIN p.secs
Loads(p) == {j \in Secs(p) : p.secs[j].load}

\* What a linker writes: the sections that are loaded ascend without overlap
\* and end, padding included, within the address space.
WellFormed(p) ==
    /\ \A j \in Loads(p) :
         /\ p.secs[j].filesz <= p.secs[j].memsz
         /\ p.secs[j].vaddr + p.secs[j].memsz < AddrLimit - 1
    /\ \A j, k \in Loads(p) :
         j < k => p.secs[j].vaddr + p.secs[j].memsz <= p.secs[k].vaddr
    /\ p.kind = "coff" => /\ Len(p.secs) = 3
                          /\ Loads(p) = 1 .. 3
                          /\ p.secs[3].filesz = 0

ASSUME NumbersAssumption ==
    /\ PageSize \in Nat \ {0}
    /\ PageSize % 2 = 0
    /\ AddrLimit \in Nat
    /\ PageSize < AddrLimit
    /\ MinInitial \in Nat \ {0}
    /\ MaxIoErrors \in Nat
ASSUME BlocksAssumption == Blocks \subseteq Addr
ASSUME PayloadsAssumption ==
    \A p \in Payloads : p \in PayloadFiles /\ WellFormed(p)

VARIABLES
    pc,         \* where fullstub() is
    pl,         \* the payload file
    i,          \* index of the section at hand
    beg, end,   \* bounds of the image, as read_headers finds them
    memLin,     \* linear address of the allocated block
    memBase,    \* base of the flat descriptors: memLin - beg, wrapped
    allocSize,  \* size of the allocated block
    pos,        \* file position of ifile
    done, size, \* progress of _long_read
    mem,        \* linear memory
    ioErrs      \* how many reads have failed so far

vars == <<pc, pl, i, beg, end, memLin, memBase, allocSize, pos, done, size,
          mem, ioErrs>>
scanned == <<beg, end>>
placed == <<memLin, memBase, allocSize>>
reading == <<pos, done, size>>

-----------------------------------------------------------------------------
Junk == -1    \* never written by the loader
Zero == -2    \* written by farmemset
Stale == -3   \* the byte that pads an odd copy to whole words
Bytes == {Junk, Zero, Stale} \cup Nat

EvenUp(n) == n + (n % 2)
Least(a, b) == IF a < b THEN a ELSE b
Most(a, b) == IF a > b THEN a ELSE b
\* Variant: rounds down to pages.
PageAlignDown(n) == (n \div PageSize) * PageSize
PageAlign(n) == ((n + PageSize - 1) \div PageSize) * PageSize

\* Variant: arithmetic that is not cut to 32 bits.
WrapForgotten(x) == x

\* 32-bit arithmetic on values less than one turn outside the address space.
Wrap(x) ==
    IF x < 0 THEN x + AddrLimit ELSE IF x >= AddrLimit THEN x - AddrLimit ELSE x

\* The linear address behind offset off of the client segment.
Lin(off) == Wrap(memBase + off)

\* Copy n bytes read at file offset src to segment offset off, in words: when
\* n is odd one more byte is stored, whatever the buffer holds there.
FarMemCpy(m, off, src, n) ==
    [a \in Addr |->
        LET k == Wrap(a - Lin(off))
        IN  IF k < n THEN src + k ELSE IF k < EvenUp(n) THEN Stale ELSE m[a]]

FarMemSet(m, off, n) ==
    [a \in Addr |-> IF Wrap(a - Lin(off)) < n THEN Zero ELSE m[a]]

Sec == pl.secs[i]
HasSec == i \in Secs(pl)

-----------------------------------------------------------------------------
Init ==
    /\ pc = "headers"
    /\ pl \in Payloads
    /\ i = 1
    /\ beg = 0 /\ end = 0
    /\ memLin = 0 /\ memBase = 0 /\ allocSize = 0
    /\ pos = 0 /\ done = 0 /\ size = 0
    /\ mem = [a \in Addr |-> Junk]
    /\ ioErrs = 0

\* A failed check of the headers makes read_headers return NULL.
RefuseHeaders ==
    /\ pc = "headers"
    /\ ~pl.headersOk
    /\ pc' = "refused_headers"
    /\ UNCHANGED <<pl, i, scanned, placed, reading, mem, ioErrs>>

\* COFF: the image is taken to run from 0 to the end of the bss.
ReadCoffHeaders ==
    /\ pc = "headers"
    /\ pl.headersOk
    /\ pl.kind = "coff"
    /\ beg' = 0
    /\ end' = pl.secs[3].vaddr + pl.secs[3].memsz
    /\ pc' = "alloc"
    /\ UNCHANGED <<pl, i, placed, reading, mem, ioErrs>>

ReadElfHeaders ==
    /\ pc = "headers"
    /\ pl.headersOk
    /\ pl.kind = "elf"
    /\ pc' = "scan"
    /\ UNCHANGED <<pl, i, scanned, placed, reading, mem, ioErrs>>

\* Variant: a lowest address that starts at 0 never rises.
ScanPhdrFromZero ==
    /\ pc = "scan"
    /\ HasSec
    /\ Sec.load => Sec.aligned
    /\ i' = i + 1
    /\ IF Sec.load
       THEN /\ beg' = Least(beg, Sec.vaddr)
            /\ end' = Most(end, Sec.vaddr + Sec.memsz)
       ELSE UNCHANGED scanned
    /\ UNCHANGED <<pc, pl, placed, reading, mem, ioErrs>>

\* One turn of the loop over the program headers.  The loop treats beg = 0 as
\* "no header seen yet".
ScanPhdr ==
    /\ pc = "scan"
    /\ HasSec
    /\ Sec.load => Sec.aligned
    /\ i' = i + 1
    /\ IF Sec.load
       THEN /\ beg' = IF Sec.vaddr < beg \/ beg = 0 THEN Sec.vaddr ELSE beg
            /\ end' = Most(end, Sec.vaddr + Sec.memsz)
       ELSE UNCHANGED scanned
    /\ UNCHANGED <<pc, pl, placed, reading, mem, ioErrs>>

RefuseAlignment ==
    /\ pc = "scan"
    /\ HasSec
    /\ Sec.load /\ ~Sec.aligned
    /\ pc' = "refused_headers"
    /\ UNCHANGED <<pl, i, scanned, placed, reading, mem, ioErrs>>

ScanDone ==
    /\ pc = "scan"
    /\ ~HasSec
    /\ pc' = "alloc"
    /\ UNCHANGED <<pl, i, scanned, placed, reading, mem, ioErrs>>

\* The host returns a block that fits below the top of the address space.
Allocate ==
    /\ pc = "alloc"
    /\ allocSize' = PageAlign(Most(end - beg, MinInitial))
    /\ memLin' \in {b \in Blocks : b + allocSize' <= AddrLimit}
    /\ memBase' = Wrap(memLin' - beg)
    /\ i' = 1
    /\ pc' = "load"
    /\ UNCHANGED <<pl, scanned, reading, mem, ioErrs>>

RefuseMemory ==
    /\ pc = "alloc"
    /\ pc' = "refused_memory"
    /\ UNCHANGED <<pl, i, scanned, placed, reading, mem, ioErrs>>

SkipSection ==
    /\ pc = "load"
    /\ HasSec /\ ~Sec.load
    /\ i' = i + 1
    /\ UNCHANGED <<pc, pl, scanned, placed, reading, mem, ioErrs>>

\* Variant: seeks from the start of the file instead of the payload.
SeekSectionFromFile ==
    /\ pc = "load"
    /\ HasSec /\ Sec.load
    /\ pos' = Sec.off
    /\ done' = 0
    /\ size' = Sec.filesz
    /\ pc' = "read"
    /\ UNCHANGED <<pl, i, scanned, placed, mem, ioErrs>>

SeekSection ==
    /\ pc = "load"
    /\ HasSec /\ Sec.load
    /\ pos' = pl.coffset + Sec.off
    /\ done' = 0
    /\ size' = Sec.filesz
    /\ pc' = "read"
    /\ UNCHANGED <<pl, i, scanned, placed, mem, ioErrs>>

\* Variant: the loop goes on after a short read.
ReadChunkForEver ==
    /\ pc = "read"
    /\ size > 0
    /\ LET rd == Least(Least(size, PageSize), Most(pl.fileLen - pos, 0))
       IN  /\ mem' = FarMemCpy(mem, Wrap(Sec.vaddr + done), pos, rd)
           /\ done' = Wrap(done + rd)
           /\ size' = size - rd
           /\ pos' = pos + rd
    /\ UNCHANGED <<pc, pl, i, scanned, placed, ioErrs>>

\* One turn of _long_read: read() returns what is left of the file.
ReadChunk ==
    /\ pc = "read"
    /\ size > 0
    /\ LET todo == Least(size, PageSize)
           rd == Least(todo, Most(pl.fileLen - pos, 0))
       IN  /\ mem' = FarMemCpy(mem, Wrap(Sec.vaddr + done), pos, rd)
           /\ done' = Wrap(done + rd)
           /\ size' = size - rd
           /\ pos' = pos + rd
           /\ pc' = IF rd < todo THEN "check" ELSE "read"
    /\ UNCHANGED <<pl, i, scanned, placed, ioErrs>>

\* read() returns -1, which the code adds to and subtracts from unsigned
\* counters: nothing is copied, done steps back, size grows, and the loop goes
\* on because -1 as a size_t is not below todo.
ReadError ==
    /\ pc = "read"
    /\ size > 0
    /\ ioErrs < MaxIoErrors
    /\ ioErrs' = ioErrs + 1
    /\ done' = Wrap(done - 1)
    /\ size' = size + 1
    /\ UNCHANGED <<pc, pl, i, scanned, placed, pos, mem>>

ReadDone ==
    /\ pc = "read"
    /\ size = 0
    /\ pc' = "check"
    /\ UNCHANGED <<pl, i, scanned, placed, reading, mem, ioErrs>>

\* Variant: the count is not compared.
ZeroTailUnchecked ==
    /\ pc = "check"
    /\ mem' = IF Sec.memsz > Sec.filesz
              THEN FarMemSet(mem, Sec.vaddr + Sec.filesz,
                             EvenUp(Sec.memsz - Sec.filesz))
              ELSE mem
    /\ i' = i + 1
    /\ pc' = "load"
    /\ UNCHANGED <<pl, scanned, placed, reading, ioErrs>>

\* The caller compares the count with the section's size, then clears the rest
\* of the section, again in whole words.
ZeroTail ==
    /\ pc = "check"
    /\ done = Sec.filesz
    /\ mem' = IF Sec.memsz > Sec.filesz
              THEN FarMemSet(mem, Sec.vaddr + Sec.filesz,
                             EvenUp(Sec.memsz - Sec.filesz))
              ELSE mem
    /\ i' = i + 1
    /\ pc' = "load"
    /\ UNCHANGED <<pl, scanned, placed, reading, ioErrs>>

RefuseRead ==
    /\ pc = "check"
    /\ done # Sec.filesz
    /\ pc' = "refused_read"
    /\ UNCHANGED <<pl, i, scanned, placed, reading, mem, ioErrs>>

AllLoaded ==
    /\ pc = "load"
    /\ ~HasSec
    /\ pc' = "loaded"
    /\ UNCHANGED <<pl, i, scanned, placed, reading, mem, ioErrs>>

Next ==
    \/ RefuseHeaders \/ ReadCoffHeaders \/ ReadElfHeaders
    \/ ScanPhdr \/ RefuseAlignment \/ ScanDone
    \/ Allocate \/ RefuseMemory
    \/ SkipSection \/ SeekSection \/ ReadChunk \/ ReadError \/ ReadDone
    \/ ZeroTail \/ RefuseRead \/ AllLoaded

Safe == Init /\ [][Next]_vars

\* The loader is one sequential program: it keeps taking steps while it has any.
Spec == Safe /\ WF_vars(Next)

-----------------------------------------------------------------------------
Ended == {"loaded", "refused_headers", "refused_memory", "refused_read"}
Places == {"headers", "scan", "alloc", "load", "read", "check"} \cup Ended

\* Every variable holds a value of its C type; in particular no address
\* computation leaves the 32-bit range.
TypeOK ==
    /\ pc \in Places
    /\ pl \in Payloads
    /\ i \in 1 .. Len(pl.secs) + 1
    /\ beg \in Addr /\ end \in Addr
    /\ memLin \in Addr /\ memBase \in Addr /\ allocSize \in Nat
    /\ pos \in Nat /\ done \in Addr /\ size \in Nat
    /\ mem \in [Addr -> Bytes]
    /\ ioErrs \in 0 .. MaxIoErrors
    /\ pc \in {"read", "check"} => HasSec /\ Sec.load

\* read_elf_headers uses 0 both for "nothing seen" and as an address: when a
\* segment starts at 0 the next one replaces it as the lowest.
StartsAtZero(p) == p.kind = "elf" /\ \E j \in Loads(p) : p.secs[j].vaddr = 0

\* One past the last byte stored for section s.
StoreEnd(s) ==
    IF s.memsz > s.filesz
    THEN s.vaddr + s.filesz + EvenUp(s.memsz - s.filesz)
    ELSE s.vaddr + EvenUp(s.filesz)

TailFits(p) == \A j \in Loads(p) : StoreEnd(p.secs[j]) - beg <= allocSize

Block == memLin .. memLin + allocSize - 1

\* The loader writes inside the block it was given, except that padding to
\* whole words may store one byte right behind it, and only for a section
\* whose padded end does not fit.
BlockSafe ==
    (ioErrs = 0 /\ ~StartsAtZero(pl)) =>
        \A a \in Addr : mem[a] # Junk =>
            a \in Block \/ (~TailFits(pl) /\ a = Wrap(memLin + allocSize))

\* What the payload asks for at offset c of the client segment.
Cells(p) ==
    {c \in Addr : \E j \in Loads(p) :
        p.secs[j].vaddr <= c /\ c < p.secs[j].vaddr + p.secs[j].memsz}
SectionByte(p, j, k) ==
    IF k < p.secs[j].filesz THEN p.coffset + p.secs[j].off + k ELSE Zero

SectionInPlace(j) ==
    \A k \in Addr : k < pl.secs[j].memsz =>
        mem[Lin(pl.secs[j].vaddr + k)] = SectionByte(pl, j, k)

\* When no read failed, the image that gets control holds every byte of every
\* loadable section at its address, and zeros where the file has no bytes.
ImageCorrect ==
    (pc = "loaded" /\ ioErrs = 0) => \A j \in Loads(pl) : SectionInPlace(j)

\* A failed read is noticed: the image that gets control is whole even if
\* read() failed on the way.  (The checks after _long_read say so.)
DetectsReadErrors ==
    pc = "loaded" => \A j \in Loads(pl) : SectionInPlace(j)

\* Clearing in words stays inside the block when every segment starts on a
\* word and ends on one.
WordAligned(p) ==
    \A j \in Loads(p) :
        p.secs[j].vaddr % 2 = 0 /\ p.secs[j].memsz % 2 = 0
AlignedStaysInBlock ==
    (ioErrs = 0 /\ ~StartsAtZero(pl) /\ WordAligned(pl)) =>
        \A a \in Addr : mem[a] # Junk => a \in Block

\* The loader ends, as long as read() does not fail for ever.
Termination == <>(pc \in Ended)

-----------------------------------------------------------------------------
(* The promise.  A short file is one in which a section does not fit.      *)

ImageOf(p) ==
    [c \in Cells(p) |->
        LET owner == CHOOSE j \in Loads(p) :
                        /\ p.secs[j].vaddr <= c
                        /\ c < p.secs[j].vaddr + p.secs[j].memsz
        IN  SectionByte(p, owner, c - p.secs[owner].vaddr)]

HeadersRefused(p) ==
    ~p.headersOk \/ (p.kind = "elf" /\ \E j \in Loads(p) : ~p.secs[j].aligned)
IsShort(p) ==
    \E j \in Loads(p) :
        /\ p.secs[j].filesz > 0
        /\ p.coffset + p.secs[j].off + p.secs[j].filesz > p.fileLen

CausesOf(p) ==
    (IF HeadersRefused(p) THEN {"refused_headers"} ELSE {"refused_memory"})
        \cup (IF ~HeadersRefused(p) /\ IsShort(p) THEN {"refused_read"} ELSE {})

Outcome == IF ioErrs > 0 THEN "spoilt" ELSE IF pc \in Ended THEN pc ELSE "loading"
Delivered == IF Outcome = "loaded" THEN [c \in Cells(pl) |-> mem[Lin(c)]] ELSE << >>

Promise == INSTANCE ImageLoad WITH
    Programs <- Payloads,
    Whole <- [p \in Payloads |-> ImageOf(p)],
    Causes <- [p \in Payloads |-> CausesOf(p)],
    wanted <- pl, status <- Outcome, image <- Delivered

\* The loader implements ImageLoad: unless a read fails, nothing is offered for
\* execution but a whole image, and a payload is refused only for a cause it
\* really has.
DeliversOrRefuses == Promise!Spec
=============================================================================
