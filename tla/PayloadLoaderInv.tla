-------------------------- MODULE PayloadLoaderInv --------------------------
(***************************************************************************)
(* The inductive invariant behind the theorems of PayloadLoaderProofs.     *)
(* BlockSafe and ImageCorrect say what holds of the memory; that they stay *)
(* true depends on how far the header scan, the placement of the block and *)
(* the read loop have come.                                                *)
(***************************************************************************)
EXTENDS PayloadLoader

\* Section j lies within the bounds found so far.
Covered(j) ==
    /\ beg <= pl.secs[j].vaddr
    /\ pl.secs[j].vaddr + pl.secs[j].memsz <= end

\* The scan covers the headers it has passed, and beg = 0 means it has passed
\* none that counts.
ScanInv ==
    ~StartsAtZero(pl) =>
        /\ pc = "headers" => i = 1 /\ beg = 0 /\ end = 0
        /\ pc = "scan" => pl.kind = "elf"
        /\ pc = "scan" =>
             \A j \in Loads(pl) : j < i => Covered(j) /\ beg > 0
        /\ pc \in {"alloc", "load", "read", "check"} =>
             \A j \in Loads(pl) : Covered(j)

\* The block holds the image and the flat segment starts beg before it.
PlaceInv ==
    pc \in {"load", "read", "check", "loaded"} =>
        /\ memBase = Wrap(memLin - beg)
        /\ allocSize >= end - beg
        /\ memLin + allocSize <= AddrLimit

\* _long_read's counters agree with the file position; before the last chunk
\* the copied part is a whole number of words.
LoopInv ==
    ioErrs = 0 =>
        /\ pc = "read" => /\ done + size = Sec.filesz
                          /\ pos = pl.coffset + Sec.off + done
                          /\ done % 2 = 0 \/ size = 0
        /\ pc = "check" => done <= Sec.filesz

\* Before there is a block nothing has been stored.
Untouched ==
    pc \in {"headers", "scan", "alloc"} => mem = [a \in Addr |-> Junk]

\* What has been read is in place: all of the earlier sections, and of the one
\* at hand as much as done says.
SectionsInv ==
    ioErrs = 0 =>
        /\ pc \in {"load", "read", "check", "loaded"} =>
             \A j \in Loads(pl) : j < i => SectionInPlace(j)
        /\ pc \in {"read", "check"} =>
             \A k \in Addr : k < done =>
                mem[Lin(Sec.vaddr + k)] = pl.coffset + Sec.off + k
        /\ pc = "loaded" => i = Len(pl.secs) + 1

IInv ==
    /\ TypeOK
    /\ ScanInv
    /\ PlaceInv
    /\ LoopInv
    /\ Untouched
    /\ SectionsInv
    /\ BlockSafe
=============================================================================
