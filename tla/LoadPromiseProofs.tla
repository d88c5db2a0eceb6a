-------------------------- MODULE LoadPromiseProofs --------------------------
(***************************************************************************)
(* PayloadLoader implements the safety part of ImageLoad for every payload *)
(* and machine: the step to "loaded" delivers the whole image of a sound   *)
(* file, every refusal has its cause, and all other steps are invisible.   *)
(***************************************************************************)
EXTENDS PayloadLoaderProofs

Fits(j) ==
    \/ pl.secs[j].filesz = 0
    \/ pl.coffset + pl.secs[j].off + pl.secs[j].filesz <= pl.fileLen

\* How much of the reasons for a refusal is settled at each place: the headers
\* once they have been passed, the length of the file section by section.
CauseInv ==
    /\ pc = "headers" => i = 1
    /\ pc = "scan" =>
         /\ pl.headersOk /\ pl.kind = "elf"
         /\ \A j \in Loads(pl) : j < i => pl.secs[j].aligned
    /\ pc \in {"alloc", "load", "read", "check"} => ~HeadersRefused(pl)
    /\ ioErrs = 0 =>
         /\ pc = "read" /\ done > 0 => pl.coffset + Sec.off + done <= pl.fileLen
         /\ pc = "check" => (done = Sec.filesz <=> Fits(i))
         /\ pc \in {"load", "read", "check"} => \A j \in Loads(pl) : j < i => Fits(j)

\* One turn of _long_read tells whether the section fits.
LEMMA ChunkCause ==
    ASSUME TypeOK, LoopInv, CauseInv, ReadChunk, ioErrs = 0
    PROVE  /\ pc' = "read" /\ done' > 0 => pl.coffset + Sec.off + done' <= pl.fileLen
           /\ pc' = "check" => done' # Sec.filesz /\ ~Fits(i)
<1> DEFINE todo == Least(size, PageSize)
           rd == Least(todo, Most(pl.fileLen - pos, 0))
<1>1. /\ done + size = Sec.filesz /\ pos = pl.coffset + Sec.off + done
      /\ done \in Addr /\ size \in Nat /\ pos \in Nat /\ size > 0
  BY DEF ReadChunk, LoopInv, TypeOK
<1>2. pl.fileLen \in Nat /\ Sec.filesz \in Addr /\ pl.coffset \in Nat /\ Sec.off \in Nat
  BY SecFacts DEF ReadChunk, TypeOK
<1>3. /\ todo \in Nat /\ 0 < todo /\ todo <= size
      /\ rd \in Nat /\ rd <= todo
      /\ rd > 0 => pos + rd <= pl.fileLen
      /\ rd < todo => pos + rd >= pl.fileLen
  BY <1>1, <1>2, NumbersAssumption DEF Least, Most
<1>4. done' = Wrap(done + rd) /\ pc' = IF rd < todo THEN "check" ELSE "read"
  BY DEF ReadChunk
<1> HIDE DEF todo, rd
<1>5. done' = done + rd
  BY <1>1, <1>2, <1>3, <1>4, NumbersAssumption DEF Wrap, Addr
<1>6. ASSUME pc' = "read"
      PROVE  pl.coffset + Sec.off + done' <= pl.fileLen
  <2>1. rd > 0
    BY <1>3, <1>4, <1>6
  <2> QED BY <1>1, <1>2, <1>3, <1>5, <2>1 DEF Addr
<1>7. ASSUME pc' = "check"
      PROVE  done' # Sec.filesz /\ ~Fits(i)
  <2>1. rd < todo
    BY <1>4, <1>7
  <2>2. done' < Sec.filesz
    BY <1>1, <1>3, <1>5, <2>1 DEF Addr
  <2>3. pl.coffset + Sec.off + Sec.filesz > pl.fileLen
    BY <1>1, <1>2, <1>3, <2>1 DEF Addr
  <2>4. Sec.filesz # 0
    BY <1>1 DEF Addr
  <2> QED BY <1>1, <1>2, <2>2, <2>3, <2>4 DEF Fits, Sec, Addr
<1> QED BY <1>6, <1>7

LEMMA CauseStep ==
    ASSUME TypeOK, LoopInv, CauseInv, [Next]_vars
    PROVE  CauseInv'
<1>0. /\ pl' = pl /\ pl \in Payloads /\ i \in Nat /\ Len(pl.secs) \in Nat
      /\ Secs(pl) = 1 .. Len(pl.secs)
      /\ \A j \in Loads(pl) : j \in 1 .. Len(pl.secs)
  BY SamePayload, SectionFacts, PayloadsAssumption DEF TypeOK, PayloadFiles, Secs
<1>1. CASE RefuseHeaders \/ RefuseAlignment \/ RefuseMemory \/ RefuseRead \/ AllLoaded
  BY <1>1 DEF CauseInv, RefuseHeaders, RefuseAlignment, RefuseMemory, RefuseRead, AllLoaded
<1>2. CASE ReadCoffHeaders
  BY <1>0, <1>2 DEF CauseInv, ReadCoffHeaders, HeadersRefused
<1>3. CASE ReadElfHeaders
  BY <1>0, <1>3 DEF CauseInv, ReadElfHeaders
<1>4. CASE ScanPhdr
  <2>1. ASSUME NEW j \in Loads(pl), j < i'
        PROVE  pl.secs[j].aligned
    <3>1. j < i \/ j = i
      BY <1>0, <1>4, <2>1 DEF ScanPhdr
    <3>2. CASE j = i
      BY <1>4, <3>2 DEF ScanPhdr, Loads, Sec
    <3> QED BY <1>4, <3>1, <3>2 DEF ScanPhdr, CauseInv
  <2> QED BY <1>0, <1>4, <2>1 DEF CauseInv, ScanPhdr
<1>5. CASE ScanDone
  <2>1. \A j \in Loads(pl) : j < i
    BY <1>0, <1>5 DEF ScanDone, HasSec, TypeOK
  <2>2. ~HeadersRefused(pl)
    BY <1>5, <2>1 DEF ScanDone, CauseInv, HeadersRefused
  <2> QED BY <1>0, <1>5, <2>2 DEF CauseInv, ScanDone
<1>6. CASE Allocate
  <2>1. \A j \in Loads(pl) : ~(j < i')
    BY <1>0, <1>6 DEF Allocate
  <2> QED BY <1>0, <1>6, <2>1 DEF CauseInv, Allocate
<1>7. CASE SkipSection
  <2>1. \A j \in Loads(pl) : j < i' => j < i
    BY <1>0, <1>7 DEF SkipSection, Loads, Sec
  <2>2. ioErrs = 0 => \A j \in Loads(pl) : j < i' => Fits(j)
    BY <1>7, <2>1 DEF CauseInv, SkipSection
  <2> QED BY <1>0, <1>7, <2>2 DEF CauseInv, SkipSection, Fits
<1>8. CASE SeekSection
  BY <1>0, <1>8 DEF CauseInv, SeekSection, Fits
<1>9. CASE ReadChunk
  <2>1. /\ pc = "read" /\ pc' \in {"read", "check"}
        /\ i' = i /\ ioErrs' = ioErrs /\ Sec' = Sec
    BY <1>0, <1>9 DEF ReadChunk, Sec
  <2>2. ~HeadersRefused(pl) /\ (ioErrs = 0 => \A j \in Loads(pl) : j < i => Fits(j))
    BY <2>1 DEF CauseInv
  <2>3. ioErrs = 0 => /\ pc' = "read" /\ done' > 0 => pl.coffset + Sec.off + done' <= pl.fileLen
                      /\ pc' = "check" => done' # Sec.filesz /\ ~Fits(i)
    BY <1>9, ChunkCause
  <2> QED BY <1>0, <2>1, <2>2, <2>3 DEF CauseInv, Fits
<1>10. CASE ReadError
  BY <1>0, <1>10 DEF CauseInv, ReadError, TypeOK
<1>11. CASE ReadDone
  <2>1. /\ pc = "read" /\ pc' = "check" /\ size = 0
        /\ i' = i /\ ioErrs' = ioErrs /\ done' = done /\ Sec' = Sec
    BY <1>0, <1>11 DEF ReadDone, reading, Sec
  <2>2. ioErrs = 0 => done = Sec.filesz /\ Fits(i)
    BY <2>1 DEF LoopInv, TypeOK, Addr, CauseInv, Fits, Sec
  <2> QED BY <1>0, <2>1, <2>2 DEF CauseInv, Fits
<1>12. CASE ZeroTail
  <2>1. ASSUME ioErrs = 0, NEW j \in Loads(pl), j < i'
        PROVE  Fits(j)
    <3>1. j < i \/ j = i
      BY <1>0, <1>12, <2>1 DEF ZeroTail
    <3> QED BY <1>12, <2>1, <3>1 DEF ZeroTail, CauseInv
  <2> QED BY <1>0, <1>12, <2>1 DEF CauseInv, ZeroTail, Fits
<1>13. CASE UNCHANGED vars
  BY <1>13 DEF CauseInv, vars, Fits, Sec
<1> QED
  BY <1>1, <1>2, <1>3, <1>4, <1>5, <1>6, <1>7, <1>8, <1>9, <1>10, <1>11, <1>12, <1>13
  DEF Next

-----------------------------------------------------------------------------
\* An image all of whose sections are in place is the one that was asked for.
LEMMA InPlaceIsImage ==
    ASSUME TypeOK, \A j \in Loads(pl) : SectionInPlace(j)
    PROVE  [c \in Cells(pl) |-> mem[Lin(c)]] = ImageOf(pl)
<1> SUFFICES ASSUME NEW c \in Cells(pl)
             PROVE  mem[Lin(c)] = ImageOf(pl)[c]
  BY DEF ImageOf
<1> DEFINE Owns(j) == pl.secs[j].vaddr <= c /\ c < pl.secs[j].vaddr + pl.secs[j].memsz
           owner == CHOOSE j \in Loads(pl) : Owns(j)
<1>1. c \in Addr /\ \E j \in Loads(pl) : Owns(j)
  BY DEF Cells
<1>2. owner \in Loads(pl) /\ Owns(owner)
  BY <1>1
<1>3. ImageOf(pl)[c] = SectionByte(pl, owner, c - pl.secs[owner].vaddr)
  BY DEF ImageOf
<1> HIDE DEF owner
<1>4. pl.secs[owner].vaddr \in Addr /\ pl.secs[owner].memsz \in Addr
  BY <1>2, SectionFacts DEF TypeOK
<1>5. /\ c - pl.secs[owner].vaddr \in Addr
      /\ c - pl.secs[owner].vaddr < pl.secs[owner].memsz
      /\ pl.secs[owner].vaddr + (c - pl.secs[owner].vaddr) = c
  BY <1>1, <1>2, <1>4, NumbersAssumption DEF Addr
<1> QED BY <1>2, <1>3, <1>5 DEF SectionInPlace

\* A refusal has its cause, and what gets control is whole and sound.
LEMMA StepKeepsPromise ==
    ASSUME IInv, CauseInv, [Next]_vars
    PROVE  [Promise!Next]_(Promise!vars)
<1> USE DEF Promise!vars, Promise!Next
<1>0. TypeOK /\ pl' = pl /\ pl \in Payloads
  BY SamePayload DEF IInv, TypeOK
<1>1. ioErrs \in Nat /\ ioErrs' \in Nat /\ ioErrs <= ioErrs'
  BY <1>0 DEF TypeOK, Next, vars, RefuseHeaders, ReadCoffHeaders, ReadElfHeaders, ScanPhdr,
       RefuseAlignment, ScanDone, Allocate, RefuseMemory, SkipSection,
       SeekSection, ReadChunk, ReadError, ReadDone, ZeroTail, RefuseRead, AllLoaded
<1>2. CASE ioErrs > 0
  BY <1>0, <1>1, <1>2 DEF Outcome, Delivered
<1>3. CASE ioErrs = 0 /\ ReadError
  <2>1. Outcome = "loading" /\ Outcome' = "spoilt"
    BY <1>3 DEF ReadError, Outcome, Ended
  <2>2. Delivered = << >> /\ Delivered' = << >>
    BY <2>1 DEF Delivered
  <2> QED BY <1>0, <2>1, <2>2 DEF Promise!Spoil
<1>4. CASE ioErrs = 0 /\ \/ RefuseHeaders \/ RefuseAlignment \/ RefuseMemory \/ RefuseRead
  <2>1. ioErrs' = 0 /\ Outcome = "loading" /\ Outcome' = pc'
    BY <1>4 DEF RefuseHeaders, RefuseAlignment, RefuseMemory, RefuseRead, Outcome, Ended
  <2>2. Delivered = << >> /\ Delivered' = << >>
    BY <1>4, <2>1 DEF RefuseHeaders, RefuseAlignment, RefuseMemory, RefuseRead, Delivered
  <2>3. pc' \in CausesOf(pl)
    <3>1. CASE RefuseHeaders \/ RefuseMemory
      BY <3>1 DEF RefuseHeaders, RefuseMemory, CausesOf, CauseInv, HeadersRefused
    <3>2. CASE RefuseAlignment
      <4>1. pl.kind = "elf"
        BY <3>2 DEF RefuseAlignment, CauseInv
      <4>2. i \in Loads(pl)
        BY <3>2 DEF RefuseAlignment, HasSec, Loads, Sec
      <4> QED BY <3>2, <4>1, <4>2 DEF RefuseAlignment, CausesOf, HeadersRefused, Sec
    <3>3. CASE RefuseRead
      <4>1. i \in Loads(pl) /\ ~Fits(i) /\ ~HeadersRefused(pl)
        BY <1>0, <1>4, <3>3, SecFacts DEF RefuseRead, CauseInv, TypeOK
      <4>2. IsShort(pl)
        BY <1>0, <4>1, SectionFacts DEF IsShort, Fits, Addr
      <4> QED BY <3>3, <4>1, <4>2 DEF RefuseRead, CausesOf
    <3> QED BY <1>4, <3>1, <3>2, <3>3
  <2> QED BY <1>0, <2>1, <2>2, <2>3 DEF Promise!Refuse
<1>5. CASE ioErrs = 0 /\ AllLoaded
  <2>1. /\ ioErrs' = 0 /\ Outcome = "loading" /\ Outcome' = "loaded"
        /\ Delivered = << >>
    BY <1>5 DEF AllLoaded, Outcome, Delivered, Ended
  <2>2. \A j \in Loads(pl) : j < i
    BY <1>0, <1>5, SectionFacts, PayloadsAssumption
    DEF AllLoaded, HasSec, Secs, TypeOK, PayloadFiles
  <2>3. ~HeadersRefused(pl) /\ \A j \in Loads(pl) : Fits(j)
    BY <1>5, <2>2 DEF AllLoaded, CauseInv
  <2>4. ~IsShort(pl)
    BY <1>0, <2>3, SectionFacts DEF IsShort, Fits, Addr
  <2>5. Promise!Sound(pl)
    BY <1>0, <2>3, <2>4 DEF Promise!Sound, CausesOf
  <2>6. \A c : mem'[Lin(c)'] = mem[Lin(c)]
    BY <1>5 DEF AllLoaded, placed, Lin, Wrap
  <2>7. Delivered' = [c \in Cells(pl) |-> mem[Lin(c)]]
    BY <1>0, <2>1, <2>6 DEF Delivered
  <2>8. \A j \in Loads(pl) : SectionInPlace(j)
    BY <1>5, <2>2 DEF AllLoaded, IInv, SectionsInv
  <2>9. Delivered' = ImageOf(pl)
    BY <1>0, <2>7, <2>8, InPlaceIsImage
  <2> QED BY <1>0, <2>1, <2>5, <2>9 DEF Promise!Deliver
<1>6. CASE ioErrs = 0 /\ \/ ReadCoffHeaders \/ ReadElfHeaders \/ ScanPhdr \/ ScanDone \/ Allocate
                         \/ SkipSection \/ SeekSection \/ ReadChunk \/ ReadDone \/ ZeroTail
  <2>1. ioErrs' = 0 /\ pc \notin Ended /\ pc' \notin Ended
    BY <1>6 DEF ReadCoffHeaders, ReadElfHeaders, ScanPhdr, ScanDone, Allocate, SkipSection,
         SeekSection, ReadChunk, ReadDone, ZeroTail, Ended
  <2> QED BY <1>0, <1>6, <2>1 DEF Outcome, Delivered, Ended
<1>7. CASE UNCHANGED vars
  <2>1. Lin(0)' = Lin(0)
    BY <1>7 DEF vars, Lin, Wrap
  <2> QED BY <1>7 DEF vars, Outcome, Delivered, Lin, Wrap
<1> QED BY <1>1, <1>2, <1>3, <1>4, <1>5, <1>6, <1>7 DEF Next

\* Unless a read fails, the loader delivers whole images of sound files and
\* refuses for a cause: the safety part of DeliversOrRefuses.
THEOREM LoaderKeepsPromise == Spec => Promise!Safe
<1>1. Init => Promise!Init /\ CauseInv
  BY DEF Init, Promise!Init, Outcome, Delivered, Ended, CauseInv
<1>2. IInv /\ CauseInv /\ [Next]_vars => CauseInv'
  BY CauseStep DEF IInv
<1>3. IInv /\ CauseInv /\ [Next]_vars => [Promise!Next]_(Promise!vars)
  BY StepKeepsPromise
<1> QED BY <1>1, <1>2, <1>3, Inductive, PTL DEF Spec, Safe, Promise!Safe
=============================================================================
