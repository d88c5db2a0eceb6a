------------------------- MODULE PayloadLoaderProofs -------------------------
(***************************************************************************)
(* Theorems about PayloadLoader for every page size, address space, set of *)
(* payloads and set of blocks that satisfies its assumptions.              *)
(***************************************************************************)
EXTENDS PayloadLoaderInv, TLAPS

\* Wrapping a value less than one turn away gives an address.
LEMMA WrapIsAddr ==
    ASSUME NEW x \in Int, -AddrLimit <= x, x < 2 * AddrLimit
    PROVE  Wrap(x) \in Addr
BY NumbersAssumption DEF Wrap, Addr

\* The distance between two addresses, wrapped, is one.
LEMMA WrapOfDifference ==
    ASSUME NEW a \in Addr, NEW b \in Addr
    PROVE  Wrap(a - b) \in Addr
BY NumbersAssumption DEF Wrap, Addr

\* The linear address of an offset is an address.
LEMMA LinIsAddr ==
    ASSUME memBase \in Addr, NEW off \in Addr
    PROVE  Lin(off) \in Addr
BY NumbersAssumption DEF Lin, Wrap, Addr

\* Rounding up to pages does not lose anything and stays a natural number.
LEMMA PageAlignBounds ==
    ASSUME NEW n \in Nat
    PROVE  PageAlign(n) \in Nat /\ PageAlign(n) >= n
BY NumbersAssumption DEF PageAlign

\* What a section of a well-formed payload looks like.
LEMMA SectionFacts ==
    ASSUME NEW p \in Payloads, NEW j \in Loads(p)
    PROVE  /\ j \in 1 .. Len(p.secs)
           /\ p.secs[j].off \in Nat
           /\ p.secs[j].vaddr \in Addr
           /\ p.secs[j].filesz \in Addr
           /\ p.secs[j].memsz \in Addr
           /\ p.secs[j].filesz <= p.secs[j].memsz
           /\ p.secs[j].vaddr + p.secs[j].memsz < AddrLimit - 1
           /\ p.coffset \in Nat
           /\ p.fileLen \in Nat
<1>1. p \in PayloadFiles /\ WellFormed(p)
  BY PayloadsAssumption
<1>2. p.secs \in Seq(Sections) /\ j \in 1 .. Len(p.secs)
  BY <1>1 DEF PayloadFiles, Loads, Secs
<1>3. p.secs[j] \in Sections
  BY <1>2
<1>4. /\ p.secs[j].filesz <= p.secs[j].memsz
      /\ p.secs[j].vaddr + p.secs[j].memsz < AddrLimit - 1
  BY <1>1 DEF WellFormed
<1>5. p.coffset \in Nat /\ p.fileLen \in Nat
  BY <1>1 DEF PayloadFiles
<1> QED
  BY <1>2, <1>3, <1>4, <1>5 DEF Sections

\* The same of the section at hand.
LEMMA SecFacts ==
    ASSUME pl \in Payloads, HasSec, Sec.load
    PROVE  /\ i \in Loads(pl)
           /\ Sec.off \in Nat
           /\ Sec.vaddr \in Addr
           /\ Sec.filesz \in Addr
           /\ Sec.memsz \in Addr
           /\ Sec.filesz <= Sec.memsz
           /\ Sec.vaddr + Sec.memsz < AddrLimit - 1
           /\ pl.coffset \in Nat
           /\ pl.fileLen \in Nat
<1>1. i \in Loads(pl)
  BY DEF HasSec, Loads, Sec
<1> QED
  BY <1>1, SectionFacts DEF Sec

\* A copy or a clearing leaves memory a function from addresses to bytes.
LEMMA FarMemType ==
    ASSUME NEW m \in [Addr -> Bytes], NEW off \in Addr, NEW src \in Nat,
           NEW n \in Nat, memBase \in Addr
    PROVE  /\ FarMemCpy(m, off, src, n) \in [Addr -> Bytes]
           /\ FarMemSet(m, off, n) \in [Addr -> Bytes]
<1>1. ASSUME NEW a \in Addr PROVE Wrap(a - Lin(off)) \in Nat
  <2>1. Lin(off) \in Addr
    BY LinIsAddr
  <2> QED
    BY <2>1, NumbersAssumption DEF Wrap, Addr
<1>2. ASSUME NEW a \in Addr
      PROVE  FarMemCpy(m, off, src, n)[a] \in Bytes
  BY <1>1 DEF FarMemCpy, Bytes
<1>3. ASSUME NEW a \in Addr
      PROVE  FarMemSet(m, off, n)[a] \in Bytes
  BY <1>1 DEF FarMemSet, Bytes
<1> QED
  BY <1>2, <1>3 DEF FarMemCpy, FarMemSet

-----------------------------------------------------------------------------
\* Every variable keeps a value of its type: no address computation of the
\* loader leaves the 32-bit range.
LEMMA TypeInit == Init => TypeOK
<1> SUFFICES ASSUME Init PROVE TypeOK
  OBVIOUS
<1>1. pl.secs \in Seq(Sections)
  BY PayloadsAssumption DEF Init, PayloadFiles
<1> QED
  BY <1>1, NumbersAssumption DEF Init, TypeOK, Places, Addr, Bytes

LEMMA TypeStep == TypeOK /\ [Next]_vars => TypeOK'
<1> SUFFICES ASSUME TypeOK, [Next]_vars PROVE TypeOK'
  OBVIOUS
<1> USE DEF TypeOK, Places, Ended
<1>0. /\ pl.secs \in Seq(Sections)
      /\ Len(pl.secs) \in Nat
  BY PayloadsAssumption DEF PayloadFiles
<1>1. CASE RefuseHeaders
  BY <1>1 DEF RefuseHeaders, scanned, placed, reading
<1>2. CASE ReadCoffHeaders
  <2>1. 3 \in Loads(pl)
    BY <1>2, PayloadsAssumption DEF ReadCoffHeaders, WellFormed
  <2>2. end' \in Addr /\ beg' \in Addr
    BY <1>2, <2>1, SectionFacts, NumbersAssumption DEF ReadCoffHeaders, Addr
  <2> QED
    BY <1>2, <2>2 DEF ReadCoffHeaders, placed, reading
<1>3. CASE ReadElfHeaders
  BY <1>3 DEF ReadElfHeaders, scanned, placed, reading
<1>4. CASE ScanPhdr
  <2>1. i' \in 1 .. Len(pl.secs) + 1
    BY <1>4, <1>0 DEF ScanPhdr, HasSec, Secs
  <2>2. beg' \in Addr /\ end' \in Addr
    <3>1. CASE Sec.load
      <4>1. Sec.vaddr \in Addr /\ Sec.memsz \in Addr
        BY <1>4, <3>1, SecFacts DEF ScanPhdr
      <4>2. Sec.vaddr + Sec.memsz \in Addr
        BY <1>4, <3>1, <4>1, SecFacts, NumbersAssumption DEF ScanPhdr, Addr
      <4> QED
        BY <1>4, <3>1, <4>1, <4>2 DEF ScanPhdr, Most
    <3>2. CASE ~Sec.load
      BY <1>4, <3>2 DEF ScanPhdr, scanned
    <3> QED
      BY <3>1, <3>2
  <2> QED
    BY <1>4, <2>1, <2>2 DEF ScanPhdr, placed, reading
<1>5. CASE RefuseAlignment
  BY <1>5 DEF RefuseAlignment, scanned, placed, reading
<1>6. CASE ScanDone
  BY <1>6 DEF ScanDone, scanned, placed, reading
<1>7. CASE Allocate
  <2>1. Most(end - beg, MinInitial) \in Nat
    BY NumbersAssumption DEF Most, Addr
  <2>2. allocSize' \in Nat
    <3>1. allocSize' = PageAlign(Most(end - beg, MinInitial))
      BY <1>7 DEF Allocate
    <3> QED
      BY <2>1, <3>1, PageAlignBounds
  <2>3. memLin' \in Addr
    BY <1>7, BlocksAssumption DEF Allocate
  <2>4. memBase' \in Addr
    <3>1. memBase' = Wrap(memLin' - beg)
      BY <1>7 DEF Allocate
    <3>2. beg \in Addr
      OBVIOUS
    <3> QED
      BY <3>1, <3>2, <2>3, WrapOfDifference
  <2> QED
    BY <1>7, <1>0, <2>2, <2>3, <2>4 DEF Allocate, scanned, reading
<1>8. CASE RefuseMemory
  BY <1>8 DEF RefuseMemory, scanned, placed, reading
<1>9. CASE SkipSection
  BY <1>9, <1>0 DEF SkipSection, scanned, placed, reading, HasSec, Secs
<1>10. CASE SeekSection
  <2>1. i \in Loads(pl) /\ pl \in Payloads
    BY <1>10 DEF SeekSection, HasSec, Loads, Sec
  <2>2. pos' \in Nat /\ done' \in Addr /\ size' \in Nat
    <3>1. Sec.filesz \in Addr /\ Sec.off \in Nat /\ pl.coffset \in Nat
      BY <2>1, SectionFacts DEF Sec
    <3> QED
      BY <1>10, <3>1, NumbersAssumption DEF SeekSection, Addr
  <2> QED
    BY <1>10, <2>2 DEF SeekSection, scanned, placed, HasSec, Sec
<1>11. CASE ReadChunk
  <2>1. i \in Loads(pl) /\ pl \in Payloads
    BY <1>11 DEF ReadChunk, HasSec, Loads, Sec
  <2> DEFINE todo == Least(size, PageSize)
             rd == Least(todo, Most(pl.fileLen - pos, 0))
  <2>2. rd \in Nat /\ rd <= size /\ rd <= PageSize
    BY <2>1, SectionFacts, NumbersAssumption DEF Least, Most
  <2>3. mem' \in [Addr -> Bytes]
    <3>1. Wrap(Sec.vaddr + done) \in Addr
      <4>1. Sec.vaddr \in Addr /\ done \in Addr
        BY <2>1, SectionFacts DEF Sec
      <4> QED
        BY <4>1, NumbersAssumption DEF Wrap, Addr
    <3>2. mem' = FarMemCpy(mem, Wrap(Sec.vaddr + done), pos, rd)
      BY <1>11 DEF ReadChunk
    <3> HIDE DEF rd
    <3> QED
      BY <3>1, <3>2, <2>2, FarMemType
  <2>4. done' \in Addr /\ size' \in Nat /\ pos' \in Nat
    <3>1. done' = Wrap(done + rd) /\ size' = size - rd /\ pos' = pos + rd
      BY <1>11 DEF ReadChunk
    <3> HIDE DEF rd
    <3> QED
      BY <3>1, <2>2, NumbersAssumption DEF Wrap, Addr
  <2>5. pc' \in {"check", "read"}
    BY <1>11 DEF ReadChunk
  <2> QED
    BY <1>11, <2>1, <2>3, <2>4, <2>5
       DEF ReadChunk, scanned, placed, HasSec, Sec, Loads
<1>12. CASE ReadError
  <2>1. done' \in Addr /\ size' \in Nat /\ ioErrs' \in 0 .. MaxIoErrors
    BY <1>12, NumbersAssumption DEF ReadError, Wrap, Addr
  <2> QED
    BY <1>12, <2>1 DEF ReadError, scanned, placed, HasSec, Sec
<1>13. CASE ReadDone
  BY <1>13 DEF ReadDone, scanned, placed, reading, HasSec, Sec
<1>14. CASE ZeroTail
  <2>1. /\ Sec.vaddr \in Addr /\ Sec.filesz \in Addr /\ Sec.memsz \in Addr
        /\ Sec.filesz <= Sec.memsz
        /\ Sec.vaddr + Sec.memsz < AddrLimit - 1
    BY <1>14, SecFacts DEF ZeroTail
  <2>2. mem' \in [Addr -> Bytes]
    <3>1. CASE Sec.memsz > Sec.filesz
      <4>1. /\ Sec.vaddr + Sec.filesz \in Addr
            /\ EvenUp(Sec.memsz - Sec.filesz) \in Nat
        BY <2>1, <3>1, NumbersAssumption DEF Addr, EvenUp
      <4>2. mem' = FarMemSet(mem, Sec.vaddr + Sec.filesz,
                             EvenUp(Sec.memsz - Sec.filesz))
        BY <1>14, <3>1 DEF ZeroTail
      <4> QED
        BY <4>1, <4>2, FarMemType
    <3>2. CASE ~(Sec.memsz > Sec.filesz)
      BY <1>14, <3>2 DEF ZeroTail
    <3> QED
      BY <3>1, <3>2
  <2>3. i' \in 1 .. Len(pl.secs) + 1
    BY <1>14, <1>0 DEF ZeroTail, HasSec, Secs
  <2> QED
    BY <1>14, <2>2, <2>3 DEF ZeroTail, scanned, placed, reading
<1>15. CASE RefuseRead
  BY <1>15 DEF RefuseRead, scanned, placed, reading
<1>16. CASE AllLoaded
  BY <1>16 DEF AllLoaded, scanned, placed, reading
<1>17. CASE UNCHANGED vars
  BY <1>17 DEF vars, HasSec, Sec
<1> QED
  BY <1>1, <1>2, <1>3, <1>4, <1>5, <1>6, <1>7, <1>8, <1>9, <1>10, <1>11,
     <1>12, <1>13, <1>14, <1>15, <1>16, <1>17 DEF Next

\* TypeOK holds in every reachable state of the loader.
THEOREM TypeCorrect == Spec => []TypeOK
<1>1. Init => TypeOK
  BY TypeInit
<1>2. TypeOK /\ [Next]_vars => TypeOK'
  BY TypeStep
<1> QED
  BY <1>1, <1>2, PTL DEF Spec, Safe

-----------------------------------------------------------------------------
(* Memory seen through the flat segment.                                   *)

\* Offsets of the segment and linear addresses correspond one to one, so a
\* distance between two addresses is the distance between the offsets.
LEMMA DistanceOfLins ==
    ASSUME memBase \in Addr, NEW off \in Addr, NEW c \in Addr
    PROVE  Wrap(Lin(c) - Lin(off)) =
             IF off <= c THEN c - off ELSE c - off + AddrLimit
BY NumbersAssumption DEF Lin, Wrap, Addr

LEMMA EvenUpBounds ==
    ASSUME NEW n \in Nat
    PROVE  /\ EvenUp(n) \in Nat
           /\ n <= EvenUp(n) /\ EvenUp(n) <= n + 1
           /\ n % 2 = 0 => EvenUp(n) = n
BY DEF EvenUp

\* What a copy leaves at offset c, and that it leaves other offsets alone.
LEMMA CopyAt ==
    ASSUME memBase \in Addr, NEW m \in [Addr -> Bytes], NEW off \in Addr,
           NEW c \in Addr, NEW src \in Nat, NEW n \in Nat,
           off + EvenUp(n) <= AddrLimit
    PROVE  /\ (off <= c /\ c < off + n) =>
                FarMemCpy(m, off, src, n)[Lin(c)] = src + (c - off)
           /\ (c < off \/ off + EvenUp(n) <= c) =>
                FarMemCpy(m, off, src, n)[Lin(c)] = m[Lin(c)]
<1>1. Lin(c) \in Addr /\ Lin(off) \in Addr
  BY LinIsAddr
<1> DEFINE k == Wrap(Lin(c) - Lin(off))
<1>2. k = IF off <= c THEN c - off ELSE c - off + AddrLimit
  BY DistanceOfLins
<1>3. FarMemCpy(m, off, src, n)[Lin(c)] =
        IF k < n THEN src + k ELSE IF k < EvenUp(n) THEN Stale ELSE m[Lin(c)]
  BY <1>1 DEF FarMemCpy
<1>4. EvenUp(n) \in Nat /\ n <= EvenUp(n)
  BY EvenUpBounds
<1> HIDE DEF k
<1>5. (off <= c /\ c < off + n) => k < n /\ k = c - off
  BY <1>2 DEF Addr
<1>6. (c < off \/ off + EvenUp(n) <= c) => ~(k < n) /\ ~(k < EvenUp(n))
  BY <1>2, <1>4, NumbersAssumption DEF Addr
<1> QED
  BY <1>3, <1>5, <1>6

LEMMA SetAt ==
    ASSUME memBase \in Addr, NEW m \in [Addr -> Bytes], NEW off \in Addr,
           NEW c \in Addr, NEW n \in Nat, off + n <= AddrLimit
    PROVE  /\ (off <= c /\ c < off + n) => FarMemSet(m, off, n)[Lin(c)] = Zero
           /\ (c < off \/ off + n <= c) =>
                FarMemSet(m, off, n)[Lin(c)] = m[Lin(c)]
<1>1. Lin(c) \in Addr /\ Lin(off) \in Addr
  BY LinIsAddr
<1> DEFINE k == Wrap(Lin(c) - Lin(off))
<1>2. k = IF off <= c THEN c - off ELSE c - off + AddrLimit
  BY DistanceOfLins
<1>3. FarMemSet(m, off, n)[Lin(c)] = IF k < n THEN Zero ELSE m[Lin(c)]
  BY <1>1 DEF FarMemSet
<1> HIDE DEF k
<1>4. (off <= c /\ c < off + n) => k < n
  BY <1>2 DEF Addr
<1>5. (c < off \/ off + n <= c) => ~(k < n)
  BY <1>2, NumbersAssumption DEF Addr
<1> QED
  BY <1>3, <1>4, <1>5

\* A store of n bytes that ends at most one byte behind the block touches the
\* block and, if it does end there, the byte behind it.
LEMMA StoreInBlock ==
    ASSUME memLin \in Addr, beg \in Addr, allocSize \in Nat,
           memBase = Wrap(memLin - beg), memLin + allocSize <= AddrLimit,
           NEW off \in Addr, beg <= off, NEW n \in Nat,
           off - beg + n <= allocSize + 1,
           NEW a \in Addr, Wrap(a - Lin(off)) < n
    PROVE  \/ a \in Block
           \/ /\ a = Wrap(memLin + allocSize)
              /\ off - beg + n = allocSize + 1
<1> DEFINE k == Wrap(a - Lin(off))
           d == off - beg
<1>1. d \in Nat /\ d <= allocSize + 1
  BY DEF Addr
<1>2. Lin(off) = Wrap(memLin + d)
  BY NumbersAssumption DEF Lin, Wrap, Addr
<1>3. Lin(off) \in Addr
  BY LinIsAddr, WrapOfDifference
<1>4. k \in Addr /\ a = Wrap(Lin(off) + k)
  BY <1>3, NumbersAssumption DEF Wrap, Addr
<1>5. k < n
  OBVIOUS
<1> HIDE DEF k, d
<1>6. d + n <= allocSize + 1
  BY DEF d
<1>7. d + k <= allocSize
  BY <1>1, <1>4, <1>5, <1>6 DEF Addr
<1>8. a = Wrap(memLin + (d + k))
  BY <1>1, <1>2, <1>4, <1>7, NumbersAssumption DEF Wrap, Addr
<1>9. CASE d + k < allocSize
  <2>1. a = memLin + (d + k)
    BY <1>8, <1>9, <1>1, <1>4, NumbersAssumption DEF Wrap, Addr
  <2> QED
    BY <2>1, <1>9, <1>1, <1>4 DEF Block, Addr
<1>10. CASE d + k = allocSize
  <2>1. n = k + 1 /\ d + n = allocSize + 1
    BY <1>10, <1>1, <1>4, <1>5, <1>6 DEF Addr
  <2> QED
    BY <2>1, <1>8, <1>10 DEF d
<1> QED
  BY <1>7, <1>9, <1>10, <1>1, <1>4 DEF Addr

-----------------------------------------------------------------------------
(* The parts of the inductive invariant, each kept by every step.          *)

\* No step exchanges the payload.
LEMMA SamePayload == [Next]_vars => pl' = pl
BY DEF Next, vars, RefuseHeaders, ReadCoffHeaders, ReadElfHeaders, ScanPhdr,
       RefuseAlignment, ScanDone, Allocate, RefuseMemory, SkipSection,
       SeekSection, ReadChunk, ReadError, ReadDone, ZeroTail, RefuseRead,
       AllLoaded

LEMMA ScanStep == TypeOK /\ ScanInv /\ [Next]_vars => ScanInv'
<1> SUFFICES ASSUME TypeOK, ScanInv, [Next]_vars, ~StartsAtZero(pl)
             PROVE  ScanInv'
  BY SamePayload DEF ScanInv
<1>0. /\ pl \in Payloads
      /\ i \in Nat /\ beg \in Addr /\ end \in Addr
  BY PayloadsAssumption DEF TypeOK, PayloadFiles
<1>1. CASE RefuseHeaders
  BY <1>1 DEF RefuseHeaders, ScanInv
<1>2. CASE ReadCoffHeaders
  <2>1. \A j \in Loads(pl) : Covered(j)'
    <3> SUFFICES ASSUME NEW j \in Loads(pl) PROVE Covered(j)'
      OBVIOUS
    <3>1. 3 \in Loads(pl) /\ j \in 1 .. 3
      BY <1>2, <1>0, PayloadsAssumption DEF ReadCoffHeaders, WellFormed
    <3>2. /\ pl.secs[j].vaddr \in Addr
          /\ pl.secs[j].memsz \in Addr
          /\ pl.secs[3].vaddr \in Addr
          /\ pl.secs[3].memsz \in Addr
      BY <1>0, <3>1, SectionFacts
    <3>3. j < 3 => pl.secs[j].vaddr + pl.secs[j].memsz <= pl.secs[3].vaddr
      BY <1>0, <3>1, PayloadsAssumption DEF WellFormed
    <3>4. /\ beg' = 0
          /\ end' = pl.secs[3].vaddr + pl.secs[3].memsz
          /\ pl' = pl
      BY <1>2 DEF ReadCoffHeaders
    <3> QED
      BY <3>1, <3>2, <3>3, <3>4 DEF Covered, Addr
  <2> QED
    BY <1>2, <2>1 DEF ReadCoffHeaders, ScanInv
<1>3. CASE ReadElfHeaders
  <2>1. \A j \in Loads(pl) : ~(j < i)
    BY <1>3, <1>0, SectionFacts DEF ReadElfHeaders, ScanInv
  <2> QED
    BY <1>3, <2>1 DEF ReadElfHeaders, ScanInv, scanned
<1>4. CASE ScanPhdr
  <2>1. \A j \in Loads(pl) : j < i => Covered(j) /\ beg > 0
    BY <1>4 DEF ScanPhdr, ScanInv
  <2>2. \A j \in Loads(pl) : j < i' => Covered(j)' /\ beg' > 0
    <3> SUFFICES ASSUME NEW j \in Loads(pl), j < i'
                 PROVE  Covered(j)' /\ beg' > 0
      OBVIOUS
    <3>1. /\ j \in Nat /\ (j < i \/ j = i)
          /\ pl.secs[j].vaddr \in Addr
          /\ pl.secs[j].memsz \in Addr
      BY <1>4, <1>0, SectionFacts DEF ScanPhdr
    <3>2. CASE ~Sec.load
      <4>1. j # i
        BY <3>2 DEF Loads, Sec
      <4> QED
        BY <1>4, <3>1, <3>2, <2>1, <4>1 DEF ScanPhdr, scanned, Covered
    <3>3. CASE Sec.load
      <4>1. /\ Sec.vaddr \in Addr /\ Sec.memsz \in Addr
            /\ i \in Loads(pl)
        BY <1>4, <1>0, <3>3, SecFacts DEF ScanPhdr
      <4>2. Sec.vaddr > 0
        BY <1>4, <4>1 DEF ScanPhdr, ScanInv, StartsAtZero, Sec, Addr
      <4>3. /\ beg' = IF Sec.vaddr < beg \/ beg = 0 THEN Sec.vaddr ELSE beg
            /\ end' = Most(end, Sec.vaddr + Sec.memsz)
            /\ pl' = pl
        BY <1>4, <3>3 DEF ScanPhdr
      <4>4. CASE j < i
        <5>1. Covered(j) /\ beg > 0
          BY <2>1, <4>4
        <5> QED
          BY <1>0, <3>1, <4>1, <4>2, <4>3, <5>1 DEF Covered, Most, Addr
      <4>5. CASE j = i
        BY <1>0, <4>1, <4>2, <4>3, <4>5 DEF Covered, Most, Addr, Sec
      <4> QED
        BY <3>1, <4>4, <4>5
    <3> QED
      BY <3>2, <3>3
  <2> QED
    BY <1>4, <2>2 DEF ScanPhdr, ScanInv
<1>5. CASE RefuseAlignment
  BY <1>5 DEF RefuseAlignment, ScanInv
<1>6. CASE ScanDone
  <2>1. \A j \in Loads(pl) : j < i
    BY <1>6, <1>0, SectionFacts, PayloadsAssumption
       DEF ScanDone, HasSec, Secs, TypeOK, PayloadFiles
  <2> QED
    BY <1>6, <2>1 DEF ScanDone, ScanInv, scanned, Covered
<1>7. CASE Allocate
  BY <1>7 DEF Allocate, ScanInv, scanned, Covered
<1>8. CASE RefuseMemory
  BY <1>8 DEF RefuseMemory, ScanInv
<1>9. CASE SkipSection
  BY <1>9 DEF SkipSection, ScanInv, scanned, Covered
<1>10. CASE SeekSection
  BY <1>10 DEF SeekSection, ScanInv, scanned, Covered
<1>11. CASE ReadChunk
  BY <1>11 DEF ReadChunk, ScanInv, scanned, Covered
<1>12. CASE ReadError
  BY <1>12 DEF ReadError, ScanInv, scanned, Covered
<1>13. CASE ReadDone
  BY <1>13 DEF ReadDone, ScanInv, scanned, Covered
<1>14. CASE ZeroTail
  BY <1>14 DEF ZeroTail, ScanInv, scanned, Covered
<1>15. CASE RefuseRead
  BY <1>15 DEF RefuseRead, ScanInv
<1>16. CASE AllLoaded
  BY <1>16 DEF AllLoaded, ScanInv
<1>17. CASE UNCHANGED vars
  BY <1>17 DEF vars, ScanInv, Covered
<1> QED
  BY <1>1, <1>2, <1>3, <1>4, <1>5, <1>6, <1>7, <1>8, <1>9, <1>10, <1>11,
     <1>12, <1>13, <1>14, <1>15, <1>16, <1>17 DEF Next

LEMMA PlaceStep == TypeOK /\ PlaceInv /\ [Next]_vars => PlaceInv'
<1> SUFFICES ASSUME TypeOK, PlaceInv, [Next]_vars PROVE PlaceInv'
  OBVIOUS
<1>1. CASE Allocate
  <2>1. Most(end - beg, MinInitial) \in Nat /\ Most(end - beg, MinInitial) >= end - beg
    BY NumbersAssumption DEF Most, Addr, TypeOK
  <2>2. /\ allocSize' = PageAlign(Most(end - beg, MinInitial))
        /\ memBase' = Wrap(memLin' - beg)
        /\ memLin' + allocSize' <= AddrLimit
        /\ beg' = beg /\ end' = end
    BY <1>1 DEF Allocate, scanned
  <2>3. allocSize' \in Nat /\ allocSize' >= Most(end - beg, MinInitial)
    BY <2>1, <2>2, PageAlignBounds
  <2>4. allocSize' >= end' - beg'
    BY <2>1, <2>2, <2>3 DEF TypeOK, Addr
  <2>5. memBase' = Wrap(memLin' - beg')
    BY <2>2
  <2> QED
    BY <2>2, <2>4, <2>5 DEF PlaceInv, Wrap
<1>2. CASE UNCHANGED <<scanned, placed>> /\ (pc' \in {"load", "read", "check", "loaded"} => pc \in {"load", "read", "check", "loaded"})
  BY <1>2 DEF PlaceInv, scanned, placed, Wrap
<1>3. CASE pc' \notin {"load", "read", "check", "loaded"}
  BY <1>3 DEF PlaceInv
<1> QED
  BY <1>1, <1>2, <1>3
     DEF Next, vars, RefuseHeaders, ReadCoffHeaders, ReadElfHeaders, ScanPhdr,
         RefuseAlignment, ScanDone, RefuseMemory, SkipSection, SeekSection,
         ReadChunk, ReadError, ReadDone, ZeroTail, RefuseRead, AllLoaded,
         scanned, placed

LEMMA UntouchedStep == Untouched /\ [Next]_vars => Untouched'
BY DEF Untouched, Next, vars, RefuseHeaders, ReadCoffHeaders, ReadElfHeaders,
       ScanPhdr, RefuseAlignment, ScanDone, Allocate, RefuseMemory,
       SkipSection, SeekSection, ReadChunk, ReadError, ReadDone, ZeroTail,
       RefuseRead, AllLoaded

\* One chunk: how much is read, and what that does to the counters.
LEMMA ChunkFacts ==
    ASSUME TypeOK, LoopInv, ReadChunk, ioErrs = 0
    PROVE  \E rd \in Nat :
             /\ rd <= size
             /\ mem' = FarMemCpy(mem, Sec.vaddr + done, pos, rd)
             /\ done' = done + rd
             /\ size' = size - rd
             /\ pos' = pos + rd
             /\ done % 2 = 0
             /\ pc' = "read" => size' = 0 \/ done' % 2 = 0
<1> DEFINE todo == Least(size, PageSize)
           rd == Least(todo, Most(pl.fileLen - pos, 0))
<1>1. /\ Sec.vaddr \in Addr /\ Sec.filesz \in Addr
      /\ Sec.filesz <= Sec.memsz /\ Sec.memsz \in Addr
      /\ Sec.vaddr + Sec.memsz < AddrLimit - 1
      /\ pl.fileLen \in Nat
  BY SecFacts DEF TypeOK, ReadChunk
<1>2. /\ done + size = Sec.filesz
      /\ done % 2 = 0
      /\ done \in Nat /\ size \in Nat /\ size > 0 /\ pos \in Nat
  BY NumbersAssumption DEF ReadChunk, LoopInv, TypeOK, Addr
<1>3. /\ rd \in Nat /\ rd <= size /\ todo \in Nat
      /\ rd <= todo /\ (todo = size \/ todo = PageSize)
  BY <1>1, <1>2, NumbersAssumption DEF Least, Most
<1>4. /\ mem' = FarMemCpy(mem, Wrap(Sec.vaddr + done), pos, rd)
      /\ done' = Wrap(done + rd)
      /\ size' = size - rd
      /\ pos' = pos + rd
      /\ pc' = IF rd < todo THEN "check" ELSE "read"
  BY DEF ReadChunk
<1> HIDE DEF rd, todo
<1>5. Wrap(Sec.vaddr + done) = Sec.vaddr + done
  BY <1>1, <1>2, NumbersAssumption DEF Wrap, Addr
<1>6. Wrap(done + rd) = done + rd
  BY <1>1, <1>2, <1>3, NumbersAssumption DEF Wrap, Addr
<1>7. pc' = "read" => size' = 0 \/ done' % 2 = 0
  <2> SUFFICES ASSUME pc' = "read", size' # 0 PROVE done' % 2 = 0
    OBVIOUS
  <2>1. rd = PageSize
    BY <1>3, <1>4, <1>2
  <2>2. (done + PageSize) % 2 = 0
    BY <1>2, NumbersAssumption
  <2> QED
    BY <1>4, <1>6, <2>1, <2>2
<1> QED
  BY <1>2, <1>3, <1>4, <1>5, <1>6, <1>7

LEMMA LoopStep == TypeOK /\ LoopInv /\ [Next]_vars => LoopInv'
<1> SUFFICES ASSUME TypeOK, LoopInv, [Next]_vars, ioErrs' = 0
             PROVE  LoopInv'
  BY DEF LoopInv
<1>1. CASE SeekSection
  <2>1. Sec.filesz \in Addr /\ pl.coffset + Sec.off \in Nat
    <3>1. pl \in Payloads /\ HasSec /\ Sec.load
      BY <1>1 DEF TypeOK, SeekSection
    <3>2. Sec.filesz \in Addr /\ Sec.off \in Nat /\ pl.coffset \in Nat
      BY <3>1, SecFacts
    <3> QED
      BY <3>2
  <2>2. Sec' = Sec
    BY <1>1 DEF SeekSection, Sec
  <2> QED
    BY <1>1, <2>1, <2>2 DEF SeekSection, LoopInv, Addr
<1>2. CASE ReadChunk
  <2>1. ioErrs = 0 /\ Sec' = Sec /\ pl' = pl
    BY <1>2 DEF ReadChunk, Sec
  <2>2. PICK rd \in Nat :
             /\ rd <= size
             /\ done' = done + rd
             /\ size' = size - rd
             /\ pos' = pos + rd
             /\ pc' = "read" => size' = 0 \/ done' % 2 = 0
    BY <1>2, <2>1, ChunkFacts
  <2>3. /\ done + size = Sec.filesz
        /\ pos = pl.coffset + Sec.off + done
    BY <1>2, <2>1 DEF LoopInv, ReadChunk
  <2>4. /\ Sec.filesz \in Nat /\ done \in Nat /\ size \in Nat
        /\ pl.coffset + Sec.off \in Nat
    <3>1. /\ Sec.filesz \in Addr /\ Sec.off \in Nat /\ pl.coffset \in Nat
          /\ done \in Addr /\ size \in Nat
      BY <1>2, SecFacts DEF TypeOK, ReadChunk
    <3> QED
      BY <3>1 DEF Addr
  <2>5. /\ done' + size' = Sec.filesz
        /\ pos' = pl.coffset + Sec.off + done'
        /\ done' <= Sec.filesz
    BY <2>2, <2>3, <2>4
  <2> QED
    BY <2>1, <2>2, <2>5 DEF LoopInv
<1>3. CASE ReadError
  BY <1>3 DEF ReadError, TypeOK
<1>4. CASE ReadDone
  <2>1. /\ Sec' = Sec /\ done' = done /\ pc' = "check"
        /\ done + size = Sec.filesz /\ size = 0
    BY <1>4 DEF ReadDone, LoopInv, reading, Sec
  <2>2. done \in Nat
    BY DEF TypeOK, Addr
  <2> QED
    BY <2>1, <2>2 DEF LoopInv
<1>5. CASE UNCHANGED vars
  BY <1>5 DEF vars, LoopInv, Sec
<1>6. CASE pc' \notin {"read", "check"}
  BY <1>6 DEF LoopInv
<1> QED
  BY <1>1, <1>2, <1>3, <1>4, <1>5, <1>6
     DEF Next, RefuseHeaders, ReadCoffHeaders, ReadElfHeaders, ScanPhdr,
         RefuseAlignment, ScanDone, Allocate, RefuseMemory, SkipSection,
         ZeroTail, RefuseRead, AllLoaded, TypeOK

\* Sections below i are found at their place, and this only depends on the
\* memory at their offsets.
LEMMA SectionKept ==
    ASSUME NEW j \in Loads(pl), SectionInPlace(j), pl' = pl, memBase' = memBase,
           \A c \in Addr : c < pl.secs[j].vaddr + pl.secs[j].memsz
                              => mem'[Lin(c)] = mem[Lin(c)],
           pl \in Payloads
    PROVE  SectionInPlace(j)'
<1>1. /\ pl.secs[j].vaddr \in Addr /\ pl.secs[j].memsz \in Addr
      /\ pl.secs[j].vaddr + pl.secs[j].memsz < AddrLimit - 1
  BY SectionFacts
<1>2. ASSUME NEW k \in Addr, k < pl.secs[j].memsz
      PROVE  mem'[Lin(pl.secs[j].vaddr + k)] = SectionByte(pl, j, k)
  <2>1. /\ pl.secs[j].vaddr + k \in Addr
        /\ pl.secs[j].vaddr + k < pl.secs[j].vaddr + pl.secs[j].memsz
    BY <1>1, <1>2, NumbersAssumption DEF Addr
  <2>2. mem[Lin(pl.secs[j].vaddr + k)] = SectionByte(pl, j, k)
    BY <1>2 DEF SectionInPlace
  <2> QED
    BY <2>1, <2>2
<1>3. \A c : Lin(c)' = Lin(c)
  BY DEF Lin, Wrap
<1> QED
  BY <1>2, <1>3 DEF SectionInPlace, SectionByte

\* The steps of the load loop that store nothing and do not advance i.
LEMMA SectionsSame ==
    ASSUME pl' = pl, memBase' = memBase, mem' = mem,
           NEW j \in Loads(pl), SectionInPlace(j)
    PROVE  SectionInPlace(j)'
BY DEF SectionInPlace, SectionByte, Lin, Wrap

LEMMA SectionsStep ==
    TypeOK /\ LoopInv /\ SectionsInv /\ [Next]_vars => SectionsInv'
<1> SUFFICES ASSUME TypeOK, LoopInv, SectionsInv, [Next]_vars, ioErrs' = 0
             PROVE  SectionsInv'
  BY DEF SectionsInv
<1>0. /\ pl \in Payloads /\ pl' = pl
      /\ memBase \in Addr /\ mem \in [Addr -> Bytes]
      /\ i \in Nat
  BY SamePayload, PayloadsAssumption DEF TypeOK, PayloadFiles
<1>1. CASE Allocate
  BY <1>1, <1>0, SectionFacts DEF Allocate, SectionsInv
<1>2. CASE SkipSection
  <2>1. /\ ioErrs = 0 /\ pc = "load" /\ pc' = "load" /\ i' = i + 1 /\ ~Sec.load
        /\ memBase' = memBase /\ mem' = mem
    BY <1>2 DEF SkipSection, placed
  <2>2. ASSUME NEW j \in Loads(pl), j < i' PROVE SectionInPlace(j)'
    <3>1. j < i
      BY <2>1, <2>2, <1>0, SectionFacts DEF Loads, Sec
    <3>2. SectionInPlace(j)
      BY <2>1, <3>1 DEF SectionsInv
    <3> QED
      BY <3>2, <2>1, <1>0, SectionsSame
  <2> QED
    BY <2>1, <2>2, <1>0 DEF SectionsInv
<1>3. CASE SeekSection
  <2>1. /\ ioErrs = 0 /\ pc = "load" /\ pc' = "read" /\ i' = i /\ done' = 0
        /\ memBase' = memBase /\ mem' = mem
    BY <1>3 DEF SeekSection, placed
  <2>2. ASSUME NEW j \in Loads(pl), j < i' PROVE SectionInPlace(j)'
    <3>1. SectionInPlace(j)
      BY <2>1, <2>2 DEF SectionsInv
    <3> QED
      BY <3>1, <2>1, <1>0, SectionsSame
  <2> QED
    BY <2>1, <2>2, <1>0 DEF SectionsInv, Addr
<1>4. CASE ReadChunk
  <2>1. /\ ioErrs = 0 /\ pc = "read" /\ pc' \in {"read", "check"}
        /\ i' = i /\ memBase' = memBase /\ Sec' = Sec
    BY <1>4 DEF ReadChunk, placed, Sec
  <2>2. /\ i \in Loads(pl)
        /\ Sec.vaddr \in Addr /\ Sec.filesz \in Addr /\ Sec.off \in Nat
        /\ Sec.filesz <= Sec.memsz /\ Sec.memsz \in Addr
        /\ Sec.vaddr + Sec.memsz < AddrLimit - 1
        /\ pl.coffset \in Nat
    BY <1>4, SecFacts DEF TypeOK, ReadChunk
  <2>3. PICK rd \in Nat :
             /\ rd <= size
             /\ mem' = FarMemCpy(mem, Sec.vaddr + done, pos, rd)
             /\ done' = done + rd
    BY <1>4, <2>1, ChunkFacts
  <2>4. /\ done + size = Sec.filesz
        /\ pos = pl.coffset + Sec.off + done
        /\ done \in Nat /\ size \in Nat /\ pos \in Nat
    BY <2>1 DEF LoopInv, TypeOK, Addr
  <2>5. /\ Sec.vaddr + done \in Addr
        /\ Sec.vaddr + done + EvenUp(rd) <= AddrLimit
    BY <2>2, <2>3, <2>4, EvenUpBounds, NumbersAssumption DEF Addr
  <2>6. ASSUME NEW c \in Addr, c < Sec.vaddr + done
        PROVE  mem'[Lin(c)] = mem[Lin(c)]
    BY <2>3, <2>4, <2>5, <2>6, <1>0, CopyAt
  <2>7. ASSUME NEW j \in Loads(pl), j < i' PROVE SectionInPlace(j)'
    <3>1. SectionInPlace(j)
      BY <2>1, <2>7 DEF SectionsInv
    <3>2. pl.secs[j].vaddr + pl.secs[j].memsz <= Sec.vaddr
      BY <2>1, <2>2, <2>7, <1>0, PayloadsAssumption DEF WellFormed, Sec
    <3>3. pl.secs[j].vaddr \in Nat /\ pl.secs[j].memsz \in Nat
      BY <1>0, SectionFacts DEF Addr
    <3>4. ASSUME NEW c \in Addr, c < pl.secs[j].vaddr + pl.secs[j].memsz
          PROVE  c < Sec.vaddr + done
      BY <3>2, <3>3, <3>4, <2>2, <2>4 DEF Addr
    <3>5. \A c \in Addr : c < pl.secs[j].vaddr + pl.secs[j].memsz
                              => mem'[Lin(c)] = mem[Lin(c)]
      BY <3>4, <2>6
    <3> QED
      BY <3>1, <3>5, <2>1, <1>0, SectionKept
  <2>8. ASSUME NEW k \in Addr, k < done'
        PROVE  mem'[Lin(Sec.vaddr + k)] = pl.coffset + Sec.off + k
    <3>1. Sec.vaddr + k \in Addr
      BY <2>2, <2>3, <2>4, <2>8, NumbersAssumption DEF Addr
    <3>2. CASE k < done
      <4>1. mem[Lin(Sec.vaddr + k)] = pl.coffset + Sec.off + k
        BY <2>1, <3>2 DEF SectionsInv
      <4>2. Sec.vaddr + k < Sec.vaddr + done
        BY <3>2, <2>2, <2>4 DEF Addr
      <4> QED
        BY <4>1, <4>2, <3>1, <2>6
    <3>3. CASE ~(k < done)
      <4>1. /\ Sec.vaddr + done <= Sec.vaddr + k
            /\ Sec.vaddr + k < Sec.vaddr + done + rd
        BY <3>3, <2>2, <2>3, <2>4, <2>8 DEF Addr
      <4>2. mem'[Lin(Sec.vaddr + k)]
              = pos + ((Sec.vaddr + k) - (Sec.vaddr + done))
        BY <4>1, <3>1, <2>3, <2>4, <2>5, <1>0, CopyAt
      <4> QED
        BY <4>2, <2>2, <2>4 DEF Addr
    <3> QED
      BY <3>2, <3>3
  <2>9. \A c : Lin(c)' = Lin(c)
    BY <2>1 DEF Lin, Wrap
  <2> QED
    BY <2>1, <2>7, <2>8, <2>9, <1>0 DEF SectionsInv
<1>5. CASE ReadError
  BY <1>5 DEF ReadError, TypeOK
<1>6. CASE ReadDone
  <2>1. /\ ioErrs = 0 /\ pc = "read" /\ pc' = "check" /\ i' = i
        /\ memBase' = memBase /\ mem' = mem /\ done' = done /\ Sec' = Sec
    BY <1>6 DEF ReadDone, placed, reading, Sec
  <2>2. ASSUME NEW j \in Loads(pl), j < i' PROVE SectionInPlace(j)'
    <3>1. SectionInPlace(j)
      BY <2>1, <2>2 DEF SectionsInv
    <3> QED
      BY <3>1, <2>1, <1>0, SectionsSame
  <2>3. \A c : Lin(c)' = Lin(c)
    BY <2>1 DEF Lin, Wrap
  <2> QED
    BY <2>1, <2>2, <2>3, <1>0 DEF SectionsInv
<1>7. CASE ZeroTail
  <2>1. /\ ioErrs = 0 /\ pc = "check" /\ pc' = "load" /\ i' = i + 1
        /\ memBase' = memBase /\ done = Sec.filesz
    BY <1>7 DEF ZeroTail, placed
  <2>2. /\ i \in Loads(pl)
        /\ Sec.vaddr \in Addr /\ Sec.filesz \in Addr /\ Sec.off \in Nat
        /\ Sec.filesz <= Sec.memsz /\ Sec.memsz \in Addr
        /\ Sec.vaddr + Sec.memsz < AddrLimit - 1
        /\ pl.coffset \in Nat
    BY <1>7, SecFacts DEF TypeOK, ZeroTail
  <2> DEFINE off == Sec.vaddr + Sec.filesz
             n == EvenUp(Sec.memsz - Sec.filesz)
  <2>3. /\ off \in Addr /\ n \in Nat /\ off + n <= AddrLimit
        /\ Sec.vaddr + Sec.memsz <= off + n
    BY <2>2, NumbersAssumption DEF Addr, EvenUp
  <2>4. /\ Sec.memsz > Sec.filesz => mem' = FarMemSet(mem, off, n)
        /\ ~(Sec.memsz > Sec.filesz) => mem' = mem
    BY <1>7 DEF ZeroTail
  <2> HIDE DEF n
  <2>5. ASSUME NEW c \in Addr, c < off
        PROVE  mem'[Lin(c)] = mem[Lin(c)]
    BY <2>3, <2>4, <2>5, <1>0, SetAt
  <2>6. ASSUME NEW j \in Loads(pl), j < i PROVE SectionInPlace(j)'
    <3>1. SectionInPlace(j)
      BY <2>1, <2>6 DEF SectionsInv
    <3>2. pl.secs[j].vaddr + pl.secs[j].memsz <= Sec.vaddr
      BY <2>2, <2>6, <1>0, PayloadsAssumption DEF WellFormed, Sec
    <3>3. pl.secs[j].vaddr \in Nat /\ pl.secs[j].memsz \in Nat
      BY <1>0, SectionFacts DEF Addr
    <3>4. ASSUME NEW c \in Addr, c < pl.secs[j].vaddr + pl.secs[j].memsz
          PROVE  c < off
      BY <3>2, <3>3, <3>4, <2>2 DEF Addr
    <3>5. \A c \in Addr : c < pl.secs[j].vaddr + pl.secs[j].memsz
                              => mem'[Lin(c)] = mem[Lin(c)]
      BY <3>4, <2>5
    <3> QED
      BY <3>1, <3>5, <2>1, <1>0, SectionKept
  <2>7. ASSUME NEW k \in Addr, k < Sec.memsz
        PROVE  mem'[Lin(Sec.vaddr + k)] = SectionByte(pl, i, k)
    <3>1. Sec.vaddr + k \in Addr
      BY <2>2, <2>7, NumbersAssumption DEF Addr
    <3>2. CASE k < Sec.filesz
      <4>1. mem[Lin(Sec.vaddr + k)] = pl.coffset + Sec.off + k
        BY <2>1, <3>2 DEF SectionsInv
      <4>2. Sec.vaddr + k < off
        BY <3>2, <2>2 DEF Addr
      <4> QED
        BY <4>1, <4>2, <3>1, <3>2, <2>5 DEF SectionByte, Sec
    <3>3. CASE ~(k < Sec.filesz)
      <4>1. /\ Sec.memsz > Sec.filesz
            /\ off <= Sec.vaddr + k /\ Sec.vaddr + k < off + n
        BY <3>3, <2>2, <2>3, <2>7 DEF Addr
      <4>2. mem'[Lin(Sec.vaddr + k)] = Zero
        BY <4>1, <3>1, <2>3, <2>4, <1>0, SetAt
      <4> QED
        BY <4>2, <3>3 DEF SectionByte, Sec
    <3> QED
      BY <3>2, <3>3
  <2>8. ASSUME NEW j \in Loads(pl), j = i PROVE SectionInPlace(j)'
    <3>1. \A c : Lin(c)' = Lin(c)
      BY <2>1 DEF Lin, Wrap
    <3>2. \A k \in Addr : k < pl.secs[j].memsz =>
            mem'[Lin(pl.secs[j].vaddr + k)] = SectionByte(pl, j, k)
      BY <2>7, <2>8 DEF Sec
    <3> QED
      BY <3>1, <3>2, <1>0, <2>1 DEF SectionInPlace, SectionByte
  <2>9. ASSUME NEW j \in Loads(pl), j < i' PROVE SectionInPlace(j)'
    <3>1. j < i \/ j = i
      BY <2>1, <2>9, <1>0, SectionFacts
    <3> QED
      BY <3>1, <2>6, <2>8
  <2> QED
    BY <2>1, <2>9, <1>0 DEF SectionsInv
<1>8. CASE AllLoaded
  <2>1. /\ ioErrs = 0 /\ pc = "load" /\ pc' = "loaded" /\ i' = i
        /\ memBase' = memBase /\ mem' = mem
    BY <1>8 DEF AllLoaded, placed
  <2>2. ASSUME NEW j \in Loads(pl), j < i' PROVE SectionInPlace(j)'
    <3>1. SectionInPlace(j)
      BY <2>1, <2>2 DEF SectionsInv
    <3> QED
      BY <3>1, <2>1, <1>0, SectionsSame
  <2>3. i = Len(pl.secs) + 1
    <3>1. pl.secs \in Seq(Sections)
      BY <1>0, PayloadsAssumption DEF PayloadFiles
    <3> QED
      BY <1>8, <3>1 DEF AllLoaded, HasSec, Secs, TypeOK
  <2> QED
    BY <2>1, <2>2, <2>3, <1>0 DEF SectionsInv
<1>9. CASE UNCHANGED vars
  BY <1>9 DEF vars, SectionsInv, SectionInPlace, SectionByte, Lin, Wrap, Sec
<1>10. CASE pc' \notin {"load", "read", "check", "loaded"}
  BY <1>10 DEF SectionsInv
<1> QED
  BY <1>1, <1>2, <1>3, <1>4, <1>5, <1>6, <1>7, <1>8, <1>9, <1>10
     DEF Next, RefuseHeaders, ReadCoffHeaders, ReadElfHeaders, ScanPhdr,
         RefuseAlignment, ScanDone, RefuseMemory, RefuseRead, TypeOK

\* What a store at an offset of the image may change, in terms of the block.
LEMMA StoreKeepsBlockSafe ==
    ASSUME TypeOK, PlaceInv, pc \in {"read", "check"},
           NEW off \in Addr, beg <= off, NEW n \in Nat,
           off - beg + n <= allocSize + 1,
           off - beg + n = allocSize + 1 => ~TailFits(pl),
           NEW a \in Addr, Wrap(a - Lin(off)) < n
    PROVE  a \in Block \/ (~TailFits(pl) /\ a = Wrap(memLin + allocSize))
BY StoreInBlock DEF TypeOK, PlaceInv

LEMMA BlockStep ==
    TypeOK /\ ScanInv /\ PlaceInv /\ LoopInv /\ Untouched /\ BlockSafe
        /\ [Next]_vars => BlockSafe'
<1> SUFFICES ASSUME TypeOK, ScanInv, PlaceInv, LoopInv, Untouched, BlockSafe,
                    [Next]_vars, ioErrs' = 0, ~StartsAtZero(pl)
             PROVE  BlockSafe'
  BY SamePayload DEF BlockSafe
<1>0. /\ pl \in Payloads /\ pl' = pl
      /\ mem \in [Addr -> Bytes]
  BY SamePayload DEF TypeOK
<1>1. CASE ReadChunk
  <2>1. /\ ioErrs = 0 /\ pc = "read" /\ UNCHANGED <<scanned, placed>>
        /\ done + size = Sec.filesz
        /\ done \in Nat /\ size \in Nat /\ pos \in Nat
    BY <1>1 DEF ReadChunk, LoopInv, TypeOK, Addr
  <2>2. /\ i \in Loads(pl)
        /\ Sec.vaddr \in Addr /\ Sec.filesz \in Addr
        /\ Sec.filesz <= Sec.memsz /\ Sec.memsz \in Addr
        /\ Sec.vaddr + Sec.memsz < AddrLimit - 1
    BY <1>1, SecFacts DEF TypeOK, ReadChunk
  <2>3. PICK rd \in Nat :
             /\ rd <= size
             /\ mem' = FarMemCpy(mem, Sec.vaddr + done, pos, rd)
             /\ done % 2 = 0
    BY <1>1, <2>1, ChunkFacts
  <2>4. beg <= Sec.vaddr /\ Sec.vaddr + Sec.memsz <= end
    BY <2>1, <2>2 DEF ScanInv, Covered, Sec
  <2>5. allocSize >= end - beg /\ allocSize \in Nat /\ beg \in Addr /\ end \in Addr
    BY <2>1 DEF PlaceInv, TypeOK
  <2> DEFINE off == Sec.vaddr + done
             n == EvenUp(rd)
  <2>6. /\ off \in Addr /\ beg <= off /\ n \in Nat
        /\ off - beg + n <= allocSize + 1
    BY <2>1, <2>2, <2>3, <2>4, <2>5, EvenUpBounds, NumbersAssumption DEF Addr
  <2>7. off - beg + n = allocSize + 1 => ~TailFits(pl)
    <3> SUFFICES ASSUME off - beg + n = allocSize + 1 PROVE ~TailFits(pl)
      OBVIOUS
    <3>1. rd = size /\ n = rd + 1 /\ Sec.memsz = Sec.filesz
      <4>1. n \in Nat /\ n <= rd + 1
        BY <2>3, EvenUpBounds
      <4> HIDE DEF n
      <4> QED
        BY <4>1, <2>1, <2>2, <2>3, <2>4, <2>5 DEF Addr
    <3>2. done + n = EvenUp(Sec.filesz)
      <4>1. Sec.filesz = done + rd /\ rd % 2 = 1
        BY <3>1, <2>1, <2>3 DEF EvenUp
      <4> QED
        BY <4>1, <3>1, <2>1, <2>3 DEF EvenUp
    <3>3. StoreEnd(Sec) - beg = allocSize + 1
      BY <3>1, <3>2, <2>1, <2>2, <2>5, <2>6 DEF StoreEnd, Addr
    <3> QED
      BY <3>3, <2>2, <2>5 DEF TailFits, Sec
  <2>8. ASSUME NEW a \in Addr, mem'[a] # Junk
        PROVE  a \in Block \/ (~TailFits(pl) /\ a = Wrap(memLin + allocSize))
    <3>1. CASE mem[a] # Junk
      BY <3>1, <2>1 DEF BlockSafe
    <3>2. CASE mem[a] = Junk
      <4>1. Wrap(a - Lin(off)) < n
        <5>1. rd <= n /\ Wrap(a - Lin(off)) \in Addr
          BY <2>3, <2>6, EvenUpBounds, LinIsAddr, WrapOfDifference DEF TypeOK
        <5>2. mem'[a] = IF Wrap(a - Lin(off)) < rd THEN pos + Wrap(a - Lin(off))
                        ELSE IF Wrap(a - Lin(off)) < n THEN Stale ELSE mem[a]
          BY <2>3 DEF FarMemCpy
        <5> QED
          BY <5>1, <5>2, <3>2, <2>8, <2>3, <2>6 DEF Addr
      <4> HIDE DEF off, n
      <4> QED
        BY <4>1, <2>1, <2>6, <2>7, StoreKeepsBlockSafe
    <3> QED
      BY <3>1, <3>2
  <2> QED
    BY <2>1, <2>8, <1>0 DEF BlockSafe, Block, TailFits, StoreEnd, EvenUp, Wrap,
                            scanned, placed
<1>2. CASE ZeroTail
  <2>1. /\ ioErrs = 0 /\ pc = "check" /\ UNCHANGED <<scanned, placed>>
    BY <1>2 DEF ZeroTail
  <2>2. /\ i \in Loads(pl)
        /\ Sec.vaddr \in Addr /\ Sec.filesz \in Addr
        /\ Sec.filesz <= Sec.memsz /\ Sec.memsz \in Addr
        /\ Sec.vaddr + Sec.memsz < AddrLimit - 1
    BY <1>2, SecFacts DEF TypeOK, ZeroTail
  <2>4. beg <= Sec.vaddr /\ Sec.vaddr + Sec.memsz <= end
    BY <2>1, <2>2 DEF ScanInv, Covered, Sec
  <2>5. allocSize >= end - beg /\ allocSize \in Nat /\ beg \in Addr /\ end \in Addr
    BY <2>1 DEF PlaceInv, TypeOK
  <2> DEFINE off == Sec.vaddr + Sec.filesz
             n == EvenUp(Sec.memsz - Sec.filesz)
  <2>8. ASSUME NEW a \in Addr, mem'[a] # Junk
        PROVE  a \in Block \/ (~TailFits(pl) /\ a = Wrap(memLin + allocSize))
    <3>1. CASE mem[a] # Junk
      BY <3>1, <2>1 DEF BlockSafe
    <3>2. CASE mem[a] = Junk
      <4>1. Sec.memsz > Sec.filesz /\ mem' = FarMemSet(mem, off, n)
        BY <1>2, <3>2, <2>8 DEF ZeroTail
      <4>2. Wrap(a - Lin(off)) < n
        BY <4>1, <3>2, <2>8 DEF FarMemSet
      <4>3. /\ off \in Addr /\ beg <= off /\ n \in Nat
            /\ off - beg + n <= allocSize + 1
        BY <2>2, <2>4, <2>5, EvenUpBounds, NumbersAssumption DEF Addr
      <4>4. off - beg + n = allocSize + 1 => ~TailFits(pl)
        <5>1. StoreEnd(Sec) = off + n
          BY <4>1 DEF StoreEnd
        <5> HIDE DEF n
        <5> QED
          BY <5>1, <4>3, <2>2, <2>5 DEF TailFits, Sec, Addr
      <4> HIDE DEF off, n
      <4> QED
        BY <4>2, <4>3, <4>4, <2>1, StoreKeepsBlockSafe
    <3> QED
      BY <3>1, <3>2
  <2> QED
    BY <2>1, <2>8, <1>0 DEF BlockSafe, Block, TailFits, StoreEnd, EvenUp, Wrap,
                            scanned, placed
<1>3. CASE pc' \in {"headers", "scan", "alloc"} \/ Allocate
  <2>1. mem' = [a \in Addr |-> Junk]
    BY <1>3, UntouchedStep DEF Untouched, Allocate
  <2> QED
    BY <2>1 DEF BlockSafe
<1>4. CASE UNCHANGED <<pl, scanned, placed, mem, ioErrs>>
  BY <1>4 DEF BlockSafe, Block, TailFits, StoreEnd, EvenUp, Wrap, scanned, placed
<1>5. CASE ReadError
  BY <1>5 DEF ReadError, TypeOK
<1> QED
  BY <1>1, <1>2, <1>3, <1>4, <1>5
     DEF Next, vars, RefuseHeaders, ReadCoffHeaders, ReadElfHeaders, ScanPhdr,
         RefuseAlignment, ScanDone, RefuseMemory, SkipSection, SeekSection,
         ReadDone, RefuseRead, AllLoaded, scanned, placed

-----------------------------------------------------------------------------
LEMMA InductiveInit == Init => IInv
<1> SUFFICES ASSUME Init PROVE IInv
  OBVIOUS
<1> QED
  BY TypeInit DEF Init, IInv, ScanInv, PlaceInv, LoopInv, Untouched,
                  SectionsInv, BlockSafe

LEMMA InductiveStep == IInv /\ [Next]_vars => IInv'
BY TypeStep, ScanStep, PlaceStep, LoopStep, UntouchedStep, SectionsStep,
   BlockStep DEF IInv

\* The inductive invariant holds in every reachable state.
THEOREM Inductive == Spec => []IInv
<1>1. Init => IInv
  BY InductiveInit
<1>2. IInv /\ [Next]_vars => IInv'
  BY InductiveStep
<1> QED
  BY <1>1, <1>2, PTL DEF Spec, Safe

\* Whatever the payload and wherever the host puts the block, the loader stores
\* inside the block, but for the byte behind a section whose padding does not
\* fit.
THEOREM StaysInBlock == Spec => []BlockSafe
<1>1. IInv => BlockSafe
  BY DEF IInv
<1> QED
  BY <1>1, Inductive, PTL

\* An image that gets control after reads that all succeeded is whole.
THEOREM ImageIsWhole == Spec => []ImageCorrect
<1>1. IInv => ImageCorrect
  <2> SUFFICES ASSUME IInv, pc = "loaded", ioErrs = 0, NEW j \in Loads(pl)
               PROVE  SectionInPlace(j)
    BY DEF ImageCorrect
  <2>1. i = Len(pl.secs) + 1 /\ pl \in Payloads
    BY DEF IInv, SectionsInv, TypeOK
  <2>2. j < i
    BY <2>1, SectionFacts, PayloadsAssumption DEF PayloadFiles
  <2> QED
    BY <2>2 DEF IInv, SectionsInv
<1> QED
  BY <1>1, Inductive, PTL
=============================================================================
