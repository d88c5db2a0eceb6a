--------------------------- MODULE StubImageProofs ---------------------------
(***************************************************************************)
(* Lemmas about program files: regions of files, the overlays that a       *)
(* header describes, and what the header loop of the stub makes of a file. *)
(***************************************************************************)
EXTENDS StubImage, SequenceTheorems, FiniteSetTheorems, WellFoundedInduction, TLAPS

-----------------------------------------------------------------------------
(* Induction, with a set in place of a predicate.                          *)

LEMMA NatSetInduction ==
    ASSUME NEW S, 0 \in S, \A n \in Nat : n \in S => n + 1 \in S
    PROVE  \A n \in Nat : n \in S
<1> DEFINE T == {n \in Nat : n \notin S}
<1> SUFFICES ASSUME T # {} PROVE FALSE
  OBVIOUS
<1>1. PICK n \in T : \A m \in T : ~ (<<m, n>> \in OpToRel(<, Nat))
  <2>1. T \subseteq Nat
    OBVIOUS
  <2> QED BY <2>1, NatLessThanWellFounded, WFMin, Zenon
<1>2. \A m \in T : ~(m < n)
  BY <1>1 DEF OpToRel
<1>3. n \in Nat /\ n \notin S
  OBVIOUS
<1>4. n # 0
  BY <1>3
<1>5. n - 1 \in Nat
  BY <1>3, <1>4
<1>6. n - 1 \notin T
  BY <1>2, <1>3
<1>7. (n - 1) + 1 \in S
  BY <1>5, <1>6
<1> QED BY <1>3, <1>7

-----------------------------------------------------------------------------
(* Sequences, without naming the set of their elements.                    *)

IsSeq(f) == f \in Seq({f[k] : k \in DOMAIN f})

LEMMA SeqFacts ==
    ASSUME NEW f, IsSeq(f)
    PROVE  /\ Len(f) \in Nat
           /\ DOMAIN f = 1 .. Len(f)
           /\ f = [k \in 1 .. Len(f) |-> f[k]]
<1> DEFINE S == {f[k] : k \in DOMAIN f}
<1>1. f \in Seq(S)
  BY DEF IsSeq
<1> HIDE DEF S
<1> QED BY <1>1, LenProperties

LEMMA SeqIntro ==
    ASSUME NEW S, NEW f \in Seq(S)
    PROVE  IsSeq(f)
<1> DEFINE T == {f[k] : k \in DOMAIN f}
<1>1. /\ Len(f) \in Nat /\ DOMAIN f = 1 .. Len(f)
      /\ f = [k \in 1 .. Len(f) |-> f[k]]
  BY LenProperties
<1>2. \A k \in 1 .. Len(f) : f[k] \in T
  BY <1>1
<1>3. f \in [1 .. Len(f) -> T]
  BY <1>1, <1>2
<1>4. f \in Seq(T)
  BY <1>1, <1>3, SeqDef
<1> QED BY <1>4 DEF IsSeq

\* Two sequences are sequences over one set.
LEMMA CommonSet ==
    ASSUME NEW s, NEW t, IsSeq(s), IsSeq(t)
    PROVE  \E S : s \in Seq(S) /\ t \in Seq(S)
<1> DEFINE S == {s[k] : k \in DOMAIN s}
           T == {t[k] : k \in DOMAIN t}
<1>1. s \in Seq(S) /\ t \in Seq(T)
  BY DEF IsSeq
<1>2. S \subseteq S \cup T /\ T \subseteq S \cup T
  OBVIOUS
<1> HIDE DEF S, T
<1>3. s \in Seq(S \cup T) /\ t \in Seq(S \cup T)
  BY <1>1, <1>2, SeqMonotonic
<1> QED BY <1>3

LEMMA ConcatFacts ==
    ASSUME NEW s, NEW t, IsSeq(s), IsSeq(t)
    PROVE  /\ IsSeq(s \o t)
           /\ Len(s \o t) = Len(s) + Len(t)
           /\ \A k \in 1 .. Len(s) : (s \o t)[k] = s[k]
           /\ \A k \in 1 .. Len(t) : (s \o t)[Len(s) + k] = t[k]
<1>1. PICK S : s \in Seq(S) /\ t \in Seq(S)
  BY CommonSet
<1>2. /\ s \o t \in Seq(S)
      /\ Len(s \o t) = Len(s) + Len(t)
      /\ \A i \in 1 .. Len(s) + Len(t) :
           (s \o t)[i] = IF i <= Len(s) THEN s[i] ELSE t[i - Len(s)]
  BY <1>1, ConcatProperties
<1>3. IsSeq(s \o t)
  BY <1>2, SeqIntro
<1>4. Len(s) \in Nat /\ Len(t) \in Nat
  BY SeqFacts
<1>5. \A k \in 1 .. Len(s) : (s \o t)[k] = s[k]
  BY <1>2, <1>4
<1>6. ASSUME NEW k \in 1 .. Len(t)
      PROVE  (s \o t)[Len(s) + k] = t[k]
  <2>1. Len(s) + k \in 1 .. Len(s) + Len(t) /\ ~(Len(s) + k <= Len(s)) /\ (Len(s) + k) - Len(s) = k
    BY <1>4
  <2> QED BY <1>2, <2>1
<1> QED BY <1>2, <1>3, <1>5, <1>6

LEMMA SubSeqFacts ==
    ASSUME NEW f, IsSeq(f), NEW m \in Int, NEW n \in Int, 1 <= m, n <= Len(f)
    PROVE  /\ IsSeq(SubSeq(f, m, n))
           /\ Len(SubSeq(f, m, n)) = IF m <= n THEN n - m + 1 ELSE 0
           /\ \A k \in 1 .. n - m + 1 : SubSeq(f, m, n)[k] = f[m + k - 1]
<1> DEFINE S == {f[k] : k \in DOMAIN f}
<1>1. \A k \in m .. n : f[k] \in S
  BY SeqFacts
<1> HIDE DEF S
<1>2. /\ SubSeq(f, m, n) \in Seq(S)
      /\ Len(SubSeq(f, m, n)) = IF m <= n THEN n - m + 1 ELSE 0
      /\ \A k \in 1 .. n - m + 1 : SubSeq(f, m, n)[k] = f[m + k - 1]
  BY <1>1, SubSeqProperties
<1> QED BY <1>2, SeqIntro

LEMMA SameSeq ==
    ASSUME NEW s, NEW t, IsSeq(s), IsSeq(t), Len(s) = Len(t),
           \A k \in 1 .. Len(s) : s[k] = t[k]
    PROVE  s = t
<1>1. PICK S : s \in Seq(S) /\ t \in Seq(S)
  BY CommonSet
<1> QED BY <1>1, SeqEqual

LEMMA EmptyFacts ==
    /\ IsSeq(<< >>) /\ Len(<< >>) = 0
    /\ \A f : IsSeq(f) /\ Len(f) = 0 => f = << >>
<1>1. << >> \in Seq({}) /\ Len(<< >>) = 0
  BY EmptySeq
<1>2. IsSeq(<< >>)
  BY <1>1, SeqIntro
<1>3. ASSUME NEW f, IsSeq(f), Len(f) = 0
      PROVE  f = << >>
  BY <1>1, <1>2, <1>3, SameSeq
<1> QED BY <1>1, <1>2, <1>3

LEMMA ConcatEmpty ==
    ASSUME NEW s, IsSeq(s)
    PROVE  s \o << >> = s /\ << >> \o s = s
BY ConcatEmptySeq DEF IsSeq

LEMMA ConcatThree ==
    ASSUME NEW s, NEW t, NEW u, IsSeq(s), IsSeq(t), IsSeq(u)
    PROVE  (s \o t) \o u = s \o (t \o u)
<1>1. PICK S : s \in Seq(S) /\ t \in Seq(S)
  BY CommonSet
<1>2. PICK T : t \in Seq(T) /\ u \in Seq(T)
  BY CommonSet
<1>3. S \subseteq S \cup T /\ T \subseteq S \cup T
  OBVIOUS
<1>4. s \in Seq(S \cup T) /\ t \in Seq(S \cup T) /\ u \in Seq(S \cup T)
  BY <1>1, <1>2, <1>3, SeqMonotonic
<1> QED BY <1>4, ConcatAssociative

-----------------------------------------------------------------------------
(* Regions.                                                                *)

\* How much of a region the file has.
Have(f, off, len) ==
    IF len <= 0 \/ off >= Len(f) THEN 0 ELSE IF off + len <= Len(f) THEN len ELSE Len(f) - off

LEMMA FromFacts ==
    ASSUME NEW f, IsSeq(f), NEW off \in Nat
    PROVE  /\ IsSeq(From(f, off))
           /\ Len(From(f, off)) = IF off < Len(f) THEN Len(f) - off ELSE 0
           /\ \A k \in 1 .. Len(From(f, off)) : From(f, off)[k] = f[off + k]
<1>1. Len(f) \in Nat
  BY SeqFacts
<1>2. CASE off < Len(f)
  <2>1. From(f, off) = SubSeq(f, off + 1, Len(f))
    BY <1>2 DEF From
  <2>2. /\ IsSeq(SubSeq(f, off + 1, Len(f)))
        /\ Len(SubSeq(f, off + 1, Len(f))) = Len(f) - off
        /\ \A k \in 1 .. Len(f) - off : SubSeq(f, off + 1, Len(f))[k] = f[off + k]
    <3>1. \A k \in Int : (off + 1) + k - 1 = off + k
      OBVIOUS
    <3>2. off + 1 \in Int /\ 1 <= off + 1 /\ Len(f) - (off + 1) + 1 = Len(f) - off /\ off + 1 <= Len(f)
      BY <1>1, <1>2
    <3>3. /\ IsSeq(SubSeq(f, off + 1, Len(f)))
          /\ Len(SubSeq(f, off + 1, Len(f))) = Len(f) - (off + 1) + 1
          /\ \A k \in 1 .. Len(f) - (off + 1) + 1 :
                SubSeq(f, off + 1, Len(f))[k] = f[(off + 1) + k - 1]
      BY <1>1, <3>2, SubSeqFacts
    <3> QED BY <3>1, <3>2, <3>3
  <2> QED BY <1>2, <2>1, <2>2
<1>3. CASE ~(off < Len(f))
  BY <1>3, EmptyFacts DEF From
<1> QED BY <1>2, <1>3

\* r is that region.
IsRegion(r, f, off, len) ==
    /\ IsSeq(r)
    /\ Len(r) = Have(f, off, len)
    /\ \A k \in 1 .. Have(f, off, len) : r[k] = f[off + k]

\* g is s and then t.
IsConcat(g, s, t) ==
    /\ IsSeq(g)
    /\ Len(g) = Len(s) + Len(t)
    /\ \A k \in 1 .. Len(s) : g[k] = s[k]
    /\ \A k \in 1 .. Len(t) : g[Len(s) + k] = t[k]

LEMMA Concat ==
    ASSUME NEW s, NEW t, IsSeq(s), IsSeq(t)
    PROVE  IsConcat(s \o t, s, t)
BY ConcatFacts DEF IsConcat

LEMMA HaveNat ==
    ASSUME NEW f, IsSeq(f), NEW off \in Nat, NEW len \in Int
    PROVE  Have(f, off, len) \in Nat
BY SeqFacts DEF Have

LEMMA RegionFacts ==
    ASSUME NEW f, IsSeq(f), NEW off \in Nat, NEW len \in Int
    PROVE  IsRegion(Region(f, off, len), f, off, len)
<1> SUFFICES /\ IsSeq(Region(f, off, len))
             /\ Len(Region(f, off, len)) = Have(f, off, len)
             /\ Have(f, off, len) \in Nat
             /\ \A k \in 1 .. Have(f, off, len) : Region(f, off, len)[k] = f[off + k]
  BY DEF IsRegion
<1>1. Len(f) \in Nat
  BY SeqFacts
<1>2. CASE off + len <= Len(f)
  <2>1. Region(f, off, len) = SubSeq(f, off + 1, off + len)
    BY <1>2 DEF Region
  <2>2. \A k \in Int : (off + 1) + k - 1 = off + k
    OBVIOUS
  <2>3. /\ IsSeq(SubSeq(f, off + 1, off + len))
        /\ Len(SubSeq(f, off + 1, off + len))
             = IF off + 1 <= off + len THEN (off + len) - (off + 1) + 1 ELSE 0
        /\ \A k \in 1 .. (off + len) - (off + 1) + 1 :
              SubSeq(f, off + 1, off + len)[k] = f[(off + 1) + k - 1]
    BY <1>1, <1>2, SubSeqFacts
  <2>4. (off + len) - (off + 1) + 1 = len
    OBVIOUS
  <2>5. /\ Have(f, off, len) = IF off + 1 <= off + len THEN len ELSE 0
        /\ Have(f, off, len) \in Nat
    BY <1>1, <1>2 DEF Have
  <2>6. /\ IsSeq(Region(f, off, len))
        /\ Len(Region(f, off, len)) = Have(f, off, len)
    BY <2>1, <2>3, <2>4, <2>5
  <2>7. ASSUME NEW k \in 1 .. Have(f, off, len)
        PROVE  Region(f, off, len)[k] = f[off + k]
    <3>1. k \in 1 .. len /\ k \in Int
      BY <2>5
    <3>2. SubSeq(f, off + 1, off + len)[k] = f[(off + 1) + k - 1]
      BY <2>3, <2>4, <3>1
    <3> QED BY <2>1, <2>2, <3>1, <3>2
  <2> QED BY <2>5, <2>6, <2>7
<1>3. CASE ~(off + len <= Len(f))
  <2>1. Region(f, off, len) = From(f, off)
    BY <1>3 DEF Region
  <2>2. Have(f, off, len) = IF off < Len(f) THEN Len(f) - off ELSE 0
    BY <1>1, <1>3 DEF Have
  <2>3. Have(f, off, len) \in Nat
    BY <1>1, <2>2
  <2> QED BY <2>1, <2>2, <2>3, FromFacts
<1> QED BY <1>2, <1>3

\* Only one sequence is that region.
LEMMA OneRegion ==
    ASSUME NEW f, NEW off, NEW len, NEW r, NEW t,
           IsRegion(r, f, off, len), IsRegion(t, f, off, len)
    PROVE  r = t
BY SameSeq DEF IsRegion

LEMMA IsTheRegion ==
    ASSUME NEW f, IsSeq(f), NEW off \in Nat, NEW len \in Int, NEW r,
           IsRegion(r, f, off, len)
    PROVE  r = Region(f, off, len)
<1>1. IsRegion(Region(f, off, len), f, off, len)
  BY RegionFacts
<1> QED BY <1>1, OneRegion

\* What lies behind s in s \o Region(f, l, z) lies in f behind l, as far as the
\* region goes.
LEMMA RegionShift ==
    ASSUME NEW s, NEW f, IsSeq(s), IsSeq(f), NEW l \in Nat, NEW z \in Int,
           NEW p \in Nat, NEW q \in Nat, NEW w \in Nat,
           l <= q, p = Len(s) + (q - l),
           q + w <= l + z \/ Len(f) <= l + z
    PROVE  Region(s \o Region(f, l, z), p, w) = Region(f, q, w)
<1> DEFINE g == s \o Region(f, l, z)
           r == Region(g, p, w)
<1>1. Len(s) \in Nat /\ Len(f) \in Nat /\ w \in Int
  BY SeqFacts
<1>2. IsRegion(Region(f, l, z), f, l, z) /\ IsSeq(Region(f, l, z))
  BY RegionFacts DEF IsRegion
<1>3. IsConcat(g, s, Region(f, l, z)) /\ IsSeq(g)
  BY <1>2, Concat DEF IsConcat
<1>5. IsRegion(r, g, p, w)
  BY <1>1, <1>3, RegionFacts
<1> HIDE DEF r, g
<1>6. Len(g) = Len(s) + Have(f, l, z)
  BY <1>2, <1>3 DEF IsConcat, IsRegion
<1>7. \A k \in 1 .. Have(f, l, z) : g[Len(s) + k] = f[l + k]
  BY <1>2, <1>3 DEF IsConcat, IsRegion
<1>8. Have(g, p, w) = Have(f, q, w)
  <2>1. CASE q + w <= l + z
    BY <1>1, <1>6, <2>1 DEF Have
  <2>2. CASE Len(f) <= l + z
    BY <1>1, <1>6, <2>2 DEF Have
  <2> QED BY <2>1, <2>2
<1>9. ASSUME NEW k \in 1 .. Have(f, q, w)
      PROVE  g[p + k] = f[q + k]
  <2>1. (q - l) + k \in 1 .. Have(f, l, z)
    BY <1>1 DEF Have
  <2>2. g[Len(s) + ((q - l) + k)] = f[l + ((q - l) + k)]
    BY <1>7, <2>1
  <2>3. /\ Len(s) + ((q - l) + k) = p + k
        /\ l + ((q - l) + k) = q + k
    BY <1>1
  <2> QED BY <2>2, <2>3
<1>10. IsRegion(r, f, q, w)
  BY <1>5, <1>8, <1>9 DEF IsRegion
<1>11. r = Region(f, q, w)
  BY <1>1, <1>10, IsTheRegion
<1> QED BY <1>11 DEF r, g

\* Appending changes no region that is whole.
LEMMA RegionKept ==
    ASSUME NEW s, NEW t, IsSeq(s), IsSeq(t),
           NEW off \in Nat, NEW len \in Nat, off + len <= Len(s)
    PROVE  Region(s \o t, off, len) = Region(s, off, len)
<1>1. Len(s) \in Nat /\ Len(t) \in Nat /\ len \in Int
  BY SeqFacts
<1>2. IsConcat(s \o t, s, t) /\ IsSeq(s \o t)
  BY Concat DEF IsConcat
<1>3. IsRegion(Region(s \o t, off, len), s \o t, off, len)
  BY <1>1, <1>2, RegionFacts
<1>4. Have(s \o t, off, len) = len /\ Have(s, off, len) = len
  BY <1>1, <1>2 DEF Have, IsConcat
<1>5. ASSUME NEW k \in 1 .. len
      PROVE  (s \o t)[off + k] = s[off + k]
  <2>1. off + k \in 1 .. Len(s)
    BY <1>1
  <2> QED BY <1>2, <2>1 DEF IsConcat
<1>6. IsRegion(Region(s \o t, off, len), s, off, len)
  BY <1>3, <1>4, <1>5 DEF IsRegion
<1> QED BY <1>1, <1>6, IsTheRegion

\* What has just been appended is the region at the end.
LEMMA RegionAppended ==
    ASSUME NEW s, NEW t, IsSeq(s), IsSeq(t)
    PROVE  Region(s \o t, Len(s), Len(t)) = t
<1>1. Len(s) \in Nat /\ Len(t) \in Nat /\ Len(t) \in Int
  BY SeqFacts
<1>2. IsConcat(s \o t, s, t) /\ IsSeq(s \o t)
  BY Concat DEF IsConcat
<1>3. Have(s \o t, Len(s), Len(t)) = Len(t)
  BY <1>1, <1>2 DEF Have, IsConcat
<1>4. IsRegion(t, s \o t, Len(s), Len(t))
  BY <1>2, <1>3 DEF IsRegion, IsConcat
<1> QED BY <1>1, <1>2, <1>4, IsTheRegion

\* A copy that has come to its length or to the end of the file is whole.
LEMMA RegionWhole ==
    ASSUME NEW f, IsSeq(f), NEW off \in Nat, NEW n \in Nat, NEW size \in Int,
           \/ n = size
           \/ off + n >= Len(f) /\ n <= size
           \/ n = 0 /\ size <= 0
    PROVE  Region(f, off, n) = Region(f, off, size)
<1>1. Len(f) \in Nat
  BY SeqFacts
<1>2. Have(f, off, n) = Have(f, off, size)
  BY <1>1 DEF Have
<1>3. IsRegion(Region(f, off, n), f, off, n)
  BY RegionFacts
<1>4. IsRegion(Region(f, off, n), f, off, size)
  BY <1>2, <1>3 DEF IsRegion
<1> QED BY <1>4, IsTheRegion

\* A copy that goes on where it stopped.
LEMMA RegionGoesOn ==
    ASSUME NEW f, IsSeq(f), NEW off \in Nat, NEW n \in Nat, NEW m \in Nat,
           off + n <= Len(f)
    PROVE  Region(f, off, n) \o Region(f, off + n, m) = Region(f, off, n + m)
<1> DEFINE s == Region(f, off, n)
           t == Region(f, off + n, m)
           g == s \o t
<1>1. /\ Len(f) \in Nat /\ n \in Int /\ m \in Int /\ off + n \in Nat
      /\ n + m \in Int
  BY SeqFacts
<1>2. IsRegion(s, f, off, n) /\ IsSeq(s)
  BY <1>1, RegionFacts DEF IsRegion
<1>3. IsRegion(t, f, off + n, m) /\ IsSeq(t)
  BY <1>1, RegionFacts DEF IsRegion
<1> HIDE DEF s, t
<1>4. IsConcat(g, s, t) /\ IsSeq(g)
  BY <1>2, <1>3, Concat DEF IsConcat
<1> HIDE DEF g
<1>5. Have(f, off, n) = n /\ Len(s) = n
  BY <1>1, <1>2 DEF Have, IsRegion
<1>6. /\ Have(f, off, n + m) = n + Have(f, off + n, m)
      /\ Have(f, off + n, m) \in Nat
  BY <1>1 DEF Have
<1>7. Len(g) = n + Have(f, off + n, m)
  BY <1>3, <1>4, <1>5 DEF IsConcat, IsRegion
<1>8. \A k \in 1 .. n : g[k] = f[off + k]
  BY <1>2, <1>4, <1>5 DEF IsConcat, IsRegion
<1>9. \A k \in 1 .. Have(f, off + n, m) : g[n + k] = f[(off + n) + k]
  BY <1>3, <1>4, <1>5 DEF IsConcat, IsRegion
<1>10. ASSUME NEW k \in 1 .. Have(f, off, n + m)
       PROVE  g[k] = f[off + k]
  <2>1. CASE k <= n
    BY <1>8, <2>1
  <2>2. CASE k > n
    <3>1. /\ k - n \in 1 .. Have(f, off + n, m) /\ n + (k - n) = k
          /\ (off + n) + (k - n) = off + k
      BY <1>6, <2>2
    <3>2. g[n + (k - n)] = f[(off + n) + (k - n)]
      BY <1>9, <3>1
    <3> QED BY <3>1, <3>2
  <2> QED BY <1>6, <2>1, <2>2
<1>11. IsRegion(g, f, off, n + m)
  BY <1>4, <1>6, <1>7, <1>10 DEF IsRegion
<1>12. g = Region(f, off, n + m)
  BY <1>1, <1>11, IsTheRegion
<1> QED BY <1>12 DEF g, s, t

\* A region without cells, wherever it is said to be.
LEMMA EmptyRegion ==
    ASSUME NEW f, IsSeq(f), NEW off \in Nat
    PROVE  Region(f, off, 0) = << >>
<1>1. IsRegion(Region(f, off, 0), f, off, 0)
  BY RegionFacts
<1>2. Have(f, off, 0) = 0
  BY DEF Have
<1> QED BY <1>1, <1>2, EmptyFacts DEF IsRegion

\* A region that reaches the end of the file.
LEMMA RestIsRegion ==
    ASSUME NEW f, IsSeq(f), NEW off \in Nat, NEW len \in Nat, off + len >= Len(f)
    PROVE  Region(f, off, len) = From(f, off)
<1>1. Len(f) \in Nat
  BY SeqFacts
<1>2. IsRegion(Region(f, off, len), f, off, len)
  BY RegionFacts
<1>3. Have(f, off, len) = IF off < Len(f) THEN Len(f) - off ELSE 0
  BY <1>1 DEF Have
<1>4. /\ IsSeq(From(f, off))
      /\ Len(From(f, off)) = IF off < Len(f) THEN Len(f) - off ELSE 0
      /\ \A k \in 1 .. Len(From(f, off)) : From(f, off)[k] = f[off + k]
  BY FromFacts
<1>5. IsRegion(From(f, off), f, off, len)
  BY <1>3, <1>4 DEF IsRegion
<1> QED BY <1>2, <1>5, OneRegion

-----------------------------------------------------------------------------
(* What a header describes.                                                *)

\* Where the overlays start.
LEMMA SlotSum ==
    ASSUME NEW h, h.words \in [Slots -> Nat]
    PROVE  /\ SlotOffs(h, 0) = 0
           /\ SlotOffs(h, 1) = h.words[0]
           /\ SlotOffs(h, 2) = h.words[0] + h.words[1]
           /\ SlotOffs(h, 3) = h.words[0] + h.words[1] + h.words[2]
           /\ SlotOffs(h, 4) = h.words[0] + h.words[1] + h.words[2] + h.words[3]
<1> DEFINE Sum(n) == IF n = 0 THEN 0
                     ELSE IF n = 1 THEN h.words[0]
                     ELSE IF n = 2 THEN h.words[0] + h.words[1]
                     ELSE IF n = 3 THEN h.words[0] + h.words[1] + h.words[2]
                     ELSE h.words[0] + h.words[1] + h.words[2] + h.words[3]
           Offs(g, N) == g = [s \in 0 .. N |-> IF s = 0 THEN 0 ELSE g[s - 1] + h.words[s - 1]]
<1>1. /\ h.words[0] \in Nat /\ h.words[1] \in Nat
      /\ h.words[2] \in Nat /\ h.words[3] \in Nat
  BY DEF Slots
<1>2. ASSUME NEW N \in 0 .. 4
      PROVE  SlotOffs(h, N) = Sum(N)
  <2>1. Offs([n \in 0 .. N |-> Sum(n)], N)
    <3>1. \A n \in 0 .. N : Sum(n) = IF n = 0 THEN 0 ELSE Sum(n - 1) + h.words[n - 1]
      BY <1>1
    <3>2. \A n \in 0 .. N : n # 0 => [m \in 0 .. N |-> Sum(m)][n - 1] = Sum(n - 1)
      OBVIOUS
    <3> HIDE DEF Sum
    <3> QED BY <3>1, <3>2
  <2>2. ASSUME NEW g, Offs(g, N)
        PROVE  g[N] = Sum(N)
    <3> HIDE DEF Sum
    <3>0. \A s \in 0 .. N : g[s] = IF s = 0 THEN 0 ELSE g[s - 1] + h.words[s - 1]
      BY <2>2
    <3>1. g[0] = 0
      <4>1. 0 \in 0 .. N
        OBVIOUS
      <4>2. g[0] = IF 0 = 0 THEN 0 ELSE g[0 - 1] + h.words[0 - 1]
        BY <3>0, <4>1
      <4> QED BY <4>2
    <3>2. N >= 1 => g[1] = h.words[0]
      BY <1>1, <3>0, <3>1
    <3>3. N >= 2 => g[2] = h.words[0] + h.words[1]
      BY <1>1, <3>0, <3>2
    <3>4. N >= 3 => g[3] = h.words[0] + h.words[1] + h.words[2]
      BY <1>1, <3>0, <3>3
    <3>5. N >= 4 => g[4] = h.words[0] + h.words[1] + h.words[2] + h.words[3]
      BY <1>1, <3>0, <3>4
    <3> QED BY <3>1, <3>2, <3>3, <3>4, <3>5 DEF Sum
  <2> DEFINE A == CHOOSE g : Offs(g, N)
  <2>3. Offs(A, N)
    BY <2>1
  <2>4. SlotOffs(h, N) = A[N]
    BY DEF SlotOffs
  <2> HIDE DEF A, Sum
  <2>5. A[N] = Sum(N)
    BY <2>2, <2>3
  <2> QED BY <2>4, <2>5
<1> QED BY <1>1, <1>2

-----------------------------------------------------------------------------
(* How the stub reads a file.                                              *)

\* The loop of StubRead has gone round n times.
Turns(g, f, N) == g = [n \in 0 .. N |-> IF n = 0 THEN StubStart ELSE StubTurn(f, g[n - 1])]

LEMMA TurnsExist ==
    ASSUME NEW f
    PROVE  \A N \in Nat : \E g : Turns(g, f, N)
<1> DEFINE S == {N \in Nat : \E g : Turns(g, f, N)}
<1>1. 0 \in S
  <2>1. Turns([n \in 0 .. 0 |-> StubStart], f, 0)
    BY DEF Turns
  <2> QED BY <2>1
<1>2. ASSUME NEW N \in Nat, N \in S
      PROVE  N + 1 \in S
  <2>1. PICK g : Turns(g, f, N)
    BY <1>2
  <2>2. Turns([n \in 0 .. N + 1 |-> IF n = N + 1 THEN StubTurn(f, g[N]) ELSE g[n]], f, N + 1)
    BY <2>1 DEF Turns
  <2> QED BY <2>2
<1>3. \A n \in Nat : n \in S
  <2> HIDE DEF S
  <2> QED BY <1>1, <1>2, NatSetInduction
<1> QED BY <1>3

\* When a turn has changed nothing, no later one does.
LEMMA TurnsStable ==
    ASSUME NEW f, Len(f) \in Nat, NEW m \in 0 .. Len(f) + 1, NEW s,
           \A g : Turns(g, f, Len(f) + 1) => g[m] = s,
           StubTurn(f, s) = s
    PROVE  StubRead(f) = s
<1> DEFINE A == CHOOSE g : Turns(g, f, Len(f) + 1)
<1>1. Turns(A, f, Len(f) + 1)
  <2>1. Len(f) + 1 \in Nat
    OBVIOUS
  <2>2. \E g : Turns(g, f, Len(f) + 1)
    BY <2>1, TurnsExist
  <2> QED BY <2>2
<1>2. StubRead(f) = A[Len(f) + 1]
  BY DEF StubRead, Turns
<1>3. A[m] = s
  BY <1>1
<1> HIDE DEF A
<1> DEFINE S == {n \in Nat : m + n <= Len(f) + 1 => A[m + n] = s}
<1>4. 0 \in S
  BY <1>3
<1>5. ASSUME NEW n \in Nat, n \in S
      PROVE  n + 1 \in S
  <2> SUFFICES ASSUME m + (n + 1) <= Len(f) + 1 PROVE A[m + (n + 1)] = s
    OBVIOUS
  <2>1. A[m + n] = s
    BY <1>5
  <2>2. m + (n + 1) \in 0 .. Len(f) + 1 /\ m + (n + 1) # 0 /\ (m + (n + 1)) - 1 = m + n
    OBVIOUS
  <2>3. A[m + (n + 1)] = StubTurn(f, A[m + n])
    BY <1>1, <2>2 DEF Turns
  <2> QED BY <2>1, <2>3
<1>6. \A n \in Nat : n \in S
  <2> HIDE DEF S
  <2> QED BY <1>4, <1>5, NatSetInduction
<1>7. Len(f) + 1 - m \in Nat /\ m + (Len(f) + 1 - m) = Len(f) + 1
  OBVIOUS
<1>8. A[m + (Len(f) + 1 - m)] = s
  BY <1>6, <1>7
<1> QED BY <1>2, <1>7, <1>8

\* What fullstub can know.
Chains ==
    [coffset : Nat, coffsize : Nat, noffset : Nat, nsize : Nat, noffset2 : Nat,
     nsize2 : Nat, ops : {"none", "refused", "coff", "elf"}]

\* Two loops that have gone round equally often know the same.
LEMMA TurnsAgree ==
    ASSUME NEW f, NEW N \in Nat, NEW M \in Nat, NEW g, NEW e, Turns(g, f, N), Turns(e, f, M)
    PROVE  \A n \in Nat : n <= N /\ n <= M => g[n] = e[n]
<1> DEFINE S == {n \in Nat : n <= N /\ n <= M => g[n] = e[n]}
<1>0. /\ \A n \in 0 .. N : g[n] = IF n = 0 THEN StubStart ELSE StubTurn(f, g[n - 1])
      /\ \A n \in 0 .. M : e[n] = IF n = 0 THEN StubStart ELSE StubTurn(f, e[n - 1])
  BY DEF Turns
<1>1. 0 \in S
  <2>1. 0 \in 0 .. N /\ 0 \in 0 .. M
    OBVIOUS
  <2>2. g[0] = StubStart
    BY <1>0, <2>1, Zenon
  <2>3. e[0] = StubStart
    BY <1>0, <2>1, Zenon
  <2> QED BY <2>2, <2>3
<1>2. ASSUME NEW n \in Nat, n \in S
      PROVE  n + 1 \in S
  <2> SUFFICES ASSUME n + 1 <= N, n + 1 <= M PROVE g[n + 1] = e[n + 1]
    OBVIOUS
  <2>1. g[n] = e[n]
    BY <1>2
  <2>2. n + 1 \in 0 .. N /\ n + 1 \in 0 .. M /\ n + 1 # 0 /\ (n + 1) - 1 = n
    OBVIOUS
  <2>3. g[n + 1] = StubTurn(f, g[n]) /\ e[n + 1] = StubTurn(f, e[n])
    BY <1>0, <2>2
  <2> QED BY <2>1, <2>3
<1>3. \A n \in Nat : n \in S
  <2> HIDE DEF S
  <2> QED BY <1>1, <1>2, NatSetInduction
<1> QED BY <1>3

\* What fullstub has read from the header h.
Known(h, ops) ==
    LET noffs == IF h.words[0] # 0 THEN h.lfanew + h.words[0] ELSE 0
    IN  [coffset |-> h.lfanew, coffsize |-> h.words[0],
         noffset |-> noffs, nsize |-> h.words[1],
         noffset2 |-> IF h.words[1] # 0 THEN noffs + h.words[1] ELSE 0,
         nsize2 |-> h.words[2], ops |-> ops]

\* One turn reads the header, the next one finds what it leads to.
LEMMA StubKnows ==
    ASSUME NEW f, IsSeq(f), StartsWith(f, "mz"), NEW h, h = CellAt(f, 0).hdr,
           HasCell(f, h.lfanew) => CellAt(f, h.lfanew).what # "mz"
    PROVE  \E ops : StubRead(f) = Known(h, ops)
<1> DEFINE there == CellAt(f, h.lfanew).what
           end == IF ~HasCell(f, h.lfanew) THEN "refused"
                  ELSE IF there \in {"coff", "elf"} THEN there ELSE "refused"
<1>1. Len(f) \in Nat /\ Len(f) >= 1
  BY SeqFacts DEF StartsWith, HasCell
<1>2. StubTurn(f, StubStart) = Known(h, "none")
  BY DEF StubTurn, FromHeader, StubStart, Known, StartsWith
<1>3. StubTurn(f, Known(h, "none")) = Known(h, end)
  <2>1. Known(h, "none").ops = "none" /\ Known(h, "none").coffset = h.lfanew
    BY DEF Known
  <2>2. \A x : [Known(h, "none") EXCEPT !.ops = x] = Known(h, x)
    BY DEF Known
  <2>3. CASE ~HasCell(f, h.lfanew)
    BY <2>1, <2>2, <2>3 DEF StubTurn
  <2>4. CASE HasCell(f, h.lfanew) /\ there = "coff"
    BY <2>1, <2>2, <2>4 DEF StubTurn
  <2>5. CASE HasCell(f, h.lfanew) /\ there = "elf"
    BY <2>1, <2>2, <2>5 DEF StubTurn
  <2>6. CASE HasCell(f, h.lfanew) /\ there \notin {"coff", "elf"}
    BY <2>1, <2>2, <2>6 DEF StubTurn
  <2> QED BY <2>3, <2>4, <2>5, <2>6
<1>4. end # "none"
  OBVIOUS
<1> HIDE DEF end
<1>5. StubTurn(f, Known(h, end)) = Known(h, end)
  <2>1. Known(h, end).ops # "none"
    BY <1>4 DEF Known
  <2> QED BY <2>1 DEF StubTurn
<1>6. ASSUME NEW g, Turns(g, f, Len(f) + 1)
      PROVE  g[2] = Known(h, end)
  <2>1. \A n \in 0 .. Len(f) + 1 : g[n] = IF n = 0 THEN StubStart ELSE StubTurn(f, g[n - 1])
    BY <1>6 DEF Turns
  <2>2. 0 \in 0 .. Len(f) + 1 /\ 1 \in 0 .. Len(f) + 1 /\ 2 \in 0 .. Len(f) + 1
    BY <1>1
  <2>3. g[0] = StubStart
    <3>1. g[0] = IF 0 = 0 THEN StubStart ELSE StubTurn(f, g[0 - 1])
      BY <2>1, <2>2
    <3> QED BY <3>1
  <2>4. g[1] = StubTurn(f, g[1 - 1])
    BY <2>1, <2>2
  <2>5. g[2] = StubTurn(f, g[2 - 1])
    BY <2>1, <2>2
  <2>6. g[1] = Known(h, "none")
    BY <1>2, <2>3, <2>4
  <2> QED BY <1>3, <2>5, <2>6
<1>7. 2 \in 0 .. Len(f) + 1
  BY <1>1
<1>8. StubRead(f) = Known(h, end)
  BY <1>1, <1>5, <1>6, <1>7, TurnsStable
<1> QED BY <1>8

\* The file starts with h, which leads to no other header.
Describes(f, h) ==
    /\ IsFile(f) /\ StartsWith(f, "mz") /\ h = CellAt(f, 0).hdr
    /\ HasCell(f, h.lfanew) => CellAt(f, h.lfanew).what # "mz"

LEMMA FileIsSeq ==
    ASSUME NEW f, IsFile(f)
    PROVE  IsSeq(f) /\ Len(f) \in Nat
<1>1. IsSeq(f)
  BY DEF IsFile, IsSeq
<1> QED BY <1>1, SeqFacts

LEMMA HeaderFields ==
    ASSUME NEW h \in Headers
    PROVE  /\ h.words \in [Slots -> Nat]
           /\ h.words[0] \in Nat /\ h.words[1] \in Nat
           /\ h.words[2] \in Nat /\ h.words[3] \in Nat
           /\ h.types \in [Slots -> 0 .. 15]
           /\ h.flags \subseteq Flags /\ h.ver \in Nat /\ h.lfanew \in Nat
BY DEF Headers, Slots

LEMMA DescribedHeader ==
    ASSUME NEW f, NEW h, Describes(f, h)
    PROVE  h \in Headers
<1>1. 1 \in DOMAIN f
  <2>1. Len(f) \in Nat /\ DOMAIN f = 1 .. Len(f) /\ 0 < Len(f)
    BY FileIsSeq, SeqFacts DEF Describes, StartsWith, HasCell
  <2> QED BY <2>1
<1>2. f[1].what = "mz" /\ h = f[1].hdr
  BY DEF Describes, StartsWith, CellAt
<1> QED BY <1>1, <1>2 DEF Describes, IsFile

\* A header of a file.
LEMMA HeaderAt ==
    ASSUME NEW f, IsFile(f), NEW off \in Nat, HasCell(f, off), CellAt(f, off).what = "mz"
    PROVE  CellAt(f, off).hdr \in Headers /\ off + 1 \in DOMAIN f
<1>1. Len(f) \in Nat /\ DOMAIN f = 1 .. Len(f)
  BY FileIsSeq, SeqFacts
<1>2. off + 1 \in DOMAIN f
  BY <1>1 DEF HasCell
<1> QED BY <1>2 DEF IsFile, CellAt

\* One turn: what it knows has its type, it goes on from a header only, and
\* what comes of it depends on where it looks alone.
LEMMA TurnFacts ==
    ASSUME NEW f, IsFile(f), NEW s \in Chains
    PROVE  /\ StubTurn(f, s) \in Chains
           /\ s.ops # "none" => StubTurn(f, s) = s
           /\ s.ops = "none" =>
                 \/ /\ HasCell(f, s.coffset) /\ CellAt(f, s.coffset).what = "mz"
                    /\ StubTurn(f, s) = FromHeader(s, CellAt(f, s.coffset).hdr)
                    /\ StubTurn(f, s).ops = "none"
                    /\ StubTurn(f, s).coffset = CellAt(f, s.coffset).hdr.lfanew
                 \/ /\ HasCell(f, s.coffset) /\ CellAt(f, s.coffset).what \in {"coff", "elf"}
                    /\ StubTurn(f, s) = [s EXCEPT !.ops = CellAt(f, s.coffset).what]
                 \/ /\ ~HasCell(f, s.coffset) \/ CellAt(f, s.coffset).what \notin {"mz", "coff", "elf"}
                    /\ StubTurn(f, s) = [s EXCEPT !.ops = "refused"]
<1> DEFINE c == CellAt(f, s.coffset)
<1>0. s.coffset \in Nat /\ s.noffset \in Nat
  BY DEF Chains
<1>1. CASE s.ops # "none"
  BY <1>1 DEF StubTurn
<1>2. CASE s.ops = "none" /\ HasCell(f, s.coffset) /\ c.what = "mz"
  <2>1. StubTurn(f, s) = FromHeader(s, c.hdr)
    BY <1>2 DEF StubTurn
  <2>2. c.hdr \in Headers
    BY <1>0, <1>2, HeaderAt
  <2> DEFINE h == c.hdr
  <2>3. h.lfanew \in Nat /\ h.words[0] \in Nat /\ h.words[1] \in Nat /\ h.words[2] \in Nat
    BY <2>2, HeaderFields
  <2> HIDE DEF h
  <2>4. FromHeader(s, h) \in Chains
    <3> DEFINE noffs == IF h.words[0] # 0 THEN h.lfanew + h.words[0] ELSE s.noffset
               noffs2 == IF h.words[1] # 0 THEN noffs + h.words[1] ELSE s.noffset2
    <3>1. noffs \in Nat
      BY <1>0, <2>3
    <3>2. FromHeader(s, h) =
            [s EXCEPT !.coffset = h.lfanew, !.coffsize = h.words[0], !.noffset = noffs,
                      !.nsize = h.words[1], !.noffset2 = noffs2, !.nsize2 = h.words[2]]
      BY DEF FromHeader, Chains
    <3> HIDE DEF noffs
    <3>3. noffs2 \in Nat
      BY <2>3, <3>1 DEF Chains
    <3> HIDE DEF noffs2
    <3> QED BY <2>3, <3>1, <3>2, <3>3 DEF Chains
  <2>5. FromHeader(s, h).ops = s.ops /\ FromHeader(s, h).coffset = h.lfanew
    BY DEF FromHeader, Chains
  <2> QED BY <1>2, <2>1, <2>4, <2>5 DEF h
<1>3. CASE s.ops = "none" /\ HasCell(f, s.coffset) /\ c.what \in {"coff", "elf"}
  <2>1. StubTurn(f, s) = [s EXCEPT !.ops = c.what]
    BY <1>3 DEF StubTurn
  <2> QED BY <1>3, <2>1 DEF Chains
<1>4. CASE s.ops = "none" /\ (~HasCell(f, s.coffset) \/ c.what \notin {"mz", "coff", "elf"})
  <2>1. StubTurn(f, s) = [s EXCEPT !.ops = "refused"]
    BY <1>4 DEF StubTurn
  <2> QED BY <1>4, <2>1 DEF Chains
<1> QED BY <1>1, <1>2, <1>3, <1>4

LEMMA StartType == StubStart \in Chains
BY DEF StubStart, Chains

\* The whole loop: everything it knows has its type, it stays where it has
\* stopped, and until then it has looked at a header of the file each time.
LEMMA LoopFacts ==
    ASSUME NEW f, IsFile(f), NEW N \in Nat, NEW g, Turns(g, f, N)
    PROVE  /\ \A n \in 0 .. N : g[n] \in Chains
           /\ \A n \in 0 .. N : n # 0 => g[n] = StubTurn(f, g[n - 1])
           /\ \A n \in 0 .. N : n < N /\ g[n + 1].ops = "none" => g[n].coffset \in 0 .. Len(f) - 1
<1>1. \A n \in 0 .. N : g[n] = IF n = 0 THEN StubStart ELSE StubTurn(f, g[n - 1])
  BY DEF Turns
<1> DEFINE S == {n \in Nat : n <= N => g[n] \in Chains}
<1>2. 0 \in S
  <2>1. 0 \in 0 .. N
    OBVIOUS
  <2>2. g[0] = StubStart
    BY <1>1, <2>1, Zenon
  <2> QED BY <2>2, StartType
<1>3. ASSUME NEW n \in Nat, n \in S
      PROVE  n + 1 \in S
  <2> SUFFICES ASSUME n + 1 <= N PROVE g[n + 1] \in Chains
    OBVIOUS
  <2>1. n + 1 \in 0 .. N /\ n + 1 # 0 /\ (n + 1) - 1 = n
    OBVIOUS
  <2>2. g[n + 1] = StubTurn(f, g[n])
    BY <1>1, <2>1
  <2>3. g[n] \in Chains
    BY <1>3
  <2> QED BY <2>2, <2>3, TurnFacts
<1>4. \A n \in Nat : n \in S
  <2> HIDE DEF S
  <2> QED BY <1>2, <1>3, NatSetInduction
<1>5. ASSUME NEW n \in 0 .. N, n < N, g[n + 1].ops = "none"
      PROVE  g[n].coffset \in 0 .. Len(f) - 1
  <2>1. n + 1 \in 0 .. N /\ n + 1 # 0 /\ (n + 1) - 1 = n
    BY <1>5
  <2>2. g[n + 1] = StubTurn(f, g[n])
    BY <1>1, <2>1
  <2>3. g[n] \in Chains
    BY <1>4
  <2>4. g[n].ops = "none"
    BY <1>5, <2>2, <2>3, TurnFacts
  <2>5. CASE HasCell(f, g[n].coffset)
    <3>1. g[n].coffset \in Nat
      BY <2>3 DEF Chains
    <3> QED BY <2>5, <3>1, FileIsSeq DEF HasCell
  <2>6. CASE ~HasCell(f, g[n].coffset)
    <3>1. StubTurn(f, g[n]) = [g[n] EXCEPT !.ops = "refused"]
      BY <2>3, <2>4, <2>6, TurnFacts
    <3>2. [g[n] EXCEPT !.ops = "refused"].ops = "refused"
      BY <2>3 DEF Chains
    <3> QED BY <1>5, <2>2, <3>1, <3>2
  <2> QED BY <2>5, <2>6
<1> QED BY <1>1, <1>4, <1>5

\* What comes of a turn depends on where it looks alone.
LEMMA SameCell ==
    ASSUME NEW f, IsFile(f), NEW s \in Chains, NEW t \in Chains,
           s.coffset = t.coffset, s.ops = t.ops
    PROVE  /\ StubTurn(f, s).coffset = StubTurn(f, t).coffset
           /\ StubTurn(f, s).ops = StubTurn(f, t).ops
<1>1. CASE s.ops # "none"
  BY <1>1, TurnFacts
<1>2. CASE s.ops = "none"
  <2>1. \A x, y : /\ [s EXCEPT !.ops = x].coffset = s.coffset /\ [s EXCEPT !.ops = x].ops = x
                  /\ [t EXCEPT !.ops = y].coffset = t.coffset /\ [t EXCEPT !.ops = y].ops = y
    BY DEF Chains
  <2>2. CASE HasCell(f, s.coffset) /\ CellAt(f, s.coffset).what = "mz"
    <3>1. /\ StubTurn(f, s).ops = "none"
          /\ StubTurn(f, s).coffset = CellAt(f, s.coffset).hdr.lfanew
      BY <1>2, <2>2, TurnFacts
    <3>2. t.ops = "none" /\ HasCell(f, t.coffset) /\ CellAt(f, t.coffset).what = "mz"
      BY <1>2, <2>2
    <3>3. /\ StubTurn(f, t).ops = "none"
          /\ StubTurn(f, t).coffset = CellAt(f, t.coffset).hdr.lfanew
      BY <3>2, TurnFacts
    <3> QED BY <3>1, <3>3
  <2>3. CASE HasCell(f, s.coffset) /\ CellAt(f, s.coffset).what \in {"coff", "elf"}
    <3>1. StubTurn(f, s) = [s EXCEPT !.ops = CellAt(f, s.coffset).what]
      BY <1>2, <2>3, TurnFacts
    <3>2. StubTurn(f, t) = [t EXCEPT !.ops = CellAt(f, s.coffset).what]
      <4>1. /\ t.ops = "none" /\ HasCell(f, t.coffset)
            /\ CellAt(f, t.coffset).what \in {"coff", "elf"}
        BY <1>2, <2>3
      <4>2. StubTurn(f, t) = [t EXCEPT !.ops = CellAt(f, t.coffset).what]
        BY <4>1, TurnFacts
      <4> QED BY <4>2
    <3> QED BY <2>1, <3>1, <3>2
  <2>4. CASE ~HasCell(f, s.coffset) \/ CellAt(f, s.coffset).what \notin {"mz", "coff", "elf"}
    <3>1. StubTurn(f, s) = [s EXCEPT !.ops = "refused"]
      BY <1>2, <2>4, TurnFacts
    <3>2. StubTurn(f, t) = [t EXCEPT !.ops = "refused"]
      <4>1. /\ t.ops = "none"
            /\ ~HasCell(f, t.coffset) \/ CellAt(f, t.coffset).what \notin {"mz", "coff", "elf"}
        BY <1>2, <2>4
      <4> QED BY <4>1, TurnFacts
    <3> QED BY <2>1, <3>1, <3>2
  <2> QED BY <2>2, <2>3, <2>4
<1> QED BY <1>1, <1>2

\* A file has too few cells for a loop that ends to look at one twice, so
\* it ends within the turns that StubRead allows it.
LEMMA EndsInTime ==
    ASSUME NEW f, IsFile(f), NEW N \in Nat, NEW g, Turns(g, f, N), g[N].ops # "none"
    PROVE  \E n \in 0 .. N : n <= Len(f) + 1 /\ g[n].ops # "none"
<1>1. /\ \A n \in 0 .. N : g[n] \in Chains
      /\ \A n \in 0 .. N : n # 0 => g[n] = StubTurn(f, g[n - 1])
      /\ \A n \in 0 .. N : n < N /\ g[n + 1].ops = "none" => g[n].coffset \in 0 .. Len(f) - 1
  BY LoopFacts
<1>2. Len(f) \in Nat
  BY FileIsSeq
<1> DEFINE First(m) == /\ m \in 0 .. N /\ g[m].ops # "none"
                       /\ \A n \in 0 .. N : n < m => g[n].ops = "none"
<1>3. PICK m : First(m)
  <2> DEFINE T == {n \in Nat : \A k \in 0 .. N : k <= n => g[k].ops = "none"}
  <2> SUFFICES ASSUME ~ \E m : First(m) PROVE FALSE
    OBVIOUS
  <2>1. 0 \in T
    <3>1. g[0].ops = "none"
      <4>1. ~First(0)
        OBVIOUS
      <4>2. \A n \in 0 .. N : ~(n < 0)
        OBVIOUS
      <4> QED BY <4>1, <4>2
    <3> QED BY <3>1
  <2>2. ASSUME NEW n \in Nat, n \in T
        PROVE  n + 1 \in T
    <3>1. CASE n + 1 <= N
      <4>1. n + 1 \in 0 .. N
        BY <3>1
      <4>2. \A k \in 0 .. N : k < n + 1 => k <= n
        OBVIOUS
      <4>3. \A k \in 0 .. N : k < n + 1 => g[k].ops = "none"
        BY <2>2, <4>2
      <4>4. ~First(n + 1)
        OBVIOUS
      <4>5. g[n + 1].ops = "none"
        BY <4>1, <4>3, <4>4
      <4>6. \A k \in 0 .. N : k <= n + 1 => k < n + 1 \/ k = n + 1
        OBVIOUS
      <4> QED BY <4>3, <4>5, <4>6
    <3>2. CASE ~(n + 1 <= N)
      <4>1. \A k \in 0 .. N : k <= n
        BY <3>2
      <4> QED BY <2>2, <4>1
    <3> QED BY <3>1, <3>2
  <2>3. \A n \in Nat : n \in T
    <3> HIDE DEF T
    <3> QED BY <2>1, <2>2, NatSetInduction
  <2>4. N \in T
    BY <2>3
  <2> QED BY <2>4
<1>4. CASE m <= Len(f) + 1
  BY <1>3, <1>4
<1>5. CASE m > Len(f) + 1
  <2> DEFINE L == Len(f)
             at == [n \in 0 .. L |-> g[n].coffset]
  <2>1. at \in [0 .. L -> 0 .. L - 1]
    <3>1. ASSUME NEW n \in 0 .. L
          PROVE  g[n].coffset \in 0 .. L - 1
      <4>1. n \in 0 .. N /\ n < N /\ n + 1 \in 0 .. N /\ n + 1 < m
        BY <1>2, <1>3, <1>5
      <4>2. g[n + 1].ops = "none"
        BY <1>3, <4>1
      <4> QED BY <1>1, <4>1, <4>2
    <3> QED BY <3>1
  <2>2. PICK x0 \in 0 .. L, y0 \in 0 .. L : x0 # y0 /\ at[x0] = at[y0]
    <3>1. /\ IsFiniteSet(0 .. L) /\ Cardinality(0 .. L) = L + 1
          /\ IsFiniteSet(0 .. L - 1) /\ Cardinality(0 .. L - 1) = L
      <4>1. 0 \in Int /\ L \in Int /\ L - 1 \in Int /\ L - 1 - 0 + 1 = L /\ L - 0 + 1 = L + 1
        BY <1>2
      <4>2. IsFiniteSet(0 .. L) /\ Cardinality(0 .. L) = IF 0 > L THEN 0 ELSE L - 0 + 1
        BY <4>1, FS_Interval
      <4>3. IsFiniteSet(0 .. L - 1)
            /\ Cardinality(0 .. L - 1) = IF 0 > L - 1 THEN 0 ELSE L - 1 - 0 + 1
        BY <4>1, FS_Interval
      <4> HIDE DEF L
      <4> QED BY <1>2, <4>1, <4>2, <4>3 DEF L
    <3>2. Cardinality(0 .. L - 1) < Cardinality(0 .. L)
      BY <1>2, <3>1
    <3> HIDE DEF at, L
    <3> QED BY <2>1, <3>1, <3>2, FS_PigeonHole
  <2>3. PICK x \in 0 .. L, y \in 0 .. L : x < y /\ g[x].coffset = g[y].coffset
    <3>1. g[x0].coffset = g[y0].coffset
      BY <2>2
    <3>2. x0 < y0 \/ y0 < x0
      BY <1>2, <2>2
    <3> QED BY <3>1, <3>2
  <2> DEFINE d == y - x
             R == {k \in Nat : x + k + d <= m =>
                      /\ g[x + k].coffset = g[x + k + d].coffset
                      /\ g[x + k].ops = g[x + k + d].ops}
  <2>4. /\ x \in Nat /\ y \in Nat /\ d \in Nat /\ d > 0 /\ x + d = y /\ m \in Nat /\ y < m
        /\ m <= N
    BY <1>2, <1>3, <1>5, <2>3
  <2> HIDE DEF d
  <2>5. 0 \in R
    <3>1. x + 0 = x /\ x + 0 + d = y
      BY <2>4
    <3>2. x \in 0 .. N /\ y \in 0 .. N /\ x < m /\ y < m
      BY <2>3, <2>4
    <3>3. g[x].ops = "none" /\ g[y].ops = "none"
      BY <1>3, <3>2
    <3> QED BY <2>3, <3>1, <3>3
  <2>6. ASSUME NEW k \in Nat, k \in R
        PROVE  k + 1 \in R
    <3> SUFFICES ASSUME x + (k + 1) + d <= m
                 PROVE  /\ g[x + (k + 1)].coffset = g[x + (k + 1) + d].coffset
                        /\ g[x + (k + 1)].ops = g[x + (k + 1) + d].ops
      OBVIOUS
    <3> DEFINE a == x + k
               b == x + k + d
    <3>1. /\ a \in 0 .. N /\ b \in 0 .. N /\ a + 1 \in 0 .. N /\ b + 1 \in 0 .. N
          /\ x + (k + 1) = a + 1 /\ x + (k + 1) + d = b + 1
          /\ a + 1 # 0 /\ b + 1 # 0 /\ (a + 1) - 1 = a /\ (b + 1) - 1 = b
          /\ b <= m
      BY <2>4
    <3>2. g[a].coffset = g[b].coffset /\ g[a].ops = g[b].ops
      BY <2>6, <3>1
    <3> HIDE DEF a, b
    <3>3. g[a + 1] = StubTurn(f, g[a]) /\ g[b + 1] = StubTurn(f, g[b])
      BY <1>1, <3>1
    <3>4. g[a] \in Chains /\ g[b] \in Chains
      BY <1>1, <3>1
    <3>5. g[a + 1].coffset = g[b + 1].coffset /\ g[a + 1].ops = g[b + 1].ops
      BY <3>2, <3>3, <3>4, SameCell
    <3> QED BY <3>1, <3>5
  <2>7. \A k \in Nat : k \in R
    <3> HIDE DEF R
    <3> QED BY <2>5, <2>6, NatSetInduction
  <2>8. m - y \in Nat /\ x + (m - y) + d = m /\ x + (m - y) \in 0 .. N /\ x + (m - y) < m
    BY <2>4
  <2>9. g[x + (m - y)].ops = g[m].ops
    <3>1. m - y \in R
      BY <2>7, <2>8
    <3> QED BY <2>4, <2>8, <3>1
  <2> QED BY <1>3, <2>8, <2>9
<1> QED BY <1>2, <1>3, <1>4, <1>5

\* What a loop knows when it ends is what StubRead finds.
LEMMA ReadSettles ==
    ASSUME NEW f, IsFile(f), NEW N \in Nat, NEW g, Turns(g, f, N), g[N].ops # "none"
    PROVE  StubRead(f) = g[N]
<1>1. /\ \A n \in 0 .. N : g[n] \in Chains
      /\ \A n \in 0 .. N : n # 0 => g[n] = StubTurn(f, g[n - 1])
  BY LoopFacts
<1>2. Len(f) \in Nat
  BY FileIsSeq
<1>3. PICK n \in 0 .. N : n <= Len(f) + 1 /\ g[n].ops # "none"
  BY EndsInTime
<1>4. StubTurn(f, g[n]) = g[n]
  BY <1>1, <1>3, TurnFacts
<1>5. StubRead(f) = g[n]
  <2>1. n \in 0 .. Len(f) + 1 /\ n \in Nat /\ n <= N /\ Len(f) + 1 \in Nat
    BY <1>2, <1>3
  <2>2. ASSUME NEW e, Turns(e, f, Len(f) + 1)
        PROVE  e[n] = g[n]
    BY <2>1, <2>2, TurnsAgree
  <2> QED BY <1>2, <1>4, <2>1, <2>2, TurnsStable
<1>6. g[N] = g[n]
  <2> DEFINE S == {k \in Nat : n + k <= N => g[n + k] = g[n]}
  <2>1. 0 \in S
    OBVIOUS
  <2>2. ASSUME NEW k \in Nat, k \in S
        PROVE  k + 1 \in S
    <3> SUFFICES ASSUME n + (k + 1) <= N PROVE g[n + (k + 1)] = g[n]
      OBVIOUS
    <3>1. n + (k + 1) \in 0 .. N /\ n + (k + 1) # 0 /\ (n + (k + 1)) - 1 = n + k
      OBVIOUS
    <3>2. g[n + (k + 1)] = StubTurn(f, g[n + k])
      BY <1>1, <3>1
    <3>3. g[n + k] = g[n]
      BY <2>2
    <3> QED BY <1>4, <3>2, <3>3
  <2>3. \A k \in Nat : k \in S
    <3> HIDE DEF S
    <3> QED BY <2>1, <2>2, NatSetInduction
  <2>4. N - n \in Nat /\ n + (N - n) = N
    OBVIOUS
  <2> QED BY <2>3, <2>4
<1> QED BY <1>5, <1>6

\* s is what fullstub knows after h, except for what an earlier header left.
Says(s, h) ==
    /\ s.coffset = h.lfanew /\ s.coffsize = h.words[0]
    /\ s.nsize = h.words[1] /\ s.nsize2 = h.words[2]
    /\ h.words[0] # 0 => s.noffset = h.lfanew + h.words[0]
    /\ (h.words[0] # 0 /\ h.words[1] # 0) => s.noffset2 = h.lfanew + h.words[0] + h.words[1]

\* For a packed header, what was left concerns empty regions only.
LEMMA SaysOverlays ==
    ASSUME NEW f, IsSeq(f), NEW h \in Headers, Packed(h),
           NEW s, s.noffset \in Nat, s.noffset2 \in Nat, Says(s, h)
    PROVE  Regions(f, s) = <<Overlay(f, h, 1), Overlay(f, h, 2), Overlay(f, h, 3)>>
<1>1. /\ h.words \in [Slots -> Nat] /\ h.lfanew \in Nat
      /\ h.words[0] \in Nat /\ h.words[1] \in Nat /\ h.words[2] \in Nat
  BY HeaderFields
<1>2. Regions(f, s) = <<Region(f, h.lfanew, h.words[0]), Region(f, s.noffset, h.words[1]),
                        Region(f, s.noffset2, h.words[2])>>
  BY DEF Regions, Says
<1>3. Region(f, h.lfanew, h.words[0]) = Overlay(f, h, 1)
  BY <1>1, SlotSum DEF Overlay
<1>4. Region(f, s.noffset, h.words[1]) = Overlay(f, h, 2)
  <2>1. Overlay(f, h, 2) = Region(f, h.lfanew + h.words[0], h.words[1])
    BY <1>1, SlotSum DEF Overlay
  <2>2. CASE h.words[0] = 0
    <3>1. h.words[1] = 0 /\ h.lfanew + h.words[0] \in Nat
      BY <1>1, <2>2 DEF Packed
    <3> QED BY <2>1, <3>1, EmptyRegion
  <2>3. CASE h.words[0] # 0
    BY <2>1, <2>3 DEF Says
  <2> QED BY <2>2, <2>3
<1>5. Region(f, s.noffset2, h.words[2]) = Overlay(f, h, 3)
  <2>1. Overlay(f, h, 3) = Region(f, h.lfanew + (h.words[0] + h.words[1]), h.words[2])
    BY <1>1, SlotSum DEF Overlay
  <2>2. CASE h.words[1] = 0
    <3>1. h.words[2] = 0
      BY <1>1, <2>2 DEF Packed
    <3>2. h.lfanew + (h.words[0] + h.words[1]) \in Nat
      BY <1>1
    <3> QED BY <2>1, <3>1, <3>2, EmptyRegion
  <2>3. CASE h.words[1] # 0
    <3>1. h.words[0] # 0
      BY <1>1, <2>3 DEF Packed
    <3>2. s.noffset2 = h.lfanew + h.words[0] + h.words[1]
      BY <2>3, <3>1 DEF Says
    <3>3. s.noffset2 = h.lfanew + (h.words[0] + h.words[1])
      BY <1>1, <3>2
    <3> QED BY <2>1, <3>3
  <2> QED BY <2>2, <2>3
<1> QED BY <1>2, <1>3, <1>4, <1>5

\* The stub's regions of a packed header are its overlays.
LEMMA PackedRegions ==
    ASSUME NEW f, NEW h, Describes(f, h), Packed(h)
    PROVE  /\ StubRegions(f) = <<Overlay(f, h, 1), Overlay(f, h, 2), Overlay(f, h, 3)>>
           /\ \A n \in 1 .. 3 : StubRegions(f)[n] = Overlay(f, h, n)
<1>1. h \in Headers
  BY DescribedHeader
<1>2. h.lfanew \in Nat /\ h.words[0] \in Nat /\ h.words[1] \in Nat
  BY <1>1, HeaderFields
<1>3. IsSeq(f)
  BY FileIsSeq DEF Describes
<1>4. PICK ops : StubRead(f) = Known(h, ops)
  BY <1>3, StubKnows DEF Describes
<1>5. Says(Known(h, ops), h)
  BY <1>2 DEF Says, Known
<1>6. Known(h, ops).noffset \in Nat /\ Known(h, ops).noffset2 \in Nat
  BY <1>2 DEF Known
<1>7. StubRegions(f) = <<Overlay(f, h, 1), Overlay(f, h, 2), Overlay(f, h, 3)>>
  BY <1>1, <1>3, <1>4, <1>5, <1>6, SaysOverlays DEF StubRegions
<1> QED BY <1>7

\* ...and of any header, those before which no overlay is empty, and the empty
\* ones.
LEMMA KnownRegions ==
    ASSUME NEW f, NEW h, Describes(f, h)
    PROVE  /\ StubRegions(f)[1] = Overlay(f, h, 1)
           /\ (h.words[1] = 0 \/ h.words[0] # 0) => StubRegions(f)[2] = Overlay(f, h, 2)
           /\ (h.words[2] = 0 \/ (h.words[0] # 0 /\ h.words[1] # 0)) =>
                StubRegions(f)[3] = Overlay(f, h, 3)
<1>1. h \in Headers
  BY DescribedHeader
<1>2. /\ h.words \in [Slots -> Nat] /\ h.lfanew \in Nat
      /\ h.words[0] \in Nat /\ h.words[1] \in Nat /\ h.words[2] \in Nat
  BY <1>1, HeaderFields
<1>3. IsSeq(f)
  BY FileIsSeq DEF Describes
<1>4. PICK ops : StubRead(f) = Known(h, ops)
  BY <1>3, StubKnows DEF Describes
<1> DEFINE s == Known(h, ops)
<1>5. /\ Says(s, h) /\ s.noffset \in Nat /\ s.noffset2 \in Nat
  BY <1>2 DEF Says, Known
<1> HIDE DEF s
<1>6. StubRegions(f) = <<Region(f, h.lfanew, h.words[0]), Region(f, s.noffset, h.words[1]),
                         Region(f, s.noffset2, h.words[2])>>
  BY <1>4, <1>5 DEF StubRegions, Regions, Says, s
<1>7. /\ StubRegions(f)[1] = Region(f, h.lfanew, h.words[0])
      /\ StubRegions(f)[2] = Region(f, s.noffset, h.words[1])
      /\ StubRegions(f)[3] = Region(f, s.noffset2, h.words[2])
  BY <1>6
<1>8. /\ Overlay(f, h, 1) = Region(f, h.lfanew, h.words[0])
      /\ Overlay(f, h, 2) = Region(f, h.lfanew + h.words[0], h.words[1])
      /\ Overlay(f, h, 3) = Region(f, h.lfanew + (h.words[0] + h.words[1]), h.words[2])
  BY <1>2, SlotSum DEF Overlay
<1>9. ASSUME h.words[1] = 0 \/ h.words[0] # 0
      PROVE  StubRegions(f)[2] = Overlay(f, h, 2)
  <2>1. CASE h.words[1] = 0
    <3>1. h.lfanew + h.words[0] \in Nat
      BY <1>2
    <3> QED BY <1>3, <1>5, <1>7, <1>8, <2>1, <3>1, EmptyRegion
  <2>2. CASE h.words[0] # 0
    BY <1>5, <1>7, <1>8, <2>2 DEF Says
  <2> QED BY <1>9, <2>1, <2>2
<1>10. ASSUME h.words[2] = 0 \/ (h.words[0] # 0 /\ h.words[1] # 0)
       PROVE  StubRegions(f)[3] = Overlay(f, h, 3)
  <2>1. CASE h.words[2] = 0
    <3>1. h.lfanew + (h.words[0] + h.words[1]) \in Nat
      BY <1>2
    <3> QED BY <1>3, <1>5, <1>7, <1>8, <2>1, <3>1, EmptyRegion
  <2>2. CASE h.words[0] # 0 /\ h.words[1] # 0
    <3>1. s.noffset2 = h.lfanew + h.words[0] + h.words[1]
      BY <1>5, <2>2 DEF Says
    <3>2. s.noffset2 = h.lfanew + (h.words[0] + h.words[1])
      BY <1>2, <3>1
    <3> QED BY <1>7, <1>8, <3>2
  <2> QED BY <1>10, <2>1, <2>2
<1> QED BY <1>7, <1>8, <1>9, <1>10

\* What the loop knows of a file with a header in front: nothing yet, or what
\* one of the headers says, and where it has found a payload.
Followed(f, s) ==
    /\ s.ops \in {"coff", "elf"} =>
         HasCell(f, s.coffset) /\ CellAt(f, s.coffset).what = s.ops
    /\ \/ s = StubStart
       \/ \E off \in Nat : /\ HasCell(f, off) /\ CellAt(f, off).what = "mz"
                           /\ Says(s, CellAt(f, off).hdr)

LEMMA FollowedTurn ==
    ASSUME NEW f, IsFile(f), StartsWith(f, "mz"), NEW s \in Chains, Followed(f, s)
    PROVE  Followed(f, StubTurn(f, s))
<1> DEFINE c == CellAt(f, s.coffset)
           t == StubTurn(f, s)
<1>1. CASE s.ops # "none"
  BY <1>1, TurnFacts
<1>2. CASE s.ops = "none" /\ HasCell(f, s.coffset) /\ c.what = "mz"
  <2>1. t = FromHeader(s, c.hdr) /\ t.ops = "none"
    BY <1>2, TurnFacts
  <2>2. s.coffset \in Nat
    BY DEF Chains
  <2>3. c.hdr \in Headers
    BY <1>2, <2>2, HeaderAt
  <2> DEFINE h == c.hdr
  <2>4. h.lfanew \in Nat /\ h.words[0] \in Nat /\ h.words[1] \in Nat
    BY <2>3, HeaderFields
  <2> HIDE DEF h
  <2>5. Says(FromHeader(s, h), h)
    BY <2>4 DEF Says, FromHeader, Chains
  <2> QED BY <1>2, <2>1, <2>2, <2>5 DEF Followed, h
<1>3. CASE s.ops = "none" /\ ~(HasCell(f, s.coffset) /\ c.what = "mz")
  <2>1. PICK x : /\ t = [s EXCEPT !.ops = x]
                 /\ x \in {"coff", "elf"} => HasCell(f, s.coffset) /\ c.what = x
    <3>1. CASE HasCell(f, s.coffset) /\ c.what \in {"coff", "elf"}
      BY <1>3, <3>1, TurnFacts
    <3>2. CASE ~HasCell(f, s.coffset) \/ c.what \notin {"mz", "coff", "elf"}
      <4>1. t = [s EXCEPT !.ops = "refused"]
        BY <1>3, <3>2, TurnFacts
      <4> QED BY <4>1
    <3> QED BY <1>3, <3>1, <3>2
  <2>2. /\ t.ops = x /\ t.coffset = s.coffset /\ t.coffsize = s.coffsize
        /\ t.noffset = s.noffset /\ t.nsize = s.nsize
        /\ t.noffset2 = s.noffset2 /\ t.nsize2 = s.nsize2
    BY <2>1 DEF Chains
  <2>3. s # StubStart
    BY <1>3 DEF StubStart, StartsWith
  <2>4. PICK off \in Nat : /\ HasCell(f, off) /\ CellAt(f, off).what = "mz"
                           /\ Says(s, CellAt(f, off).hdr)
    BY <2>3 DEF Followed
  <2> HIDE DEF t, c
  <2>5. Says(t, CellAt(f, off).hdr)
    BY <2>2, <2>4 DEF Says
  <2> QED BY <2>1, <2>2, <2>4, <2>5 DEF Followed, t, c
<1> QED BY <1>1, <1>2, <1>3

-----------------------------------------------------------------------------
(* What files are made of.                                                 *)

\* Every cell holds what its fields can hold.
Sound(c) == /\ c.what = "mz" => c.hdr \in Headers
            /\ c.what = "exe" => c.end \in Nat

LEMMA FileCells ==
    ASSUME NEW f
    PROVE  IsFile(f) <=> IsSeq(f) /\ \A k \in DOMAIN f : Sound(f[k])
BY DEF IsFile, IsSeq, Sound

LEMMA EmptyFile == IsFile(<< >>)
<1>1. IsSeq(<< >>) /\ Len(<< >>) = 0
  BY EmptyFacts
<1>2. DOMAIN << >> = 1 .. 0
  BY <1>1, SeqFacts
<1>3. \A k \in DOMAIN << >> : Sound(<< >>[k])
  BY <1>2
<1> QED BY <1>1, <1>3, FileCells

LEMMA ConcatFile ==
    ASSUME NEW s, NEW t, IsFile(s), IsFile(t)
    PROVE  IsFile(s \o t)
<1>1. /\ IsSeq(s) /\ Len(s) \in Nat /\ \A k \in DOMAIN s : Sound(s[k])
      /\ IsSeq(t) /\ Len(t) \in Nat /\ \A k \in DOMAIN t : Sound(t[k])
  BY FileIsSeq, FileCells
<1>2. DOMAIN s = 1 .. Len(s) /\ DOMAIN t = 1 .. Len(t)
  BY <1>1, SeqFacts
<1>3. IsConcat(s \o t, s, t)
  BY <1>1, Concat
<1>4. IsSeq(s \o t) /\ Len(s \o t) = Len(s) + Len(t)
  BY <1>3 DEF IsConcat
<1>5. DOMAIN (s \o t) = 1 .. Len(s) + Len(t)
  BY <1>4, SeqFacts
<1>6. ASSUME NEW k \in 1 .. Len(s) + Len(t)
      PROVE  Sound((s \o t)[k])
  <2>1. CASE k <= Len(s)
    <3>1. k \in 1 .. Len(s)
      BY <1>1, <2>1
    <3>2. (s \o t)[k] = s[k]
      BY <1>3, <3>1 DEF IsConcat
    <3>3. Sound(s[k])
      BY <1>1, <1>2, <3>1
    <3> QED BY <3>2, <3>3
  <2>2. CASE k > Len(s)
    <3>1. k - Len(s) \in 1 .. Len(t) /\ Len(s) + (k - Len(s)) = k
      BY <1>1, <2>2
    <3>2. (s \o t)[Len(s) + (k - Len(s))] = t[k - Len(s)]
      BY <1>3, <3>1 DEF IsConcat
    <3>3. Sound(t[k - Len(s)])
      BY <1>1, <1>2, <3>1
    <3> QED BY <3>1, <3>2, <3>3
  <2> QED BY <1>1, <2>1, <2>2
<1> QED BY <1>4, <1>5, <1>6, FileCells

LEMMA RegionFile ==
    ASSUME NEW f, IsFile(f), NEW off \in Nat, NEW len \in Int
    PROVE  IsFile(Region(f, off, len))
<1>1. IsSeq(f) /\ Len(f) \in Nat /\ \A k \in DOMAIN f : Sound(f[k])
  BY FileIsSeq, FileCells
<1>2. DOMAIN f = 1 .. Len(f)
  BY <1>1, SeqFacts
<1>3. IsRegion(Region(f, off, len), f, off, len)
  BY <1>1, RegionFacts
<1>4. IsSeq(Region(f, off, len)) /\ Len(Region(f, off, len)) = Have(f, off, len)
  BY <1>3 DEF IsRegion
<1>5. DOMAIN Region(f, off, len) = 1 .. Have(f, off, len)
  BY <1>4, SeqFacts
<1>6. ASSUME NEW k \in 1 .. Have(f, off, len)
      PROVE  Sound(Region(f, off, len)[k])
  <2>1. off + k \in 1 .. Len(f)
    BY <1>1 DEF Have
  <2>2. Region(f, off, len)[k] = f[off + k]
    BY <1>3 DEF IsRegion
  <2> QED BY <1>1, <1>2, <2>1, <2>2
<1> QED BY <1>4, <1>5, <1>6, FileCells

\* A stub, whatever its code has become.
LEMMA StubOfFile ==
    ASSUME NEW kind, NEW h \in Headers, NEW len \in Nat \ {0}
    PROVE  /\ IsFile(StubOf(kind, h, len))
           /\ Len(StubOf(kind, h, len)) = len
           /\ StubOf(kind, h, len)[1] = MzCell(h)
<1> DEFINE code == [k \in 1 .. len - 1 |-> [what |-> "code", of |-> kind, at |-> k]]
           S == {code[k] : k \in 1 .. len - 1}
<1>1. <<MzCell(h)>> \in Seq({MzCell(h)}) /\ Len(<<MzCell(h)>>) = 1 /\ <<MzCell(h)>>[1] = MzCell(h)
  OBVIOUS
<1>2. len - 1 \in Nat
  OBVIOUS
<1>3. code \in [1 .. len - 1 -> S]
  OBVIOUS
<1>4. code \in Seq(S)
  <2> DEFINE m == len - 1
  <2>1. m \in Nat /\ code \in [1 .. m -> S]
    BY <1>2, <1>3
  <2> HIDE DEF m, code, S
  <2> QED BY <2>1, SeqDef
<1>5. DOMAIN code = 1 .. len - 1 /\ \A k \in DOMAIN code : code[k].what = "code"
  OBVIOUS
<1> HIDE DEF code, S
<1>6. Len(code) = len - 1
  BY <1>2, <1>4, <1>5, LenProperties
<1>7. IsSeq(<<MzCell(h)>>) /\ IsSeq(code)
  BY <1>1, <1>4, SeqIntro
<1>8. IsFile(<<MzCell(h)>>)
  <2>1. DOMAIN <<MzCell(h)>> = {1}
    BY <1>1
  <2>2. Sound(MzCell(h))
    BY DEF Sound, MzCell
  <2> QED BY <1>1, <1>7, <2>1, <2>2, FileCells
<1>9. IsFile(code)
  BY <1>5, <1>7, FileCells DEF Sound
<1>10. IsConcat(<<MzCell(h)>> \o code, <<MzCell(h)>>, code)
  BY <1>7, Concat
<1>11. IsFile(<<MzCell(h)>> \o code)
  BY <1>8, <1>9, ConcatFile
<1>12. Len(<<MzCell(h)>> \o code) = len /\ (<<MzCell(h)>> \o code)[1] = MzCell(h)
  BY <1>1, <1>6, <1>10 DEF IsConcat
<1> QED BY <1>11, <1>12 DEF StubOf, code

\* The stub that -S delivers or the tool writes.
LEMMA StubFile ==
    ASSUME NEW h \in Headers, NEW len \in Nat \ {0}
    PROVE  /\ IsFile(Stub(h, len))
           /\ Len(Stub(h, len)) = len
           /\ Stub(h, len)[1] = MzCell(h)
BY StubOfFile DEF Stub

\* What has been written is described by the header in front of it, unless
\* another stub follows.
LEMMA WrittenFile ==
    ASSUME NEW h \in Headers, h.lfanew # 0, NEW t, IsFile(t),
           ~StartsWith(t, "mz")
    PROVE  /\ Describes(Stub(h, h.lfanew) \o t, h)
           /\ Len(Stub(h, h.lfanew) \o t) = h.lfanew + Len(t)
           /\ From(Stub(h, h.lfanew) \o t, h.lfanew) = t
<1> DEFINE s == Stub(h, h.lfanew)
           f == s \o t
<1>1. h.lfanew \in Nat \ {0}
  BY HeaderFields
<1>2. IsFile(s) /\ Len(s) = h.lfanew /\ s[1] = MzCell(h)
  BY <1>1, StubFile
<1> HIDE DEF s
<1>3. IsSeq(s) /\ IsSeq(t) /\ Len(t) \in Nat
  BY <1>2, FileIsSeq
<1>4. IsConcat(f, s, t)
  BY <1>3, Concat
<1>5. IsFile(f)
  BY <1>2, ConcatFile
<1> HIDE DEF f
<1>6. Len(f) = h.lfanew + Len(t) /\ f[1] = MzCell(h)
  BY <1>1, <1>2, <1>3, <1>4 DEF IsConcat
<1>7. StartsWith(f, "mz") /\ h = CellAt(f, 0).hdr
  BY <1>1, <1>3, <1>6 DEF StartsWith, HasCell, CellAt, MzCell
<1>8. ASSUME HasCell(f, h.lfanew)
      PROVE  CellAt(f, h.lfanew).what # "mz"
  <2>1. Len(t) > 0
    BY <1>1, <1>3, <1>6, <1>8 DEF HasCell
  <2>2. f[h.lfanew + 1] = t[1]
    BY <1>2, <1>3, <1>4, <2>1 DEF IsConcat
  <2> QED BY <2>1, <2>2 DEF CellAt, StartsWith, HasCell
<1>9. Describes(f, h)
  BY <1>5, <1>7, <1>8 DEF Describes
<1>10. From(f, h.lfanew) = t
  <2>1. Region(s \o t, Len(s), Len(t)) = t
    BY <1>3, RegionAppended
  <2>2. Region(f, h.lfanew, Len(t)) = t
    BY <1>2, <2>1 DEF f
  <2>3. IsSeq(f) /\ h.lfanew \in Nat /\ h.lfanew + Len(t) >= Len(f)
    BY <1>1, <1>3, <1>5, <1>6, FileIsSeq
  <2> QED BY <1>3, <2>2, <2>3, RestIsRegion
<1> QED BY <1>6, <1>9, <1>10 DEF f, s

\* What a region starts with lies at its offset.
LEMMA RegionStart ==
    ASSUME NEW f, IsSeq(f), NEW off \in Nat, NEW len \in Int, NEW kind,
           StartsWith(Region(f, off, len), kind)
    PROVE  HasCell(f, off) /\ CellAt(f, off).what = kind
<1>1. IsRegion(Region(f, off, len), f, off, len)
  BY RegionFacts
<1>2. Len(f) \in Nat
  BY SeqFacts
<1>3. Have(f, off, len) > 0
  BY <1>1 DEF IsRegion, StartsWith, HasCell
<1>4. Region(f, off, len)[1] = f[off + 1] /\ off < Len(f)
  BY <1>1, <1>2, <1>3 DEF IsRegion, Have
<1> QED BY <1>4 DEF StartsWith, HasCell, CellAt

\* What is copied from behind one header to behind another is described by it.
LEMMA CopiedFile ==
    ASSUME NEW h \in Headers, h.lfanew # 0, NEW f, IsFile(f), NEW off \in Nat,
           NEW len \in Int, HasCell(f, off) => CellAt(f, off).what # "mz"
    PROVE  /\ Describes(Stub(h, h.lfanew) \o Region(f, off, len), h)
           /\ From(Stub(h, h.lfanew) \o Region(f, off, len), h.lfanew) = Region(f, off, len)
<1>1. IsFile(Region(f, off, len))
  BY RegionFile
<1>2. ~StartsWith(Region(f, off, len), "mz")
  BY FileIsSeq, RegionStart
<1> QED BY <1>1, <1>2, WrittenFile

\* From the first cell on there is the whole file.
LEMMA FromStart ==
    ASSUME NEW f, IsSeq(f)
    PROVE  From(f, 0) = f
<1>1. Len(f) \in Nat
  BY SeqFacts
<1>2. /\ IsSeq(From(f, 0)) /\ Len(From(f, 0)) = Len(f)
      /\ \A k \in 1 .. Len(From(f, 0)) : From(f, 0)[k] = f[0 + k]
  BY <1>1, FromFacts
<1>3. \A k \in 1 .. Len(From(f, 0)) : From(f, 0)[k] = f[k]
  BY <1>2
<1> QED BY <1>2, <1>3, SameSeq

\* A region of two parts.
LEMMA HaveSum ==
    ASSUME NEW f, IsSeq(f), NEW off \in Nat, NEW a \in Nat, NEW b \in Nat
    PROVE  Have(f, off, a + b) = Have(f, off, a) + Have(f, off + a, b)
<1> DEFINE n == Len(f)
<1>1. n \in Nat
  BY SeqFacts
<1>2. /\ Have(f, off, a) = IF a <= 0 \/ off >= n THEN 0
                           ELSE IF off + a <= n THEN a ELSE n - off
      /\ Have(f, off + a, b) = IF b <= 0 \/ off + a >= n THEN 0
                               ELSE IF (off + a) + b <= n THEN b ELSE n - (off + a)
      /\ Have(f, off, a + b) = IF a + b <= 0 \/ off >= n THEN 0
                               ELSE IF off + (a + b) <= n THEN a + b ELSE n - off
  BY DEF Have
<1> HIDE DEF n
<1>3. CASE off >= n
  BY <1>1, <1>2, <1>3
<1>4. CASE off < n /\ off + a >= n
  BY <1>1, <1>2, <1>4
<1>5. CASE off < n /\ off + a < n
  BY <1>1, <1>2, <1>5
<1> QED BY <1>1, <1>3, <1>4, <1>5

\* An overlay that has been copied from behind one stub to behind another.
LEMMA CopiedOverlay ==
    ASSUME NEW h \in Headers, h.lfanew # 0, NEW f, IsFile(f), NEW g \in Headers,
           NEW len \in Int, NEW n \in 1 .. 3,
           \A s \in 0 .. n - 1 : h.words[s] = g.words[s],
           SlotOffs(g, n) <= len \/ Len(f) <= g.lfanew + len
    PROVE  Overlay(Stub(h, h.lfanew) \o Region(f, g.lfanew, len), h, n) = Overlay(f, g, n)
<1> DEFINE s == Stub(h, h.lfanew)
           a == SlotOffs(g, n - 1)
<1>1. h.lfanew \in Nat \ {0} /\ g.lfanew \in Nat /\ h.words \in [Slots -> Nat]
      /\ g.words \in [Slots -> Nat]
  BY HeaderFields
<1>2. Len(s) = h.lfanew /\ IsSeq(s) /\ IsSeq(f)
  BY <1>1, StubFile, FileIsSeq
<1>3. /\ g.words[0] \in Nat /\ g.words[1] \in Nat /\ g.words[2] \in Nat
      /\ h.words[0] \in Nat /\ h.words[1] \in Nat /\ h.words[2] \in Nat
  BY HeaderFields
<1>4. /\ h.words[n - 1] = g.words[n - 1] /\ SlotOffs(h, n - 1) = a
      /\ a \in Nat /\ g.words[n - 1] \in Nat
      /\ SlotOffs(g, n) = a + g.words[n - 1]
  <2>1. CASE n = 1
    BY <1>1, <1>3, <2>1, SlotSum
  <2>2. CASE n = 2
    BY <1>1, <1>3, <2>2, SlotSum
  <2>3. CASE n = 3
    BY <1>1, <1>3, <2>3, SlotSum
  <2> QED BY <2>1, <2>2, <2>3
<1> HIDE DEF s, a
<1>5. a + g.words[n - 1] <= len \/ Len(f) <= g.lfanew + len
  BY <1>4
<1>6. Region(s \o Region(f, g.lfanew, len), Len(s) + a, g.words[n - 1])
        = Region(f, g.lfanew + a, g.words[n - 1])
  <2> DEFINE l == g.lfanew
             w == g.words[n - 1]
             p == Len(s) + a
             q == l + a
  <2>1. IsSeq(s) /\ IsSeq(f) /\ l \in Nat /\ w \in Nat
    BY <1>1, <1>2, <1>4
  <2>2. p \in Nat /\ q \in Nat /\ l <= q /\ p = Len(s) + (q - l)
    <3>1. Len(s) \in Nat /\ l \in Nat /\ a \in Nat
      BY <1>1, <1>2, <1>4
    <3> HIDE DEF l, w
    <3> QED BY <3>1
  <2>3. q + w <= l + len \/ Len(f) <= l + len
    BY <1>1, <1>4, <1>5
  <2> HIDE DEF l, w, p, q
  <2>4. Region(s \o Region(f, l, len), p, w) = Region(f, q, w)
    BY <2>1, <2>2, <2>3, RegionShift
  <2> QED BY <2>4 DEF l, w, p, q
<1>7. Region(s \o Region(f, g.lfanew, len), h.lfanew + SlotOffs(h, n - 1), h.words[n - 1])
        = Region(f, g.lfanew + SlotOffs(g, n - 1), g.words[n - 1])
  BY <1>2, <1>4, <1>6 DEF a
<1> QED BY <1>7 DEF Overlay, s

\* One slot further.
LEMMA SlotSteps ==
    ASSUME NEW h \in Headers, NEW n \in Slots
    PROVE  /\ h.words[n] \in Nat
           /\ SlotOffs(h, n) \in Nat /\ SlotOffs(h, n + 1) \in Nat
           /\ SlotOffs(h, n + 1) = SlotOffs(h, n) + h.words[n]
<1>1. /\ h.words \in [Slots -> Nat] /\ h.words[0] \in Nat /\ h.words[1] \in Nat
      /\ h.words[2] \in Nat /\ h.words[3] \in Nat
  BY HeaderFields
<1>2. n = 0 \/ n = 1 \/ n = 2 \/ n = 3
  BY DEF Slots
<1>3. CASE n = 0
  BY <1>1, <1>3, SlotSum
<1>4. CASE n = 1
  BY <1>1, <1>4, SlotSum
<1>5. CASE n = 2
  BY <1>1, <1>5, SlotSum
<1>6. CASE n = 3
  BY <1>1, <1>6, SlotSum
<1> QED BY <1>2, <1>3, <1>4, <1>5, <1>6

LEMMA SlotsGrow ==
    ASSUME NEW h \in Headers, NEW m \in 0 .. 4, NEW n \in 0 .. 4, m <= n
    PROVE  /\ SlotOffs(h, m) \in Nat /\ SlotOffs(h, n) \in Nat
           /\ SlotOffs(h, m) <= SlotOffs(h, n)
<1> DEFINE o(k) == SlotOffs(h, k)
<1>1. o(0) = 0 /\ 0 \in Slots /\ 1 \in Slots /\ 2 \in Slots /\ 3 \in Slots
  BY HeaderFields, SlotSum DEF Slots
<1>2. /\ o(1) \in Nat /\ o(2) \in Nat /\ o(3) \in Nat /\ o(4) \in Nat
      /\ o(0) <= o(1) /\ o(1) <= o(2) /\ o(2) <= o(3) /\ o(3) <= o(4)
  <2>1. /\ o(0 + 1) \in Nat /\ o(0 + 1) >= o(0) /\ o(1 + 1) \in Nat /\ o(1 + 1) >= o(1)
        /\ o(2 + 1) \in Nat /\ o(2 + 1) >= o(2) /\ o(3 + 1) \in Nat /\ o(3 + 1) >= o(3)
    <3>1. ASSUME NEW k \in Slots
          PROVE  o(k + 1) \in Nat /\ o(k + 1) >= o(k)
      <4>1. o(k + 1) = o(k) + h.words[k] /\ o(k) \in Nat /\ h.words[k] \in Nat
        BY SlotSteps
      <4> HIDE DEF o
      <4> QED BY <4>1
    <3> HIDE DEF o
    <3> QED BY <1>1, <3>1
  <2>2. 0 + 1 = 1 /\ 1 + 1 = 2 /\ 2 + 1 = 3 /\ 3 + 1 = 4
    OBVIOUS
  <2> HIDE DEF o
  <2> QED BY <1>1, <2>1, <2>2
<1>3. (m = 0 \/ m = 1 \/ m = 2 \/ m = 3 \/ m = 4) /\ (n = 0 \/ n = 1 \/ n = 2 \/ n = 3 \/ n = 4)
  OBVIOUS
<1>4. o(m) \in Nat /\ o(n) \in Nat /\ o(m) <= o(n)
  <2> HIDE DEF o
  <2> QED BY <1>1, <1>2, <1>3
<1> QED BY <1>4

\* A slot's offset depends on the words before it.
LEMMA SameSlots ==
    ASSUME NEW h \in Headers, NEW g \in Headers, NEW n \in Slots,
           \A s \in Slots : s < n => h.words[s] = g.words[s]
    PROVE  SlotOffs(h, n) = SlotOffs(g, n)
<1>1. h.words \in [Slots -> Nat] /\ g.words \in [Slots -> Nat]
  BY HeaderFields
<1>2. 0 \in Slots /\ 1 \in Slots /\ 2 \in Slots /\ n \in {0, 1, 2, 3}
  BY DEF Slots
<1>3. CASE n = 0
  BY <1>1, <1>3, SlotSum
<1>4. CASE n = 1
  BY <1>1, <1>2, <1>4, SlotSum
<1>5. CASE n = 2
  BY <1>1, <1>2, <1>5, SlotSum
<1>6. CASE n = 3
  BY <1>1, <1>2, <1>6, SlotSum
<1> QED BY <1>2, <1>3, <1>4, <1>5, <1>6

\* What is left of the copy from some place on is what was there, as far as that
\* reached.
LEMMA RegionLeft ==
    ASSUME NEW s, NEW f, IsSeq(s), IsSeq(f), NEW l \in Nat, NEW z \in Int,
           NEW p \in Nat, NEW q \in Nat, l <= q, p = Len(s) + (q - l),
           NEW w \in Nat \ {0}, q < Len(f), NEW v, v = Len(s \o Region(f, l, z)) - p,
           l + z = q + w \/ (Len(f) <= l + z /\ w = Len(f) - q)
    PROVE  Region(s \o Region(f, l, z), p, v) = Region(f, q, w)
<1> DEFINE r == Region(f, l, z)
           n == Len(f)
<1>1. n \in Nat /\ Len(s) \in Nat
  BY SeqFacts
<1>2. IsSeq(r) /\ Len(r) = Have(f, l, z)
  BY RegionFacts DEF IsRegion
<1> HIDE DEF r
<1>3. Len(s \o r) = Len(s) + Len(r)
  BY <1>2, ConcatFacts
<1>4. Len(r) = IF l + z <= n THEN z ELSE n - l
  BY <1>1, <1>2 DEF Have
<1>5. v = Len(r) - (q - l)
  <2>1. Len(r) \in Int
    BY <1>1, <1>4
  <2> QED BY <1>1, <1>3, <2>1 DEF r
<1>6. v = IF l + z <= n THEN (l + z) - q ELSE n - q
  BY <1>1, <1>4, <1>5
<1>7. v \in Nat /\ (q + v <= l + z \/ Len(f) <= l + z)
  BY <1>1, <1>6
<1>8. v = w \/ (q + v >= n /\ v <= w)
  BY <1>1, <1>6
<1>9. Region(s \o Region(f, l, z), p, v) = Region(f, q, v)
  BY <1>7, RegionShift
<1>10. Region(f, q, v) = Region(f, q, w)
  BY <1>1, <1>7, <1>8, RegionWhole
<1> QED BY <1>9, <1>10

\* Only a region in the file has something in it.
LEMMA RegionFull ==
    ASSUME NEW f, IsSeq(f), NEW q \in Nat, NEW w \in Int, Region(f, q, w) # << >>
    PROVE  w > 0 /\ q < Len(f)
<1>1. IsRegion(Region(f, q, w), f, q, w) /\ Len(f) \in Nat
  BY RegionFacts, SeqFacts
<1>2. Have(f, q, w) # 0
  BY <1>1, EmptyFacts DEF IsRegion
<1> QED BY <1>1, <1>2 DEF Have

\* The cell behind the header is the one that was copied first.
LEMMA CopiedHead ==
    ASSUME NEW h \in Headers, h.lfanew # 0, NEW t, IsSeq(t),
           HasCell(Stub(h, h.lfanew) \o t, h.lfanew)
    PROVE  HasCell(t, 0) /\ CellAt(Stub(h, h.lfanew) \o t, h.lfanew) = CellAt(t, 0)
<1> DEFINE s == Stub(h, h.lfanew)
<1>1. h.lfanew \in Nat \ {0}
  BY HeaderFields
<1>2. IsSeq(s) /\ Len(s) = h.lfanew /\ Len(t) \in Nat
  BY <1>1, StubFile, FileIsSeq, SeqFacts
<1> HIDE DEF s
<1>3. Len(s \o t) = Len(s) + Len(t) /\ \A k \in 1 .. Len(t) : (s \o t)[Len(s) + k] = t[k]
  BY <1>2, ConcatFacts
<1>4. h.lfanew < Len(s \o t)
  BY DEF HasCell, s
<1>5. 0 < Len(t) /\ 1 \in 1 .. Len(t)
  BY <1>1, <1>2, <1>3, <1>4
<1>6. (s \o t)[h.lfanew + 1] = t[0 + 1]
  BY <1>2, <1>3, <1>5
<1> QED BY <1>5, <1>6 DEF HasCell, CellAt, s

-----------------------------------------------------------------------------
(* How the tool reads a header.                                            *)

LEMMA FirstSlot ==
    ASSUME NEW S \in SUBSET Slots, S # {}
    PROVE  \E s \in S : \A t \in S : s <= t
<1>1. \A s \in S : s \in {0, 1, 2, 3}
  BY DEF Slots
<1>2. CASE 0 \in S
  BY <1>1, <1>2
<1>3. CASE 0 \notin S /\ 1 \in S
  BY <1>1, <1>3
<1>4. CASE 0 \notin S /\ 1 \notin S /\ 2 \in S
  BY <1>1, <1>4
<1>5. CASE 0 \notin S /\ 1 \notin S /\ 2 \notin S
  BY <1>1, <1>5
<1> QED BY <1>2, <1>3, <1>4, <1>5

LEMMA LastSlot ==
    ASSUME NEW S \in SUBSET Slots, S # {}
    PROVE  \E s \in S : \A t \in S : t <= s
<1>1. \A s \in S : s \in {0, 1, 2, 3}
  BY DEF Slots
<1>2. CASE 3 \in S
  BY <1>1, <1>2
<1>3. CASE 3 \notin S /\ 2 \in S
  BY <1>1, <1>3
<1>4. CASE 3 \notin S /\ 2 \notin S /\ 1 \in S
  BY <1>1, <1>4
<1>5. CASE 3 \notin S /\ 2 \notin S /\ 1 \notin S
  BY <1>1, <1>5
<1> QED BY <1>2, <1>3, <1>4, <1>5

LEMMA TypeCountFacts ==
    ASSUME NEW h \in Headers
    PROVE  /\ TypeCount(h) \in 0 .. 4
           /\ TypeCount(h) = 0 => \A s \in Slots : h.types[s] = 0
<1>1. CASE \A s \in Slots : h.types[s] = 0
  BY <1>1 DEF TypeCount
<1>2. CASE ~ \A s \in Slots : h.types[s] = 0
  <2> DEFINE S == {s \in Slots : h.types[s] # 0}
             top == CHOOSE s \in Slots :
                       h.types[s] # 0 /\ \A t \in Slots : t > s => h.types[t] = 0
  <2>1. S \in SUBSET Slots /\ S # {}
    BY <1>2
  <2>2. PICK s \in S : \A t \in S : t <= s
    <3> HIDE DEF S
    <3> QED BY <2>1, LastSlot
  <2>3. h.types[s] # 0 /\ \A t \in Slots : t > s => h.types[t] = 0
    BY <2>2 DEF Slots
  <2>4. top \in Slots
    BY <2>2, <2>3
  <2>5. TypeCount(h) = 1 + top
    BY <1>2 DEF TypeCount
  <2> HIDE DEF top
  <2> QED BY <2>4, <2>5 DEF Slots
<1> QED BY <1>1, <1>2

\* What is found is the first slot that has the type.
LEMMA FindFacts ==
    ASSUME NEW h \in Headers, NEW type, find_idx(type, h) # -1
    PROVE  /\ find_idx(type, h) \in Slots
           /\ h.types[find_idx(type, h)] = type
           /\ \A s \in Slots : h.types[s] = type => find_idx(type, h) <= s
           /\ find_size(type, h) = h.words[find_idx(type, h)]
           /\ find_offs(type, h) = SlotOffs(h, find_idx(type, h))
<1> DEFINE idx == find_idx(type, h)
           S == {s \in Slots : s < TypeCount(h) /\ h.types[s] = type}
<1>1. find_size(type, h) = h.words[idx] /\ find_offs(type, h) = SlotOffs(h, idx)
  BY DEF find_size, find_offs
<1>2. CASE type = OT_COFF /\ TypeCount(h) = 0
  <2>1. idx = 0
    BY <1>2 DEF find_idx
  <2>2. \A s \in Slots : h.types[s] = 0
    BY <1>2, TypeCountFacts
  <2> QED BY <1>1, <1>2, <2>1, <2>2 DEF Slots, OT_COFF
<1>3. CASE ~(type = OT_COFF /\ TypeCount(h) = 0)
  <2>1. S # {}
    BY <1>3 DEF find_idx
  <2>2. idx = CHOOSE s \in S : \A t \in S : s <= t
    BY <1>3, <2>1 DEF find_idx
  <2>3. idx \in S /\ \A t \in S : idx <= t
    <3>1. S \in SUBSET Slots
      OBVIOUS
    <3> HIDE DEF S, idx
    <3>2. \E s \in S : \A t \in S : s <= t
      BY <2>1, <3>1, FirstSlot
    <3> QED BY <2>2, <3>2
  <2>4. ASSUME NEW s \in Slots, h.types[s] = type
        PROVE  idx <= s
    <3>1. CASE s < TypeCount(h)
      BY <2>3, <2>4, <3>1
    <3>2. CASE ~(s < TypeCount(h))
      <4>1. idx \in Slots /\ idx < TypeCount(h)
        BY <2>3
      <4> HIDE DEF idx
      <4> QED BY <3>2, <4>1, TypeCountFacts DEF Slots
    <3> QED BY <3>1, <3>2
  <2> QED BY <1>1, <2>3, <2>4
<1> QED BY <1>2, <1>3

\* The walk passes what is not empty, and stops.
LEMMA WalkFacts ==
    ASSUME NEW h \in Headers
    PROVE  /\ Walk(h).passed \in 0 .. 4 /\ Walk(h).size \in Nat
           /\ \A s \in Slots : s < Walk(h).passed => h.words[s] # 0
           /\ (Walk(h).type \in DebugTypes /\ Walk(h).size > 0) =>
                 Walk(h).passed >= 1 /\ Walk(h).size = h.words[Walk(h).passed - 1]
<1> DEFINE top == TypeCount(h)
           S == {s \in Slots : s < top /\ h.words[s] = 0}
           p == CHOOSE s \in S : \A t \in S : s <= t
<1>1. h.words \in [Slots -> Nat] /\ 0 \in Slots /\ \A s \in Slots : s \in {0, 1, 2, 3}
  BY HeaderFields DEF Slots
<1>2. top \in 0 .. 4
  BY TypeCountFacts
<1>3. CASE top = 0
  <2>1. Walk(h) = [passed |-> 0, type |-> OT_COFF, size |-> h.words[0]]
    BY <1>3 DEF Walk
  <2>2. OT_COFF \notin DebugTypes
    BY DEF OT_COFF, DebugTypes, OT_D64, OT_D32
  <2> QED BY <1>1, <2>1, <2>2
<1>4. CASE top # 0 /\ S = {}
  <2>1. Walk(h) = [passed |-> top, type |-> h.types[top - 1], size |-> h.words[top - 1]]
    BY <1>4 DEF Walk
  <2>2. top - 1 \in Slots
    BY <1>2, <1>4 DEF Slots
  <2>3. \A s \in Slots : s < top => h.words[s] # 0
    BY <1>4
  <2> HIDE DEF top
  <2> QED BY <1>1, <1>2, <1>4, <2>1, <2>2, <2>3
<1>5. CASE top # 0 /\ S # {}
  <2>1. Walk(h) = [passed |-> p, type |-> h.types[p], size |-> 0]
    BY <1>5 DEF Walk
  <2>2. p \in S /\ \A t \in S : p <= t
    <3>1. S \in SUBSET Slots
      OBVIOUS
    <3> HIDE DEF S
    <3>2. \E s \in S : \A t \in S : s <= t
      BY <1>5, <3>1, FirstSlot
    <3> QED BY <3>2
  <2>3. \A s \in Slots : s < p => h.words[s] # 0
    <3>1. p \in Slots /\ p < top
      BY <2>2
    <3>2. \A s \in Slots : s < top /\ h.words[s] = 0 => p <= s
      BY <2>2
    <3> HIDE DEF p, top
    <3> QED BY <1>1, <1>2, <3>1, <3>2
  <2>4. p \in {0, 1, 2, 3}
    BY <1>1, <2>2
  <2> HIDE DEF p
  <2> QED BY <2>1, <2>3, <2>4
<1> QED BY <1>3, <1>4, <1>5

\* The lookup stays below the highest nibble that is set.
LEMMA FindBelow ==
    ASSUME NEW h \in Headers, NEW type, find_idx(type, h) # -1
    PROVE  find_idx(type, h) < TypeCount(h) \/ TypeCount(h) = 0
<1> DEFINE S == {s \in Slots : s < TypeCount(h) /\ h.types[s] = type}
<1> SUFFICES ASSUME TypeCount(h) # 0 PROVE find_idx(type, h) \in S
  OBVIOUS
<1>1. S # {} /\ find_idx(type, h) = CHOOSE s \in S : \A t \in S : s <= t
  BY DEF find_idx
<1>2. \E s \in S : \A t \in S : s <= t
  <2>1. S \in SUBSET Slots
    OBVIOUS
  <2> HIDE DEF S
  <2> QED BY <1>1, <2>1, FirstSlot
<1> HIDE DEF S
<1> QED BY <1>1, <1>2

\* Which overlay is found depends on the type map alone.
LEMMA SameTypes ==
    ASSUME NEW h, NEW g, h.types = g.types, NEW type
    PROVE  find_idx(type, h) = find_idx(type, g) /\ TypeCount(h) = TypeCount(g)
<1>1. TypeCount(h) = TypeCount(g)
  BY DEF TypeCount
<1> QED BY <1>1 DEF find_idx

\* A walk that ends at a debug type has passed every overlay that is of another
\* type and has nothing empty before it; if it ends at bytes, they are others.
LEMMA WalkPasses ==
    ASSUME NEW h \in Headers, NEW type, type \notin DebugTypes, find_idx(type, h) # -1,
           \A s \in Slots : s < find_idx(type, h) => h.words[s] # 0,
           Walk(h).type \in DebugTypes
    PROVE  /\ find_idx(type, h) < Walk(h).passed
           /\ Walk(h).size # 0 => /\ find_idx(type, h) < Walk(h).passed - 1
                                  /\ Walk(h).size = h.words[Walk(h).passed - 1]
<1> DEFINE idx == find_idx(type, h)
           top == TypeCount(h)
           S == {s \in Slots : s < top /\ h.words[s] = 0}
           p == CHOOSE s \in S : \A t \in S : s <= t
<1>1. idx \in Slots /\ h.types[idx] = type /\ top \in 0 .. 4
  BY FindFacts, TypeCountFacts
<1>2. top # 0
  <2> SUFFICES ASSUME top = 0 PROVE FALSE
    OBVIOUS
  <2>1. Walk(h) = [passed |-> 0, type |-> OT_COFF, size |-> h.words[0]]
    BY DEF Walk
  <2> QED BY <2>1 DEF OT_COFF, DebugTypes, OT_D64, OT_D32
<1>3. idx < top
  BY <1>2, FindBelow
<1>4. CASE S = {}
  <2>1. Walk(h) = [passed |-> top, type |-> h.types[top - 1], size |-> h.words[top - 1]]
    BY <1>2, <1>4 DEF Walk
  <2>2. idx # top - 1
    BY <1>1, <2>1
  <2> HIDE DEF idx, top
  <2>3. idx < top - 1
    BY <1>1, <1>3, <2>2 DEF Slots
  <2> QED BY <1>1, <1>3, <2>1, <2>3 DEF idx
<1>5. CASE S # {}
  <2>1. Walk(h) = [passed |-> p, type |-> h.types[p], size |-> 0]
    BY <1>2, <1>5 DEF Walk
  <2>2. p \in S
    <3>1. S \in SUBSET Slots
      OBVIOUS
    <3> HIDE DEF S
    <3>2. \E s \in S : \A t \in S : s <= t
      BY <1>5, <3>1, FirstSlot
    <3> QED BY <3>2
  <2>3. p \in Slots /\ h.words[p] = 0 /\ ~(p < idx)
    BY <2>2
  <2>4. p # idx
    <3>1. h.types[p] \in DebugTypes
      BY <2>1
    <3> QED BY <1>1, <3>1
  <2> HIDE DEF idx, p
  <2>5. idx < p
    BY <1>1, <2>3, <2>4 DEF Slots
  <2> QED BY <2>1, <2>5 DEF idx
<1> QED BY <1>4, <1>5
=============================================================================
