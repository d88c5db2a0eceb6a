---------------------------- MODULE EnvScanProofs ----------------------------
(***************************************************************************)
(* Theorems about EnvScan for every environment block and every path.      *)
(***************************************************************************)
EXTENDS EnvScanInv, FiniteSetTheorems, TLAPS

\* What an environment block looks like.
LEMMA BlockFacts ==
    ASSUME NEW e \in Envs
    PROVE  /\ Last(e) \in Nat \ {0}
           /\ DOMAIN e = 0 .. Last(e)
           /\ e \in [0 .. Last(e) -> {Nul, Letter, ElfExec}]
           /\ e[Last(e) - 1] = Nul /\ e[Last(e)] = Nul
           /\ \A p \in 0 .. Last(e) - 1 : Ends(e, p) <=> p = Last(e) - 1
           /\ \A p \in 0 .. Last(e) - 2 : e[p] # Nul \/ e[p + 1] # Nul
<1>1. PICK n \in DOMAIN e : /\ n \in Nat \ {0}
                            /\ e \in [0 .. n -> {Nul, Letter, ElfExec}]
                            /\ Ends(e, n - 1)
                            /\ \A q \in 0 .. n - 2 : ~Ends(e, q)
  BY EnvsAssumption
<1>2. DOMAIN e = 0 .. n
  BY <1>1
<1>3. Last(e) = n
  BY <1>1, <1>2 DEF Last
<1>4. e[n - 1] = Nul /\ e[n] = Nul
  BY <1>1 DEF Ends
<1>5. \A p \in 0 .. n - 2 : e[p] # Nul \/ e[p + 1] # Nul
  BY <1>1, <1>2 DEF Ends
<1>6. \A p \in 0 .. n - 1 : Ends(e, p) <=> p = n - 1
  BY <1>1, <1>2, <1>4 DEF Ends
<1> QED
  BY <1>1, <1>2, <1>3, <1>4, <1>5, <1>6

\* The starts before a position are finitely many natural numbers below it.
LEMMA StartsFacts ==
    ASSUME NEW e \in Envs, NEW p \in Nat
    PROVE  /\ IsFiniteSet(Starts(e, p))
           /\ Cardinality(Starts(e, p)) \in Nat
           /\ Starts(e, p) \subseteq 0 .. p - 1
           /\ \A q \in Starts(e, p) : q \in DOMAIN e /\ e[q] # Nul
<1>1. Starts(e, p) \subseteq 0 .. p - 1
  BY DEF Starts
<1>2. IsFiniteSet(0 .. p - 1)
  BY FS_Interval
<1>3. IsFiniteSet(Starts(e, p))
  BY <1>1, <1>2, FS_Subset
<1> QED
  BY <1>1, <1>3, FS_CardinalityType DEF Starts, StartsAt

\* Going one position further adds the start that is there, if there is one.
LEMMA StartsNext ==
    ASSUME NEW e \in Envs, NEW p \in Nat
    PROVE  /\ StartsAt(e, p) => /\ Starts(e, p + 1) = Starts(e, p) \cup {p}
                                /\ Cardinality(Starts(e, p + 1))
                                     = Cardinality(Starts(e, p)) + 1
           /\ ~StartsAt(e, p) => Starts(e, p + 1) = Starts(e, p)
<1>1. p \notin Starts(e, p)
  BY DEF Starts
<1>2. StartsAt(e, p) => Starts(e, p + 1) = Starts(e, p) \cup {p}
  BY DEF Starts
<1>3. ~StartsAt(e, p) => Starts(e, p + 1) = Starts(e, p)
  <2> SUFFICES ASSUME ~StartsAt(e, p)
               PROVE  Starts(e, p + 1) = Starts(e, p)
    OBVIOUS
  <2>1. \A q \in 0 .. p : q \in 0 .. p - 1 \/ q = p
    OBVIOUS
  <2>2. \A q : StartsAt(e, q) /\ q \in 0 .. p => q \in 0 .. p - 1
    BY <2>1
  <2>3. (p + 1) - 1 = p /\ \A q \in 0 .. p - 1 : q \in 0 .. p
    OBVIOUS
  <2> QED
    BY <2>2, <2>3 DEF Starts
<1>4. Cardinality(Starts(e, p) \cup {p}) = Cardinality(Starts(e, p)) + 1
  BY <1>1, StartsFacts, FS_AddElement
<1> QED
  BY <1>2, <1>3, <1>4

\* Up to any position there are no more starts than in the whole block.
LEMMA StartsMonotone ==
    ASSUME NEW e \in Envs, NEW p \in 0 .. Last(e)
    PROVE  /\ Starts(e, p) \subseteq Starts(e, Last(e))
           /\ Cardinality(Starts(e, p)) <= Cardinality(Starts(e, Last(e)))
<1>1. Last(e) \in Nat
  BY BlockFacts
<1>2. Starts(e, p) \subseteq Starts(e, Last(e))
  BY <1>1 DEF Starts
<1> QED
  BY <1>1, <1>2, StartsFacts, FS_Subset

\* The last two cells are NULs, so the scans miss nothing by stopping there.
LEMMA StartsAtEnd ==
    ASSUME NEW e \in Envs
    PROVE  Starts(e, Last(e) - 1) = Starts(e, Last(e))
<1>1. Last(e) - 1 \in Nat /\ ~StartsAt(e, Last(e) - 1)
  BY BlockFacts DEF StartsAt
<1>2. (Last(e) - 1) + 1 = Last(e)
  BY BlockFacts
<1> QED
  BY <1>1, <1>2, StartsNext

-----------------------------------------------------------------------------
(* What the finished array says.                                           *)

LEMMA ArrayFacts ==
    ASSUME EInv, pc \in Filled
    PROVE  /\ envc2 = envc
           /\ \A n \in 0 .. envc - 1 : /\ envp[n] \in Starts(env, Last(env))
                                       /\ envp[n] \in 0 .. Last(env) - 1
                                       /\ env[envp[n]] # Nul
           /\ \A p \in Starts(env, Last(env)) : \E n \in 0 .. envc - 1 : envp[n] = p
           /\ \A n \in 0 .. envc : envp[n] = NULL <=> n = envc
           /\ \A m, n \in 0 .. envc - 1 : m < n => envp[m] < envp[n]
<1>1. env \in Envs /\ Last(env) \in Nat /\ envc \in Nat
  BY BlockFacts DEF EInv, VarsOK
<1>2. Entered(Last(env)) /\ pc # "count"
  BY DEF EInv, FillInv, Filled
<1>3. envc2 = envc
  BY <1>2 DEF EInv, CountInv, Entered
<1>4. /\ {envp[n] : n \in 0 .. envc - 1} = Starts(env, Last(env))
      /\ \A m, n \in 0 .. envc - 1 : m < n => envp[m] < envp[n]
  BY <1>2, <1>3 DEF Entered
<1>5. \A n \in 0 .. envc - 1 : envp[n] \in Starts(env, Last(env))
  BY <1>4
<1>6. \A n \in 0 .. envc - 1 : envp[n] \in 0 .. Last(env) - 1 /\ env[envp[n]] # Nul
  BY <1>1, <1>5, StartsFacts
<1>7. \A n \in 0 .. envc : envp[n] = NULL <=> n = envc
  <2>1. envp[envc] = NULL
    BY <1>2 DEF EInv, ArrayInv
  <2>2. \A n \in 0 .. envc - 1 : envp[n] # NULL
    BY <1>1, <1>6 DEF NULL
  <2> QED
    BY <1>1, <2>1, <2>2
<1> QED
  BY <1>3, <1>4, <1>5, <1>6, <1>7

\* A string ends one cell before the next one starts.
LEMMA NextString ==
    ASSUME EInv, pc \in Filled, NEW n \in 0 .. envc - 1
    PROVE  /\ strlen(envp[n]) \in Nat
           /\ Reach(n) + strlen(envp[n]) + 1 = Reach(n + 1)
<1> DEFINE N == Last(env)
           p == envp[n]
           q == Reach(n + 1)
           s == q - 1 - p
           IsLength(x) == /\ p + x \in DOMAIN env /\ env[p + x] = Nul
                          /\ \A m \in 0 .. x - 1 : env[p + m] # Nul
<1>1. env \in Envs /\ N \in Nat \ {0} /\ envc \in Nat /\ DOMAIN env = 0 .. N
  BY BlockFacts DEF EInv, VarsOK
<1>2. p \in Starts(env, N) /\ p \in 0 .. N - 1 /\ Reach(n) = p
  BY <1>1, ArrayFacts DEF Reach
<1>3. p < q /\ q \in 0 .. N /\ env[q - 1] = Nul
  <2>1. CASE n + 1 < envc
    <3>1. q = envp[n + 1] /\ n + 1 \in 0 .. envc - 1
      BY <2>1, <1>1 DEF Reach
    <3>2. q \in Starts(env, N) /\ q \in 0 .. N - 1 /\ p < q
      BY <3>1, ArrayFacts
    <3> QED
      BY <1>1, <1>2, <3>2 DEF Starts, StartsAt
  <2>2. CASE ~(n + 1 < envc)
    <3>1. q = N
      BY <2>2 DEF Reach
    <3> QED
      BY <1>1, <1>2, <3>1, BlockFacts
  <2> QED
    BY <2>1, <2>2
<1>4. \A r \in Starts(env, N) : ~(p < r /\ r < q)
  <2> SUFFICES ASSUME NEW r \in Starts(env, N), p < r, r < q
               PROVE  FALSE
    OBVIOUS
  <2>1. PICK m \in 0 .. envc - 1 : envp[m] = r
    BY ArrayFacts
  <2>2. \A m1, m2 \in 0 .. envc - 1 : m1 < m2 => envp[m1] < envp[m2]
    BY ArrayFacts
  <2>3. r \in Nat /\ p \in Nat /\ q \in Nat
    BY <1>2, <1>3, <2>1, ArrayFacts, <1>1
  <2>4. ~(m < n) /\ m # n
    <3>1. m < n => r < p
      BY <2>1, <2>2
    <3> QED
      BY <2>1, <2>3, <3>1
  <2>5. n + 1 <= m /\ n + 1 < envc /\ n + 1 \in 0 .. envc - 1
    BY <2>4, <1>1
  <2>6. q = envp[n + 1]
    BY <2>5 DEF Reach
  <2>7. CASE n + 1 = m
    BY <2>1, <2>3, <2>6, <2>7
  <2>8. CASE n + 1 < m
    <3>1. envp[n + 1] < envp[m]
      BY <2>2, <2>5, <2>8
    <3> QED
      BY <3>1, <2>1, <2>3, <2>6
  <2> QED
    BY <2>5, <2>7, <2>8
<1>5. \A r \in 0 .. N : p <= r /\ r < q - 1 => env[r] # Nul
  <2> SUFFICES ASSUME NEW r \in 0 .. N, p <= r, r < q - 1, env[r] = Nul
               PROVE  FALSE
    OBVIOUS
  <2>1. env[p] # Nul
    BY <1>2, <1>1, StartsFacts
  <2>2. p < r /\ r \in 0 .. N - 2
    BY <2>1, <1>1, <1>2, <1>3
  <2>3. env[r + 1] # Nul
    BY <2>2, <1>1, BlockFacts
  <2>4. r + 1 \in Starts(env, N)
    BY <2>2, <2>3, <1>1 DEF Starts, StartsAt
  <2> QED
    BY <1>4, <2>2, <2>4, <1>2, <1>3
<1>6. s \in 0 .. N /\ IsLength(s)
  <2>1. s \in 0 .. N /\ p + s = q - 1 /\ q - 1 \in 0 .. N
    BY <1>1, <1>2, <1>3
  <2>2. \A m \in 0 .. s - 1 : env[p + m] # Nul
    <3> SUFFICES ASSUME NEW m \in 0 .. s - 1
                 PROVE  env[p + m] # Nul
      OBVIOUS
    <3>1. p + m \in 0 .. N /\ p <= p + m /\ p + m < q - 1
      BY <1>1, <1>2, <1>3
    <3> QED
      BY <3>1, <1>5
  <2> QED
    BY <2>1, <2>2, <1>1, <1>3
<1>7. ASSUME NEW x \in 0 .. N, IsLength(x)
      PROVE  x = s
  <2>1. x < s => FALSE
    BY <1>6, <1>7
  <2>2. s < x => FALSE
    BY <1>6, <1>7
  <2> QED
    BY <2>1, <2>2, <1>6, <1>1
<1>8. strlen(p) = s
  <2>1. strlen(p) = CHOOSE x \in 0 .. N : IsLength(x)
    BY <1>1 DEF strlen
  <2> HIDE DEF IsLength, s
  <2> QED
    BY <2>1, <1>6, <1>7
<1> QED
  BY <1>1, <1>2, <1>3, <1>6, <1>8

-----------------------------------------------------------------------------
(* Every step keeps the invariant.                                         *)

LEMMA EInvInit == Init => EInv
<1> SUFFICES ASSUME Init
             PROVE  EInv
  OBVIOUS
<1> USE DEF Init
<1>1. env \in Envs /\ Last(env) \in Nat \ {0}
  BY BlockFacts
<1>2. VarsOK
  BY <1>1 DEF VarsOK, Walks
<1>3. Starts(env, 0) = {}
  BY DEF Starts
<1>4. CountInv
  BY <1>3, FS_EmptySet DEF CountInv
<1>5. letter \in BOOLEAN /\ ~letter
  BY Zenon
<1>6. i = 0
  OBVIOUS
<1>7. LetterInv
  <2> HIDE DEF Init
  <2> QED
    BY <1>5, <1>6 DEF LetterInv
<1>8. ArrayInv /\ FillInv /\ SizeInv /\ ExecInv
  BY DEF ArrayInv, FillInv, Filled, SizeInv, ExecInv, FirstElfExecWins
<1> QED
  BY <1>2, <1>4, <1>7, <1>8 DEF EInv

\* A turn of either scan stands at a string's start exactly when it is at a
\* letter and was not inside a string.
LEMMA TurnFacts ==
    ASSUME EInv, pc \in {"count", "fill"}
    PROVE  /\ env \in Envs /\ i \in Nat /\ Last(env) \in Nat \ {0}
           /\ ~Ends(env, i) => i + 1 \in 0 .. Last(env) - 1
           /\ Ends(env, i) => i = Last(env) - 1
           /\ StartsAt(env, i) <=> env[i] # Nul /\ ~letter
           /\ i \in DOMAIN env /\ i \in 0 .. Last(env) - 1
<1>1. env \in Envs /\ i \in 0 .. Last(env) - 1
  BY DEF EInv, VarsOK
<1>2. Last(env) \in Nat \ {0} /\ DOMAIN env = 0 .. Last(env)
  BY <1>1, BlockFacts
<1>3. Ends(env, i) <=> i = Last(env) - 1
  BY <1>1, BlockFacts
<1>4. letter <=> i > 0 /\ env[i - 1] # Nul
  BY DEF EInv, LetterInv
<1>5. StartsAt(env, i) <=> env[i] # Nul /\ ~letter
  <2>1. i = 0 \/ i > 0
    BY <1>1, <1>2
  <2> QED
    BY <1>1, <1>2, <1>4, <2>1 DEF StartsAt
<1> QED
  BY <1>1, <1>2, <1>3, <1>5

LEMMA CountTurnKeeps == EInv /\ CountTurn => EInv'
<1> SUFFICES ASSUME EInv, CountTurn
             PROVE  EInv'
  OBVIOUS
<1> USE DEF CountTurn
<1>1. /\ env \in Envs /\ i \in Nat /\ Last(env) \in Nat \ {0}
      /\ i + 1 \in 0 .. Last(env) - 1
      /\ StartsAt(env, i) <=> env[i] # Nul /\ ~letter
  BY TurnFacts
<1>2. envc = Cardinality(Starts(env, i)) /\ envc \in Nat /\ envc2 = 0
  BY DEF EInv, CountInv, VarsOK
<1>3. VarsOK'
  BY <1>1, <1>2 DEF EInv, VarsOK, Walks
<1>4. LetterInv'
  <2>1. letter' \in BOOLEAN /\ (letter' <=> env[i] # Nul)
    BY Zenon
  <2>2. i' > 0 /\ i' - 1 = i /\ env' = env
    BY <1>1
  <2> HIDE DEF CountTurn
  <2> QED
    BY <2>1, <2>2 DEF LetterInv
<1>5. envc' = Cardinality(Starts(env, i + 1))
  BY <1>1, <1>2, StartsNext
<1>6. CountInv'
  BY <1>2, <1>5 DEF CountInv
<1>7. ArrayInv' /\ FillInv' /\ SizeInv' /\ ExecInv'
  BY DEF EInv, ArrayInv, FillInv, Filled, SizeInv, ExecInv, FirstElfExecWins
<1> QED
  BY <1>3, <1>4, <1>6, <1>7 DEF EInv

LEMMA CountDoneKeeps == EInv /\ CountDone => EInv'
<1> SUFFICES ASSUME EInv, CountDone
             PROVE  EInv'
  OBVIOUS
<1> USE DEF CountDone
<1>1. /\ env \in Envs /\ Last(env) \in Nat \ {0} /\ i = Last(env) - 1
  BY TurnFacts
<1>2. /\ envc = Cardinality(Starts(env, Last(env)))
      /\ envc \in Nat /\ envc2 = 0
  BY <1>1, StartsAtEnd DEF EInv, CountInv, VarsOK
<1>3. VarsOK'
  BY <1>1, <1>2 DEF EInv, VarsOK, Walks
<1>4. LetterInv'
  <2>1. letter' \in BOOLEAN /\ ~letter' /\ i' = 0
    BY Zenon
  <2> HIDE DEF CountDone
  <2> QED
    BY <2>1 DEF LetterInv
<1>5. CountInv'
  BY <1>2 DEF CountInv
<1>6. ArrayInv'
  BY <1>2 DEF ArrayInv
<1>7. Starts(env, 0) = {} /\ Cardinality({}) = 0
  BY FS_EmptySet DEF Starts
<1>8. envc = 0 => Starts(env, Last(env)) = {}
  BY <1>1, <1>2, StartsFacts, FS_EmptySet
<1>9. FillInv'
  <2>1. {envp'[n] : n \in 0 .. envc2' - 1} = {} /\ envc2' = 0
    BY <1>2
  <2>2. \A m, n \in 0 .. envc2' - 1 : m < n => envp'[m] < envp'[n]
    BY <1>2
  <2>3. CASE envc = 0
    BY <2>1, <2>2, <2>3, <1>7, <1>8 DEF FillInv, Entered, Filled
  <2>4. CASE envc # 0
    BY <2>1, <2>2, <2>4, <1>7 DEF FillInv, Entered, Filled
  <2> QED
    BY <2>3, <2>4
<1>10. ExecInv'
  BY <1>2 DEF EInv, ExecInv, Filled, FirstElfExecWins
<1>11. SizeInv'
  BY DEF EInv, SizeInv
<1> QED
  BY <1>3, <1>4, <1>5, <1>6, <1>9, <1>10, <1>11 DEF EInv

LEMMA FillTurnKeeps == EInv /\ FillTurn => EInv'
<1> SUFFICES ASSUME EInv, FillTurn
             PROVE  EInv'
  OBVIOUS
<1>1. /\ pc = "fill" /\ pc' = "fill" /\ i' = i + 1
      /\ letter' = (env[i] # Nul)
      /\ env' = env /\ envc' = envc /\ k' = k /\ fname' = fname /\ size' = size
  BY DEF FillTurn
<1>2. /\ env \in Envs /\ i \in Nat /\ Last(env) \in Nat \ {0}
      /\ i + 1 \in 0 .. Last(env) - 1
      /\ StartsAt(env, i) <=> env[i] # Nul /\ ~letter
      /\ i \in DOMAIN env
  BY <1>1, TurnFacts DEF FillTurn
<1>3. /\ Entered(i) /\ envc = Cardinality(Starts(env, Last(env)))
      /\ envp \in [0 .. envc -> DOMAIN env \cup {NULL, Unset}]
      /\ envp[envc] = NULL
      /\ envc \in Nat /\ envc2 \in Nat
  BY <1>1 DEF EInv, FillInv, CountInv, ArrayInv, VarsOK
<1>4. /\ Starts(env, i) \subseteq 0 .. i - 1
      /\ Cardinality(Starts(env, i + 1)) <= envc
  <2>1. i + 1 \in 0 .. Last(env)
    BY <1>2
  <2> QED
    BY <1>2, <1>3, <2>1, StartsFacts, StartsMonotone
<1>5. letter' \in BOOLEAN /\ (letter' <=> env[i] # Nul) /\ i' > 0 /\ i' - 1 = i
  <2>1. letter' \in BOOLEAN /\ (letter' <=> env[i] # Nul)
    BY <1>1, Zenon
  <2> QED
    BY <1>1, <1>2, <2>1
<1>6. CASE env[i] # Nul /\ ~letter
  <2>1. envp' = [envp EXCEPT ![envc2] = i] /\ envc2' = envc2 + 1
    BY <1>6 DEF FillTurn
  <2>2. /\ Starts(env, i + 1) = Starts(env, i) \cup {i}
        /\ Cardinality(Starts(env, i + 1)) = envc2 + 1
    BY <1>2, <1>3, <1>6, StartsNext DEF Entered
  <2>3. envc2 \in 0 .. envc - 1
    BY <1>3, <1>4, <2>2
  <2>4. VarsOK'
    BY <1>1, <1>2, <1>3, <2>1 DEF EInv, VarsOK, Walks
  <2>5. ArrayInv'
    BY <1>1, <1>2, <1>3, <2>1, <2>3 DEF ArrayInv
  <2>6. /\ envp'[envc2] = i
        /\ \A n \in 0 .. envc2 - 1 : envp'[n] = envp[n] /\ envp[n] \in 0 .. i - 1
    <3>1. envp'[envc2] = i
      BY <1>3, <2>1, <2>3
    <3>2. \A n \in 0 .. envc2 - 1 : envp'[n] = envp[n]
      BY <1>3, <2>1, <2>3
    <3>3. \A n \in 0 .. envc2 - 1 : envp[n] \in 0 .. i - 1
      BY <1>3, <1>4 DEF Entered
    <3> QED
      BY <3>1, <3>2, <3>3
  <2>7. {envp'[n] : n \in 0 .. envc2} = Starts(env, i + 1)
    <3>1. {envp'[n] : n \in 0 .. envc2} = {envp[n] : n \in 0 .. envc2 - 1} \cup {i}
      <4>1. \A n : n \in 0 .. envc2 <=> n \in 0 .. envc2 - 1 \/ n = envc2
        BY <1>3
      <4>2. ASSUME NEW x \in {envp'[n] : n \in 0 .. envc2}
            PROVE  x \in {envp[n] : n \in 0 .. envc2 - 1} \cup {i}
        BY <4>1, <4>2, <2>6
      <4>3. ASSUME NEW x \in {envp[n] : n \in 0 .. envc2 - 1} \cup {i}
            PROVE  x \in {envp'[n] : n \in 0 .. envc2}
        BY <4>1, <4>3, <2>6
      <4> QED
        BY <4>2, <4>3
    <3> QED
      BY <3>1, <1>3, <2>2 DEF Entered
  <2>8. \A m, n \in 0 .. envc2 : m < n => envp'[m] < envp'[n]
    <3> SUFFICES ASSUME NEW m \in 0 .. envc2, NEW n \in 0 .. envc2, m < n
                 PROVE  envp'[m] < envp'[n]
      OBVIOUS
    <3>1. m \in 0 .. envc2 - 1 /\ envp'[m] = envp[m] /\ envp[m] \in 0 .. i - 1
      BY <1>3, <2>6
    <3>2. CASE n = envc2
      BY <3>1, <3>2, <2>6, <1>2
    <3>3. CASE n # envc2
      <4>1. n \in 0 .. envc2 - 1
        BY <3>3, <1>3
      <4> QED
        BY <3>1, <4>1, <2>6, <1>3 DEF Entered
    <3> QED
      BY <3>2, <3>3
  <2>9. Entered(i)'
    <3>1. envc2' - 1 = envc2
      BY <2>1, <1>3
    <3> QED
      BY <1>1, <2>1, <2>2, <2>7, <2>8, <3>1 DEF Entered
  <2>10. FillInv'
    BY <1>1, <2>9 DEF FillInv, Filled
  <2>11. LetterInv'
    BY <1>1, <1>5 DEF LetterInv
  <2>12. CountInv' /\ SizeInv' /\ ExecInv'
    BY <1>1, <1>3 DEF EInv, CountInv, SizeInv, ExecInv, Filled, FirstElfExecWins
  <2> QED
    BY <2>4, <2>5, <2>10, <2>11, <2>12 DEF EInv
<1>7. CASE ~(env[i] # Nul /\ ~letter)
  <2>1. envp' = envp /\ envc2' = envc2
    BY <1>7 DEF FillTurn
  <2>2. Starts(env, i + 1) = Starts(env, i)
    BY <1>2, <1>7, StartsNext
  <2>3. VarsOK'
    BY <1>1, <1>2, <1>3, <2>1 DEF EInv, VarsOK, Walks
  <2>4. FillInv'
    BY <1>1, <1>3, <2>1, <2>2 DEF FillInv, Filled, Entered
  <2>5. LetterInv'
    BY <1>1, <1>5 DEF LetterInv
  <2>6. CountInv' /\ SizeInv' /\ ExecInv' /\ ArrayInv'
    BY <1>1, <1>3, <2>1
       DEF EInv, CountInv, SizeInv, ExecInv, ArrayInv, Filled, FirstElfExecWins
  <2> QED
    BY <2>3, <2>4, <2>5, <2>6 DEF EInv
<1> QED
  BY <1>6, <1>7

LEMMA FillDoneKeeps == EInv /\ FillDone => EInv'
<1> SUFFICES ASSUME EInv, FillDone
             PROVE  EInv'
  OBVIOUS
<1> USE DEF FillDone
<1>1. env \in Envs /\ i = Last(env) - 1
  BY TurnFacts
<1>2. Entered(i) /\ Starts(env, i) = Starts(env, Last(env))
  BY <1>1, StartsAtEnd DEF EInv, FillInv
<1>3. FillInv'
  BY <1>2 DEF FillInv, Entered, Filled
<1>4. VarsOK' /\ LetterInv' /\ CountInv' /\ ArrayInv'
  BY DEF EInv, VarsOK, Walks, LetterInv, CountInv, ArrayInv
<1>5. ExecInv'
  BY DEF EInv, ExecInv, Filled, FirstElfExecWins, VarsOK
<1>6. SizeInv'
  BY DEF EInv, SizeInv
<1> QED
  BY <1>3, <1>4, <1>5, <1>6 DEF EInv

\* The variables that the walks over envp leave alone.
LEMMA ArrayKept ==
    ASSUME EInv, pc \in Filled, pc' \in Filled,
           UNCHANGED <<env, i, letter, envc, envc2, envp>>
    PROVE  VarsOK' /\ LetterInv' /\ CountInv' /\ ArrayInv' /\ FillInv'
<1>1. VarsOK'
  BY DEF EInv, VarsOK, Walks, Filled
<1>2. LetterInv'
  BY DEF EInv, LetterInv, Filled
<1>3. CountInv' /\ ArrayInv'
  BY DEF EInv, CountInv, ArrayInv, Filled
<1>4. FillInv'
  BY DEF EInv, FillInv, Entered, Filled
<1> QED
  BY <1>1, <1>2, <1>3, <1>4

LEMMA ExecTurnKeeps == EInv /\ ExecTurn => EInv'
<1> SUFFICES ASSUME EInv, ExecTurn
             PROVE  EInv'
  OBVIOUS
<1> USE DEF ExecTurn
<1>1. envc \in Nat /\ k \in 0 .. envc /\ i \in 0 .. Last(env) - 1
  BY DEF EInv, VarsOK, ExecInv, Filled
<1>2. k \in 0 .. envc - 1
  <2>1. envp[envc] = NULL
    BY DEF EInv, ArrayInv
  <2> QED
    BY <1>1, <2>1
<1>3. VarsOK' /\ LetterInv' /\ CountInv' /\ ArrayInv' /\ FillInv'
  BY <1>1, ArrayKept DEF Filled
<1>4. \A n \in 0 .. k' - 1 : env'[envp'[n]] # ElfExec
  <2>1. \A n \in 0 .. k' - 1 : n \in 0 .. k - 1 \/ n = k
    BY <1>1
  <2> QED
    BY <2>1 DEF EInv, ExecInv
<1>5. ExecInv'
  <2>1. FirstElfExecWins'
    BY DEF FirstElfExecWins
  <2>2. fname' = Argv0 /\ k' \in 0 .. envc'
    BY <1>1, <1>2 DEF EInv, ExecInv
  <2> QED
    BY <1>4, <2>1, <2>2 DEF ExecInv
<1>6. SizeInv'
  BY DEF EInv, SizeInv
<1> QED
  BY <1>3, <1>5, <1>6 DEF EInv

LEMMA ExecDoneKeeps == EInv /\ ExecDone => EInv'
<1> SUFFICES ASSUME EInv, ExecDone
             PROVE  EInv'
  OBVIOUS
<1> USE DEF ExecDone
<1>1. /\ env \in Envs /\ envc \in Nat /\ k \in 0 .. envc /\ i \in 0 .. Last(env) - 1
      /\ fname = Argv0
      /\ \A n \in 0 .. k - 1 : env[envp[n]] # ElfExec
  BY DEF EInv, VarsOK, ExecInv, Filled
<1>2. VarsOK' /\ LetterInv' /\ CountInv' /\ ArrayInv' /\ FillInv'
  BY <1>1, ArrayKept DEF Filled
<1>3. /\ \A n \in 0 .. envc - 1 : /\ envp[n] \in Starts(env, Last(env))
                                  /\ envp[n] \in 0 .. Last(env) - 1
      /\ \A p \in Starts(env, Last(env)) : \E n \in 0 .. envc - 1 : envp[n] = p
      /\ \A n \in 0 .. envc : envp[n] = NULL <=> n = envc
      /\ \A m, n \in 0 .. envc - 1 : m < n => envp[m] < envp[n]
  BY ArrayFacts DEF Filled
<1>4. Last(env) \in Nat
  BY <1>1, BlockFacts
<1> DEFINE found == {p \in Starts(env, Last(env)) : env[p] = ElfExec}
<1>5. \A p \in found : \E n \in 0 .. envc - 1 : envp[n] = p /\ k <= n
  <2> SUFFICES ASSUME NEW p \in found
               PROVE  \E n \in 0 .. envc - 1 : envp[n] = p /\ k <= n
    OBVIOUS
  <2>1. PICK n \in 0 .. envc - 1 : envp[n] = p
    BY <1>3
  <2>2. ~(n \in 0 .. k - 1)
    BY <1>1, <2>1
  <2> QED
    BY <1>1, <2>1, <2>2
<1>6. CASE envp[k] = NULL
  <2>1. k = envc
    BY <1>1, <1>3, <1>6
  <2>2. found = {}
    BY <1>1, <1>5, <2>1
  <2>3. fname' = Argv0
    BY <1>1, <1>6
  <2>4. FirstElfExecWins'
    BY <2>2, <2>3 DEF FirstElfExecWins
  <2>5. ExecInv'
    BY <1>1, <2>3, <2>4 DEF ExecInv, Filled
  <2>6. SizeInv'
    BY <1>3, <1>4, <1>1 DEF SizeInv, Reach
  <2> QED
    BY <1>2, <2>5, <2>6 DEF EInv
<1>7. CASE envp[k] # NULL
  <2>1. k \in 0 .. envc - 1 /\ env[envp[k]] = ElfExec
    BY <1>1, <1>3, <1>7
  <2>2. envp[k] \in found /\ envp[k] \in Nat
    BY <1>3, <2>1, <1>4
  <2>3. fname' = envp[k] + 1 /\ fname' \in DOMAIN env'
    <3>1. fname' = envp[k] + 1 /\ envp[k] \in 0 .. Last(env) - 1
      BY <1>7, <1>3, <2>1
    <3> QED
      BY <1>1, <1>4, <3>1, BlockFacts
  <2>4. \A p \in found : envp[k] <= p
    <3> SUFFICES ASSUME NEW p \in found
                 PROVE  envp[k] <= p
      OBVIOUS
    <3>1. PICK n \in 0 .. envc - 1 : envp[n] = p /\ k <= n
      BY <1>5
    <3>2. k < n => envp[k] < envp[n]
      BY <1>3, <2>1
    <3>3. p \in Nat
      BY <1>3, <1>4, <3>1
    <3> QED
      BY <2>1, <2>2, <3>1, <3>2, <3>3
  <2>5. fname' - 1 = envp[k] /\ found # {}
    BY <2>2, <2>3
  <2>6. FirstElfExecWins'
    BY <2>2, <2>4, <2>5 DEF FirstElfExecWins
  <2>7. ExecInv'
    BY <1>1, <2>3, <2>6 DEF ExecInv, Filled
  <2>8. SizeInv'
    BY <1>3, <1>4, <1>1 DEF SizeInv, Reach
  <2> QED
    BY <1>2, <2>7, <2>8 DEF EInv
<1> QED
  BY <1>6, <1>7

LEMMA SizeTurnKeeps == EInv /\ SizeTurn => EInv'
<1> SUFFICES ASSUME EInv, SizeTurn
             PROVE  EInv'
  OBVIOUS
<1> USE DEF SizeTurn
<1>1. /\ env \in Envs /\ envc \in Nat /\ k \in 0 .. envc /\ i \in 0 .. Last(env) - 1
      /\ envp[envc] = NULL /\ Last(env) \in Nat
  BY BlockFacts DEF EInv, VarsOK, ExecInv, ArrayInv, Filled
<1>2. k \in 0 .. envc - 1
  BY <1>1
<1>3. VarsOK' /\ LetterInv' /\ CountInv' /\ ArrayInv' /\ FillInv'
  BY <1>1, ArrayKept DEF Filled
<1>4. ExecInv'
  <2>1. FirstElfExecWins'
    BY DEF EInv, ExecInv, FirstElfExecWins
  <2>2. k' \in 0 .. envc' /\ fname' \in DOMAIN env' \cup {Argv0}
    BY <1>1, <1>2 DEF EInv, ExecInv
  <2> QED
    BY <2>1, <2>2 DEF ExecInv
<1>5. \A n \in 0 .. envc - 1 : envp[n] \in 0 .. Last(env) - 1
  BY ArrayFacts DEF Filled
<1>6. \A n \in 0 .. envc : Reach(n) \in Nat
  BY <1>1, <1>5 DEF Reach
<1>7. /\ strlen(envp[k]) \in Nat
      /\ Reach(k) + strlen(envp[k]) + 1 = Reach(k + 1)
  BY <1>2, NextString DEF Filled
<1>8. size' = 3 + Reach(k + 1) - Reach(0)
  <2>1. size = 3 + Reach(k) - Reach(0)
    BY DEF EInv, SizeInv
  <2> QED
    BY <1>1, <1>6, <1>7, <2>1
<1>9. Reach(k)' = Reach(k + 1) /\ Reach(0)' = Reach(0)
  BY DEF Reach
<1>10. SizeInv'
  BY <1>8, <1>9 DEF SizeInv
<1> QED
  BY <1>3, <1>4, <1>10 DEF EInv

LEMMA SizeDoneKeeps == EInv /\ SizeDone => EInv'
<1> SUFFICES ASSUME EInv, SizeDone
             PROVE  EInv'
  OBVIOUS
<1> USE DEF SizeDone
<1>1. /\ env \in Envs /\ envc \in Nat /\ k \in 0 .. envc /\ i \in 0 .. Last(env) - 1
      /\ Last(env) \in Nat
  BY BlockFacts DEF EInv, VarsOK, ExecInv, Filled
<1>2. VarsOK' /\ LetterInv' /\ CountInv' /\ ArrayInv' /\ FillInv'
  BY <1>1, ArrayKept DEF Filled
<1>3. ExecInv'
  BY DEF EInv, ExecInv, Filled, FirstElfExecWins
<1>4. k = envc
  BY <1>1, ArrayFacts DEF Filled
<1>5. size = 3 + Last(env) - Reach(0)
  BY <1>4, <1>1 DEF EInv, SizeInv, Reach
<1>6. Reach(0)' = Reach(0)
  BY DEF Reach
<1>7. SizeInv'
  BY <1>5, <1>6 DEF SizeInv
<1> QED
  BY <1>2, <1>3, <1>7 DEF EInv

LEMMA EInvStep == EInv /\ [Next]_vars => EInv'
<1> SUFFICES ASSUME EInv, [Next]_vars
             PROVE  EInv'
  OBVIOUS
<1>1. CASE CountTurn
  BY <1>1, CountTurnKeeps
<1>2. CASE CountDone
  BY <1>2, CountDoneKeeps
<1>3. CASE FillTurn
  BY <1>3, FillTurnKeeps
<1>4. CASE FillDone
  BY <1>4, FillDoneKeeps
<1>5. CASE ExecTurn
  BY <1>5, ExecTurnKeeps
<1>6. CASE ExecDone
  BY <1>6, ExecDoneKeeps
<1>7. CASE SizeTurn
  BY <1>7, SizeTurnKeeps
<1>8. CASE SizeDone
  BY <1>8, SizeDoneKeeps
<1>9. CASE UNCHANGED vars
  BY <1>9 DEF vars, EInv, VarsOK, LetterInv, CountInv, ArrayInv, FillInv, Entered,
              ExecInv, FirstElfExecWins, SizeInv, Reach
<1> QED
  BY <1>1, <1>2, <1>3, <1>4, <1>5, <1>6, <1>7, <1>8, <1>9 DEF Next

\* The walks of ministub and fullstub keep their invariant.
THEOREM EnvScanInductive == Spec => []EInv
<1>1. Init => EInv
  BY EInvInit
<1>2. EInv /\ [Next]_vars => EInv'
  BY EInvStep
<1> QED
  BY <1>1, <1>2, PTL DEF Spec

-----------------------------------------------------------------------------
\* The second pass of ministub's scan stays within the array that the first
\* pass made room for.
THEOREM NoOverrun == Spec => []FillInBounds
<1>1. EInv => FillInBounds
  <2> SUFFICES ASSUME EInv, pc # "count"
               PROVE  envc2 <= envc /\ envp[envc] = NULL
    BY DEF FillInBounds
  <2>1. env \in Envs /\ i \in 0 .. Last(env) - 1 /\ Last(env) \in Nat /\ pc \in Walks
    BY BlockFacts DEF EInv, VarsOK
  <2>2. PICK p \in 0 .. Last(env) : Entered(p)
    BY <2>1 DEF EInv, FillInv, Walks, Filled
  <2>3. envc2 <= envc
    BY <2>1, <2>2, StartsMonotone DEF EInv, CountInv, Entered
  <2> QED
    BY <2>3 DEF EInv, ArrayInv
<1> QED
  BY <1>1, EnvScanInductive, PTL

\* Once it is used, envp lists every string of the environment once, in order.
THEOREM EnvpIsExact == Spec => []EnvpExact
<1>1. EInv => EnvpExact
  <2> SUFFICES ASSUME EInv, pc \in Filled
               PROVE  Entered(Last(env)) /\ envc2 = envc
    BY DEF EnvpExact, Entered, Filled
  <2> QED
    BY ArrayFacts DEF EInv, FillInv
<1> QED
  BY <1>1, EnvScanInductive, PTL

\* fullstub opens the file of the first ELFEXEC= string, or argv[0].
THEOREM FirstWins == Spec => []FirstElfExecWins
<1>1. EInv => FirstElfExecWins
  BY DEF EInv, ExecInv
<1> QED
  BY <1>1, EnvScanInductive, PTL

\* The reported size is that of the environment block.
THEOREM SizeIsExact == Spec => []EnvSizeExact
<1>1. EInv => EnvSizeExact
  <2> SUFFICES ASSUME EInv, pc = "done", env[0] # Nul
               PROVE  size = (Last(env) + 1) + 2 + (PathLen + 1)
    BY DEF EnvSizeExact
  <2>1. env \in Envs /\ Last(env) \in Nat \ {0} /\ DOMAIN env = 0 .. Last(env) /\ envc \in Nat
    BY BlockFacts DEF EInv, VarsOK
  <2>2. 0 \in Starts(env, Last(env))
    BY <2>1 DEF Starts, StartsAt
  <2>3. PICK n \in 0 .. envc - 1 : envp[n] = 0
    BY <2>2, ArrayFacts DEF Filled
  <2>4. 0 \in 0 .. envc - 1 /\ envp[0] \in Nat
    BY <2>1, <2>3, ArrayFacts DEF Filled
  <2>5. ~(0 < n)
    <3>1. 0 < n => envp[0] < envp[n]
      BY <2>4, ArrayFacts DEF Filled
    <3> QED
      BY <2>3, <2>4, <3>1
  <2>6. Reach(0) = 0
    BY <2>1, <2>3, <2>5, <2>4 DEF Reach
  <2>7. size = 3 + Last(env) - Reach(0) + PathLen + 1
    BY DEF EInv, SizeInv
  <2> QED
    BY <2>1, <2>6, <2>7, PathAssumption
<1> QED
  BY <1>1, EnvScanInductive, PTL

\* No index of the four walks leaves the block or the array.
THEOREM EnvScanTypeCorrect == Spec => []TypeOK
<1>1. EInv => TypeOK
  <2> SUFFICES ASSUME EInv
               PROVE  TypeOK
    OBVIOUS
  <2>1. /\ env \in Envs /\ Last(env) \in Nat \ {0} /\ DOMAIN env = 0 .. Last(env)
        /\ envc \in Nat /\ envc2 \in Nat /\ i \in 0 .. Last(env) - 1 /\ pc \in Walks
    BY BlockFacts DEF EInv, VarsOK
  <2>2. letter \in BOOLEAN
    BY DEF EInv, LetterInv
  <2>3. pc # "count" => envp \in [0 .. envc -> DOMAIN env \cup {NULL, Unset}]
    BY DEF EInv, ArrayInv
  <2>4. pc # "count" => k \in 0 .. envc
    BY <2>1 DEF EInv, ExecInv, Walks, Filled
  <2>5. fname \in DOMAIN env \cup {Argv0}
    BY DEF EInv, ExecInv
  <2>6. size \in Nat
    <3>1. CASE pc \in {"count", "fill", "exec"}
      BY <3>1 DEF EInv, SizeInv
    <3>2. CASE pc \in {"size", "done"}
      <4>1. \A n \in 0 .. envc - 1 : envp[n] \in 0 .. Last(env) - 1
        BY <3>2, ArrayFacts DEF Filled
      <4>2. \A m, n \in 0 .. envc - 1 : m < n => envp[m] < envp[n]
        BY <3>2, ArrayFacts DEF Filled
      <4>3. \A n \in 0 .. envc : Reach(n) \in Nat /\ Reach(0) <= Reach(n) /\ Reach(n) <= Last(env)
        BY <2>1, <4>1, <4>2 DEF Reach
      <4>4. k \in 0 .. envc /\ 0 \in 0 .. envc
        BY <2>1, <2>4, <3>2
      <4> QED
        BY <2>1, <3>2, <4>3, <4>4, PathAssumption DEF EInv, SizeInv
    <3> QED
      BY <2>1, <3>1, <3>2 DEF Walks
  <2> QED
    BY <2>1, <2>2, <2>3, <2>4, <2>5, <2>6 DEF TypeOK, Walks
<1> QED
  BY <1>1, EnvScanInductive, PTL
=============================================================================
