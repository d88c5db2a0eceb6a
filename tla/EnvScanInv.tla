----------------------------- MODULE EnvScanInv -----------------------------
(***************************************************************************)
(* The inductive invariant behind the theorems of EnvScanProofs: what each *)
(* of the four walks has established when it is at i or at k.              *)
(***************************************************************************)
EXTENDS EnvScan

Walks == {"count", "fill", "exec", "size", "done"}
Filled == {"exec", "size", "done"}

VarsOK ==
    /\ pc \in Walks
    /\ env \in Envs
    /\ i \in 0 .. Last(env) - 1
    /\ envc \in Nat /\ envc2 \in Nat

\* The flag of the two scans looks one cell back.
LetterInv ==
    /\ letter \in BOOLEAN
    /\ pc \in {"count", "fill"} => (letter <=> i > 0 /\ env[i - 1] # Nul)

\* The first scan has counted the strings that start before i, and afterwards
\* all of them.
CountInv ==
    /\ pc = "count" => envc = Cardinality(Starts(env, i)) /\ envc2 = 0
    /\ pc # "count" => envc = Cardinality(Starts(env, Last(env)))

ArrayInv ==
    pc # "count" =>
        /\ envp \in [0 .. envc -> DOMAIN env \cup {NULL, Unset}]
        /\ envp[envc] = NULL

\* The first envc2 entries are the strings that start before p, in order.
Entered(p) ==
    /\ envc2 = Cardinality(Starts(env, p))
    /\ {envp[n] : n \in 0 .. envc2 - 1} = Starts(env, p)
    /\ \A m, n \in 0 .. envc2 - 1 : m < n => envp[m] < envp[n]

FillInv ==
    /\ pc = "fill" => Entered(i)
    /\ pc \in Filled => Entered(Last(env))

\* What the search for ELFEXEC= has passed does not match.
ExecInv ==
    /\ pc \in {"count", "fill", "exec"} => fname = Argv0
    /\ pc \in {"count", "fill"} => k = 0
    /\ pc \in Filled => k \in 0 .. envc
    /\ pc = "exec" => \A n \in 0 .. k - 1 : env[envp[n]] # ElfExec
    /\ fname \in DOMAIN env \cup {Argv0}
    /\ FirstElfExecWins

\* Where string n starts; the one behind the last is the NUL that ends the
\* block.
Reach(n) == IF n < envc THEN envp[n] ELSE Last(env)

\* The sum so far is the distance between two starts.
SizeInv ==
    /\ pc \in {"count", "fill", "exec"} => size = 0
    /\ pc = "size" => size = 3 + Reach(k) - Reach(0)
    /\ pc = "done" => size = 3 + Last(env) - Reach(0) + PathLen + 1

EInv ==
    /\ VarsOK
    /\ LetterInv
    /\ CountInv
    /\ ArrayInv
    /\ FillInv
    /\ ExecInv
    /\ SizeInv
=============================================================================
