------------------------------- MODULE EnvScan -------------------------------
(***************************************************************************)
(* The environment on its way from DOS to the program: main() of           *)
(* src/src/ministub.c turns the environment block into envp[] in two       *)
(* passes, and fullstub() of src/src/stub.c walks envp[] twice, once for   *)
(* ELFEXEC= and once for the size it reports as env_size.                  *)
(*                                                                         *)
(* A cell of the block is NUL, the text "ELFEXEC=" or any other letter.    *)
(***************************************************************************)
EXTENDS Integers, FiniteSets

CONSTANTS
    Envs,      \* the environment blocks the program may be given
    PathLen    \* strlen(argv[0])

Nul == 0
Letter == 1
ElfExec == 2    \* stands for the 8 bytes the code compares with

\* Two NULs end the block; what lies behind them belongs to others.
Ends(e, k) == k + 1 \in DOMAIN e /\ e[k] = Nul /\ e[k + 1] = Nul

ASSUME EnvsAssumption ==
    \A e \in Envs : \E n \in DOMAIN e :
        /\ n \in Nat \ {0}
        /\ e \in [0 .. n -> {Nul, Letter, ElfExec}]
        /\ Ends(e, n - 1)
        /\ \A k \in 0 .. n - 2 : ~Ends(e, k)
ASSUME PathAssumption == PathLen \in Nat

VARIABLES
    pc,      \* "count", "fill", "exec", "size", "done"
    env,     \* the block
    i,       \* position in the block
    letter,  \* whether the scan is inside a string
    envc,    \* number of strings
    envc2,   \* how many of them have been entered into envp
    envp,    \* the array
    k,       \* position of fullstub's walks over envp
    fname,   \* file the stub opens: argv[0] or what ELFEXEC= says
    size     \* env_size so far

vars == <<pc, env, i, letter, envc, envc2, envp, k, fname, size>>

NULL == -1
Unset == -2     \* what malloc leaves
Argv0 == -3

\* The last position of the block, and where its strings start.
Last(e) == CHOOSE n \in DOMAIN e : \A m \in DOMAIN e : m <= n
StartsAt(e, p) == p \in DOMAIN e /\ e[p] # Nul /\ (p = 0 \/ e[p - 1] = Nul)
Starts(e, n) == {p \in 0 .. n - 1 : StartsAt(e, p)}

strlen(p) ==
    CHOOSE n \in DOMAIN env :
        /\ p + n \in DOMAIN env /\ env[p + n] = Nul
        /\ \A m \in 0 .. n - 1 : env[p + m] # Nul

Init ==
    /\ pc = "count"
    /\ env \in Envs
    /\ i = 0 /\ letter = FALSE
    /\ envc = 0 /\ envc2 = 0
    /\ envp = << >>
    /\ k = 0
    /\ fname = Argv0
    /\ size = 0

\* One turn of the counting loop.
CountTurn ==
    /\ pc = "count"
    /\ ~Ends(env, i)
    /\ i' = i + 1
    /\ letter' = (env[i] # Nul)
    /\ envc' = IF env[i] # Nul /\ ~letter THEN envc + 1 ELSE envc
    /\ UNCHANGED <<pc, env, envc2, envp, k, fname, size>>

\* Variant: no room for the NULL.
CountDoneNoRoom ==
    /\ pc = "count"
    /\ Ends(env, i)
    /\ envp' = [n \in 0 .. envc - 1 |-> Unset]
    /\ pc' = IF envc = 0 THEN "exec" ELSE "fill"
    /\ i' = 0
    /\ letter' = FALSE
    /\ UNCHANGED <<env, envc, envc2, k, fname, size>>

\* malloc, the terminating NULL, and the start of the second pass, which is
\* left out when there is nothing to enter.
CountDone ==
    /\ pc = "count"
    /\ Ends(env, i)
    /\ envp' = [n \in 0 .. envc |-> IF n = envc THEN NULL ELSE Unset]
    /\ pc' = IF envc = 0 THEN "exec" ELSE "fill"
    /\ i' = 0
    /\ letter' = FALSE
    /\ UNCHANGED <<env, envc, envc2, k, fname, size>>

\* Variant: every letter begins a string.
FillTurnEveryLetter ==
    /\ pc = "fill"
    /\ ~Ends(env, i)
    /\ i' = i + 1
    /\ letter' = FALSE
    /\ IF env[i] # Nul
       THEN /\ envp' = [envp EXCEPT ![envc2] = i]
            /\ envc2' = envc2 + 1
       ELSE UNCHANGED <<envp, envc2>>
    /\ UNCHANGED <<pc, env, envc, k, fname, size>>

\* Variant: a NUL does not end a string.
FillTurnKeepsLetter ==
    /\ pc = "fill"
    /\ ~Ends(env, i)
    /\ i' = i + 1
    /\ letter' = (letter \/ env[i] # Nul)
    /\ IF env[i] # Nul /\ ~letter
       THEN /\ envp' = [envp EXCEPT ![envc2] = i]
            /\ envc2' = envc2 + 1
       ELSE UNCHANGED <<envp, envc2>>
    /\ UNCHANGED <<pc, env, envc, k, fname, size>>

\* One turn of the loop that enters the strings.
FillTurn ==
    /\ pc = "fill"
    /\ ~Ends(env, i)
    /\ i' = i + 1
    /\ letter' = (env[i] # Nul)
    /\ IF env[i] # Nul /\ ~letter
       THEN /\ envp' = [envp EXCEPT ![envc2] = i]
            /\ envc2' = envc2 + 1
       ELSE UNCHANGED <<envp, envc2>>
    /\ UNCHANGED <<pc, env, envc, k, fname, size>>

FillDone ==
    /\ pc = "fill"
    /\ Ends(env, i)
    /\ pc' = "exec"
    /\ UNCHANGED <<env, i, letter, envc, envc2, envp, k, fname, size>>

\* Variant: a match does not stop the walk.
ExecTurnPastMatch ==
    /\ pc = "exec"
    /\ envp[k] # NULL
    /\ k' = k + 1
    /\ UNCHANGED <<pc, env, i, letter, envc, envc2, envp, fname, size>>

\* Variant: the walk does not advance.
ExecTurnInPlace ==
    /\ pc = "exec"
    /\ envp[k] # NULL
    /\ env[envp[k]] # ElfExec
    /\ UNCHANGED vars

\* fullstub: look for ELFEXEC=, up to the NULL or the first match.
ExecTurn ==
    /\ pc = "exec"
    /\ envp[k] # NULL
    /\ env[envp[k]] # ElfExec
    /\ k' = k + 1
    /\ UNCHANGED <<pc, env, i, letter, envc, envc2, envp, fname, size>>

\* Variant: the second walk starts where the first one stopped.
ExecDoneKeepsPosition ==
    /\ pc = "exec"
    /\ envp[k] # NULL => env[envp[k]] = ElfExec
    /\ fname' = IF envp[k] # NULL THEN envp[k] + 1 ELSE fname
    /\ size' = 3
    /\ pc' = "size"
    /\ UNCHANGED <<env, i, letter, envc, envc2, envp, k>>

ExecDone ==
    /\ pc = "exec"
    /\ envp[k] # NULL => env[envp[k]] = ElfExec
    /\ fname' = IF envp[k] # NULL THEN envp[k] + 1 ELSE fname
    /\ k' = 0
    /\ size' = 3
    /\ pc' = "size"
    /\ UNCHANGED <<env, i, letter, envc, envc2, envp>>

\* Variant: leaves the terminator out.
SizeTurnWithoutNul ==
    /\ pc = "size"
    /\ envp[k] # NULL
    /\ size' = size + strlen(envp[k])
    /\ k' = k + 1
    /\ UNCHANGED <<pc, env, i, letter, envc, envc2, envp, fname>>

SizeTurn ==
    /\ pc = "size"
    /\ envp[k] # NULL
    /\ size' = size + strlen(envp[k]) + 1
    /\ k' = k + 1
    /\ UNCHANGED <<pc, env, i, letter, envc, envc2, envp, fname>>

SizeDone ==
    /\ pc = "size"
    /\ envp[k] = NULL
    /\ size' = size + PathLen + 1
    /\ pc' = "done"
    /\ UNCHANGED <<env, i, letter, envc, envc2, envp, k, fname>>

Next == CountTurn \/ CountDone \/ FillTurn \/ FillDone
            \/ ExecTurn \/ ExecDone \/ SizeTurn \/ SizeDone

\* One sequential program.
Spec == Init /\ [][Next]_vars /\ WF_vars(Next)

-----------------------------------------------------------------------------
\* No index leaves the block or the array it is used on.
TypeOK ==
    /\ pc \in {"count", "fill", "exec", "size", "done"}
    /\ env \in Envs
    /\ i \in DOMAIN env
    /\ letter \in BOOLEAN
    /\ envc \in Nat /\ envc2 \in Nat
    /\ pc # "count" => envp \in [0 .. envc -> DOMAIN env \cup {NULL, Unset}]
    /\ pc # "count" => k \in 0 .. envc
    /\ fname \in DOMAIN env \cup {Argv0}
    /\ size \in Nat

\* The second pass finds no more strings than the first one made room for, and
\* the NULL that ends envp stays where it is.
FillInBounds ==
    pc # "count" => envc2 <= envc /\ envp[envc] = NULL

\* When envp is used it lists every string of the block once, in order.
EnvpExact ==
    pc \in {"exec", "size", "done"} =>
        /\ {envp[n] : n \in 0 .. envc - 1} = Starts(env, Last(env))
        /\ \A m, n \in 0 .. envc - 1 : m < n => envp[m] < envp[n]

\* The reported size is that of the block DOS made: the strings with their
\* terminators, the NUL behind them, a count word and the program's path.
EnvSizeExact ==
    (pc = "done" /\ env[0] # Nul) =>
        size = (Last(env) + 1) + 2 + (PathLen + 1)

\* The first string that begins with ELFEXEC= names the file, and only such a
\* string does.
FirstElfExecWins ==
    pc \in {"size", "done"} =>
        LET found == {p \in Starts(env, Last(env)) : env[p] = ElfExec}
        IN  IF found = {} THEN fname = Argv0
            ELSE fname - 1 \in found /\ \A p \in found : fname - 1 <= p

\* The scans end.
ScanEnds == <>(pc = "done")
=============================================================================
