------------------------------ MODULE ImageLoad ------------------------------
(***************************************************************************)
(* What the loader half of the stub promises, seen from outside: one       *)
(* program is wanted, and in one step it is either delivered whole or      *)
(* refused for a reason the program or the machine really gives.  There is *)
(* no state in which part of an image is offered for execution.  All that  *)
(* is void once a read has failed, which the loader does not notice.       *)
(* PayloadLoader implements this specification.                            *)
(***************************************************************************)
CONSTANTS
    Programs,  \* the programs that may be wanted
    Whole,     \* [Programs -> image]: the contents each one asks for
    Causes     \* [Programs -> SUBSET reasons]: why each one may be refused

VARIABLES
    wanted,    \* the program to be started
    status,    \* "loading", "loaded", "spoilt" or the reason of the refusal
    image      \* the delivered image, empty until status is "loaded"

vars == <<wanted, status, image>>

\* Memory is a matter of the machine; every other cause is a defect of the file.
Sound(p) == Causes[p] \subseteq {"refused_memory"}

Init ==
    /\ wanted \in Programs
    /\ status = "loading"
    /\ image = << >>

Deliver ==
    /\ status = "loading"
    /\ Sound(wanted)
    /\ status' = "loaded"
    /\ image' = Whole[wanted]
    /\ UNCHANGED wanted

Refuse ==
    /\ status = "loading"
    /\ status' \in Causes[wanted]
    /\ UNCHANGED <<wanted, image>>

\* A read fails: nothing is promised any more.
Spoil ==
    /\ status = "loading"
    /\ status' = "spoilt"
    /\ UNCHANGED <<wanted, image>>

Next == Deliver \/ Refuse \/ Spoil

\* What every step keeps and what the start satisfies: the safety part.
Safe == Init /\ [][Next]_vars

Spec == Safe /\ WF_vars(Next)
=============================================================================
