------------------------------ MODULE MCEnvScan ------------------------------
(***************************************************************************)
(* Every block of up to 7 cells that is ended by its only pair of NULs.    *)
(***************************************************************************)
EXTENDS EnvScanInv

MCEnvs ==
    UNION {{e \in [0 .. n -> {Nul, Letter, ElfExec}] :
                Ends(e, n - 1) /\ \A j \in 0 .. n - 2 : ~Ends(e, j)} : n \in 1 .. 6}
=============================================================================
