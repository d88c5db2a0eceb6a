------------------------------ MODULE MCDjlink ------------------------------
(***************************************************************************)
(* Two jobs that share a -d, one with a name of its own, one without -d    *)
(* and one whose library is stripped.                                      *)
(***************************************************************************)
EXTENDS Djlink, TLC

CONSTANTS a, b, c, d, e, shared, own

MCJobs == {a, b, c, d, e}
MCDebugName ==
    (a :> shared) @@ (b :> shared) @@ (c :> own) @@ (d :> NoName) @@ (e :> shared)
=============================================================================
