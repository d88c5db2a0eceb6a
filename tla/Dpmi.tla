-------------------------------- MODULE Dpmi --------------------------------
(***************************************************************************)
(* The descriptor calls of src/src/dpmi.c that the stub makes, as          *)
(* operators on the host's table of descriptors.                           *)
(*                                                                         *)
(* Each wrapper returns -1 when the host sets the carry flag.  The stub    *)
(* keeps selectors in 16 bits, so -1 becomes 0xffff: the selector of the   *)
(* last of the 8192 descriptors.  On a host whose table is that long and   *)
(* full, 0xffff is somebody's descriptor.                                  *)
(***************************************************************************)
EXTENDS Integers

CONSTANTS
    LdtSize,    \* number of selectors (8192)
    ParaSize,   \* bytes of a paragraph (16)
    SegLimit,   \* limit of a real-mode segment (0xffff)
    FlatLimit   \* limit of the whole address space (0xffffffff)

Selectors == 1 .. LdtSize
NoSel == LdtSize

\* owner: "nobody" for a descriptor that can be had, "absent" beyond the end of
\* the host's table, "fixed" where the host lets nobody change it.
Descriptors ==
    [owner : {"nobody", "absent", "fixed", "stub", "runtime", "host", "other"},
     base : Int, limit : Nat, rights : {"data16", "code16", "data32", "code32"}]

ASSUME DpmiAssumption ==
    /\ LdtSize \in Nat \ {0} /\ ParaSize \in Nat \ {0}
    /\ SegLimit \in Nat /\ FlatLimit \in Nat

IsLive(t, s) == t[s].owner \notin {"nobody", "absent"}
IsSettable(t, s) == IsLive(t, s) /\ t[s].owner # "fixed"

\* Hand out a descriptor that is free, or fail.
Free(t) == {s \in Selectors : t[s].owner = "nobody"}
Taken(t) == CHOOSE s \in Free(t) : TRUE
Fresh(t, d) ==
    IF Free(t) = {} THEN [sel |-> NoSel, ldt |-> t]
    ELSE [sel |-> Taken(t), ldt |-> [t EXCEPT ![Taken(t)] = d]]

dpmi_allocate_ldt_descriptors(t) ==
    Fresh(t, [owner |-> "stub", base |-> 0, limit |-> 0, rights |-> "data16"])

\* DPMI reserves these descriptors; strict hosts refuse to change them.
dpmi_segment_to_descriptor(t, seg, strict) ==
    Fresh(t, [owner |-> IF strict THEN "fixed" ELSE "stub",
              base |-> seg * ParaSize, limit |-> SegLimit, rights |-> "data16"])

\* A copy of a descriptor as it is now.
dpmi_create_alias_descriptor(t, s) ==
    IF IsLive(t, s)
    THEN Fresh(t, [owner |-> "stub", base |-> t[s].base, limit |-> t[s].limit, rights |-> "data16"])
    ELSE [sel |-> NoSel, ldt |-> t]

\* The wrapper stores something also when the call fails; the stub then hands
\* it to a call that fails as well.
dpmi_get_segment_base_address(t, s) == IF IsLive(t, s) THEN t[s].base ELSE 0

dpmi_set_segment_base_address(t, s, base) ==
    IF IsSettable(t, s) THEN [t EXCEPT ![s].base = base] ELSE t

dpmi_set_segment_limit(t, s, limit) ==
    IF IsSettable(t, s) THEN [t EXCEPT ![s].limit = limit] ELSE t

dpmi_set_descriptor_access_rights(t, s, rights) ==
    IF IsSettable(t, s) THEN [t EXCEPT ![s].rights = rights] ELSE t
=============================================================================
