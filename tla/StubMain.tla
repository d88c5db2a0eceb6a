------------------------------ MODULE StubMain ------------------------------
(***************************************************************************)
(* The whole stub: main() of src/src/ministub.c and fullstub() of          *)
(* src/src/stub.c, over the components they call.                          *)
(*                                                                         *)
(* main() hands the program to a loader in the DPMI host if there is one;  *)
(* else fullstub() follows the chain of exe headers to the payload, builds *)
(* the descriptors the program will run with, loads it, gives back the     *)
(* conventional memory and jumps.  Low memory is LowMemory, descriptors    *)
(* are Dpmi, headers are StubImage; the loaders appear as ImageLoad shows  *)
(* them, in one step that delivers the image or refuses it.                *)
(***************************************************************************)
EXTENDS LowMemory, Dpmi, StubImage

CONSTANTS
    Worlds,     \* what the stub may be started in, see below
    minkeep,    \* paragraphs of low memory the program gets (0x4000 >> 4)
    ImageBase,  \* mem_lin - va, from PayloadLoader
    InfoBase,   \* linear address of the stub info
    InfoSize    \* sizeof(_GO32_StubInfo)

\* A world is a record.  argc: there is an argv[0]; forced: COMCOM_FULLSTUB is
\* set; hostStub: the host offers DJ64STUB; elfexec: ELFEXEC= names the
\* program; file: the program's file as StubImage has it, << >> if there is
\* none; strict: see Dpmi; table: the host's descriptors.

\* Descriptors that are there before: the runtime's flat ds, and the PSP's as
\* the host returns it in es when it is entered.
MyDs == 1
HostPsp == 2

\* What a descriptor has to reach.
Covers(d, base, last) == d.base = base /\ d.limit >= last

ASSUME WorldsAssumption ==
    /\ {MyDs, HostPsp} \subseteq Selectors
    /\ \A w \in Worlds :
         /\ w.table \in [Selectors -> Descriptors]
         /\ w.table[MyDs].owner = "runtime" /\ w.table[HostPsp].owner = "host"
         /\ Covers(w.table[HostPsp], PspSeg * ParaSize, PspParas * ParaSize - 1)
         /\ IsFile(w.file)
\* The low pool and the PSP fit into a real-mode segment.
ASSUME InfoAssumption ==
    /\ minkeep \in Areas \ {0} /\ 0 \in Areas
    /\ minkeep * ParaSize - 1 <= SegLimit /\ PspParas * ParaSize - 1 <= SegLimit
    /\ ImageBase \in Int /\ InfoBase \in Nat /\ InfoSize \in Nat \ {0}

VARIABLES
    world,   \* one of Worlds
    pc,      \* where main() or fullstub() is
    argv0,   \* the paragraph where argv[0] lies; MemParas when on the heap
    chain,   \* what the header loop has found: see StubStart
    ldt,     \* the host's table of descriptors
    sel,     \* clnt_entry.selector, clnt_ds and stubinfo_fs
    info     \* stubinfo, as far as it describes memory

mainVars == <<world, pc, argv0, chain, ldt, sel, info>>
vars == <<lowVars, mainVars>>

\* _GO32_StubInfo; 0 until set.
StubInfo ==
    [ds_selector : Nat, cs_selector : Nat, psp_selector : Nat, ds_segment : Nat,
     minkeep : Nat, mem_base : Int]

Init ==
    /\ LowInit
    /\ world \in Worlds
    /\ pc = "start"
    /\ argv0 = PspSeg + own - 1
    /\ chain = StubStart
    /\ ldt = world.table
    /\ sel = [entry |-> 0, client |-> 0, fs |-> 0]
    /\ info = [ds_selector |-> 0, cs_selector |-> 0, psp_selector |-> 0,
               ds_segment |-> 0, minkeep |-> 0, mem_base |-> 0]

\* One of the ways out with EXIT_FAILURE.
Exits(places) ==
    /\ pc \in places
    /\ pc' = "exited"
    /\ UNCHANGED <<lowVars, world, argv0, chain, ldt, sel, info>>

-----------------------------------------------------------------------------
(* main() of ministub.c.                                                   *)

\* What main() calls err: 0 when the host has a loader of its own.
DPMIQueryExtension == IF world.hostStub THEN 0 ELSE 1
err == IF world.forced THEN 1 ELSE DPMIQueryExtension

\* argv[0] is copied to the heap, then the host is asked for its own loader.
Start ==
    /\ pc = "start"
    /\ world.argc
    /\ argv0' = MemParas
    /\ pc' = IF err # 0 THEN "fullstub" ELSE "open"
    /\ UNCHANGED <<lowVars, world, chain, ldt, sel, info>>

OpenSelf ==
    /\ pc = "open"
    /\ world.file # << >>
    /\ CallInit(0)
    /\ pc' = "nuke"
    /\ UNCHANGED <<world, argv0, chain, ldt, sel, info>>

\* Variant: does not wait for dpmi_init.
EnterStubEarly ==
    /\ pc = "nuke"
    /\ pc' = "entered"
    /\ info' = [info EXCEPT !.psp_selector = HostPsp]
    /\ UNCHANGED <<lowVars, world, argv0, chain, ldt, sel>>

\* enter_stub(): from here on the program is the host's.
EnterStub ==
    /\ pc = "nuke"
    /\ lm = "done"
    /\ pc' = "entered"
    /\ info' = [info EXCEPT !.psp_selector = HostPsp]
    /\ UNCHANGED <<lowVars, world, argv0, chain, ldt, sel>>

StubReturned ==
    /\ pc = "entered"
    /\ pc' = "returned"
    /\ UNCHANGED <<lowVars, world, argv0, chain, ldt, sel, info>>

\* No argc, no file, no DPMI.
MainExits ==
    /\ pc = "start" => ~world.argc
    /\ pc = "open" => world.file = << >>
    /\ pc = "nuke" => lm = "unavailable"
    /\ Exits({"start", "open", "nuke"})

-----------------------------------------------------------------------------
(* fullstub().                                                             *)

\* ELFEXEC= names a plain ELF file: no headers to follow.
OpenProgram ==
    /\ pc = "fullstub"
    /\ world.file # << >>
    /\ IF world.elfexec
       THEN chain' = [chain EXCEPT !.ops = "elf"] /\ pc' = "headers"
       ELSE UNCHANGED chain /\ pc' = "chain"
    /\ UNCHANGED <<lowVars, world, argv0, ldt, sel, info>>

\* Variant: looks at the first header again.
HeaderTurnStuck ==
    /\ pc = "chain"
    /\ chain' = [StubTurn(world.file, chain) EXCEPT !.coffset = chain.coffset]
    /\ pc' = CASE chain'.ops = "none" -> "chain"
               [] chain'.ops = "refused" -> "exited"
               [] OTHER -> "headers"
    /\ UNCHANGED <<lowVars, world, argv0, ldt, sel, info>>

HeaderTurn ==
    /\ pc = "chain"
    /\ chain' = StubTurn(world.file, chain)
    /\ pc' = CASE chain'.ops = "none" -> "chain"
               [] chain'.ops = "refused" -> "exited"
               [] OTHER -> "headers"
    /\ UNCHANGED <<lowVars, world, argv0, ldt, sel, info>>

\* read_headers succeeds; the stub info gets what is known by now.
ReadHeaders ==
    /\ pc = "headers"
    /\ info' = [info EXCEPT !.minkeep = minkeep, !.ds_segment = LowPool]
    /\ pc' = "pool"
    /\ UNCHANGED <<lowVars, world, argv0, chain, ldt, sel>>

\* Variant: the alias is taken before the limit is set.
PoolDescriptorsEarlyAlias ==
    /\ pc = "pool"
    /\ LET d == dpmi_segment_to_descriptor(ldt, info.ds_segment, world.strict)
           a == dpmi_create_alias_descriptor(d.ldt, d.sel)
           l == dpmi_set_segment_limit(a.ldt, d.sel, info.minkeep * ParaSize - 1)
       IN  /\ ldt' = dpmi_set_descriptor_access_rights(l, a.sel, "code16")
           /\ info' = [info EXCEPT !.ds_selector = d.sel, !.cs_selector = a.sel]
    /\ pc' = "client"
    /\ UNCHANGED <<lowVars, world, argv0, chain, sel>>

\* ds_selector and cs_selector for the low pool.
PoolDescriptors ==
    /\ pc = "pool"
    /\ LET d == dpmi_segment_to_descriptor(ldt, info.ds_segment, world.strict)
           l == dpmi_set_segment_limit(d.ldt, d.sel, info.minkeep * ParaSize - 1)
           a == dpmi_create_alias_descriptor(l, d.sel)
       IN  /\ ldt' = dpmi_set_descriptor_access_rights(a.ldt, a.sel, "code16")
           /\ info' = [info EXCEPT !.ds_selector = d.sel, !.cs_selector = a.sel]
    /\ pc' = "client"
    /\ UNCHANGED <<lowVars, world, argv0, chain, sel>>

\* The two selectors of the program.
ClientDescriptors ==
    /\ pc = "client"
    /\ LET e == dpmi_allocate_ldt_descriptors(ldt)
           c == dpmi_allocate_ldt_descriptors(e.ldt)
       IN  /\ ldt' = c.ldt
           /\ sel' = [sel EXCEPT !.entry = e.sel, !.client = c.sel]
    /\ pc' = "segments"
    /\ UNCHANGED <<lowVars, world, argv0, chain, info>>

Segment(t, s, rights) ==
    dpmi_set_segment_limit(
        dpmi_set_descriptor_access_rights(
            dpmi_set_segment_base_address(t, s, ImageBase), s, rights),
        s, FlatLimit)

\* The host gives the memory; both segments start where the image would.
ClientSegments ==
    /\ pc = "segments"
    /\ ldt' = Segment(Segment(ldt, sel.entry, "code32"), sel.client, "data32")
    /\ info' = [info EXCEPT !.mem_base = ImageBase]
    /\ pc' = "info"
    /\ UNCHANGED <<lowVars, world, argv0, chain, sel>>

\* Variant: the stub's own ds is changed instead of the alias.
InfoDescriptorInPlace ==
    /\ pc = "info"
    /\ LET a == dpmi_create_alias_descriptor(ldt, MyDs)
           base == dpmi_get_segment_base_address(a.ldt, a.sel) + InfoBase
           b == dpmi_set_segment_base_address(a.ldt, MyDs, base)
       IN  /\ ldt' = dpmi_set_segment_limit(b, MyDs, InfoSize - 1)
           /\ sel' = [sel EXCEPT !.fs = a.sel]
    /\ pc' = "load"
    /\ UNCHANGED <<lowVars, world, argv0, chain, info>>

\* fs for the stub info: an alias of the stub's own ds, moved and cut.
InfoDescriptor ==
    /\ pc = "info"
    /\ LET a == dpmi_create_alias_descriptor(ldt, MyDs)
           base == dpmi_get_segment_base_address(a.ldt, a.sel) + InfoBase
           b == dpmi_set_segment_base_address(a.ldt, a.sel, base)
       IN  /\ ldt' = dpmi_set_segment_limit(b, a.sel, InfoSize - 1)
           /\ sel' = [sel EXCEPT !.fs = a.sel]
    /\ pc' = "load"
    /\ UNCHANGED <<lowVars, world, argv0, chain, info>>

\* Variant: keeps no low memory for the program.
LoadAndSwitchAll ==
    /\ pc = "load"
    /\ CallInit(0)
    /\ pc' = "switch"
    /\ UNCHANGED <<world, argv0, chain, ldt, sel, info>>

\* read_sections delivers the image; dpmi_init is called.
LoadAndSwitch ==
    /\ pc = "load"
    /\ CallInit(info.minkeep)
    /\ pc' = "switch"
    /\ UNCHANGED <<world, argv0, chain, ldt, sel, info>>

\* No file; the loader refuses the headers, the memory or a section.
FullstubExits ==
    /\ pc = "fullstub" => world.file = << >>
    /\ Exits({"fullstub", "headers", "segments", "load"})

Switched ==
    /\ pc = "switch"
    /\ lm = "done"
    /\ info' = [info EXCEPT !.psp_selector = HostPsp]
    /\ pc' = "jump"
    /\ UNCHANGED <<lowVars, world, argv0, chain, ldt, sel>>

\* dpmi_init returned -1: shrink_low alone.
Fallback ==
    /\ pc = "switch"
    /\ ShrinkOnly(info.minkeep) \/ ShrinkOnlyFails
    /\ pc' = "psp"
    /\ UNCHANGED <<world, argv0, chain, ldt, sel, info>>

\* alloc_psp.
alloc_psp ==
    /\ pc = "psp"
    /\ lm = "done"
    /\ LET d == dpmi_segment_to_descriptor(ldt, PspSeg, world.strict)
       IN  /\ ldt' = dpmi_set_segment_limit(d.ldt, d.sel, PspParas * ParaSize - 1)
           /\ info' = [info EXCEPT !.psp_selector = d.sel]
    /\ pc' = "jump"
    /\ UNCHANGED <<lowVars, world, argv0, chain, sel>>

\* Loading a selector that names no descriptor, or jumping to data, faults.
jump_to_entry ==
    /\ pc = "jump"
    /\ pc' = IF /\ \A s \in {sel.entry, sel.client, sel.fs} : IsLive(ldt, s)
                /\ ldt[sel.entry].rights = "code32"
             THEN "running" ELSE "faulted"
    /\ UNCHANGED <<lowVars, world, argv0, chain, ldt, sel, info>>

\* What dpmi_init does by itself while main or fullstub waits.
LowRuns == LowStep /\ UNCHANGED mainVars

Next ==
    \/ Start \/ OpenSelf \/ EnterStub \/ StubReturned \/ MainExits
    \/ OpenProgram \/ HeaderTurn \/ ReadHeaders
    \/ PoolDescriptors \/ ClientDescriptors \/ ClientSegments \/ InfoDescriptor
    \/ LoadAndSwitch \/ FullstubExits \/ Switched \/ Fallback
    \/ alloc_psp \/ jump_to_entry
    \/ LowRuns

\* One sequential program: it takes a step while it has one.
Spec == Init /\ [][Next]_vars /\ WF_vars(Next)

-----------------------------------------------------------------------------
Ended == pc \in {"exited", "returned", "running", "faulted"} \/ lm = "exited"
Places == {"start", "open", "nuke", "entered", "returned", "fullstub", "chain", "headers",
           "pool", "client", "segments", "info", "load", "switch", "psp", "jump",
           "running", "faulted", "exited"}

\* main's side of the state; low memory is busy only while main waits for it.
TypeOK ==
    /\ LowTypeOK
    /\ world \in Worlds /\ pc \in Places /\ argv0 \in 0 .. MemParas
    /\ ldt \in [Selectors -> Descriptors] /\ info \in StubInfo
    /\ lm \notin {"idle", "done", "unavailable", "exited"} => pc \in {"nuke", "switch"}

\* A descriptor call failed, or gave the very last descriptor.
Starved ==
    NoSel \in {info.ds_selector, info.cs_selector, info.psp_selector,
               sel.entry, sel.client, sel.fs}

\* The program that gets control finds in every selector what the stub info
\* says of it: ds and cs the same low memory, entry and client the image, fs the stub
\* info, psp the PSP, and the jump does not fault; unless the host ran out of
\* descriptors, which nothing checks.
SelectorsTrue ==
    (pc \in {"running", "faulted"} /\ ~Starved) =>
        LET ds == ldt[info.ds_selector]
            cs == ldt[info.cs_selector]
        IN  /\ pc = "running"
            /\ Covers(ds, info.ds_segment * ParaSize, info.minkeep * ParaSize - 1)
            /\ cs.base = ds.base /\ cs.limit = ds.limit /\ cs.rights = "code16"
            /\ Covers(ldt[sel.entry], info.mem_base, FlatLimit)
            /\ ldt[sel.client] = [ldt[sel.entry] EXCEPT !.rights = "data32"]
            /\ ldt[sel.fs].base = ldt[MyDs].base + InfoBase
            /\ ldt[sel.fs].limit = InfoSize - 1
            /\ Covers(ldt[info.psp_selector], PspSeg * ParaSize, PspParas * ParaSize - 1)

\* Descriptors that are not the stub's stay as they are, unless a call failed:
\* then 0xffff may name one of them and the calls that follow change it.
OthersUntouched ==
    ~Starved =>
        \A s \in Selectors : world.table[s].owner \in {"runtime", "host", "other"} =>
            ldt[s] = world.table[s]

\* The paragraphs that a descriptor reaches.
Reach(d) == {p \in Paras : d.base <= (p + 1) * ParaSize - 1 /\ p * ParaSize <= d.base + d.limit}

\* What is handed over is still the program's: argv[0], and the low memory
\* that ds_selector reaches, in which neither the PSP nor the host's pool
\* lies.  (A strict host leaves ds_selector a limit of 64K.)
HandoverOwned ==
    /\ pc \in {"entered", "running"} => argv0 \notin Paras \/ argv0 \in Own
    /\ (pc = "running" /\ ~Starved /\ ~world.strict) =>
         Reach(ldt[info.ds_selector])
             \subseteq Own \ (HostPool \cup Block(PspSeg, PspParas))

\* However many headers were followed, the payload lies where some header
\* leads, and the program is told of that header's overlays and of no others,
\* if it has no gap: what an earlier header left set does no harm.
TellsOverlays ==
    (pc = "running" /\ ~world.elfexec /\ StartsWith(world.file, "mz")) =>
        \E k \in DOMAIN world.file :
            LET f == world.file
                h == f[k].hdr
            IN  /\ f[k].what = "mz" /\ h.lfanew = chain.coffset
                /\ HasCell(f, chain.coffset) /\ CellAt(f, chain.coffset).what = chain.ops
                /\ Packed(h) => \A n \in 1 .. 3 : Regions(f, chain)[n] = Overlay(f, h, n)

\* Every header leads further into the file.
Forward(f) == \A k \in DOMAIN f : f[k].what = "mz" => f[k].hdr.lfanew >= k

\* The stub comes to an end, whatever the host answers; a chain of headers
\* must lead forward, for the loop that follows it does not look.
StubEnds == Forward(world.file) => <>Ended
=============================================================================
