--------------------------- MODULE StubMainProofs ---------------------------
(***************************************************************************)
(* The whole stub: what main() and fullstub() do with low memory, and what *)
(* they hand over, for every table of descriptors, every host that follows *)
(* Dpmi and every layout of low memory.                                    *)
(*                                                                         *)
(* First, the stub gives its memory back as LowMemory says: main() and     *)
(* fullstub() call dpmi_init() and shrink_low() only where LowMemory lets  *)
(* a caller, so what LowMemoryProofs shows of LowSpec holds of the stub,   *)
(* whatever the descriptors, the file and the host's answers.  Then the    *)
(* descriptors, and what the program is told of its file.                  *)
(***************************************************************************)
EXTENDS StubMain, StubImageProofs, LowMemoryProofs

USE DEF Exits

\* From read_headers on, the area that fullstub() asks for is known.
AreaKnown ==
    /\ "minkeep" \in DOMAIN info
    /\ pc \in {"pool", "client", "segments", "info", "load", "switch"} => info.minkeep = minkeep

LEMMA AreaKnownStep ==
    ASSUME AreaKnown, [Next]_vars
    PROVE  AreaKnown'
<1>1. CASE Start \/ OpenSelf \/ StubReturned \/ MainExits
  BY <1>1 DEF AreaKnown, Start, OpenSelf, StubReturned, MainExits
<1>2. CASE EnterStub \/ ReadHeaders
  BY <1>2 DEF AreaKnown, EnterStub, ReadHeaders
<1>3. CASE OpenProgram
  BY <1>3 DEF AreaKnown, OpenProgram
<1>4. CASE HeaderTurn
  <2>1. pc' \in {"chain", "exited", "headers"} /\ info' = info
    BY <1>4 DEF HeaderTurn
  <2> QED BY <2>1 DEF AreaKnown
<1>5. CASE PoolDescriptors
  <2>1. PICK d, a : info' = [info EXCEPT !.ds_selector = d, !.cs_selector = a]
    BY <1>5 DEF PoolDescriptors
  <2> QED BY <1>5, <2>1 DEF AreaKnown, PoolDescriptors
<1>6. CASE ClientDescriptors \/ ClientSegments \/ InfoDescriptor
  BY <1>6 DEF AreaKnown, ClientDescriptors, ClientSegments, InfoDescriptor
<1>7. CASE LoadAndSwitch \/ FullstubExits \/ Switched \/ Fallback
  BY <1>7 DEF AreaKnown, LoadAndSwitch, FullstubExits, Switched, Fallback
<1>8. CASE alloc_psp
  <2>1. PICK d : info' = [info EXCEPT !.psp_selector = d]
    BY <1>8 DEF alloc_psp
  <2> QED BY <1>8, <2>1 DEF AreaKnown, alloc_psp
<1>9. CASE jump_to_entry
  <2>1. pc' \in {"running", "faulted"} /\ info' = info
    BY <1>9 DEF jump_to_entry
  <2> QED BY <2>1 DEF AreaKnown
<1>10. CASE LowRuns \/ UNCHANGED vars
  BY <1>10 DEF AreaKnown, LowRuns, vars, mainVars
<1> QED BY <1>1, <1>2, <1>3, <1>4, <1>5, <1>6, <1>7, <1>8, <1>9, <1>10 DEF Next

\* Every step of main() and fullstub() is one of LowMemory or leaves it alone.
LEMMA StepIsLowStep ==
    ASSUME AreaKnown, [Next]_vars
    PROVE  [LowNext]_lowVars
<1>1. CASE OpenSelf
  BY <1>1, InfoAssumption DEF OpenSelf, LowNext
<1>2. CASE LoadAndSwitch
  BY <1>2, InfoAssumption DEF LoadAndSwitch, LowNext, AreaKnown
<1>3. CASE Fallback
  BY <1>3, InfoAssumption DEF Fallback, LowNext, AreaKnown
<1>4. CASE LowRuns
  BY <1>4 DEF LowRuns, LowNext
<1>5. CASE \/ Start \/ EnterStub \/ StubReturned \/ MainExits
           \/ OpenProgram \/ HeaderTurn \/ ReadHeaders
  BY <1>5 DEF Start, EnterStub, StubReturned, MainExits, OpenProgram, HeaderTurn, ReadHeaders
<1>6. CASE \/ PoolDescriptors \/ ClientDescriptors \/ ClientSegments \/ InfoDescriptor
           \/ FullstubExits \/ Switched \/ alloc_psp \/ jump_to_entry \/ UNCHANGED vars
  BY <1>6
  DEF PoolDescriptors, ClientDescriptors, ClientSegments, InfoDescriptor, FullstubExits,
      Switched, alloc_psp, jump_to_entry, vars
<1> QED BY <1>1, <1>2, <1>3, <1>4, <1>5, <1>6 DEF Next

\* The stub implements LowMemory: it never asks for memory, moves the pool or
\* frees a block but as dpmi_init() and shrink_low() do, each at most once.
THEOREM StubGivesBack == Spec => LowSpec
<1>1. Init => LowInit /\ AreaKnown
  BY DEF Init, AreaKnown
<1>2. AreaKnown /\ [Next]_vars => AreaKnown'
  BY AreaKnownStep
<1>3. AreaKnown /\ [Next]_vars => [LowNext]_lowVars
  BY StepIsLowStep
<1> QED BY <1>1, <1>2, <1>3, PTL DEF Spec, LowSpec

\* So host pool, PSP and the program's area are safe in the whole stub.
THEOREM StubLowMemorySafe == Spec => [](HostPoolHeld /\ HostPoolCurrent /\ PspKept /\ AreaKept)
<1>1. LowInv => HostPoolHeld /\ HostPoolCurrent /\ PspKept /\ AreaKept
  BY DEF LowInv
<1> QED BY <1>1, StubGivesBack, LowInductive, PTL

-----------------------------------------------------------------------------
USE DpmiAssumption

Tables == [Selectors -> Descriptors]

-----------------------------------------------------------------------------
(* What the calls of Dpmi do to the table.                                 *)

LEMMA NoSelIsSelector == NoSel \in Selectors
BY DEF NoSel, Selectors

\* A descriptor call that hands out a descriptor other than the last one has
\* found one that was free, and changed nothing else.
LEMMA FreshFacts ==
    ASSUME NEW t \in Tables, NEW d, Fresh(t, d).sel # NoSel
    PROVE  /\ Fresh(t, d).sel \in Selectors
           /\ t[Fresh(t, d).sel].owner = "nobody"
           /\ Fresh(t, d).ldt = [t EXCEPT ![Fresh(t, d).sel] = d]
<1>1. Free(t) # {}
  BY DEF Fresh
<1>2. Taken(t) \in Free(t)
  BY <1>1 DEF Taken
<1>3. Fresh(t, d) = [sel |-> Taken(t), ldt |-> [t EXCEPT ![Taken(t)] = d]]
  BY <1>1 DEF Fresh
<1> QED BY <1>2, <1>3 DEF Free

LEMMA FreshType ==
    ASSUME NEW t \in Tables, NEW d \in Descriptors
    PROVE  Fresh(t, d).sel \in Selectors /\ Fresh(t, d).ldt \in Tables
<1>1. CASE Free(t) = {}
  BY <1>1, NoSelIsSelector DEF Fresh
<1>2. CASE Free(t) # {}
  <2>1. Taken(t) \in Free(t)
    BY <1>2 DEF Taken
  <2>2. Taken(t) \in Selectors
    BY <2>1 DEF Free
  <2>3. Fresh(t, d) = [sel |-> Taken(t), ldt |-> [t EXCEPT ![Taken(t)] = d]]
    BY <1>2 DEF Fresh
  <2> QED BY <2>2, <2>3 DEF Tables
<1> QED BY <1>1, <1>2

LEMMA SetType ==
    ASSUME NEW t \in Tables, NEW s \in Selectors,
           NEW base \in Int, NEW limit \in Nat,
           NEW rights \in {"data16", "code16", "data32", "code32"}
    PROVE  /\ dpmi_set_segment_base_address(t, s, base) \in Tables
           /\ dpmi_set_segment_limit(t, s, limit) \in Tables
           /\ dpmi_set_descriptor_access_rights(t, s, rights) \in Tables
<1>1. t[s] \in Descriptors
  BY DEF Tables
<1>2. /\ [t[s] EXCEPT !.base = base] \in Descriptors
      /\ [t[s] EXCEPT !.limit = limit] \in Descriptors
      /\ [t[s] EXCEPT !.rights = rights] \in Descriptors
  BY <1>1 DEF Descriptors
<1> QED
  BY <1>2
  DEF Tables, dpmi_set_segment_base_address, dpmi_set_segment_limit,
      dpmi_set_descriptor_access_rights

\* A descriptor, field by field.
D(owner, base, limit, rights) ==
    [owner |-> owner, base |-> base, limit |-> limit, rights |-> rights]

\* Setting a field of a descriptor that is the stub's own.
LEMMA SetBase ==
    ASSUME NEW t \in Tables, NEW s \in Selectors, t[s].owner = "stub", NEW v
    PROVE  dpmi_set_segment_base_address(t, s, v) = [t EXCEPT ![s] = D("stub", v, t[s].limit, t[s].rights)]
<1>1. IsSettable(t, s)
  BY DEF IsSettable, IsLive
<1>2. t[s] \in Descriptors
  BY DEF Tables
<1>3. [t[s] EXCEPT !.base = v] = D("stub", v, t[s].limit, t[s].rights)
  BY <1>2 DEF D, Descriptors
<1> QED BY <1>1, <1>3 DEF dpmi_set_segment_base_address

LEMMA SetLimit ==
    ASSUME NEW t \in Tables, NEW s \in Selectors, t[s].owner = "stub", NEW v
    PROVE  dpmi_set_segment_limit(t, s, v) = [t EXCEPT ![s] = D("stub", t[s].base, v, t[s].rights)]
<1>1. IsSettable(t, s)
  BY DEF IsSettable, IsLive
<1>2. t[s] \in Descriptors
  BY DEF Tables
<1>3. [t[s] EXCEPT !.limit = v] = D("stub", t[s].base, v, t[s].rights)
  BY <1>2 DEF D, Descriptors
<1> QED BY <1>1, <1>3 DEF dpmi_set_segment_limit

LEMMA SetRights ==
    ASSUME NEW t \in Tables, NEW s \in Selectors, t[s].owner = "stub", NEW v
    PROVE  dpmi_set_descriptor_access_rights(t, s, v) = [t EXCEPT ![s] = D("stub", t[s].base, t[s].limit, v)]
<1>1. IsSettable(t, s)
  BY DEF IsSettable, IsLive
<1>2. t[s] \in Descriptors
  BY DEF Tables
<1>3. [t[s] EXCEPT !.rights = v] = D("stub", t[s].base, t[s].limit, v)
  BY <1>2 DEF D, Descriptors
<1> QED BY <1>1, <1>3 DEF dpmi_set_descriptor_access_rights

\* A descriptor the host lets nobody change stays as it is.
LEMMA FixedStays ==
    ASSUME NEW t, NEW s, t[s].owner = "fixed", NEW limit
    PROVE  dpmi_set_segment_limit(t, s, limit) = t
BY DEF dpmi_set_segment_limit, IsSettable

\* A copy of a live descriptor.
LEMMA AliasFacts ==
    ASSUME NEW t \in Tables, NEW s \in Selectors, NEW o, NEW b, NEW l, NEW r,
           t[s] = D(o, b, l, r), o \notin {"nobody", "absent"}
    PROVE  dpmi_create_alias_descriptor(t, s) = Fresh(t, D("stub", b, l, "data16"))
<1>1. IsLive(t, s)
  BY DEF IsLive, D
<1> QED BY <1>1 DEF dpmi_create_alias_descriptor, D

\* Sizes in bytes.
LEMMA Bytes ==
    ASSUME NEW a \in Nat \ {0}, NEW c \in Nat \ {0}
    PROVE  a * c - 1 \in Nat
BY SMT

LEMMA Order ==
    ASSUME NEW a \in Int, NEW b \in Int, NEW c \in Nat \ {0}, a * c <= b * c - 1
    PROVE  a < b
<1>1. CASE b <= a
  <2>1. PICK k \in Nat : a = b + k
    BY <1>1
  <2>2. a * c = b * c + k * c /\ k * c >= 0
    BY <2>1, SMT
  <2> QED BY <2>2
<1> QED BY <1>1

-----------------------------------------------------------------------------
(* Types.                                                                  *)

\* TypeOK without low memory.  The selectors of the program are selectors
\* when fullstub() sets their segments, also when the host had none left.
MainTypes ==
    /\ world \in Worlds /\ pc \in Places
    /\ ldt \in Tables /\ info \in StubInfo
    /\ sel \in [entry : Nat, client : Nat, fs : Nat]
    /\ pc = "segments" => sel.entry \in Selectors /\ sel.client \in Selectors

LEMMA SelectorsNat == Selectors \subseteq Nat
BY DEF Selectors

LEMMA PoolBytes == minkeep \in Nat /\ minkeep * ParaSize - 1 \in Nat
<1>1. minkeep \in Nat \ {0}
  BY InfoAssumption, SizesAssumption
<1> QED BY <1>1, Bytes

LEMMA PspBytes == PspParas * ParaSize - 1 \in Nat
BY Bytes, SizesAssumption

LEMMA SegmentType ==
    ASSUME NEW t \in Tables, NEW seg \in Nat, NEW strict
    PROVE  /\ dpmi_segment_to_descriptor(t, seg, strict).sel \in Selectors
           /\ dpmi_segment_to_descriptor(t, seg, strict).ldt \in Tables
<1> DEFINE d == [owner |-> IF strict THEN "fixed" ELSE "stub", base |-> seg * ParaSize,
                 limit |-> SegLimit, rights |-> "data16"]
<1>1. seg * ParaSize \in Int
  OBVIOUS
<1>2. d \in Descriptors
  BY <1>1 DEF Descriptors
<1> QED BY <1>2, FreshType DEF dpmi_segment_to_descriptor

LEMMA AllocType ==
    ASSUME NEW t \in Tables
    PROVE  /\ dpmi_allocate_ldt_descriptors(t).sel \in Selectors
           /\ dpmi_allocate_ldt_descriptors(t).ldt \in Tables
<1>1. [owner |-> "stub", base |-> 0, limit |-> 0, rights |-> "data16"] \in Descriptors
  BY DEF Descriptors
<1> QED BY <1>1, FreshType DEF dpmi_allocate_ldt_descriptors

LEMMA AliasType ==
    ASSUME NEW t \in Tables, NEW s \in Selectors
    PROVE  /\ dpmi_create_alias_descriptor(t, s).sel \in Selectors
           /\ dpmi_create_alias_descriptor(t, s).ldt \in Tables
<1>1. t[s] \in Descriptors
  BY DEF Tables
<1>2. [owner |-> "stub", base |-> t[s].base, limit |-> t[s].limit, rights |-> "data16"]
        \in Descriptors
  BY <1>1 DEF Descriptors
<1>3. CASE IsLive(t, s)
  BY <1>2, <1>3, FreshType DEF dpmi_create_alias_descriptor
<1>4. CASE ~IsLive(t, s)
  BY <1>4, NoSelIsSelector DEF dpmi_create_alias_descriptor
<1> QED BY <1>3, <1>4

LEMMA BaseType ==
    ASSUME NEW t \in Tables, NEW s \in Selectors
    PROVE  dpmi_get_segment_base_address(t, s) \in Int
<1>1. t[s].base \in Int
  BY DEF Tables, Descriptors
<1> QED BY <1>1 DEF dpmi_get_segment_base_address

LEMMA PoolTypes ==
    ASSUME MainTypes, AreaKnown, PoolDescriptors
    PROVE  MainTypes'
<1> DEFINE d == dpmi_segment_to_descriptor(ldt, info.ds_segment, world.strict)
           l == dpmi_set_segment_limit(d.ldt, d.sel, info.minkeep * ParaSize - 1)
           a == dpmi_create_alias_descriptor(l, d.sel)
<1>1. info.minkeep * ParaSize - 1 \in Nat
  BY PoolBytes DEF PoolDescriptors, AreaKnown
<1>2. d.sel \in Selectors /\ d.ldt \in Tables
  BY SegmentType DEF MainTypes, StubInfo
<1> HIDE DEF d
<1>3. l \in Tables
  BY <1>1, <1>2, SetType
<1> HIDE DEF l
<1>4. a.sel \in Selectors /\ a.ldt \in Tables
  BY <1>2, <1>3, AliasType
<1> HIDE DEF a
<1>5. dpmi_set_descriptor_access_rights(a.ldt, a.sel, "code16") \in Tables
  BY <1>4, SetType
<1>6. /\ ldt' = dpmi_set_descriptor_access_rights(a.ldt, a.sel, "code16")
      /\ info' = [info EXCEPT !.ds_selector = d.sel, !.cs_selector = a.sel]
      /\ pc' = "client" /\ world' = world /\ sel' = sel
  BY DEF PoolDescriptors, d, l, a
<1>7. info' \in StubInfo
  BY <1>2, <1>4, <1>6, SelectorsNat DEF MainTypes, StubInfo
<1> QED BY <1>5, <1>6, <1>7 DEF MainTypes, Places

LEMMA ClientTypes ==
    ASSUME MainTypes, ClientDescriptors
    PROVE  MainTypes'
<1> DEFINE e == dpmi_allocate_ldt_descriptors(ldt)
           c == dpmi_allocate_ldt_descriptors(e.ldt)
<1>1. e.sel \in Selectors /\ e.ldt \in Tables
  BY AllocType DEF MainTypes
<1> HIDE DEF e
<1>2. c.sel \in Selectors /\ c.ldt \in Tables
  BY <1>1, AllocType
<1> HIDE DEF c
<1>3. /\ ldt' = c.ldt /\ sel' = [sel EXCEPT !.entry = e.sel, !.client = c.sel]
      /\ pc' = "segments" /\ world' = world /\ info' = info
  BY DEF ClientDescriptors, e, c
<1>4. sel' = [entry |-> e.sel, client |-> c.sel, fs |-> sel.fs]
  BY <1>3 DEF MainTypes
<1> QED BY <1>1, <1>2, <1>3, <1>4, SelectorsNat DEF MainTypes, Places

LEMMA SegmentTypes ==
    ASSUME MainTypes, ClientSegments
    PROVE  MainTypes'
<1>1. ASSUME NEW t \in Tables, NEW s \in Selectors,
             NEW rights \in {"data16", "code16", "data32", "code32"}
      PROVE  Segment(t, s, rights) \in Tables
  <2> DEFINE b == dpmi_set_segment_base_address(t, s, ImageBase)
             r == dpmi_set_descriptor_access_rights(b, s, rights)
  <2>1. b \in Tables
    BY SetType, InfoAssumption
  <2> HIDE DEF b
  <2>2. r \in Tables
    BY <2>1, SetType
  <2> HIDE DEF r
  <2>3. dpmi_set_segment_limit(r, s, FlatLimit) \in Tables
    BY <2>2, SetType
  <2> QED BY <2>3 DEF Segment, r, b
<1>2. /\ ldt' = Segment(Segment(ldt, sel.entry, "code32"), sel.client, "data32")
      /\ info' = [info EXCEPT !.mem_base = ImageBase]
      /\ pc' = "info" /\ world' = world /\ sel' = sel
  BY DEF ClientSegments
<1>3. ldt \in Tables /\ sel.entry \in Selectors /\ sel.client \in Selectors
  BY DEF MainTypes, ClientSegments
<1>4. Segment(ldt, sel.entry, "code32") \in Tables
  BY <1>1, <1>3
<1>5. ldt' \in Tables
  BY <1>1, <1>2, <1>3, <1>4
<1>6. info' \in StubInfo
  BY <1>2, InfoAssumption DEF MainTypes, StubInfo
<1> QED BY <1>2, <1>5, <1>6 DEF MainTypes, Places

LEMMA InfoTypes ==
    ASSUME MainTypes, InfoDescriptor
    PROVE  MainTypes'
<1> DEFINE a == dpmi_create_alias_descriptor(ldt, MyDs)
           base == dpmi_get_segment_base_address(a.ldt, a.sel) + InfoBase
           b == dpmi_set_segment_base_address(a.ldt, a.sel, base)
<1>1. a.sel \in Selectors /\ a.ldt \in Tables
  BY AliasType, WorldsAssumption DEF MainTypes
<1> HIDE DEF a
<1>2. base \in Int
  BY <1>1, BaseType, InfoAssumption
<1> HIDE DEF base
<1>3. b \in Tables
  BY <1>1, <1>2, SetType
<1> HIDE DEF b
<1>4. InfoSize - 1 \in Nat
  BY InfoAssumption
<1>5. dpmi_set_segment_limit(b, a.sel, InfoSize - 1) \in Tables
  BY <1>1, <1>3, <1>4, SetType
<1>6. /\ ldt' = dpmi_set_segment_limit(b, a.sel, InfoSize - 1)
      /\ sel' = [sel EXCEPT !.fs = a.sel]
      /\ pc' = "load" /\ world' = world /\ info' = info
  BY DEF InfoDescriptor, a, base, b
<1>7. sel' \in [entry : Nat, client : Nat, fs : Nat]
  BY <1>1, <1>6, SelectorsNat DEF MainTypes
<1> QED BY <1>5, <1>6, <1>7 DEF MainTypes, Places

LEMMA PspTypes ==
    ASSUME MainTypes, alloc_psp
    PROVE  MainTypes'
<1> DEFINE d == dpmi_segment_to_descriptor(ldt, PspSeg, world.strict)
<1>1. d.sel \in Selectors /\ d.ldt \in Tables
  BY SegmentType, SizesAssumption DEF MainTypes
<1> HIDE DEF d
<1>2. dpmi_set_segment_limit(d.ldt, d.sel, PspParas * ParaSize - 1) \in Tables
  BY <1>1, PspBytes, SetType
<1>3. /\ ldt' = dpmi_set_segment_limit(d.ldt, d.sel, PspParas * ParaSize - 1)
      /\ info' = [info EXCEPT !.psp_selector = d.sel]
      /\ pc' = "jump" /\ world' = world /\ sel' = sel
  BY DEF alloc_psp, d
<1>4. info' \in StubInfo
  BY <1>1, <1>3, SelectorsNat DEF MainTypes, StubInfo
<1> QED BY <1>2, <1>3, <1>4 DEF MainTypes, Places

\* Steps that leave the descriptors alone.
TableKept ==
    \/ Start \/ OpenSelf \/ EnterStub \/ StubReturned \/ MainExits
    \/ OpenProgram \/ HeaderTurn \/ ReadHeaders
    \/ LoadAndSwitch \/ FullstubExits \/ Switched \/ Fallback
    \/ jump_to_entry \/ LowRuns \/ UNCHANGED vars

LEMMA PlainTypes ==
    ASSUME MainTypes, TableKept
    PROVE  MainTypes'
<1> USE DEF MainTypes, Places
<1>1. CASE Start \/ OpenSelf \/ StubReturned
  BY <1>1 DEF Start, OpenSelf, StubReturned
<1>2. CASE MainExits \/ FullstubExits
  BY <1>2 DEF MainExits, FullstubExits, Exits
<1>3. CASE OpenProgram \/ LoadAndSwitch \/ Fallback
  BY <1>3 DEF OpenProgram, LoadAndSwitch, Fallback
<1>4. CASE HeaderTurn
  <2>1. /\ pc' \in {"chain", "exited", "headers"}
        /\ UNCHANGED <<world, ldt, sel, info>>
    BY <1>4 DEF HeaderTurn
  <2> QED BY <2>1
<1>5. CASE jump_to_entry
  <2>1. pc' \in {"running", "faulted"} /\ UNCHANGED <<world, ldt, sel, info>>
    BY <1>5 DEF jump_to_entry
  <2> QED BY <2>1
<1>6. CASE LowRuns \/ UNCHANGED vars
  BY <1>6 DEF LowRuns, vars, mainVars
<1>7. CASE ReadHeaders
  <2>1. info' \in StubInfo
    <3>1. minkeep \in Nat /\ LowPool \in Nat
      BY PoolBytes, SizesAssumption DEF LowPool
    <3> QED BY <1>7, <3>1 DEF ReadHeaders, StubInfo
  <2> QED BY <1>7, <2>1 DEF ReadHeaders
<1>8. CASE EnterStub \/ Switched
  <2>1. info' \in StubInfo
    BY <1>8 DEF EnterStub, Switched, StubInfo, HostPsp
  <2> QED BY <1>8, <2>1 DEF EnterStub, Switched
<1> QED BY <1>1, <1>2, <1>3, <1>4, <1>5, <1>6, <1>7, <1>8 DEF TableKept

LEMMA NextSplit ==
    ASSUME [Next]_vars
    PROVE  \/ TableKept \/ PoolDescriptors \/ ClientDescriptors \/ ClientSegments
           \/ InfoDescriptor \/ alloc_psp
BY DEF Next, TableKept

LEMMA TypeStep ==
    ASSUME MainTypes, AreaKnown, [Next]_vars
    PROVE  MainTypes'
BY NextSplit, PlainTypes, PoolTypes, ClientTypes, SegmentTypes, InfoTypes, PspTypes

LEMMA TypeInit ==
    ASSUME Init
    PROVE  MainTypes
BY WorldsAssumption DEF Init, MainTypes, Places, StubInfo, Tables

-----------------------------------------------------------------------------
(* How far main(), fullstub() and dpmi_init() are with each other.         *)

BeforePool == {"start", "open", "nuke", "entered", "returned", "fullstub", "chain", "headers", "pool"}
BeforeClient == BeforePool \cup {"client"}
BeforeFs == BeforeClient \cup {"segments", "info"}
BeforePsp == (BeforeFs \ {"entered", "returned"}) \cup {"load", "switch", "psp"}
PoolMade == {"client", "segments", "info", "load", "switch", "psp", "jump", "running", "faulted"}
ClientMade == PoolMade \ {"client"}
SegmentsMade == ClientMade \ {"segments"}
FsMade == SegmentsMade \ {"info"}
PspMade == {"jump", "running", "faulted"}

\* dpmi_init() runs only while main() or fullstub() waits; when the program is
\* reached it is done, with the area that the stub info promises.
Stage ==
    /\ lm \in LowPlaces
    /\ lm \in {"query", "shrink", "move", "switch", "free"} => pc \in {"nuke", "switch"}
    /\ pc \in {"switch", "psp", "jump", "running", "faulted"} => para = minkeep
    /\ pc \in PspMade => lm = "done"
    /\ pc \in PoolMade \cup {"pool"} => info.ds_segment = LowPool /\ info.minkeep = minkeep
    /\ pc \in SegmentsMade => info.mem_base = ImageBase
    /\ pc \notin {"start", "exited"} => argv0 = MemParas

\* Selectors are 0 until they are made.
Unset ==
    /\ pc \in BeforePool => info.ds_selector = 0 /\ info.cs_selector = 0
    /\ pc \in BeforeClient => sel.entry = 0 /\ sel.client = 0
    /\ pc \in BeforeFs => sel.fs = 0
    /\ pc \in BeforePsp => info.psp_selector = 0

LEMMA StageInit ==
    ASSUME Init
    PROVE  Stage /\ Unset
BY DEF Init, LowInit, Stage, Unset, LowPlaces, BeforePool, BeforeClient, BeforeFs, BeforePsp,
       PoolMade, ClientMade, SegmentsMade, PspMade

LEMMA LowStepStage ==
    ASSUME Stage, LowRuns
    PROVE  Stage'
<1>1. para' = para /\ lm' \in LowPlaces \ {"idle"}
  BY DEF LowRuns, LowStep, Unavailable, Query, BadServer, Shrink, ShrinkFails, Move, Switch,
         FreeLow, SwitchFails, Resize, LowPlaces
<1>2. lm \in {"query", "shrink", "move", "switch", "free"}
  BY DEF LowRuns, LowStep, Unavailable, Query, BadServer, Shrink, ShrinkFails, Move, Switch,
         FreeLow, SwitchFails
<1>3. UNCHANGED <<world, pc, argv0, chain, ldt, sel, info>>
  BY DEF LowRuns, mainVars
<1> QED BY <1>1, <1>2, <1>3 DEF Stage, PspMade

LEMMA PlainStage ==
    ASSUME Stage, AreaKnown, MainTypes, TableKept
    PROVE  Stage'
<1> USE DEF Stage, PoolMade, ClientMade, SegmentsMade, PspMade
<1>1. CASE Start \/ StubReturned \/ OpenProgram
  BY <1>1 DEF Start, StubReturned, OpenProgram, lowVars
<1>2. CASE MainExits \/ FullstubExits
  BY <1>2 DEF MainExits, FullstubExits, Exits, lowVars
<1>3. CASE OpenSelf
  BY <1>3 DEF OpenSelf, CallInit, LowPlaces
<1>4. CASE LoadAndSwitch
  BY <1>4 DEF LoadAndSwitch, CallInit, LowPlaces
<1>5. CASE Fallback
  BY <1>5 DEF Fallback, ShrinkOnly, ShrinkOnlyFails, LowPlaces
<1>6. CASE HeaderTurn
  <2>1. /\ pc = "chain" /\ pc' \in {"chain", "exited", "headers"}
        /\ UNCHANGED <<lm, para, argv0, info>>
    BY <1>6 DEF HeaderTurn, lowVars
  <2> QED BY <2>1
<1>7. CASE jump_to_entry
  <2>1. /\ pc = "jump" /\ pc' \in {"running", "faulted"}
        /\ UNCHANGED <<lm, para, argv0, info>>
    BY <1>7 DEF jump_to_entry, lowVars
  <2> QED BY <2>1
<1>8. CASE LowRuns
  BY <1>8, LowStepStage
<1>9. CASE UNCHANGED vars
  BY <1>9 DEF vars, mainVars, lowVars
<1>10. CASE ReadHeaders
  <2>1. info'.ds_segment = LowPool /\ info'.minkeep = minkeep
    BY <1>10 DEF ReadHeaders, MainTypes, StubInfo
  <2>2. LowPool' = LowPool
    BY DEF LowPool
  <2> QED BY <1>10, <2>1 DEF ReadHeaders, lowVars
<1>11. CASE EnterStub \/ Switched
  <2>1. /\ info'.ds_segment = info.ds_segment /\ info'.minkeep = info.minkeep
        /\ info'.mem_base = info.mem_base
    BY <1>11 DEF EnterStub, Switched, MainTypes, StubInfo
  <2>2. UNCHANGED <<lm, para, argv0>> /\ pc' \in {"entered", "jump"} /\ pc \in {"nuke", "switch"}
    BY <1>11 DEF EnterStub, Switched, lowVars
  <2>3. lm = "done" /\ (pc' = "jump" => pc = "switch")
    BY <1>11 DEF EnterStub, Switched
  <2> QED BY <2>1, <2>2, <2>3
<1> QED BY <1>1, <1>2, <1>3, <1>4, <1>5, <1>6, <1>7, <1>8, <1>9, <1>10, <1>11 DEF TableKept

\* The steps that make descriptors set nothing but selectors and the base.
LEMMA MakingStage ==
    ASSUME Stage, MainTypes,
           PoolDescriptors \/ ClientDescriptors \/ ClientSegments \/ InfoDescriptor \/ alloc_psp
    PROVE  Stage'
<1> USE DEF Stage, PoolMade, ClientMade, SegmentsMade, PspMade
<1>1. UNCHANGED <<lm, para, argv0>>
  BY DEF PoolDescriptors, ClientDescriptors, ClientSegments, InfoDescriptor, alloc_psp, lowVars
<1>2. CASE PoolDescriptors
  <2>1. PICK d, a : info' = [info EXCEPT !.ds_selector = d, !.cs_selector = a]
    BY <1>2 DEF PoolDescriptors
  <2>2. info'.ds_segment = info.ds_segment /\ info'.minkeep = info.minkeep
    BY <2>1 DEF MainTypes, StubInfo
  <2> QED BY <1>1, <1>2, <2>2 DEF PoolDescriptors
<1>3. CASE ClientDescriptors
  BY <1>1, <1>3 DEF ClientDescriptors
<1>4. CASE ClientSegments
  <2>1. /\ info'.ds_segment = info.ds_segment /\ info'.minkeep = info.minkeep
        /\ info'.mem_base = ImageBase
    BY <1>4 DEF ClientSegments, MainTypes, StubInfo
  <2> QED BY <1>1, <1>4, <2>1 DEF ClientSegments
<1>5. CASE InfoDescriptor
  BY <1>1, <1>5 DEF InfoDescriptor
<1>6. CASE alloc_psp
  <2>1. PICK d : info' = [info EXCEPT !.psp_selector = d]
    BY <1>6 DEF alloc_psp
  <2>2. /\ info'.ds_segment = info.ds_segment /\ info'.minkeep = info.minkeep
        /\ info'.mem_base = info.mem_base
    BY <2>1 DEF MainTypes, StubInfo
  <2> QED BY <1>1, <1>6, <2>2 DEF alloc_psp
<1> QED BY <1>2, <1>3, <1>4, <1>5, <1>6

LEMMA StageStep ==
    ASSUME Stage, AreaKnown, MainTypes, [Next]_vars
    PROVE  Stage'
BY NextSplit, PlainStage, MakingStage

LEMMA PlainUnset ==
    ASSUME Unset, MainTypes, TableKept
    PROVE  Unset'
<1> USE DEF Unset, BeforePool, BeforeClient, BeforeFs, BeforePsp
<1>1. CASE Start \/ OpenSelf \/ StubReturned \/ OpenProgram \/ LoadAndSwitch \/ Fallback
  BY <1>1 DEF Start, OpenSelf, StubReturned, OpenProgram, LoadAndSwitch, Fallback
<1>2. CASE MainExits \/ FullstubExits
  BY <1>2 DEF MainExits, FullstubExits, Exits
<1>3. CASE HeaderTurn
  <2>1. pc = "chain" /\ pc' \in {"chain", "exited", "headers"} /\ UNCHANGED <<sel, info>>
    BY <1>3 DEF HeaderTurn
  <2> QED BY <2>1
<1>4. CASE jump_to_entry
  <2>1. pc' \in {"running", "faulted"}
    BY <1>4 DEF jump_to_entry
  <2> QED BY <2>1
<1>5. CASE LowRuns \/ UNCHANGED vars
  BY <1>5 DEF LowRuns, vars, mainVars
<1>6. CASE ReadHeaders
  <2>1. /\ info'.ds_selector = info.ds_selector /\ info'.cs_selector = info.cs_selector
        /\ info'.psp_selector = info.psp_selector
    BY <1>6 DEF ReadHeaders, MainTypes, StubInfo
  <2> QED BY <1>6, <2>1 DEF ReadHeaders
<1>7. CASE EnterStub \/ Switched
  <2>1. info'.ds_selector = info.ds_selector /\ info'.cs_selector = info.cs_selector
    BY <1>7 DEF EnterStub, Switched, MainTypes, StubInfo
  <2>2. sel' = sel /\ \/ pc' = "entered" /\ pc = "nuke"
                      \/ pc' = "jump"
    BY <1>7 DEF EnterStub, Switched
  <2> QED BY <2>1, <2>2
<1> QED BY <1>1, <1>2, <1>3, <1>4, <1>5, <1>6, <1>7 DEF TableKept

LEMMA MakingUnset ==
    ASSUME Unset, MainTypes,
           PoolDescriptors \/ ClientDescriptors \/ ClientSegments \/ InfoDescriptor \/ alloc_psp
    PROVE  Unset'
<1> USE DEF Unset, BeforePool, BeforeClient, BeforeFs, BeforePsp
<1>1. CASE PoolDescriptors
  <2>1. PICK d, a : info' = [info EXCEPT !.ds_selector = d, !.cs_selector = a]
    BY <1>1 DEF PoolDescriptors
  <2>2. info'.psp_selector = info.psp_selector
    BY <2>1 DEF MainTypes, StubInfo
  <2> QED BY <1>1, <2>2 DEF PoolDescriptors
<1>2. CASE ClientDescriptors
  <2>1. PICK e, c : sel' = [sel EXCEPT !.entry = e, !.client = c]
    BY <1>2 DEF ClientDescriptors
  <2>2. sel'.fs = sel.fs
    BY <2>1 DEF MainTypes
  <2> QED BY <1>2, <2>2 DEF ClientDescriptors
<1>3. CASE ClientSegments
  <2>1. info'.psp_selector = info.psp_selector
    BY <1>3 DEF ClientSegments, MainTypes, StubInfo
  <2> QED BY <1>3, <2>1 DEF ClientSegments
<1>4. CASE InfoDescriptor
  BY <1>4 DEF InfoDescriptor
<1>5. CASE alloc_psp
  BY <1>5 DEF alloc_psp
<1> QED BY <1>1, <1>2, <1>3, <1>4, <1>5

LEMMA UnsetStep ==
    ASSUME Unset, MainTypes, [Next]_vars
    PROVE  Unset'
BY NextSplit, PlainUnset, MakingUnset

\* A host that has had a descriptor for every call so far has had one before.
LEMMA StarvedStays ==
    ASSUME Unset, MainTypes, [Next]_vars, Starved
    PROVE  Starved'
<1>0. NoSel # 0 /\ NoSel' = NoSel
  BY DEF NoSel
<1> USE DEF Starved, Unset, BeforePool, BeforeClient, BeforeFs, BeforePsp
<1>1. CASE PoolDescriptors
  <2>1. PICK d, a : info' = [info EXCEPT !.ds_selector = d, !.cs_selector = a]
    BY <1>1 DEF PoolDescriptors
  <2>2. info'.psp_selector = info.psp_selector
    BY <2>1 DEF MainTypes, StubInfo
  <2> QED BY <1>0, <1>1, <2>2 DEF PoolDescriptors
<1>2. CASE ClientDescriptors
  <2>1. PICK e, c : sel' = [sel EXCEPT !.entry = e, !.client = c]
    BY <1>2 DEF ClientDescriptors
  <2>2. sel'.fs = sel.fs
    BY <2>1 DEF MainTypes
  <2> QED BY <1>0, <1>2, <2>2 DEF ClientDescriptors
<1>3. CASE InfoDescriptor
  <2>1. PICK a : sel' = [sel EXCEPT !.fs = a]
    BY <1>3 DEF InfoDescriptor
  <2>2. sel'.entry = sel.entry /\ sel'.client = sel.client
    BY <2>1 DEF MainTypes
  <2> QED BY <1>0, <1>3, <2>2 DEF InfoDescriptor
<1>4. CASE ClientSegments \/ ReadHeaders
  <2>1. /\ info'.ds_selector = info.ds_selector /\ info'.cs_selector = info.cs_selector
        /\ info'.psp_selector = info.psp_selector
    BY <1>4 DEF ClientSegments, ReadHeaders, MainTypes, StubInfo
  <2> QED BY <1>0, <1>4, <2>1 DEF ClientSegments, ReadHeaders
<1>5. CASE alloc_psp \/ EnterStub \/ Switched
  <2>1. PICK d : info' = [info EXCEPT !.psp_selector = d]
    BY <1>5 DEF alloc_psp, EnterStub, Switched
  <2>2. info'.ds_selector = info.ds_selector /\ info'.cs_selector = info.cs_selector
    BY <2>1 DEF MainTypes, StubInfo
  <2>3. info.psp_selector = 0 /\ sel' = sel
    BY <1>5 DEF alloc_psp, EnterStub, Switched
  <2> QED BY <1>0, <2>2, <2>3
<1>6. CASE \/ Start \/ OpenSelf \/ StubReturned \/ MainExits \/ OpenProgram \/ HeaderTurn
           \/ LoadAndSwitch \/ FullstubExits \/ Fallback \/ jump_to_entry
           \/ LowRuns \/ UNCHANGED vars
  <2>1. UNCHANGED <<sel, info>>
    BY <1>6
    DEF Start, OpenSelf, StubReturned, MainExits, OpenProgram, HeaderTurn, LoadAndSwitch,
        FullstubExits, Exits, Fallback, jump_to_entry, LowRuns, vars, mainVars
  <2> QED BY <1>0, <2>1
<1> QED BY <1>1, <1>2, <1>3, <1>4, <1>5, <1>6 DEF Next

-----------------------------------------------------------------------------
(* What the descriptors say.                                               *)

\* A descriptor that was free when the stub was started.
Ours(s) == s \in Selectors /\ world.table[s].owner = "nobody"

\* Nobody else's descriptor has changed.
Keeps == \A s \in Selectors : world.table[s].owner # "nobody" => ldt[s] = world.table[s]

PoolLimit == IF world.strict THEN SegLimit ELSE minkeep * ParaSize - 1
PoolOwner == IF world.strict THEN "fixed" ELSE "stub"

PoolTrue ==
    /\ Ours(info.ds_selector) /\ Ours(info.cs_selector)
    /\ info.ds_selector # info.cs_selector
    /\ ldt[info.ds_selector] = D(PoolOwner, LowPool * ParaSize, PoolLimit, "data16")
    /\ ldt[info.cs_selector] = D("stub", LowPool * ParaSize, PoolLimit, "code16")

ClientIs(b, l, r1, r2) ==
    ldt[sel.entry] = D("stub", b, l, r1) /\ ldt[sel.client] = D("stub", b, l, r2)

ClientTrue ==
    /\ Ours(sel.entry) /\ Ours(sel.client) /\ sel.entry # sel.client
    /\ sel.entry \notin {info.ds_selector, info.cs_selector}
    /\ sel.client \notin {info.ds_selector, info.cs_selector}
    /\ pc = "segments" => ClientIs(0, 0, "data16", "data16")
    /\ pc # "segments" => ClientIs(ImageBase, FlatLimit, "code32", "data32")

FsTrue ==
    /\ Ours(sel.fs)
    /\ sel.fs \notin {info.ds_selector, info.cs_selector, sel.entry, sel.client}
    /\ ldt[sel.fs] = D("stub", world.table[MyDs].base + InfoBase, InfoSize - 1, "data16")

PspTrue ==
    Covers(ldt[info.psp_selector], PspSeg * ParaSize, PspParas * ParaSize - 1)

\* The invariant of the descriptors, as long as the host has them.
Handover ==
    ~Starved =>
        /\ Keeps
        /\ pc \in PoolMade => PoolTrue
        /\ pc \in ClientMade => ClientTrue
        /\ pc \in FsMade => FsTrue
        /\ pc \in PspMade => PspTrue
        /\ pc # "faulted"

\* A descriptor that is free now was free at the start, and is none of those
\* made since.
LEMMA FreeIsOurs ==
    ASSUME Keeps, NEW s \in Selectors, ldt[s].owner = "nobody"
    PROVE  Ours(s)
BY DEF Keeps, Ours

LEMMA HandoverInit ==
    ASSUME Init
    PROVE  Handover
BY DEF Init, Handover, Keeps, PoolMade, ClientMade, SegmentsMade, FsMade, PspMade

LEMMA PoolHandover ==
    ASSUME Handover, Stage, MainTypes, PoolDescriptors, ~Starved, ~Starved'
    PROVE  Keeps' /\ PoolTrue'
<1> DEFINE d == dpmi_segment_to_descriptor(ldt, info.ds_segment, world.strict)
           l == dpmi_set_segment_limit(d.ldt, d.sel, info.minkeep * ParaSize - 1)
           a == dpmi_create_alias_descriptor(l, d.sel)
           ds == info'.ds_selector
           cs == info'.cs_selector
           base == LowPool * ParaSize
           first == D(PoolOwner, base, PoolLimit, "data16")
           copy == D("stub", base, PoolLimit, "data16")
<1>1. info.ds_segment = LowPool /\ info.minkeep = minkeep
  BY DEF Stage, PoolDescriptors
<1>2. ldt \in Tables /\ Keeps
  BY DEF MainTypes, Handover
<1>3. /\ ldt' = dpmi_set_descriptor_access_rights(a.ldt, a.sel, "code16")
      /\ info' = [info EXCEPT !.ds_selector = d.sel, !.cs_selector = a.sel]
      /\ world' = world
  BY DEF PoolDescriptors
<1>4. ds = d.sel /\ cs = a.sel
  BY <1>3 DEF MainTypes, StubInfo
<1>5. ds # NoSel /\ cs # NoSel
  BY DEF Starved, NoSel
<1>6. d = Fresh(ldt, D(PoolOwner, base, SegLimit, "data16"))
  BY <1>1 DEF dpmi_segment_to_descriptor, D, PoolOwner
<1>7. ds \in Selectors /\ ldt[ds].owner = "nobody"
      /\ d.ldt = [ldt EXCEPT ![ds] = D(PoolOwner, base, SegLimit, "data16")]
  BY <1>2, <1>4, <1>5, <1>6, FreshFacts
<1>8. d.ldt \in Tables /\ d.sel \in Selectors
  BY <1>1, <1>2, SegmentType, SizesAssumption DEF LowPool
<1>9. d.ldt[ds] = D(PoolOwner, base, SegLimit, "data16")
  BY <1>2, <1>7 DEF Tables
<1> HIDE DEF d, ds, cs
<1>10. l = [ldt EXCEPT ![ds] = first]
  <2>1. CASE world.strict
    <3>1. d.ldt[ds].owner = "fixed"
      BY <1>9, <2>1 DEF D, PoolOwner
    <3>2. l = d.ldt
      BY <1>4, <3>1, FixedStays
    <3> QED BY <1>7, <2>1, <3>2 DEF PoolLimit
  <2>2. CASE ~world.strict
    <3>1. d.ldt[ds] = D("stub", base, SegLimit, "data16")
      BY <1>9, <2>2 DEF PoolOwner
    <3>2. l = dpmi_set_segment_limit(d.ldt, ds, minkeep * ParaSize - 1)
      BY <1>1, <1>4
    <3> HIDE DEF l, first, base
    <3>4. l = [d.ldt EXCEPT ![ds] = D("stub", base, minkeep * ParaSize - 1, "data16")]
      <4>1. /\ d.ldt[ds].owner = "stub" /\ d.ldt[ds].base = base
            /\ d.ldt[ds].rights = "data16"
        BY <3>1 DEF D
      <4>2. d.ldt \in Tables /\ ds \in Selectors
        BY <1>7, <1>8
      <4>3. l = [d.ldt EXCEPT ![ds] =
                   D("stub", d.ldt[ds].base, minkeep * ParaSize - 1, d.ldt[ds].rights)]
        BY <3>2, <4>1, <4>2, SetLimit
      <4> QED BY <4>1, <4>3
    <3> USE DEF first
    <3>3. first = D("stub", base, minkeep * ParaSize - 1, "data16")
      BY <2>2 DEF PoolOwner, PoolLimit
    <3> QED BY <1>2, <1>7, <3>3, <3>4 DEF Tables
  <2> QED BY <2>1, <2>2
<1>11. l \in Tables
  BY <1>1, <1>8, PoolBytes, SetType
<1>12. l[ds] = first
  BY <1>2, <1>7, <1>10 DEF Tables
<1> HIDE DEF l
<1>13. PoolOwner \notin {"nobody", "absent"}
  BY DEF PoolOwner
<1>14. a = Fresh(l, copy)
  BY <1>4, <1>7, <1>11, <1>12, <1>13, AliasFacts
<1>15. /\ cs \in Selectors /\ l[cs].owner = "nobody"
       /\ a.ldt = [l EXCEPT ![cs] = copy]
  BY <1>4, <1>5, <1>11, <1>14, FreshFacts
<1>16. cs # ds
  BY <1>12, <1>13, <1>15 DEF D
<1>17. ldt[cs].owner = "nobody"
  BY <1>2, <1>7, <1>10, <1>15, <1>16 DEF Tables
<1>18. a.ldt \in Tables
  BY <1>4, <1>7, <1>11, AliasType
<1>19. a.ldt[cs] = copy
  BY <1>11, <1>15 DEF Tables
<1> HIDE DEF a, copy
<1>20. ldt' = [a.ldt EXCEPT ![cs] = D("stub", base, PoolLimit, "code16")]
  <2>1. ldt' = dpmi_set_descriptor_access_rights(a.ldt, cs, "code16")
    BY <1>3, <1>4
  <2>2. a.ldt[cs] = D("stub", base, PoolLimit, "data16")
    BY <1>19 DEF copy
  <2> HIDE DEF base
  <2>3. /\ a.ldt[cs].owner = "stub" /\ a.ldt[cs].base = base
        /\ a.ldt[cs].limit = PoolLimit
    BY <2>2 DEF D
  <2>4. ldt' = [a.ldt EXCEPT ![cs] = D("stub", a.ldt[cs].base, a.ldt[cs].limit, "code16")]
    <3>1. a.ldt \in Tables /\ cs \in Selectors
      BY <1>15, <1>18
    <3> QED BY <2>1, <2>3, <3>1, SetRights
  <2> QED BY <2>3, <2>4
<1>21. /\ ldt'[cs] = D("stub", base, PoolLimit, "code16")
       /\ ldt'[ds] = first
       /\ \A s \in Selectors \ {ds, cs} : ldt'[s] = ldt[s]
  BY <1>2, <1>7, <1>10, <1>11, <1>12, <1>15, <1>16, <1>18, <1>20 DEF Tables
<1>22. Ours(ds) /\ Ours(cs)
  BY <1>2, <1>7, <1>15, <1>17, FreeIsOurs
<1>23. Keeps'
  BY <1>2, <1>3, <1>21, <1>22 DEF Keeps, Ours
<1>24. PoolTrue'
  BY <1>3, <1>16, <1>21, <1>22 DEF PoolTrue, Ours, ds, cs, PoolOwner, PoolLimit, LowPool
<1> QED BY <1>23, <1>24

LEMMA ClientHandover ==
    ASSUME Handover, MainTypes, ClientDescriptors, ~Starved, ~Starved'
    PROVE  Keeps' /\ PoolTrue' /\ ClientTrue'
<1> DEFINE new == D("stub", 0, 0, "data16")
           e == dpmi_allocate_ldt_descriptors(ldt)
           c == dpmi_allocate_ldt_descriptors(e.ldt)
           entry == sel'.entry
           client == sel'.client
<1>1. ldt \in Tables /\ Keeps /\ PoolTrue
  BY DEF MainTypes, Handover, ClientDescriptors, PoolMade
<1>2. /\ ldt' = c.ldt /\ sel' = [sel EXCEPT !.entry = e.sel, !.client = c.sel]
      /\ world' = world /\ info' = info /\ pc' = "segments"
  BY DEF ClientDescriptors
<1>3. entry = e.sel /\ client = c.sel
  BY <1>2 DEF MainTypes
<1>4. entry # NoSel /\ client # NoSel
  BY DEF Starved, NoSel
<1>5. e = Fresh(ldt, new) /\ c = Fresh(e.ldt, new)
  BY DEF dpmi_allocate_ldt_descriptors, D
<1>6. e.ldt \in Tables
  BY <1>1, AllocType
<1> HIDE DEF e, c, new, entry, client
<1>7. /\ entry \in Selectors /\ ldt[entry].owner = "nobody"
      /\ e.ldt = [ldt EXCEPT ![entry] = new]
  BY <1>1, <1>3, <1>4, <1>5, FreshFacts
<1>8. /\ client \in Selectors /\ e.ldt[client].owner = "nobody"
      /\ c.ldt = [e.ldt EXCEPT ![client] = new]
  BY <1>3, <1>4, <1>5, <1>6, FreshFacts
<1>9. e.ldt[entry] = new /\ new.owner = "stub"
  BY <1>1, <1>7 DEF Tables, new, D
<1>10. client # entry
  BY <1>8, <1>9
<1>11. ldt[client].owner = "nobody"
  BY <1>1, <1>7, <1>8, <1>10 DEF Tables
<1>12. Ours(entry) /\ Ours(client)
  BY <1>1, <1>7, <1>8, <1>11, FreeIsOurs
<1>13. ldt[info.ds_selector].owner # "nobody" /\ ldt[info.cs_selector].owner # "nobody"
  BY <1>1 DEF PoolTrue, PoolOwner, D
<1>14. /\ entry \notin {info.ds_selector, info.cs_selector}
       /\ client \notin {info.ds_selector, info.cs_selector}
  BY <1>7, <1>11, <1>13
<1>15. /\ ldt'[entry] = new /\ ldt'[client] = new
       /\ \A s \in Selectors \ {entry, client} : ldt'[s] = ldt[s]
  BY <1>1, <1>2, <1>6, <1>7, <1>8, <1>9, <1>10 DEF Tables
<1>16. Keeps'
  BY <1>1, <1>2, <1>12, <1>15 DEF Keeps, Ours
<1>17. PoolTrue'
  BY <1>1, <1>2, <1>14, <1>15 DEF PoolTrue, Ours, PoolOwner, PoolLimit, LowPool
<1>18. ClientTrue'
  BY <1>2, <1>10, <1>12, <1>14, <1>15 DEF ClientTrue, ClientIs, Ours, new, entry, client
<1> QED BY <1>16, <1>17, <1>18

\* Both segments of the program are made this way.
LEMMA SegmentFacts ==
    ASSUME NEW t \in Tables, NEW s \in Selectors, t[s].owner = "stub",
           NEW rights \in {"data16", "code16", "data32", "code32"}
    PROVE  /\ Segment(t, s, rights) = [t EXCEPT ![s] = D("stub", ImageBase, FlatLimit, rights)]
           /\ Segment(t, s, rights) \in Tables
<1> DEFINE b == dpmi_set_segment_base_address(t, s, ImageBase)
           r == dpmi_set_descriptor_access_rights(b, s, rights)
<1>1. b \in Tables
  BY SetType, InfoAssumption
<1>2. b = [t EXCEPT ![s] = D("stub", ImageBase, t[s].limit, t[s].rights)]
  BY SetBase
<1> HIDE DEF b
<1>3. b[s].owner = "stub" /\ b[s].base = ImageBase
  BY <1>2 DEF Tables, D
<1>4. r \in Tables
  BY <1>1, SetType
<1>5. r = [b EXCEPT ![s] = D("stub", b[s].base, b[s].limit, rights)]
  BY <1>1, <1>3, SetRights
<1> HIDE DEF r
<1>6. r[s].owner = "stub" /\ r[s].base = ImageBase /\ r[s].rights = rights
  BY <1>1, <1>3, <1>5 DEF Tables, D
<1> DEFINE l == dpmi_set_segment_limit(r, s, FlatLimit)
<1>7. l = [r EXCEPT ![s] = D("stub", r[s].base, FlatLimit, r[s].rights)]
  BY <1>4, <1>6, SetLimit
<1>8. l \in Tables
  BY <1>4, SetType
<1>9. Segment(t, s, rights) = l
  BY DEF Segment, r, b
<1> HIDE DEF l
<1>10. l = [t EXCEPT ![s] = D("stub", ImageBase, FlatLimit, rights)]
  BY <1>2, <1>5, <1>6, <1>7 DEF Tables
<1> QED BY <1>8, <1>9, <1>10

LEMMA SegmentsHandover ==
    ASSUME Handover, MainTypes, ClientSegments, ~Starved
    PROVE  Keeps' /\ PoolTrue' /\ ClientTrue'
<1> DEFINE entry == sel.entry
           client == sel.client
           e == Segment(ldt, entry, "code32")
<1>1. ldt \in Tables /\ Keeps /\ PoolTrue /\ ClientTrue /\ pc = "segments"
  BY DEF MainTypes, Handover, ClientSegments, PoolMade, ClientMade
<1>2. /\ ldt' = Segment(e, client, "data32")
      /\ info' = [info EXCEPT !.mem_base = ImageBase]
      /\ pc' = "info" /\ world' = world /\ sel' = sel
  BY DEF ClientSegments
<1>3. info'.ds_selector = info.ds_selector /\ info'.cs_selector = info.cs_selector
  BY <1>2 DEF MainTypes, StubInfo
<1>4. entry \in Selectors /\ client \in Selectors /\ entry # client
  BY <1>1 DEF ClientTrue, Ours
<1>5. ldt[entry].owner = "stub" /\ ldt[client].owner = "stub"
  BY <1>1 DEF ClientTrue, ClientIs, D
<1> HIDE DEF entry, client
<1>6. e = [ldt EXCEPT ![entry] = D("stub", ImageBase, FlatLimit, "code32")] /\ e \in Tables
  BY <1>1, <1>4, <1>5, SegmentFacts
<1> HIDE DEF e
<1>7. e[client].owner = "stub"
  BY <1>1, <1>4, <1>5, <1>6 DEF Tables
<1>8. ldt' = [e EXCEPT ![client] = D("stub", ImageBase, FlatLimit, "data32")]
  BY <1>2, <1>4, <1>6, <1>7, SegmentFacts
<1>9. /\ ldt'[entry] = D("stub", ImageBase, FlatLimit, "code32")
      /\ ldt'[client] = D("stub", ImageBase, FlatLimit, "data32")
      /\ \A s \in Selectors \ {entry, client} : ldt'[s] = ldt[s]
  BY <1>1, <1>4, <1>6, <1>8 DEF Tables
<1>10. Ours(entry) /\ Ours(client)
  BY <1>1 DEF ClientTrue, entry, client
<1>11. Keeps'
  BY <1>1, <1>2, <1>9, <1>10 DEF Keeps, Ours
<1>12. /\ entry \notin {info.ds_selector, info.cs_selector}
       /\ client \notin {info.ds_selector, info.cs_selector}
  BY <1>1 DEF ClientTrue, entry, client
<1>13. PoolTrue'
  BY <1>1, <1>2, <1>3, <1>9, <1>12 DEF PoolTrue, Ours, PoolOwner, PoolLimit, LowPool
<1>14. ClientTrue'
  BY <1>2, <1>3, <1>4, <1>9, <1>10, <1>12 DEF ClientTrue, ClientIs, Ours, entry, client
<1> QED BY <1>11, <1>13, <1>14

LEMMA FsHandover ==
    ASSUME Handover, MainTypes, InfoDescriptor, ~Starved, ~Starved'
    PROVE  Keeps' /\ PoolTrue' /\ ClientTrue' /\ FsTrue'
<1> DEFINE a == dpmi_create_alias_descriptor(ldt, MyDs)
           copy == D("stub", ldt[MyDs].base, ldt[MyDs].limit, "data16")
           base == dpmi_get_segment_base_address(a.ldt, a.sel) + InfoBase
           b == dpmi_set_segment_base_address(a.ldt, a.sel, base)
           fs == sel'.fs
<1>1. ldt \in Tables /\ Keeps /\ PoolTrue /\ ClientTrue /\ pc = "info"
  BY DEF MainTypes, Handover, InfoDescriptor, PoolMade, ClientMade
<1>2. /\ ldt' = dpmi_set_segment_limit(b, a.sel, InfoSize - 1)
      /\ sel' = [sel EXCEPT !.fs = a.sel]
      /\ info' = info /\ pc' = "load" /\ world' = world
  BY DEF InfoDescriptor
<1>3. fs = a.sel /\ sel'.entry = sel.entry /\ sel'.client = sel.client
  BY <1>2 DEF MainTypes
<1>4. fs # NoSel
  BY DEF Starved, NoSel
<1>5. MyDs \in Selectors /\ world.table[MyDs].owner = "runtime"
  BY WorldsAssumption DEF MainTypes
<1>6. ldt[MyDs] = world.table[MyDs]
  BY <1>1, <1>5 DEF Keeps
<1>7. a = Fresh(ldt, copy)
  BY <1>5, <1>6 DEF dpmi_create_alias_descriptor, IsLive, D
<1>8. a.ldt \in Tables
  BY <1>1, <1>5, AliasType
<1> HIDE DEF a, fs, copy
<1>9. /\ fs \in Selectors /\ ldt[fs].owner = "nobody"
      /\ a.ldt = [ldt EXCEPT ![fs] = copy]
  BY <1>1, <1>3, <1>4, <1>7, FreshFacts
<1>10. a.ldt[fs] = copy
  BY <1>1, <1>9 DEF Tables
<1>11. copy.owner = "stub" /\ copy.base = world.table[MyDs].base /\ copy.rights = "data16"
  BY <1>6 DEF copy, D
<1>12. base = world.table[MyDs].base + InfoBase
  BY <1>3, <1>10, <1>11 DEF dpmi_get_segment_base_address, IsLive
<1>13. base \in Int
  BY <1>3, <1>8, <1>9, BaseType, InfoAssumption
<1> HIDE DEF base
<1>14. b = [a.ldt EXCEPT ![fs] = D("stub", base, a.ldt[fs].limit, a.ldt[fs].rights)]
  <2>1. a.ldt[fs].owner = "stub"
    BY <1>10, <1>11
  <2>2. a.ldt \in Tables /\ fs \in Selectors
    BY <1>8, <1>9
  <2>3. b = dpmi_set_segment_base_address(a.ldt, fs, base)
    BY <1>3
  <2> HIDE DEF b
  <2> QED BY <2>1, <2>2, <2>3, SetBase
<1>15. b \in Tables
  BY <1>3, <1>8, <1>9, <1>13, SetType
<1> HIDE DEF b
<1>16. b[fs].owner = "stub" /\ b[fs].base = base /\ b[fs].rights = "data16"
  BY <1>8, <1>9, <1>10, <1>11, <1>14 DEF Tables, D
<1>17. ldt' = [b EXCEPT ![fs] = D("stub", b[fs].base, InfoSize - 1, b[fs].rights)]
  <2>1. ldt' = dpmi_set_segment_limit(b, fs, InfoSize - 1)
    BY <1>2, <1>3
  <2> QED BY <1>9, <1>15, <1>16, <2>1, SetLimit
<1>18. /\ ldt'[fs] = D("stub", base, InfoSize - 1, "data16")
       /\ \A s \in Selectors \ {fs} : ldt'[s] = ldt[s]
  BY <1>1, <1>8, <1>9, <1>14, <1>15, <1>16, <1>17 DEF Tables
<1>19. Ours(fs)
  BY <1>1, <1>9, FreeIsOurs
<1>20. fs \notin {info.ds_selector, info.cs_selector}
  BY <1>1, <1>9 DEF PoolTrue, PoolOwner, D
<1>21. fs \notin {sel.entry, sel.client}
  BY <1>1, <1>9 DEF ClientTrue, ClientIs, D
<1>22. Keeps'
  BY <1>1, <1>2, <1>18, <1>19 DEF Keeps, Ours
<1>23. PoolTrue'
  BY <1>1, <1>2, <1>18, <1>20 DEF PoolTrue, Ours, PoolOwner, PoolLimit, LowPool
<1>24. ClientTrue'
  BY <1>1, <1>2, <1>3, <1>18, <1>21 DEF ClientTrue, ClientIs, Ours
<1>25. FsTrue'
  BY <1>2, <1>3, <1>12, <1>18, <1>19, <1>20, <1>21 DEF FsTrue, Ours, fs
<1> QED BY <1>22, <1>23, <1>24, <1>25

LEMMA PspHandover ==
    ASSUME Handover, MainTypes, alloc_psp, ~Starved, ~Starved'
    PROVE  Keeps' /\ PoolTrue' /\ ClientTrue' /\ FsTrue' /\ PspTrue'
<1> DEFINE d == dpmi_segment_to_descriptor(ldt, PspSeg, world.strict)
           whole == D(PoolOwner, PspSeg * ParaSize, SegLimit, "data16")
           last == PspParas * ParaSize - 1
           psp == info'.psp_selector
<1>1. /\ ldt \in Tables /\ Keeps /\ PoolTrue /\ ClientTrue /\ FsTrue
  BY DEF MainTypes, Handover, alloc_psp, PoolMade, ClientMade, SegmentsMade, FsMade
<1>2. /\ ldt' = dpmi_set_segment_limit(d.ldt, d.sel, last)
      /\ info' = [info EXCEPT !.psp_selector = d.sel]
      /\ pc = "psp" /\ pc' = "jump" /\ world' = world /\ sel' = sel
  BY DEF alloc_psp
<1>3. /\ psp = d.sel
      /\ info'.ds_selector = info.ds_selector /\ info'.cs_selector = info.cs_selector
  BY <1>2 DEF MainTypes, StubInfo
<1>4. psp # NoSel
  BY DEF Starved, NoSel
<1>5. d = Fresh(ldt, whole)
  BY DEF dpmi_segment_to_descriptor, D, PoolOwner
<1>6. d.ldt \in Tables
  BY <1>1, SegmentType, SizesAssumption
<1> HIDE DEF d, whole, psp
<1>7. /\ psp \in Selectors /\ ldt[psp].owner = "nobody"
      /\ d.ldt = [ldt EXCEPT ![psp] = whole]
  BY <1>1, <1>3, <1>4, <1>5, FreshFacts
<1>8. d.ldt[psp] = whole
  BY <1>1, <1>7 DEF Tables
<1>9. /\ whole.owner = PoolOwner /\ whole.base = PspSeg * ParaSize
      /\ whole.limit = SegLimit /\ whole.rights = "data16"
  BY DEF whole, D
<1>10. last \in Nat /\ last <= SegLimit
  BY PspBytes, InfoAssumption
<1> HIDE DEF last
<1>11. /\ Covers(ldt'[psp], PspSeg * ParaSize, last)
       /\ \A s \in Selectors \ {psp} : ldt'[s] = ldt[s]
  <2>1. CASE world.strict
    <3>1. d.ldt[psp].owner = "fixed"
      BY <1>8, <1>9, <2>1 DEF PoolOwner
    <3>2. ldt' = d.ldt
      BY <1>2, <1>3, <3>1, FixedStays
    <3> QED BY <1>1, <1>7, <1>8, <1>9, <1>10, <3>2 DEF Tables, Covers
  <2>2. CASE ~world.strict
    <3>1. d.ldt[psp].owner = "stub"
      BY <1>8, <1>9, <2>2 DEF PoolOwner
    <3>2. ldt' = dpmi_set_segment_limit(d.ldt, psp, last)
      BY <1>2, <1>3
    <3>3. ldt' = [d.ldt EXCEPT ![psp] = D("stub", d.ldt[psp].base, last, d.ldt[psp].rights)]
      <4>1. d.ldt \in Tables /\ psp \in Selectors
        BY <1>6, <1>7
      <4> QED BY <3>1, <3>2, <4>1, SetLimit
    <3>4. ldt'[psp].base = PspSeg * ParaSize /\ ldt'[psp].limit = last
      BY <1>6, <1>7, <1>8, <1>9, <3>3 DEF Tables, D
    <3>5. \A s \in Selectors \ {psp} : ldt'[s] = ldt[s]
      BY <1>1, <1>6, <1>7, <3>3 DEF Tables
    <3> QED BY <1>10, <3>4, <3>5 DEF Covers
  <2> QED BY <2>1, <2>2
<1>12. Ours(psp)
  BY <1>1, <1>7, FreeIsOurs
<1>13. psp \notin {info.ds_selector, info.cs_selector}
  BY <1>1, <1>7 DEF PoolTrue, PoolOwner, D
<1>14. psp \notin {sel.entry, sel.client}
  BY <1>1, <1>2, <1>7 DEF ClientTrue, ClientIs, D
<1>15. psp # sel.fs
  BY <1>1, <1>7 DEF FsTrue, D
<1>16. Keeps'
  BY <1>1, <1>2, <1>11, <1>12 DEF Keeps, Ours
<1>17. PoolTrue'
  BY <1>1, <1>2, <1>3, <1>11, <1>13 DEF PoolTrue, Ours, PoolOwner, PoolLimit, LowPool
<1>18. ClientTrue'
  BY <1>1, <1>2, <1>3, <1>11, <1>14 DEF ClientTrue, ClientIs, Ours
<1>19. FsTrue'
  BY <1>1, <1>2, <1>3, <1>11, <1>15 DEF FsTrue, Ours
<1>20. PspTrue'
  BY <1>11 DEF PspTrue, psp, last
<1> QED BY <1>16, <1>17, <1>18, <1>19, <1>20

\* Steps that make no descriptor: Switched takes the PSP's from the host, and
\* the jump finds live descriptors and code.
LEMMA PlainHandover ==
    ASSUME Handover, MainTypes, TableKept, ~Starved
    PROVE  Handover'
<1> USE DEF PoolMade, ClientMade, SegmentsMade, FsMade, PspMade
<1>1. Keeps
  BY DEF Handover
<1>2. ASSUME UNCHANGED <<world, ldt, sel, info>>,
             pc' = pc \/ pc' \notin PoolMade \cup {"faulted"}
                 \/ (pc = "load" /\ pc' = "switch") \/ (pc = "switch" /\ pc' = "psp")
                 \/ (pc = "jump" /\ pc' = "running")
      PROVE  Handover'
  <2>1. Keeps'
    BY <1>1, <1>2 DEF Keeps
  <2>2. (pc' \in PoolMade => PoolTrue') /\ pc' # "faulted"
    BY <1>2 DEF Handover, PoolTrue, Ours, PoolOwner, PoolLimit, LowPool
  <2>3. pc' \in ClientMade => ClientTrue'
    BY <1>2 DEF Handover, ClientTrue, ClientIs, Ours
  <2>4. pc' \in FsMade => FsTrue'
    BY <1>2 DEF Handover, FsTrue, Ours
  <2>5. pc' \in PspMade => PspTrue'
    BY <1>2 DEF Handover, PspTrue
  <2> QED BY <2>1, <2>2, <2>3, <2>4, <2>5 DEF Handover
<1>3. CASE Start \/ OpenSelf \/ StubReturned \/ OpenProgram \/ LoadAndSwitch \/ Fallback
  BY <1>2, <1>3 DEF Start, OpenSelf, StubReturned, OpenProgram, LoadAndSwitch, Fallback
<1>4. CASE MainExits \/ FullstubExits
  BY <1>2, <1>4 DEF MainExits, FullstubExits, Exits
<1>5. CASE HeaderTurn
  <2>1. pc' \in {"chain", "exited", "headers"} /\ UNCHANGED <<world, ldt, sel, info>>
    BY <1>5 DEF HeaderTurn
  <2> QED BY <1>2, <2>1
<1>6. CASE LowRuns \/ UNCHANGED vars
  BY <1>2, <1>6 DEF LowRuns, vars, mainVars
<1>7. CASE ReadHeaders \/ EnterStub
  <2>1. pc' \in {"pool", "entered"} /\ UNCHANGED <<world, ldt, sel>>
    BY <1>7 DEF ReadHeaders, EnterStub
  <2>2. Keeps'
    BY <1>1, <2>1 DEF Keeps
  <2> QED BY <2>1, <2>2 DEF Handover
<1>8. CASE Switched
  <2>1. /\ pc = "switch" /\ pc' = "jump" /\ UNCHANGED <<world, ldt, sel>>
        /\ info' = [info EXCEPT !.psp_selector = HostPsp]
    BY <1>8 DEF Switched
  <2>2. /\ info'.ds_selector = info.ds_selector /\ info'.cs_selector = info.cs_selector
        /\ info'.psp_selector = HostPsp
    BY <2>1 DEF MainTypes, StubInfo
  <2>3. PoolTrue /\ ClientTrue /\ FsTrue
    BY <2>1 DEF Handover
  <2>4. Keeps'
    BY <1>1, <2>1 DEF Keeps
  <2>5. PoolTrue'
    BY <2>1, <2>2, <2>3 DEF PoolTrue, Ours, PoolOwner, PoolLimit, LowPool
  <2>6. ClientTrue'
    BY <2>1, <2>2, <2>3 DEF ClientTrue, ClientIs, Ours
  <2>7. FsTrue'
    BY <2>1, <2>2, <2>3 DEF FsTrue, Ours
  <2>8. ldt[HostPsp] = world.table[HostPsp]
    BY <1>1, WorldsAssumption DEF Keeps, MainTypes
  <2>9. Covers(ldt'[HostPsp], PspSeg * ParaSize, PspParas * ParaSize - 1)
    BY <2>1, <2>8, WorldsAssumption DEF MainTypes
  <2>10. PspTrue'
    BY <2>2, <2>9 DEF PspTrue
  <2> QED BY <2>1, <2>4, <2>5, <2>6, <2>7, <2>10 DEF Handover
<1>9. CASE jump_to_entry
  <2>1. pc = "jump" /\ PoolTrue /\ ClientTrue /\ FsTrue
    BY <1>9 DEF jump_to_entry, Handover
  <2>2. /\ IsLive(ldt, sel.entry) /\ IsLive(ldt, sel.client)
        /\ ldt[sel.entry].rights = "code32"
    BY <2>1 DEF ClientTrue, ClientIs, IsLive, D
  <2>3. IsLive(ldt, sel.fs)
    BY <2>1 DEF FsTrue, IsLive, D
  <2>4. pc' = "running" /\ UNCHANGED <<world, ldt, sel, info>>
    BY <1>9, <2>2, <2>3 DEF jump_to_entry
  <2> QED BY <1>2, <2>1, <2>4
<1> QED BY <1>3, <1>4, <1>5, <1>6, <1>7, <1>8, <1>9 DEF TableKept

LEMMA HandoverStep ==
    ASSUME Handover, Stage, Unset, MainTypes, [Next]_vars
    PROVE  Handover'
<1> USE DEF PoolMade, ClientMade, SegmentsMade, FsMade, PspMade
<1> SUFFICES ASSUME ~Starved'
             PROVE  Handover'
  BY DEF Handover
<1>1. ~Starved
  BY StarvedStays
<1>2. CASE TableKept
  BY <1>1, <1>2, PlainHandover
<1>3. CASE PoolDescriptors
  <2>1. pc' = "client"
    BY <1>3 DEF PoolDescriptors
  <2> QED BY <1>1, <1>3, <2>1, PoolHandover DEF Handover
<1>4. CASE ClientDescriptors
  <2>1. pc' = "segments"
    BY <1>4 DEF ClientDescriptors
  <2> QED BY <1>1, <1>4, <2>1, ClientHandover DEF Handover
<1>5. CASE ClientSegments
  <2>1. pc' = "info"
    BY <1>5 DEF ClientSegments
  <2> QED BY <1>1, <1>5, <2>1, SegmentsHandover DEF Handover
<1>6. CASE InfoDescriptor
  <2>1. pc' = "load"
    BY <1>6 DEF InfoDescriptor
  <2> QED BY <1>1, <1>6, <2>1, FsHandover DEF Handover
<1>7. CASE alloc_psp
  <2>1. pc' = "jump"
    BY <1>7 DEF alloc_psp
  <2> QED BY <1>1, <1>7, <2>1, PspHandover DEF Handover
<1> QED BY <1>2, <1>3, <1>4, <1>5, <1>6, <1>7, NextSplit

-----------------------------------------------------------------------------
(* The header loop.                                                        *)

BeforeChain == {"start", "open", "nuke", "entered", "returned", "fullstub"}
PayloadFound == PoolMade \cup {"headers", "pool"}

\* chain is what some number of turns makes of the file; when fullstub() goes
\* on, the last of them has found a payload.
ChainInv ==
    /\ world \in Worlds
    /\ pc \in BeforeChain => chain = StubStart
    /\ ~world.elfexec =>
         /\ \E n \in Nat : \E g : Turns(g, world.file, n) /\ chain = g[n]
         /\ StartsWith(world.file, "mz") => Followed(world.file, chain)
         /\ pc \in PayloadFound => chain.ops \in {"coff", "elf"}

LEMMA WorldFile ==
    ASSUME NEW w \in Worlds
    PROVE  IsFile(w.file)
BY WorldsAssumption

LEMMA ChainInit ==
    ASSUME Init
    PROVE  ChainInv
<1>1. world \in Worlds /\ pc = "start" /\ chain = StubStart
  BY DEF Init
<1>2. Turns([n \in 0 .. 0 |-> StubStart], world.file, 0)
  BY DEF Turns
<1>3. \E n \in Nat : \E g : Turns(g, world.file, n) /\ chain = g[n]
  BY <1>1, <1>2
<1>4. Followed(world.file, chain)
  BY <1>1 DEF Followed, StubStart
<1> QED BY <1>1, <1>3, <1>4 DEF ChainInv, PayloadFound, PoolMade

LEMMA HeaderTurnChain ==
    ASSUME ChainInv, HeaderTurn
    PROVE  ChainInv'
<1> DEFINE f == world.file
<1>1. /\ world' = world /\ world \in Worlds /\ pc = "chain"
      /\ chain' = StubTurn(f, chain)
      /\ pc' = CASE chain'.ops = "none" -> "chain"
                 [] chain'.ops = "refused" -> "exited"
                 [] OTHER -> "headers"
  BY DEF HeaderTurn, ChainInv
<1>2. pc' \in {"chain", "exited", "headers"}
  BY <1>1
<1>3. pc' \notin BeforeChain /\ (pc' \in PayloadFound => pc' = "headers")
  BY <1>2 DEF BeforeChain, PayloadFound, PoolMade
<1>4. ASSUME ~world.elfexec
      PROVE  /\ \E n \in Nat : \E g : Turns(g, f, n) /\ chain' = g[n]
             /\ StartsWith(f, "mz") => Followed(f, chain')
             /\ pc' = "headers" => chain'.ops \in {"coff", "elf"}
  <2>1. IsFile(f)
    BY <1>1, WorldFile
  <2>2. PICK n \in Nat : \E g : Turns(g, f, n) /\ chain = g[n]
    BY <1>4 DEF ChainInv
  <2>3. PICK g : Turns(g, f, n) /\ chain = g[n]
    BY <2>2
  <2>4. PICK e : Turns(e, f, n + 1)
    <3>1. n + 1 \in Nat
      OBVIOUS
    <3> QED BY <3>1, TurnsExist
  <2>5. e[n] = chain
    BY <2>1, <2>3, <2>4, TurnsAgree
  <2>6. e[n + 1] = StubTurn(f, chain)
    <3>1. n + 1 \in 0 .. n + 1 /\ n + 1 # 0 /\ (n + 1) - 1 = n
      OBVIOUS
    <3>2. e[n + 1] = StubTurn(f, e[n])
      BY <2>4, <3>1 DEF Turns
    <3> QED BY <2>5, <3>2
  <2>7. chain \in Chains /\ chain' \in Chains
    <3>1. chain \in Chains
      BY <2>1, <2>3, LoopFacts
    <3> QED BY <1>1, <2>1, <3>1, TurnFacts
  <2>8. StartsWith(f, "mz") => Followed(f, chain')
    BY <1>1, <1>4, <2>1, <2>7, FollowedTurn DEF ChainInv
  <2>9. pc' = "headers" => chain'.ops \in {"coff", "elf"}
    <3>1. chain'.ops \in {"none", "refused", "coff", "elf"}
      BY <2>7 DEF Chains
    <3> QED BY <1>1, <3>1
  <2>10. \E m \in Nat : \E k : Turns(k, f, m) /\ chain' = k[m]
    <3>1. n + 1 \in Nat
      OBVIOUS
    <3> QED BY <1>1, <2>4, <2>6, <3>1
  <2> QED BY <2>8, <2>9, <2>10
<1> QED BY <1>1, <1>3, <1>4 DEF ChainInv

\* After the loop, pc moves on among the places where a payload is known.
LEMMA ChainStep ==
    ASSUME ChainInv, [Next]_vars
    PROVE  ChainInv'
<1>1. CASE HeaderTurn
  BY <1>1, HeaderTurnChain
<1>2. CASE OpenProgram
  <2>1. /\ pc = "fullstub" /\ world' = world /\ pc' \in {"headers", "chain"}
        /\ ~world.elfexec => pc' = "chain" /\ chain' = chain
    BY <1>2 DEF OpenProgram
  <2>2. pc' \notin BeforeChain /\ (~world.elfexec => pc' \notin PayloadFound)
    BY <2>1 DEF BeforeChain, PayloadFound, PoolMade
  <2> QED BY <2>1, <2>2 DEF ChainInv
<1>3. ASSUME UNCHANGED <<world, chain>>,
             pc' \in BeforeChain => pc \in BeforeChain,
             pc' \in PayloadFound => pc \in PayloadFound
      PROVE  ChainInv'
  BY <1>3 DEF ChainInv
<1> USE DEF BeforeChain, PayloadFound, PoolMade
<1>4. CASE \/ Start \/ OpenSelf \/ EnterStub \/ StubReturned \/ ReadHeaders
  BY <1>3, <1>4 DEF Start, OpenSelf, EnterStub, StubReturned, ReadHeaders
<1>5. CASE MainExits \/ FullstubExits
  BY <1>3, <1>5 DEF MainExits, FullstubExits, Exits
<1>6. CASE PoolDescriptors \/ ClientDescriptors \/ ClientSegments \/ InfoDescriptor
  BY <1>3, <1>6 DEF PoolDescriptors, ClientDescriptors, ClientSegments, InfoDescriptor
<1>7. CASE LoadAndSwitch \/ Switched \/ Fallback \/ alloc_psp
  BY <1>3, <1>7 DEF LoadAndSwitch, Switched, Fallback, alloc_psp
<1>8. CASE jump_to_entry
  <2>1. pc = "jump" /\ pc' \in {"running", "faulted"} /\ UNCHANGED <<world, chain>>
    BY <1>8 DEF jump_to_entry
  <2> QED BY <1>3, <2>1
<1>9. CASE LowRuns \/ UNCHANGED vars
  BY <1>3, <1>9 DEF LowRuns, mainVars, vars
<1> QED BY <1>1, <1>2, <1>4, <1>5, <1>6, <1>7, <1>8, <1>9 DEF Next

LEMMA ChainInductive == Spec => []ChainInv
BY ChainInit, ChainStep, PTL DEF Spec

-----------------------------------------------------------------------------
(* The theorems.                                                           *)

ArgvOK == argv0 \in 0 .. MemParas

LEMMA ArgvStep ==
    ASSUME ArgvOK, [Next]_vars
    PROVE  ArgvOK'
<1>1. argv0' = argv0 \/ argv0' = MemParas
  BY DEF Next, Start, OpenSelf, EnterStub, StubReturned, MainExits, OpenProgram, HeaderTurn,
         ReadHeaders, PoolDescriptors, ClientDescriptors, ClientSegments, InfoDescriptor,
         LoadAndSwitch, FullstubExits, Exits, Switched, Fallback, alloc_psp, jump_to_entry,
         LowRuns, mainVars, vars
<1> QED BY <1>1, SizesAssumption DEF ArgvOK

LEMMA ArgvInit ==
    ASSUME Init, LowInv
    PROVE  ArgvOK
<1>1. own \in Nat /\ 1 <= own /\ Own \subseteq Paras
  BY SizesAssumption DEF LowInv, LowTypeOK, ArenaOK
<1>2. PspSeg + own - 1 \in Own
  BY <1>1, SizesAssumption DEF Own, Block
<1>3. PspSeg + own - 1 \in Paras
  BY <1>1, <1>2
<1> QED BY <1>3, SizesAssumption DEF Init, ArgvOK, Paras

\* The invariant of main() and fullstub().
MainInv == AreaKnown /\ MainTypes /\ ArgvOK /\ Stage /\ Unset /\ Handover

\* Every step of the stub preserves what is known of its descriptors and of
\* the order in which it makes them.
THEOREM MainInductive == Spec => []MainInv
<1>1. Init => MainInv
  <2> SUFFICES ASSUME Init
               PROVE  MainInv
    OBVIOUS
  <2>1. AreaKnown
    BY DEF Init, AreaKnown
  <2>2. ArgvOK
    BY LowInitOK, ArgvInit DEF Init
  <2> QED BY <2>1, <2>2, TypeInit, StageInit, HandoverInit DEF MainInv
<1>2. MainInv /\ [Next]_vars => MainInv'
  BY AreaKnownStep, TypeStep, ArgvStep, StageStep, UnsetStep, HandoverStep DEF MainInv
<1> QED BY <1>1, <1>2, PTL DEF Spec

LEMMA StubLowInv == Spec => []LowInv
BY StubGivesBack, LowInductive, PTL

\* All state of the whole stub keeps its type; low memory is busy only while
\* main() or fullstub() waits for it.
THEOREM StubTypeCorrect == Spec => []TypeOK
<1>1. LowInv /\ MainInv => TypeOK
  <2> SUFFICES ASSUME LowInv, MainInv
               PROVE  TypeOK
    OBVIOUS
  <2>1. LowTypeOK
    BY DEF LowInv
  <2>2. lm \notin {"idle", "done", "unavailable", "exited"} => pc \in {"nuke", "switch"}
    BY DEF MainInv, Stage, LowPlaces
  <2> QED BY <2>1, <2>2 DEF TypeOK, MainInv, MainTypes, ArgvOK, Tables
<1> QED BY <1>1, StubLowInv, MainInductive, PTL

\* Descriptors of others stay as they are while the host has descriptors.
THEOREM OthersStay == Spec => []OthersUntouched
<1>1. MainInv => OthersUntouched
  BY DEF MainInv, Handover, Keeps, OthersUntouched
<1> QED BY <1>1, MainInductive, PTL

\* The program gets the selectors it is told of, and the jump does not fault.
THEOREM SelectorsAreTrue == Spec => []SelectorsTrue
<1>1. MainInv => SelectorsTrue
  <2> SUFFICES ASSUME MainInv, pc \in {"running", "faulted"}, ~Starved
               PROVE  SelectorsTrue
    BY DEF SelectorsTrue
  <2>1. /\ Keeps /\ PoolTrue /\ ClientTrue /\ FsTrue /\ PspTrue /\ pc = "running"
    BY DEF MainInv, Handover, PoolMade, ClientMade, SegmentsMade, FsMade, PspMade
  <2>2. /\ info.ds_segment = LowPool /\ info.minkeep = minkeep /\ info.mem_base = ImageBase
    BY <2>1 DEF MainInv, Stage, PoolMade, ClientMade, SegmentsMade
  <2> DEFINE ds == ldt[info.ds_selector]
             cs == ldt[info.cs_selector]
  <2>3. /\ ds.base = LowPool * ParaSize /\ ds.limit = PoolLimit
        /\ cs.base = ds.base /\ cs.limit = ds.limit /\ cs.rights = "code16"
    BY <2>1 DEF PoolTrue, D
  <2>4. PoolLimit >= minkeep * ParaSize - 1
    BY PoolBytes, InfoAssumption DEF PoolLimit
  <2>5. Covers(ds, info.ds_segment * ParaSize, info.minkeep * ParaSize - 1)
    BY <2>2, <2>3, <2>4 DEF Covers
  <2>6. Covers(ldt[sel.entry], info.mem_base, FlatLimit)
    BY <2>1, <2>2 DEF ClientTrue, ClientIs, Covers, D
  <2>7. ldt[sel.client] = [ldt[sel.entry] EXCEPT !.rights = "data32"]
    BY <2>1 DEF ClientTrue, ClientIs, D
  <2>8. MyDs \in Selectors /\ ldt[MyDs] = world.table[MyDs]
    BY <2>1, WorldsAssumption DEF Keeps, MainInv, MainTypes
  <2>9. ldt[sel.fs].base = ldt[MyDs].base + InfoBase /\ ldt[sel.fs].limit = InfoSize - 1
    BY <2>1, <2>8 DEF FsTrue, D
  <2> QED BY <2>1, <2>3, <2>5, <2>6, <2>7, <2>9 DEF SelectorsTrue, PspTrue
<1> QED BY <1>1, MainInductive, PTL

\* The low memory that ds_selector reaches is the program's, and argv[0] is no
\* longer in memory that has been given back.
THEOREM HandoverIsOwned == Spec => []HandoverOwned
<1>1. LowInv /\ MainInv => HandoverOwned
  <2> SUFFICES ASSUME LowInv, MainInv
               PROVE  HandoverOwned
    OBVIOUS
  <2>1. pc \in {"entered", "running"} => argv0 \notin Paras
    BY SizesAssumption DEF MainInv, Stage, Paras
  <2>2. ASSUME pc = "running", ~Starved, ~world.strict
        PROVE  Reach(ldt[info.ds_selector]) \subseteq Own \ (HostPool \cup Block(PspSeg, PspParas))
    <3>1. PoolTrue /\ lm = "done" /\ para = minkeep
      BY <2>2 DEF MainInv, Handover, Stage, PoolMade, PspMade
    <3> DEFINE ds == ldt[info.ds_selector]
    <3>2. ds.base = LowPool * ParaSize /\ ds.limit = minkeep * ParaSize - 1
      BY <2>2, <3>1 DEF PoolTrue, PoolLimit, D
    <3> HIDE DEF ds
    <3>3. LowPool \in Nat /\ minkeep \in Nat /\ ParaSize \in Nat \ {0}
      BY PoolBytes, SizesAssumption DEF LowPool
    <3>4. ASSUME NEW p \in Reach(ds)
          PROVE  p \in Block(LowPool, minkeep)
      <4>1. p \in Int /\ LowPool * ParaSize <= (p + 1) * ParaSize - 1
        BY <3>2, <3>4 DEF Reach, Paras
      <4>2. p * ParaSize <= LowPool * ParaSize + (minkeep * ParaSize - 1)
        BY <3>2, <3>4 DEF Reach
      <4>3. LowPool * ParaSize + (minkeep * ParaSize - 1) = (LowPool + minkeep) * ParaSize - 1
        BY <3>3, SMT
      <4>4. LowPool < p + 1
        BY <3>3, <4>1, Order
      <4>5. p < LowPool + minkeep
        BY <3>3, <4>1, <4>2, <4>3, Order
      <4> QED BY <3>3, <4>1, <4>4, <4>5 DEF Block
    <3>5. /\ Block(LowPool, minkeep) \subseteq Own
          /\ Block(LowPool, minkeep) \cap (HostPool \cup Block(PspSeg, PspParas)) = {}
      BY <3>1 DEF LowInv, AreaKept
    <3> QED BY <3>4, <3>5 DEF ds
  <2> QED BY <2>1, <2>2 DEF HandoverOwned
<1> QED BY <1>1, StubLowInv, MainInductive, PTL

\* The loop over the headers has ended with what StubRead computes.
ReadAsWhole ==
    (pc = "running" /\ ~world.elfexec) => StubRead(world.file) = chain

\* StubRead, with which Djstubify states its properties, stops after Len(f) + 1
\* turns; the loop itself ends with nothing else.
LEMMA LoopIsStubRead == Spec => []ReadAsWhole
<1>1. ChainInv => ReadAsWhole
  <2> SUFFICES ASSUME ChainInv, pc = "running", ~world.elfexec
               PROVE  StubRead(world.file) = chain
    BY DEF ReadAsWhole
  <2>1. IsFile(world.file)
    BY WorldFile DEF ChainInv
  <2>2. chain.ops # "none"
    BY DEF ChainInv, PayloadFound, PoolMade
  <2>3. PICK n \in Nat : \E g : Turns(g, world.file, n) /\ chain = g[n]
    BY DEF ChainInv
  <2>4. PICK g : Turns(g, world.file, n) /\ chain = g[n]
    BY <2>3
  <2> QED BY <2>1, <2>2, <2>4, ReadSettles
<1> QED BY <1>1, ChainInductive, PTL

\* The program is told of the overlays of the header that leads to its payload,
\* whatever the headers before it have left.
THEOREM OverlaysAreTold == Spec => []TellsOverlays
<1>1. ChainInv => TellsOverlays
  <2> SUFFICES ASSUME ChainInv, pc = "running", ~world.elfexec,
                      StartsWith(world.file, "mz")
               PROVE  TellsOverlays
    BY DEF TellsOverlays
  <2> DEFINE f == world.file
  <2>1. IsFile(f) /\ IsSeq(f)
    BY WorldFile, FileIsSeq DEF ChainInv
  <2>2. chain.ops \in {"coff", "elf"}
    BY DEF ChainInv, PayloadFound, PoolMade
  <2>3. Followed(f, chain)
    BY DEF ChainInv
  <2>4. chain # StubStart
    BY <2>2 DEF StubStart
  <2>5. PICK off \in Nat : /\ HasCell(f, off) /\ CellAt(f, off).what = "mz"
                           /\ Says(chain, CellAt(f, off).hdr)
    BY <2>3, <2>4 DEF Followed
  <2>6. CellAt(f, off).hdr \in Headers /\ off + 1 \in DOMAIN f
    BY <2>1, <2>5, HeaderAt
  <2>7. chain.noffset \in Nat /\ chain.noffset2 \in Nat
    <3>1. PICK n \in Nat : \E g : Turns(g, f, n) /\ chain = g[n]
      BY DEF ChainInv
    <3>2. PICK g : Turns(g, f, n) /\ chain = g[n]
      BY <3>1
    <3>3. chain \in Chains
      BY <2>1, <3>2, LoopFacts
    <3> QED BY <3>3 DEF Chains
  <2> DEFINE h == CellAt(f, off).hdr
  <2>8. Packed(h) => \A n \in 1 .. 3 : Regions(f, chain)[n] = Overlay(f, h, n)
    <3> SUFFICES ASSUME Packed(h) PROVE \A n \in 1 .. 3 : Regions(f, chain)[n] = Overlay(f, h, n)
      OBVIOUS
    <3> HIDE DEF h, f
    <3>1. Regions(f, chain) = <<Overlay(f, h, 1), Overlay(f, h, 2), Overlay(f, h, 3)>>
      BY <2>1, <2>5, <2>6, <2>7, SaysOverlays DEF h
    <3> QED BY <3>1
  <2>9. HasCell(f, chain.coffset) /\ CellAt(f, chain.coffset).what = chain.ops
    BY <2>2, <2>3 DEF Followed
  <2>10. h.lfanew = chain.coffset
    BY <2>5 DEF Says
  <2>11. h = f[off + 1].hdr /\ f[off + 1].what = "mz"
    BY <2>5 DEF CellAt
  <2> HIDE DEF h, f
  <2>12. \E k \in DOMAIN f :
            /\ f[k].what = "mz" /\ f[k].hdr.lfanew = chain.coffset
            /\ HasCell(f, chain.coffset) /\ CellAt(f, chain.coffset).what = chain.ops
            /\ Packed(f[k].hdr) =>
                 \A n \in 1 .. 3 : Regions(f, chain)[n] = Overlay(f, f[k].hdr, n)
    BY <2>6, <2>8, <2>9, <2>10, <2>11
  <2> QED BY <2>12 DEF TellsOverlays, f
<1> QED BY <1>1, ChainInductive, PTL
=============================================================================
