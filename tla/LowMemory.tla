------------------------------ MODULE LowMemory ------------------------------
(***************************************************************************)
(* Conventional memory while the stub gives it back: get_low_pool(),       *)
(* shrink_low(), free_low() and dpmi_init() of src/src/util.c.             *)
(*                                                                         *)
(* The stub owns one DOS block, which starts with the PSP.  A DPMI host    *)
(* may keep a pool of its own in another block.  dpmi_init() cuts the      *)
(* stub's block down to the PSP, the caller's area and room for that pool, *)
(* copies the pool there, makes the host switch to the copy and frees the  *)
(* old block.  Every DOS call on the way runs through the host, which      *)
(* writes to the pool it is using at that moment.                          *)
(*                                                                         *)
(* Memory is counted in paragraphs.  DOS and the host are external: they   *)
(* answer in every way the code distinguishes.                             *)
(***************************************************************************)
EXTENDS Integers

CONSTANTS
    MemParas,   \* size of conventional memory
    PspSeg,     \* __dpmi_psp >> 4: segment of the stub's block
    PspParas,   \* size of a PSP (0x10)
    Others,     \* paragraphs that belong to other programs
    Layouts,    \* [own, seg, size]: the stub's block and the host's pool
    Areas       \* the areas that callers keep behind the PSP

Paras == 0 .. MemParas - 1
Block(seg, n) == seg .. seg + n - 1

ASSUME SizesAssumption ==
    MemParas \in Nat /\ PspSeg \in Nat /\ PspParas \in Nat \ {0} /\ Areas \subseteq Nat
ASSUME LayoutsAssumption ==
    \A l \in Layouts :
        /\ l.own \in Nat /\ l.seg \in Nat /\ l.size \in Nat
        /\ PspParas <= l.own
        /\ Block(PspSeg, l.own) \cup Block(l.seg, l.size) \subseteq Paras \ Others
        /\ Block(PspSeg, l.own) \cap Block(l.seg, l.size) = {}

VARIABLES
    lm,         \* where dpmi_init() or shrink_low() is
    para,       \* its argument
    own,        \* size of the stub's block
    hostBlock,  \* paragraphs of the host's own DOS block
    hostSeg,    \* the pool the host is using...
    hostSize,   \* ...and its size
    reply,      \* eax and esi of the answer to 1687h
    holds,      \* contents of each paragraph
    calls       \* how many DOS calls the host has carried out

lowVars == <<lm, para, own, hostBlock, hostSeg, hostSize, reply, holds, calls>>
arena == <<own, hostBlock, holds, calls>>
host == <<hostSeg, hostSize>>

\* A paragraph holds the k-th part of the PSP, the k-th part of the pool as
\* the host left it in its n-th call, or anything else.
PspPart(k) == <<-1, k>>
PoolPart(n, k) == <<n, k>>
Junk == <<-2, 0>>

Own == Block(PspSeg, own)
HostPool == Block(hostSeg, hostSize)
NoPool == [seg |-> 0, size |-> 0]

\* Variant: forgets the PSP.
LowPoolAtPsp == PspSeg
\* get_low_pool: the area behind the PSP.
LowPool == PspSeg + PspParas
\* Variant: forgets the caller's area.
NewSegAtPool == LowPool
NewSeg == LowPool + para

LowInit ==
    /\ \E l \in Layouts :
         /\ own = l.own
         /\ hostBlock = Block(l.seg, l.size)
         /\ hostSeg = l.seg /\ hostSize = l.size
         /\ holds = [p \in Paras |->
              IF p \in Block(PspSeg, PspParas) THEN PspPart(p - PspSeg)
              ELSE IF p \in Block(l.seg, l.size) THEN PoolPart(0, p - l.seg)
              ELSE Junk]
    /\ lm = "idle" /\ para = 0 /\ reply = NoPool /\ calls = 0

\* dpmi_init(area) is called.
CallInit(area) ==
    /\ lm = "idle"
    /\ para' = area
    /\ lm' = "query"
    /\ UNCHANGED <<arena, host, reply>>

\* No answer to 1687h: dpmi_init returns -1.
Unavailable ==
    /\ lm = "query"
    /\ lm' = "unavailable"
    /\ UNCHANGED <<para, arena, host, reply>>

\* The answers dpmi_init accepts: a pool may only be named by a host that says
\* (with 0x402 in ebx) that it knows the request for it.
Replies(told) == {NoPool} \cup (IF told THEN {[seg |-> hostSeg, size |-> hostSize]} ELSE {})

Query ==
    /\ lm = "query"
    /\ \E told \in BOOLEAN : reply' \in Replies(told)
    /\ lm' = "shrink"
    /\ UNCHANGED <<para, arena, host>>

\* A 16-bit host, or one that needs memory without knowing the request.
BadServer ==
    /\ lm = "query"
    /\ lm' = "exited"
    /\ UNCHANGED <<para, arena, host, reply>>

-----------------------------------------------------------------------------
\* What a DOS call leaves in memory: the host has written to its pool, and
\* whoever gets the released paragraphs may have written there.
AfterCall(released) ==
    [p \in Paras |->
        IF p \in HostPool THEN PoolPart(calls + 1, p - hostSeg)
        ELSE IF p \in released THEN Junk ELSE holds[p]]

\* int 21h, ah = 4ah: the block keeps its place.
CanResize(n) == Block(PspSeg, n) \subseteq Paras \ (Others \cup hostBlock)
Resize(n) ==
    /\ CanResize(n)
    /\ own' = n
    /\ holds' = AfterCall(Own \ Block(PspSeg, n))
    /\ calls' = calls + 1
    /\ UNCHANGED hostBlock

\* Variant: no room for the pool.
ShrinkWithoutPool ==
    /\ lm = "shrink"
    /\ Resize(PspParas + para)
    /\ lm' = "move"
    /\ UNCHANGED <<para, host, reply>>

Shrink ==
    /\ lm = "shrink"
    /\ Resize(PspParas + para + reply.size)
    /\ lm' = "move"
    /\ UNCHANGED <<para, host, reply>>

\* shrink_low(area) alone, when there is no host to give the pool to.
ShrinkOnly(area) ==
    /\ lm = "unavailable"
    /\ Resize(PspParas + area)
    /\ para' = area
    /\ lm' = "done"
    /\ UNCHANGED <<host, reply>>

\* DOS cannot make the block that big, or the stack would go with it.
ShrinkFails ==
    /\ lm = "shrink"
    /\ lm' = "exited"
    /\ UNCHANGED <<para, arena, host, reply>>

ShrinkOnlyFails ==
    /\ lm = "unavailable"
    /\ lm' = "exited"
    /\ UNCHANGED <<para, arena, host, reply>>

\* Variant: nothing is copied.
MoveNothing ==
    /\ lm = "move"
    /\ lm' = "switch"
    /\ UNCHANGED <<para, arena, host, reply>>

\* Variant: frees the old block together with the copy.
MoveAndFree ==
    /\ lm = "move"
    /\ holds' = [p \in Paras |->
         IF p \in Block(NewSeg, reply.size) THEN holds[reply.seg + p - NewSeg]
         ELSE holds[p]]
    /\ hostBlock' = IF reply.size > 0 THEN {} ELSE hostBlock
    /\ lm' = "switch"
    /\ UNCHANGED <<para, own, calls, host, reply>>

\* memmove to the new place.
Move ==
    /\ lm = "move"
    /\ holds' = [p \in Paras |->
         IF p \in Block(NewSeg, reply.size) THEN holds[reply.seg + p - NewSeg]
         ELSE holds[p]]
    /\ lm' = "switch"
    /\ UNCHANGED <<para, own, hostBlock, calls, host, reply>>

\* The far call into the host, which takes the pool over as it finds it.
Switch ==
    /\ lm = "switch"
    /\ IF reply.size > 0
       THEN hostSeg' = NewSeg /\ lm' = "free"
       ELSE hostSeg' = hostSeg /\ lm' = "done"
    /\ UNCHANGED <<para, arena, hostSize, reply>>

\* free_low(r.eax), by way of the host at its new place.
FreeLow ==
    /\ lm = "free"
    /\ holds' = AfterCall(hostBlock)
    /\ hostBlock' = {}
    /\ calls' = calls + 1
    /\ lm' = "done"
    /\ UNCHANGED <<para, own, host, reply>>

\* The switch or the release of the old block is refused.
SwitchFails ==
    /\ lm \in {"switch", "free"}
    /\ lm' = "exited"
    /\ UNCHANGED <<para, arena, host, reply>>

\* What goes on by itself once a call has been made.
LowStep ==
    \/ Unavailable \/ Query \/ BadServer
    \/ Shrink \/ ShrinkFails \/ Move \/ Switch \/ FreeLow \/ SwitchFails

LowNext ==
    \/ LowStep \/ ShrinkOnlyFails
    \/ \E area \in Areas : CallInit(area) \/ ShrinkOnly(area)

LowSpec == LowInit /\ [][LowNext]_lowVars

-----------------------------------------------------------------------------
LowPlaces == {"idle", "query", "shrink", "move", "switch", "free", "done",
              "unavailable", "exited"}

LowTypeOK ==
    /\ lm \in LowPlaces
    /\ para \in Nat /\ own \in Nat /\ calls \in Nat
    /\ hostBlock \subseteq Paras
    /\ hostSeg \in Nat /\ hostSize \in Nat
    /\ reply \in [seg : Nat, size : Nat]
    /\ holds \in [Paras -> Int \X Int]

\* At no moment does the host work in memory that DOS may have given to
\* somebody else: its pool lies in its own block or in the stub's.
HostPoolHeld == HostPool \subseteq Own \cup hostBlock

\* The host always finds its pool as it left it, also right after the switch.
HostPoolCurrent ==
    \A p \in HostPool : p \in Paras /\ holds[p] = PoolPart(calls, p - hostSeg)

\* The PSP survives, in the stub's block.
PspKept ==
    \A p \in Block(PspSeg, PspParas) :
        p \in Own /\ p \in Paras /\ holds[p] = PspPart(p - PspSeg)

\* When the memory has been given back, the area the caller keeps belongs to
\* the program and neither the host, nor the PSP nor anybody else is in it.
AreaKept ==
    lm \in {"move", "switch", "free", "done"} =>
        /\ Block(LowPool, para) \subseteq Own
        /\ Block(LowPool, para) \cap (HostPool \cup Block(PspSeg, PspParas) \cup Others) = {}

\* Why these hold: nobody's memory overlaps, ...
ArenaOK ==
    /\ PspParas <= own
    /\ Own \cup hostBlock \subseteq Paras \ Others
    /\ Own \cap hostBlock = {}
    /\ HostPool \cap Block(PspSeg, PspParas) = {}

\* ... the host lives in its own block until the switch and in the copy after
\* it, and between Move and Switch both are the pool as it is now.
ProgressOK ==
    /\ lm \in {"idle", "query", "unavailable", "shrink", "move", "switch"} => HostPool = hostBlock
    /\ lm \in {"shrink", "move", "switch"} =>
         reply.size = 0 \/ (reply.seg = hostSeg /\ reply.size = hostSize)
    /\ lm \in {"move", "switch", "free"} => own = PspParas + para + reply.size
    /\ lm = "switch" =>
         \A p \in Block(NewSeg, reply.size) : holds[p] = PoolPart(calls, p - NewSeg)
    /\ lm = "free" => hostSeg = NewSeg /\ hostSize = reply.size

\* The invariant that every step of giving memory back preserves.
LowInv ==
    /\ LowTypeOK /\ ArenaOK /\ ProgressOK
    /\ HostPoolHeld /\ HostPoolCurrent /\ PspKept /\ AreaKept
=============================================================================
