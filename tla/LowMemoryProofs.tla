-------------------------- MODULE LowMemoryProofs --------------------------
(***************************************************************************)
(* Giving back conventional memory is safe whatever the sizes, the layout  *)
(* and the answers of DOS and the host: proofs about LowMemory.            *)
(*                                                                         *)
(* The argument is LowInv.  Until the switch the host lives in its own     *)
(* block, which the stub's block never meets; shrink_low asks for enough   *)
(* room behind PSP and area for the copy; and the only memory that goes    *)
(* back to DOS afterwards is the block the host has left.                  *)
(***************************************************************************)
EXTENDS LowMemory, TLAPS

USE SizesAssumption

\* Which paragraphs a block has.
LEMMA BlockElem ==
    ASSUME NEW seg \in Int, NEW n \in Int
    PROVE  \A p : p \in Block(seg, n) <=> p \in Int /\ seg <= p /\ p < seg + n
BY DEF Block

\* What a DOS call leaves is memory.
LEMMA AfterCallType ==
    ASSUME LowTypeOK, NEW released
    PROVE  AfterCall(released) \in [Paras -> Int \X Int]
<1> SUFFICES ASSUME NEW p \in Paras
             PROVE  (IF p \in HostPool THEN PoolPart(calls + 1, p - hostSeg)
                     ELSE IF p \in released THEN Junk ELSE holds[p]) \in Int \X Int
  BY DEF AfterCall
<1>1. p \in Int /\ hostSeg \in Int /\ calls \in Int
  BY DEF Paras, LowTypeOK
<1>2. holds[p] \in Int \X Int
  BY DEF LowTypeOK
<1> QED BY <1>1, <1>2 DEF PoolPart, Junk

\* The stub's memory at the start.
LEMMA LowInitOK ==
    ASSUME LowInit
    PROVE  LowInv
<1>1. PICK l \in Layouts :
        /\ own = l.own
        /\ hostBlock = Block(l.seg, l.size)
        /\ hostSeg = l.seg /\ hostSize = l.size
        /\ holds = [p \in Paras |->
              IF p \in Block(PspSeg, PspParas) THEN PspPart(p - PspSeg)
              ELSE IF p \in Block(l.seg, l.size) THEN PoolPart(0, p - l.seg)
              ELSE Junk]
  BY DEF LowInit
<1>2. /\ l.own \in Nat /\ l.seg \in Nat /\ l.size \in Nat
      /\ PspParas <= l.own
      /\ Block(PspSeg, l.own) \cup Block(l.seg, l.size) \subseteq Paras \ Others
      /\ Block(PspSeg, l.own) \cap Block(l.seg, l.size) = {}
  BY LayoutsAssumption
<1>3. Block(PspSeg, PspParas) \subseteq Block(PspSeg, l.own)
  BY <1>2, BlockElem
<1>4. lm = "idle" /\ para = 0 /\ reply = NoPool /\ calls = 0
  BY DEF LowInit
<1>5. LowTypeOK
  <2>1. holds \in [Paras -> Int \X Int]
    <3> SUFFICES ASSUME NEW p \in Paras
                 PROVE  (IF p \in Block(PspSeg, PspParas) THEN PspPart(p - PspSeg)
                         ELSE IF p \in Block(l.seg, l.size) THEN PoolPart(0, p - l.seg)
                         ELSE Junk) \in Int \X Int
      BY <1>1
    <3>1. p \in Int
      BY DEF Paras
    <3> QED BY <3>1, <1>2 DEF PspPart, PoolPart, Junk
  <2> QED BY <2>1, <1>1, <1>2, <1>4 DEF LowTypeOK, LowPlaces, NoPool
<1>6. ArenaOK
  BY <1>1, <1>2, <1>3 DEF ArenaOK, Own, HostPool
<1>7. HostPool = hostBlock
  BY <1>1 DEF HostPool
<1>8. ProgressOK /\ AreaKept /\ HostPoolHeld
  BY <1>4, <1>7 DEF ProgressOK, AreaKept, HostPoolHeld
<1>9. HostPoolCurrent
  BY <1>1, <1>2, <1>3, <1>4 DEF HostPoolCurrent, HostPool
<1>10. PspKept
  BY <1>1, <1>2, <1>3 DEF PspKept, Own
<1> QED BY <1>5, <1>6, <1>8, <1>9, <1>10 DEF LowInv

-----------------------------------------------------------------------------
\* What a DOS call leaves alone: the pool is as the host left it, and the PSP
\* is not in what was released.
LEMMA CallKeeps ==
    ASSUME LowInv, NEW released, released \cap Block(PspSeg, PspParas) = {}
    PROVE  /\ \A p \in HostPool : p \in Paras /\ AfterCall(released)[p] = PoolPart(calls + 1, p - hostSeg)
           /\ \A p \in Block(PspSeg, PspParas) : AfterCall(released)[p] = PspPart(p - PspSeg)
<1>1. \A p \in HostPool : p \in Paras
  BY DEF LowInv, HostPoolCurrent
<1>2. \A p \in Block(PspSeg, PspParas) :
        p \in Paras /\ p \notin HostPool /\ p \notin released /\ holds[p] = PspPart(p - PspSeg)
  BY DEF LowInv, ArenaOK, PspKept
<1> QED BY <1>1, <1>2 DEF AfterCall

\* Where the parts of the stub's block are.
LEMMA Rooms ==
    ASSUME LowTypeOK, own = PspParas + para + reply.size
    PROVE  /\ NewSeg \in Nat /\ LowPool \in Nat
           /\ Block(NewSeg, reply.size) \subseteq Own
           /\ Block(LowPool, para) \subseteq Own
           /\ Block(PspSeg, PspParas) \cap Block(LowPool, para) = {}
           /\ Block(PspSeg, PspParas) \cap Block(NewSeg, reply.size) = {}
           /\ Block(LowPool, para) \cap Block(NewSeg, reply.size) = {}
<1>1. para \in Nat /\ reply.size \in Nat /\ own \in Nat
  BY DEF LowTypeOK
<1>2. PspSeg \in Int /\ PspSeg + PspParas \in Int /\ PspSeg + PspParas + para \in Int
  BY <1>1
<1>3. /\ \A p : p \in Own <=> p \in Int /\ PspSeg <= p /\ p < PspSeg + own
      /\ \A p : p \in Block(PspSeg, PspParas) <=> p \in Int /\ PspSeg <= p /\ p < PspSeg + PspParas
      /\ \A p : p \in Block(LowPool, para) <=>
           p \in Int /\ PspSeg + PspParas <= p /\ p < PspSeg + PspParas + para
      /\ \A p : p \in Block(NewSeg, reply.size) <=>
           p \in Int /\ PspSeg + PspParas + para <= p /\ p < PspSeg + PspParas + para + reply.size
  BY <1>1, <1>2, BlockElem DEF Own, LowPool, NewSeg
<1> QED BY <1>1, <1>3 DEF LowPool, NewSeg

\* Nothing but the place in the program changes, and not to one that promises more.
LEMMA QuietStep ==
    ASSUME LowInv, UNCHANGED <<arena, host>>, para' \in Nat,
           reply' \in [seg : Nat, size : Nat],
           lm' \in {"query", "unavailable", "shrink", "exited"},
           lm' # "exited" => HostPool = hostBlock,
           lm' = "shrink" => reply'.size = 0 \/ (reply'.seg = hostSeg /\ reply'.size = hostSize)
    PROVE  LowInv'
<1> USE DEF arena, host
<1>1. LowTypeOK' /\ ArenaOK'
  BY DEF LowInv, LowTypeOK, LowPlaces, ArenaOK, Own, HostPool
<1>2. ProgressOK'
  BY DEF ProgressOK, HostPool
<1>3. HostPoolHeld' /\ HostPoolCurrent' /\ PspKept' /\ AreaKept'
  BY DEF LowInv, HostPoolHeld, HostPoolCurrent, PspKept, AreaKept, Own, HostPool
<1> QED BY <1>1, <1>2, <1>3 DEF LowInv

\* The calls that only change what dpmi_init knows.
LEMMA QuietSteps ==
    ASSUME LowInv,
           \/ \E area \in Areas : CallInit(area)
           \/ Unavailable \/ Query \/ BadServer
           \/ ShrinkFails \/ ShrinkOnlyFails \/ SwitchFails
    PROVE  LowInv'
<1>1. LowTypeOK /\ ProgressOK
  BY DEF LowInv
<1>2. reply \in [seg : Nat, size : Nat] /\ para \in Nat
  BY <1>1 DEF LowTypeOK
<1>3. CASE \E area \in Areas : CallInit(area)
  <2>1. PICK area \in Areas : CallInit(area)
    BY <1>3
  <2>2. area \in Nat
    OBVIOUS
  <2> QED BY <1>1, <1>2, <2>1, <2>2, QuietStep DEF CallInit, ProgressOK
<1>4. CASE Query
  <2>1. reply' = NoPool \/ reply' = [seg |-> hostSeg, size |-> hostSize]
    BY <1>4 DEF Query, Replies
  <2>2. reply' \in [seg : Nat, size : Nat]
    BY <1>1, <2>1 DEF LowTypeOK, NoPool
  <2>3. reply'.size = 0 \/ (reply'.seg = hostSeg /\ reply'.size = hostSize)
    BY <2>1 DEF NoPool
  <2> QED BY <1>1, <1>2, <1>4, <2>2, <2>3, QuietStep DEF Query, ProgressOK
<1>5. CASE Unavailable
  BY <1>1, <1>2, <1>5, QuietStep DEF Unavailable, ProgressOK
<1>6. CASE BadServer \/ ShrinkFails \/ ShrinkOnlyFails \/ SwitchFails
  BY <1>1, <1>2, <1>6, QuietStep DEF BadServer, ShrinkFails, ShrinkOnlyFails, SwitchFails
<1> QED BY <1>3, <1>4, <1>5, <1>6

-----------------------------------------------------------------------------
\* shrink_low, before or without the switch.
LEMMA ShrinkStep ==
    ASSUME LowInv, HostPool = hostBlock, UNCHANGED <<host, reply>>, para' \in Nat,
           Resize(PspParas + para' + (IF lm' = "move" THEN reply.size ELSE 0)),
           \/ lm' = "move" /\ (reply.size = 0 \/ (reply.seg = hostSeg /\ reply.size = hostSize))
           \/ lm' = "done"
    PROVE  LowInv'
<1> DEFINE n == PspParas + para' + (IF lm' = "move" THEN reply.size ELSE 0)
           released == Own \ Block(PspSeg, n)
<1>1. LowTypeOK /\ reply.size \in Nat
  BY DEF LowInv, LowTypeOK
<1>2. n \in Nat /\ PspParas <= n
  BY <1>1
<1>3. /\ CanResize(n) /\ own' = n /\ calls' = calls + 1 /\ hostBlock' = hostBlock
      /\ holds' = AfterCall(released)
  BY DEF Resize
<1>4. hostSeg' = hostSeg /\ hostSize' = hostSize /\ reply' = reply
  BY DEF host
<1>5. HostPool' = HostPool /\ Own' = Block(PspSeg, n)
  BY <1>3, <1>4 DEF HostPool, Own
<1> HIDE DEF n
<1>6. Block(PspSeg, PspParas) \subseteq Block(PspSeg, n)
  BY <1>2, BlockElem
<1>7. LowTypeOK'
  BY <1>1, <1>2, <1>3, <1>4, AfterCallType DEF LowTypeOK, LowPlaces
<1>8. ArenaOK'
  BY <1>2, <1>3, <1>5, <1>6 DEF LowInv, ArenaOK, CanResize
<1>9. HostPoolHeld'
  BY <1>3, <1>5 DEF HostPoolHeld
<1>10. HostPoolCurrent' /\ PspKept'
  <2>1. released \cap Block(PspSeg, PspParas) = {}
    BY <1>6
  <2>2. \A p \in HostPool : p \in Paras /\ holds'[p] = PoolPart(calls', p - hostSeg')
    BY <1>3, <1>4, <2>1, CallKeeps
  <2>3. \A p \in Block(PspSeg, PspParas) : p \in Own' /\ p \in Paras /\ holds'[p] = PspPart(p - PspSeg)
    BY <1>3, <1>5, <1>6, <2>1, CallKeeps DEF LowInv, PspKept
  <2> QED BY <1>5, <2>2, <2>3 DEF HostPoolCurrent, PspKept
<1>11. ProgressOK'
  BY <1>3, <1>4, <1>5 DEF ProgressOK, n
<1>12. AreaKept'
  <2>1. n = PspParas + para' + (IF lm' = "move" THEN reply.size ELSE 0) /\ LowPool \in Int
    BY DEF n, LowPool
  <2>2. Block(LowPool, para') \subseteq Block(PspSeg, n)
    BY <1>1, <1>2, <2>1, BlockElem DEF LowPool
  <2>3. Block(LowPool, para') \cap Block(PspSeg, PspParas) = {}
    BY <2>1, BlockElem DEF LowPool
  <2>4. Block(PspSeg, n) \cap (HostPool \cup Others) = {}
    BY <1>3 DEF CanResize
  <2>5. LowPool' = LowPool
    BY DEF LowPool
  <2> QED BY <1>5, <2>2, <2>3, <2>4, <2>5 DEF AreaKept
<1> QED BY <1>7, <1>8, <1>9, <1>10, <1>11, <1>12 DEF LowInv

\* memmove: the copy does not touch the pool it is made of, nor the PSP.
LEMMA MoveStep ==
    ASSUME LowInv, Move
    PROVE  LowInv'
<1>1. /\ lm = "move" /\ lm' = "switch"
      /\ UNCHANGED <<para, own, hostBlock, calls, hostSeg, hostSize, reply>>
      /\ holds' = [p \in Paras |->
           IF p \in Block(NewSeg, reply.size) THEN holds[reply.seg + p - NewSeg] ELSE holds[p]]
  BY DEF Move, host
<1>2. /\ LowTypeOK /\ ArenaOK /\ HostPool = hostBlock
      /\ own = PspParas + para + reply.size
      /\ reply.size = 0 \/ (reply.seg = hostSeg /\ reply.size = hostSize)
  BY <1>1 DEF LowInv, ProgressOK
<1>3. reply.size \in Nat /\ reply.seg \in Nat /\ hostSeg \in Nat /\ hostSize \in Nat
  BY <1>2 DEF LowTypeOK
<1>4. /\ NewSeg \in Nat
      /\ Block(NewSeg, reply.size) \subseteq Own
      /\ Block(PspSeg, PspParas) \cap Block(NewSeg, reply.size) = {}
  BY <1>2, Rooms
<1>5. HostPool \cap Block(NewSeg, reply.size) = {}
  BY <1>2, <1>4 DEF ArenaOK
<1>6. \A p \in Block(NewSeg, reply.size) :
        /\ p \in Paras
        /\ reply.seg + p - NewSeg \in HostPool
        /\ (reply.seg + p - NewSeg) - hostSeg = p - NewSeg
  <2> SUFFICES ASSUME NEW p \in Block(NewSeg, reply.size)
               PROVE  /\ p \in Paras
                      /\ reply.seg + p - NewSeg \in HostPool
                      /\ (reply.seg + p - NewSeg) - hostSeg = p - NewSeg
    OBVIOUS
  <2>1. p \in Int /\ NewSeg <= p /\ p < NewSeg + reply.size
    BY <1>3, <1>4, BlockElem
  <2>2. reply.seg = hostSeg /\ reply.size = hostSize
    BY <1>2, <1>3, <1>4, <2>1
  <2>3. p \in Paras
    BY <1>2, <1>4 DEF ArenaOK
  <2>4. reply.seg + p - NewSeg \in HostPool
    BY <1>3, <1>4, <2>1, <2>2, BlockElem DEF HostPool
  <2> QED BY <1>3, <1>4, <2>1, <2>2, <2>3, <2>4
<1>7. \A p \in Block(NewSeg, reply.size) : holds'[p] = PoolPart(calls, p - NewSeg)
  <2> SUFFICES ASSUME NEW p \in Block(NewSeg, reply.size)
               PROVE  holds'[p] = PoolPart(calls, p - NewSeg)
    OBVIOUS
  <2>1. holds'[p] = holds[reply.seg + p - NewSeg]
    BY <1>1, <1>6
  <2>2. holds[reply.seg + p - NewSeg] = PoolPart(calls, (reply.seg + p - NewSeg) - hostSeg)
    BY <1>6 DEF LowInv, HostPoolCurrent
  <2> QED BY <1>6, <2>1, <2>2
<1>8. holds' \in [Paras -> Int \X Int]
  <2> SUFFICES ASSUME NEW p \in Paras
               PROVE  (IF p \in Block(NewSeg, reply.size) THEN holds[reply.seg + p - NewSeg]
                       ELSE holds[p]) \in Int \X Int
    BY <1>1
  <2>1. CASE p \in Block(NewSeg, reply.size)
    <3>1. reply.seg + p - NewSeg \in Paras
      BY <1>6, <2>1 DEF LowInv, HostPoolCurrent
    <3> QED BY <1>2, <2>1, <3>1 DEF LowTypeOK
  <2> QED BY <1>2, <2>1 DEF LowTypeOK
<1>9. HostPool' = HostPool /\ Own' = Own /\ NewSeg' = NewSeg /\ LowPool' = LowPool
  BY <1>1 DEF HostPool, Own, NewSeg, LowPool
<1>10. LowTypeOK' /\ ArenaOK' /\ HostPoolHeld' /\ AreaKept'
  BY <1>1, <1>2, <1>8, <1>9
  DEF LowTypeOK, LowPlaces, ArenaOK, LowInv, HostPoolHeld, AreaKept
<1>11. HostPoolCurrent'
  BY <1>1, <1>5, <1>9 DEF LowInv, HostPoolCurrent
<1>12. PspKept'
  BY <1>1, <1>4, <1>9 DEF LowInv, PspKept
<1>13. ProgressOK'
  BY <1>1, <1>2, <1>7, <1>9 DEF ProgressOK
<1> QED BY <1>10, <1>11, <1>12, <1>13 DEF LowInv

\* The host goes on with the copy.
LEMMA SwitchStep ==
    ASSUME LowInv, Switch
    PROVE  LowInv'
<1>1. /\ lm = "switch"
      /\ UNCHANGED <<para, own, hostBlock, holds, calls, hostSize, reply>>
      /\ IF reply.size > 0 THEN hostSeg' = NewSeg /\ lm' = "free"
                           ELSE hostSeg' = hostSeg /\ lm' = "done"
  BY DEF Switch, arena
<1>2. /\ LowTypeOK /\ ArenaOK /\ HostPool = hostBlock
      /\ own = PspParas + para + reply.size
      /\ reply.size = 0 \/ reply.size = hostSize
      /\ \A p \in Block(NewSeg, reply.size) : holds[p] = PoolPart(calls, p - NewSeg)
  BY <1>1 DEF LowInv, ProgressOK
<1>3. reply.size \in Nat /\ hostSize \in Nat
  BY <1>2 DEF LowTypeOK
<1>4. Own' = Own /\ NewSeg' = NewSeg /\ LowPool' = LowPool
  BY <1>1 DEF Own, NewSeg, LowPool
<1>5. CASE reply.size > 0
  <2>1. hostSeg' = NewSeg /\ lm' = "free" /\ hostSize = reply.size
    BY <1>1, <1>2, <1>3, <1>5
  <2>2. HostPool' = Block(NewSeg, reply.size)
    BY <1>1, <2>1 DEF HostPool
  <2>3. LowTypeOK' /\ ArenaOK'
    BY <1>1, <1>2, <1>4, <2>1, <2>2, Rooms DEF LowTypeOK, LowPlaces, ArenaOK
  <2>4. ProgressOK'
    BY <1>1, <1>2, <1>4, <2>1 DEF ProgressOK
  <2>5. HostPoolHeld' /\ PspKept'
    BY <1>1, <1>2, <1>4, <2>2, Rooms DEF LowInv, HostPoolHeld, PspKept
  <2>6. HostPoolCurrent'
    BY <1>1, <1>2, <2>1, <2>2, Rooms DEF ArenaOK, HostPoolCurrent
  <2>7. AreaKept'
    BY <1>1, <1>2, <1>4, <2>2, Rooms DEF LowInv, AreaKept
  <2> QED BY <2>3, <2>4, <2>5, <2>6, <2>7 DEF LowInv
<1>6. CASE ~(reply.size > 0)
  <2>1. hostSeg' = hostSeg /\ lm' = "done"
    BY <1>1, <1>6
  <2>2. HostPool' = HostPool
    BY <1>1, <2>1 DEF HostPool
  <2> QED BY <1>1, <1>2, <1>4, <2>1, <2>2
    DEF LowInv, LowTypeOK, LowPlaces, ArenaOK, ProgressOK, HostPoolHeld,
        HostPoolCurrent, PspKept, AreaKept
<1> QED BY <1>5, <1>6

\* The old block is nobody's by now.
LEMMA FreeLowStep ==
    ASSUME LowInv, FreeLow
    PROVE  LowInv'
<1>1. /\ lm = "free" /\ lm' = "done"
      /\ holds' = AfterCall(hostBlock) /\ hostBlock' = {} /\ calls' = calls + 1
      /\ UNCHANGED <<para, own, hostSeg, hostSize, reply>>
  BY DEF FreeLow, host
<1>2. /\ LowTypeOK /\ ArenaOK
      /\ own = PspParas + para + reply.size
      /\ HostPool = Block(NewSeg, reply.size)
  BY <1>1 DEF LowInv, ProgressOK, HostPool
<1>3. HostPool' = HostPool /\ Own' = Own /\ LowPool' = LowPool
  BY <1>1 DEF HostPool, Own, LowPool
<1>4. hostBlock \cap Block(PspSeg, PspParas) = {}
  BY <1>2 DEF LowInv, PspKept, ArenaOK
<1>5. LowTypeOK'
  BY <1>1, <1>2, AfterCallType DEF LowTypeOK, LowPlaces
<1>6. ArenaOK' /\ ProgressOK' /\ HostPoolHeld'
  BY <1>1, <1>2, <1>3, Rooms DEF ArenaOK, ProgressOK, HostPoolHeld
<1>7. HostPoolCurrent' /\ PspKept'
  <2>1. \A p \in HostPool : p \in Paras /\ holds'[p] = PoolPart(calls', p - hostSeg')
    BY <1>1, <1>4, CallKeeps
  <2>2. \A p \in Block(PspSeg, PspParas) : p \in Own' /\ p \in Paras /\ holds'[p] = PspPart(p - PspSeg)
    BY <1>1, <1>3, <1>4, CallKeeps DEF LowInv, PspKept
  <2> QED BY <1>3, <2>1, <2>2 DEF HostPoolCurrent, PspKept
<1>8. AreaKept'
  BY <1>1, <1>3 DEF LowInv, AreaKept
<1> QED BY <1>5, <1>6, <1>7, <1>8 DEF LowInv

-----------------------------------------------------------------------------
LEMMA LowNextOK ==
    ASSUME LowInv, [LowNext]_lowVars
    PROVE  LowInv'
<1>1. CASE \/ \E area \in Areas : CallInit(area)
           \/ Unavailable \/ Query \/ BadServer
           \/ ShrinkFails \/ ShrinkOnlyFails \/ SwitchFails
  BY <1>1, QuietSteps
<1>2. CASE Shrink
  <2>1. lm = "shrink" /\ lm' = "move" /\ para' = para /\ Resize(PspParas + para + reply.size)
    BY <1>2 DEF Shrink
  <2>2. para' \in Nat /\ HostPool = hostBlock
        /\ (reply.size = 0 \/ (reply.seg = hostSeg /\ reply.size = hostSize))
    BY <2>1 DEF LowInv, LowTypeOK, ProgressOK
  <2> QED BY <1>2, <2>1, <2>2, ShrinkStep DEF Shrink
<1>3. CASE \E area \in Areas : ShrinkOnly(area)
  <2>1. PICK area \in Areas : ShrinkOnly(area)
    BY <1>3
  <2>2. /\ lm = "unavailable" /\ lm' = "done" /\ para' = area /\ area \in Nat
        /\ Resize(PspParas + area) /\ UNCHANGED <<host, reply>>
    BY <2>1 DEF ShrinkOnly
  <2>3. PspParas + para' + (IF lm' = "move" THEN reply.size ELSE 0) = PspParas + area
    BY <2>2
  <2>4. HostPool = hostBlock
    BY <2>2 DEF LowInv, ProgressOK
  <2> QED BY <2>2, <2>3, <2>4, ShrinkStep
<1>4. CASE Move
  BY <1>4, MoveStep
<1>5. CASE Switch
  BY <1>5, SwitchStep
<1>6. CASE FreeLow
  BY <1>6, FreeLowStep
<1>7. CASE UNCHANGED lowVars
  BY <1>7
  DEF lowVars, arena, host, LowInv, LowTypeOK, ArenaOK, ProgressOK, HostPoolHeld,
      HostPoolCurrent, PspKept, AreaKept, Own, HostPool, LowPool, NewSeg
<1> QED BY <1>1, <1>2, <1>3, <1>4, <1>5, <1>6, <1>7 DEF LowNext, LowStep

\* The inductive invariant of giving memory back.
THEOREM LowInductive == LowSpec => []LowInv
<1>1. LowInit => LowInv
  BY LowInitOK
<1>2. LowInv /\ [LowNext]_lowVars => LowInv'
  BY LowNextOK
<1> QED BY <1>1, <1>2, PTL DEF LowSpec

\* dpmi_init never leaves the host with a pool in memory that DOS may hand out.
THEOREM PoolStaysHeld == LowSpec => []HostPoolHeld
<1>1. LowInv => HostPoolHeld
  BY DEF LowInv
<1> QED BY <1>1, LowInductive, PTL

\* The host's pool is never lost, truncated or stale.
THEOREM PoolStaysCurrent == LowSpec => []HostPoolCurrent
<1>1. LowInv => HostPoolCurrent
  BY DEF LowInv
<1> QED BY <1>1, LowInductive, PTL

\* The PSP is never given away or overwritten.
THEOREM PspSurvives == LowSpec => []PspKept
<1>1. LowInv => PspKept
  BY DEF LowInv
<1> QED BY <1>1, LowInductive, PTL

\* The area that the caller keeps is the program's alone.
THEOREM AreaIsKept == LowSpec => []AreaKept
<1>1. LowInv => AreaKept
  BY DEF LowInv
<1> QED BY <1>1, LowInductive, PTL
=============================================================================
