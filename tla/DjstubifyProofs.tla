--------------------------- MODULE DjstubifyProofs ---------------------------
(***************************************************************************)
(* What the commands of djstubify2.py leave on disk: proofs about          *)
(* Djstubify for every file, every sequence of commands and any number of  *)
(* failures and kills.                                                     *)
(***************************************************************************)
EXTENDS Djstubify, StubImageProofs, TLAPS

USE DEF locals, history, Exit

-----------------------------------------------------------------------------
(* A program that is edited in place is never lost.  Until shutil.move the *)
(* input is untouched, because everything is written to the file of        *)
(* mkstemp; from then on that file is the finished program, and it is      *)
(* given up only when the input has become the same.                       *)

\* The command works in place on a file it was given.
Edits == ~opt.gen /\ InPlace /\ cmd.arg # "" /\ commands > 0

\* The program is there, in the old form or in the new one.
OldIsThere == fs[cmd.arg] = before[cmd.arg]
NewIsThere == made # << >> /\ made[1] \in {fs[cmd.arg], fs["tmp"]}

\* Where generate and coff2exe are, with the argument they need.
PlaceInv ==
    /\ commands \in Nat
    /\ commands > 0 => cmd \in Commands
    /\ pc \in Places
    /\ pc # "idle" => commands > 0
    /\ pc \in {"generate", "link"} => opt.gen
    /\ pc \in {"open", "scan", "scanned", "create", "copy", "move", "refill"} => ~opt.gen
    /\ pc \in {"scan", "scanned", "create", "copy", "move", "refill"} => cmd.arg # ""
    /\ pc \in {"move", "refill"} => InPlace

\* What is on disk at each place while a file is edited.
SafeInv ==
    /\ DOMAIN fs = Names
    /\ Edits => OldIsThere \/ NewIsThere
    /\ (Edits /\ pc \in {"open", "scan", "scanned", "create", "copy"}) => OldIsThere
    /\ (Edits /\ pc \in {"move", "refill"}) => made = <<fs["tmp"]>>

KeepInv == PlaceInv /\ SafeInv

\* The file of mkstemp is never the one that is edited.
LEMMA ArgIsNotTmp ==
    ASSUME PlaceInv, Edits
    PROVE  cmd.arg \in Names /\ cmd.arg # "tmp" /\ "tmp" \in Names
BY CommandsAssumption, FilesAssumption DEF PlaceInv, Edits

LEMMA KeepInit ==
    ASSUME Init
    PROVE  KeepInv
<1>1. commands = 0 /\ pc = "idle" /\ fs = InitFiles
  BY DEF Init
<1>2. ~(commands > 0)
  BY <1>1
<1>3. ~Edits
  BY <1>2 DEF Edits
<1>4. PlaceInv
  BY <1>1, <1>2 DEF PlaceInv, Places
<1>5. SafeInv
  BY <1>1, <1>3, FilesAssumption DEF SafeInv
<1> QED BY <1>4, <1>5 DEF KeepInv

\* A new command finds its input as it is.
LEMMA KeepStart ==
    ASSUME KeepInv, NEW c \in Commands, Start(c)
    PROVE  KeepInv'
<1>1. commands' > 0 /\ commands' \in Nat /\ cmd' \in Commands
  BY DEF Start, KeepInv, PlaceInv
<1>2. /\ pc' \in {"generate", "open"}
      /\ pc' = "generate" => opt'.gen
      /\ pc' = "open" => ~opt'.gen
  BY DEF Start
<1>3. fs' = fs /\ before' = fs
  BY DEF Start
<1>4. PlaceInv'
  BY <1>1, <1>2 DEF PlaceInv, Places
<1>5. SafeInv'
  BY <1>2, <1>3 DEF KeepInv, SafeInv, OldIsThere
<1> QED BY <1>4, <1>5 DEF KeepInv

\* Steps that touch no file.
LEMMA KeepReads ==
    ASSUME KeepInv, UNCHANGED <<fs, cmd, opt, before, made, commands>>,
           pc' \in {"idle", pc} \/ (pc = "open" /\ pc' = "scan")
             \/ (pc = "scan" /\ pc' = "scanned") \/ (pc = "scanned" /\ pc' = "create"),
           pc' = "scan" => cmd.arg # ""
    PROVE  KeepInv'
<1>1. PlaceInv'
  BY DEF KeepInv, PlaceInv, Places, InPlace
<1>2. SafeInv'
  BY DEF KeepInv, SafeInv, Edits, InPlace, OldIsThere, NewIsThere
<1> QED BY <1>1, <1>2 DEF KeepInv

\* Linking writes only for -g.
LEMMA KeepLinks ==
    ASSUME KeepInv, Generate \/ CopyOverlay \/ OverlayEnds \/ Generated \/ OverlayFails
    PROVE  KeepInv'
<1>1. /\ opt.gen /\ UNCHANGED <<cmd, opt, commands>>
      /\ pc' \in {"link", "idle"} /\ commands > 0
  BY DEF Generate, CopyOverlay, OverlayEnds, Generated, OverlayFails, KeepInv, PlaceInv
<1>2. DOMAIN fs' = DOMAIN fs
  BY DEF Generate, CopyOverlay, OverlayEnds, Generated, OverlayFails
<1>3. ~Edits'
  BY <1>1 DEF Edits
<1>4. PlaceInv'
  BY <1>1 DEF KeepInv, PlaceInv, Places
<1>5. SafeInv'
  BY <1>2, <1>3 DEF KeepInv, SafeInv
<1> QED BY <1>4, <1>5 DEF KeepInv

\* What coff2exe writes goes to the file of mkstemp, or to the one after -o.
LEMMA KeepCopies ==
    ASSUME KeepInv, Create \/ CopyChunk
    PROVE  KeepInv'
<1>1. /\ UNCHANGED <<cmd, opt, before, commands>> /\ pc \in {"create", "copy"} /\ pc' = "copy"
      /\ \E x : fs' = [fs EXCEPT ![Target] = x]
  BY DEF Create, CopyChunk
<1>2. PlaceInv'
  BY <1>1 DEF KeepInv, PlaceInv, Places, InPlace
<1>3. DOMAIN fs' = Names
  BY <1>1 DEF KeepInv, SafeInv
<1>4. ASSUME Edits
      PROVE  OldIsThere'
  <2>1. cmd.arg # Target
    BY <1>4, ArgIsNotTmp DEF KeepInv, Target, Edits
  <2>2. fs'[cmd.arg] = fs[cmd.arg]
    BY <1>1, <1>3, <1>4, <2>1, ArgIsNotTmp DEF KeepInv, SafeInv
  <2> QED BY <1>1, <1>4, <2>2 DEF KeepInv, SafeInv, OldIsThere
<1>5. Edits' = Edits
  BY <1>1 DEF Edits, InPlace
<1>6. SafeInv'
  BY <1>1, <1>3, <1>4, <1>5 DEF SafeInv
<1> QED BY <1>2, <1>6 DEF KeepInv

\* The copy is whole: from here on the new file is there.
LEMMA KeepEnds ==
    ASSUME KeepInv, CopyEnds
    PROVE  KeepInv'
<1>1. /\ UNCHANGED <<fs, cmd, opt, before, commands>> /\ pc = "copy"
      /\ pc' \in {"move", "idle"} /\ (pc' = "move" => InPlace)
      /\ made' = <<fs[Target]>>
  BY DEF CopyEnds
<1>2. PlaceInv'
  BY <1>1 DEF KeepInv, PlaceInv, Places, InPlace
<1>3. Edits' = Edits
  BY <1>1 DEF Edits, InPlace
<1>4. ASSUME Edits
      PROVE  OldIsThere' /\ made' = <<fs'["tmp"]>>
  <2>1. Target = "tmp"
    BY <1>4 DEF Edits, Target
  <2>2. OldIsThere
    BY <1>1, <1>4 DEF KeepInv, SafeInv
  <2> QED BY <1>1, <2>1, <2>2 DEF OldIsThere
<1>5. SafeInv'
  BY <1>1, <1>3, <1>4 DEF KeepInv, SafeInv
<1> QED BY <1>2, <1>5 DEF KeepInv

\* shutil.move, step by step.
LEMMA KeepMoves ==
    ASSUME KeepInv, Rename \/ MoveTruncates \/ Refill \/ MoveUnlinks
    PROVE  KeepInv'
<1>1. /\ UNCHANGED <<cmd, opt, before, made, commands>> /\ pc \in {"move", "refill"}
      /\ pc' \in {"refill", "idle"}
  BY DEF Rename, MoveTruncates, Refill, MoveUnlinks
<1>2. Edits /\ made = <<fs["tmp"]>> /\ DOMAIN fs = Names
  <2>1. Edits
    BY <1>1 DEF KeepInv, PlaceInv, Edits
  <2> QED BY <1>1, <2>1 DEF KeepInv, SafeInv
<1>3. /\ cmd.arg \in Names /\ cmd.arg # "tmp" /\ "tmp" \in Names
  BY <1>2, ArgIsNotTmp DEF KeepInv
<1>4. PlaceInv'
  BY <1>1 DEF KeepInv, PlaceInv, Places, InPlace
<1>5. made[1] = fs["tmp"] /\ made # << >>
  BY <1>2
<1>6. CASE Rename
  <2>1. fs'[cmd.arg] = fs["tmp"] /\ DOMAIN fs' = Names /\ pc' = "idle"
    BY <1>2, <1>3, <1>6 DEF Rename
  <2>2. NewIsThere'
    BY <1>1, <1>5, <2>1 DEF NewIsThere
  <2>3. SafeInv'
    BY <2>1, <2>2 DEF SafeInv
  <2> QED BY <1>4, <2>3 DEF KeepInv
<1>7. CASE MoveTruncates \/ Refill
  <2>1. fs'["tmp"] = fs["tmp"] /\ DOMAIN fs' = Names /\ pc' = "refill"
    BY <1>2, <1>3, <1>7 DEF MoveTruncates, Refill
  <2>2. NewIsThere' /\ made' = <<fs'["tmp"]>>
    BY <1>1, <1>2, <1>5, <2>1 DEF NewIsThere
  <2>3. SafeInv'
    BY <2>1, <2>2 DEF SafeInv
  <2> QED BY <1>4, <2>3 DEF KeepInv
<1>8. CASE MoveUnlinks
  <2>1. fs'[cmd.arg] = fs["tmp"] /\ DOMAIN fs' = Names /\ pc' = "idle"
    BY <1>2, <1>3, <1>8 DEF MoveUnlinks
  <2>2. NewIsThere'
    BY <1>1, <1>5, <2>1 DEF NewIsThere
  <2>3. SafeInv'
    BY <2>1, <2>2 DEF SafeInv
  <2> QED BY <1>4, <2>3 DEF KeepInv
<1> QED BY <1>6, <1>7, <1>8

LEMMA KeepStep ==
    ASSUME KeepInv, [Next]_vars
    PROVE  KeepInv'
<1>1. CASE \E c \in Commands : Start(c)
  BY <1>1, KeepStart
<1>2. CASE Generate \/ CopyOverlay \/ OverlayEnds \/ Generated \/ OverlayFails
  BY <1>2, KeepLinks
<1>3. CASE Create \/ CopyChunk
  BY <1>3, KeepCopies
<1>4. CASE CopyEnds
  BY <1>4, KeepEnds
<1>5. CASE Rename \/ MoveTruncates \/ Refill \/ MoveUnlinks
  BY <1>5, KeepMoves
<1>6. CASE Reject \/ ScanFails \/ CreateFails \/ CopyFails \/ MoveFails \/ Kill
  <2>1. UNCHANGED <<fs, cmd, opt, before, made, commands>> /\ pc' = "idle"
    BY <1>6 DEF Reject, ScanFails, CreateFails, CopyFails, MoveFails, Kill
  <2> QED BY <2>1, KeepReads
<1>7. CASE OpenInput
  <2>1. /\ UNCHANGED <<fs, cmd, opt, before, made, commands>>
        /\ pc = "open" /\ pc' = "scan" /\ cmd.arg # ""
    BY <1>7 DEF OpenInput
  <2> QED BY <2>1, KeepReads
<1>8. CASE StubHeader \/ ExeHeader \/ PayloadFound
  <2>1. /\ UNCHANGED <<fs, cmd, opt, before, made, commands>>
        /\ pc = "scan" /\ pc' \in {"scan", "scanned"}
    BY <1>8 DEF StubHeader, ExeHeader, PayloadFound
  <2>2. cmd.arg # ""
    BY <2>1 DEF KeepInv, PlaceInv
  <2> QED BY <2>1, <2>2, KeepReads
<1>9. CASE Measure
  <2>1. /\ UNCHANGED <<fs, cmd, opt, before, made, commands>>
        /\ pc = "scanned" /\ pc' \in {"create", "idle"}
    BY <1>9 DEF Measure
  <2> QED BY <2>1, KeepReads
<1>10. CASE UNCHANGED vars
  <2>1. UNCHANGED <<fs, cmd, opt, before, made, commands, pc>>
    BY <1>10 DEF vars
  <2>2. pc = "scan" => cmd.arg # ""
    BY DEF KeepInv, PlaceInv
  <2> QED BY <2>1, <2>2, KeepReads
<1> QED
  BY <1>1, <1>2, <1>3, <1>4, <1>5, <1>6, <1>7, <1>8, <1>9, <1>10 DEF Next, Work, Faults

\* Whatever fails and whenever the process dies: a program that is edited in
\* place is there, in the old form or in the finished new one.
THEOREM ProgramSurvives == Spec => []NoLoss
<1>1. Init => KeepInv
  BY KeepInit
<1>2. KeepInv /\ [Next]_vars => KeepInv'
  BY KeepStep
<1>3. KeepInv => NoLoss
  BY DEF KeepInv, SafeInv, NoLoss, Edits, OldIsThere, NewIsThere
<1> QED BY <1>1, <1>2, <1>3, PTL DEF Spec

-----------------------------------------------------------------------------
(* The options.                                                            *)

\* What main() knows when it has read some options.
OptTyped(o) ==
    /\ o = [ver |-> o.ver, req |-> o.req, types |-> o.types, type |-> o.type,
            overlay |-> o.overlay, nmoffs |-> o.nmoffs, flags |-> o.flags,
            out |-> o.out, gen |-> o.gen, info |-> o.info, rmstub |-> o.rmstub,
            strip |-> o.strip, bad |-> o.bad]
    /\ o.ver \in Nat /\ o.nmoffs \in Nat
    /\ o.types \in [0 .. 4 -> 0 .. 15]
    /\ o.flags \subseteq Flags
    /\ o.overlay \in Seq(Names \ {"tmp"})
    /\ o.out \in (Names \ {"tmp"}) \cup {""}

LEMMA OptStartTyped == OptTyped(OptStart)
<1>1. << >> \in Seq(Names \ {"tmp"})
  BY EmptySeq
<1>2. NoTypes \in [0 .. 4 -> 0 .. 15]
  BY DEF NoTypes
<1> QED BY <1>1, <1>2 DEF OptTyped, OptStart, STUB_VER

LEMMA NibbleFits ==
    ASSUME NEW a, NEW b
    PROVE  OrNibble(a, b) \in 0 .. 15
<1> DEFINE or(bit) == IF 1 \in {(a \div bit) % 2, (b \div bit) % 2} THEN bit ELSE 0
<1>1. or(1) \in {0, 1} /\ or(2) \in {0, 2} /\ or(4) \in {0, 4} /\ or(8) \in {0, 8}
  OBVIOUS
<1>2. OrNibble(a, b) = or(1) + or(2) + or(4) + or(8)
  BY DEF OrNibble
<1> HIDE DEF or
<1> QED BY <1>1, <1>2

LEMMA OptTurnTyped ==
    ASSUME NEW o, OptTyped(o), NEW x, OptionOK(x)
    PROVE  OptTyped(OptTurn(o, x))
<1>1. CASE o.bad
  BY <1>1 DEF OptTurn
<1>2. CASE ~o.bad /\ x.opt = "-t"
  <2>1. x.arg \in 0 .. 15
    BY <1>2 DEF OptionOK
  <2>2. \A n : OrNibble(n, x.arg) \in 0 .. 15
    BY NibbleFits
  <2>3. [o.types EXCEPT ![Nibble(o)] = OrNibble(@, x.arg)] \in [0 .. 4 -> 0 .. 15]
    BY <2>2 DEF OptTyped
  <2>4. OptTurn(o, x) = IF x.arg = 0 THEN [o EXCEPT !.bad = TRUE]
                        ELSE [o EXCEPT !.type = x.arg, !.types[Nibble(o)] = OrNibble(@, x.arg)]
    BY <1>2 DEF OptTurn
  <2>5. CASE x.arg = 0
    BY <2>4, <2>5 DEF OptTyped
  <2>6. CASE x.arg # 0
    <3> DEFINE T == [o.types EXCEPT ![Nibble(o)] = OrNibble(@, x.arg)]
    <3>1. OptTurn(o, x) = [o EXCEPT !.type = x.arg, !.types = T]
      BY <2>4, <2>6
    <3> HIDE DEF T
    <3>2. T \in [0 .. 4 -> 0 .. 15]
      BY <2>3 DEF T
    <3> QED BY <3>1, <3>2 DEF OptTyped
  <2> QED BY <2>5, <2>6
<1>3. CASE ~o.bad /\ x.opt = "-l"
  <2>1. x.arg \in Names \ {"tmp"}
    BY <1>3 DEF OptionOK
  <2>2. Append(o.overlay, x.arg) \in Seq(Names \ {"tmp"})
    BY <2>1, AppendProperties DEF OptTyped
  <2>3. OptTurn(o, x) = IF o.type = 0 THEN [o EXCEPT !.bad = TRUE]
                        ELSE [o EXCEPT !.overlay = Append(@, x.arg)]
    BY <1>3 DEF OptTurn
  <2> QED BY <2>2, <2>3 DEF OptTyped
<1>4. CASE ~o.bad /\ x.opt = "-V"
  <2>1. x.arg \in Nat
    BY <1>4 DEF OptionOK
  <2> QED BY <1>4, <2>1 DEF OptTurn, OptTyped
<1>5. CASE ~o.bad /\ x.opt = "-n"
  <2>1. x.arg \in Nat
    BY <1>5 DEF OptionOK
  <2> QED BY <1>5, <2>1 DEF OptTurn, OptTyped
<1>6. CASE ~o.bad /\ x.opt = "-f"
  <2>1. x.arg \subseteq Flags
    BY <1>6 DEF OptionOK
  <2>2. OptTurn(o, x) = [o EXCEPT !.flags = @ \cup x.arg]
    BY <1>6 DEF OptTurn
  <2> QED BY <2>1, <2>2 DEF OptTyped
<1>7. CASE ~o.bad /\ x.opt = "-o"
  <2>1. x.arg \in Names \ {"tmp"}
    BY <1>7 DEF OptionOK
  <2> QED BY <1>7, <2>1 DEF OptTurn, OptTyped
<1>8. CASE ~o.bad /\ x.opt \in {"-g", "-i", "-r", "-s"}
  BY <1>8 DEF OptTurn, OptTyped
<1> QED BY <1>1, <1>2, <1>3, <1>4, <1>5, <1>6, <1>7, <1>8 DEF OptionOK

LEMMA ParsedTyped ==
    ASSUME NEW c \in Commands
    PROVE  OptTyped(Parsed(c.opts))
<1> DEFINE opts == c.opts
           Reads(g, N) == g = [n \in 0 .. N |-> IF n = 0 THEN OptStart
                                                ELSE OptTurn(g[n - 1], opts[n])]
           S == {N \in Nat : N <= Len(opts) => \E g : Reads(g, N) /\ OptTyped(g[N])}
<1>1. IsSeq(opts)
  BY CommandsAssumption DEF IsSeq
<1>2. Len(opts) \in Nat /\ DOMAIN opts = 1 .. Len(opts)
  BY <1>1, SeqFacts
<1>3. \A k \in 1 .. Len(opts) : OptionOK(opts[k])
  BY <1>2, CommandsAssumption
<1> HIDE DEF opts
<1>4. 0 \in S
  <2>1. Reads([n \in 0 .. 0 |-> OptStart], 0)
    OBVIOUS
  <2>2. OptTyped([n \in 0 .. 0 |-> OptStart][0])
    BY OptStartTyped
  <2> QED BY <2>1, <2>2
<1>5. ASSUME NEW N \in Nat, N \in S
      PROVE  N + 1 \in S
  <2> SUFFICES ASSUME N + 1 <= Len(opts)
               PROVE  \E g : Reads(g, N + 1) /\ OptTyped(g[N + 1])
    OBVIOUS
  <2>1. PICK g : Reads(g, N) /\ OptTyped(g[N])
    BY <1>2, <1>5
  <2> DEFINE next == [n \in 0 .. N + 1 |-> IF n = N + 1 THEN OptTurn(g[N], opts[N + 1])
                                           ELSE g[n]]
  <2>2. Reads(next, N + 1)
    BY <2>1
  <2>3. next[N + 1] = OptTurn(g[N], opts[N + 1])
    OBVIOUS
  <2>4. OptionOK(opts[N + 1])
    BY <1>2, <1>3
  <2>5. OptTyped(OptTurn(g[N], opts[N + 1]))
    BY <2>1, <2>4, OptTurnTyped
  <2> HIDE DEF next
  <2> QED BY <2>2, <2>3, <2>5
<1>6. \A n \in Nat : n \in S
  <2> HIDE DEF S
  <2> QED BY <1>4, <1>5, NatSetInduction
<1>7. \E g : Reads(g, Len(opts))
  BY <1>2, <1>6
<1> DEFINE A == CHOOSE g : Reads(g, Len(opts))
           T == {N \in Nat : N <= Len(opts) => OptTyped(A[N])}
<1>8. Reads(A, Len(opts))
  BY <1>7
<1> HIDE DEF A
<1>9. \A n \in 0 .. Len(opts) : A[n] = IF n = 0 THEN OptStart ELSE OptTurn(A[n - 1], opts[n])
  BY <1>8
<1>10. 0 \in T
  <2>1. 0 \in 0 .. Len(opts)
    BY <1>2
  <2>2. A[0] = IF 0 = 0 THEN OptStart ELSE OptTurn(A[0 - 1], opts[0])
    BY <1>9, <2>1
  <2> QED BY <2>2, OptStartTyped
<1>11. ASSUME NEW N \in Nat, N \in T
       PROVE  N + 1 \in T
  <2> SUFFICES ASSUME N + 1 <= Len(opts) PROVE OptTyped(A[N + 1])
    OBVIOUS
  <2>1. N + 1 \in 0 .. Len(opts) /\ N + 1 # 0 /\ (N + 1) - 1 = N
    BY <1>2
  <2>2. A[N + 1] = OptTurn(A[N], opts[N + 1])
    BY <1>9, <2>1
  <2>3. OptTyped(A[N])
    BY <1>2, <1>11
  <2>4. OptionOK(opts[N + 1])
    BY <1>2, <1>3
  <2> QED BY <2>2, <2>3, <2>4, OptTurnTyped
<1>12. \A n \in Nat : n \in T
  <2> HIDE DEF T
  <2> QED BY <1>10, <1>11, NatSetInduction
<1>13. OptTyped(A[Len(opts)])
  BY <1>2, <1>12
<1>14. Parsed(opts) = Defaulted(A[Len(opts)])
  BY DEF Parsed, A
<1>15. ASSUME NEW o, OptTyped(o)
       PROVE  OptTyped(Defaulted(o))
  BY <1>15 DEF OptTyped, Defaulted
<1> QED BY <1>13, <1>14, <1>15 DEF opts

-----------------------------------------------------------------------------
(* Types: what is on disk, what the scan has seen, how far the copy is.     *)

\* On disk there are files, now and when the command began, and until the
\* output is created they are the same.
FilesInv ==
    /\ DOMAIN fs = Names
    /\ \A n \in Names : IsFile(fs[n])
    /\ \A n \in Names : IsFile(before[n])
    /\ pc \in {"open", "generate", "scan", "scanned", "create"} => fs = before

\* A size has been set only by a header, and only to cut the file.
ScanTyped ==
    /\ scan = [coffset |-> scan.coffset, size |-> scan.size,
               rmoverlay |-> scan.rmoverlay, copied |-> scan.copied,
               stubv |-> scan.stubv, hdr |-> scan.hdr]
    /\ scan.hdr \in Headers /\ scan.coffset \in Nat /\ scan.size \in Nat
    /\ scan.stubv \in Nat
    /\ ~scan.copied => scan.size = 0 /\ ~scan.rmoverlay
    /\ ~scan.rmoverlay => scan.size = 0
    /\ pc \in {"open", "generate"} => scan = ScanStart
    /\ pc = "scanned" /\ ~scan.copied => HasCell(Input, scan.coffset)

\* left is negative only for an offset that lies behind the end.
CopyTyped ==
    /\ pc \in {"create", "copy"} =>
         /\ left \in Int /\ inpos \in Nat
         /\ left >= 0 \/ inpos > Len(before[cmd.arg])
    /\ pc \in {"generate", "link"} => inpos \in Nat

CountsTyped ==
    /\ ret \in {0, 1, 137}
    /\ nth \in 1 .. Len(opt.overlay) + 1
    /\ commands \in 0 .. MaxCommands /\ faults \in 0 .. MaxFaults
    /\ pc \in {"scan", "scanned", "create"} => Exists(Input)

TypeInv ==
    KeepInv /\ OptTyped(opt) /\ FilesInv /\ ScanTyped /\ CopyTyped /\ CountsTyped

LEMMA TypeInvIsType == TypeInv => TypeOK
BY DEF TypeInv, KeepInv, PlaceInv, FilesInv, ScanTyped, CopyTyped, CountsTyped, TypeOK

\* Who scans or copies has an input.
LEMMA InputNamed ==
    ASSUME TypeInv, pc \in {"scan", "scanned", "create", "copy", "move", "refill"}
    PROVE  cmd.arg \in Names /\ cmd.arg # "tmp" /\ cmd \in Commands
BY CommandsAssumption DEF TypeInv, KeepInv, PlaceInv

\* Somebody is working: the stub has a length.
LEMMA StubNamed ==
    ASSUME TypeInv, commands > 0 \/ pc # "idle"
    PROVE  cmd.stub \in Nat \ {0} /\ cmd \in Commands
BY CommandsAssumption DEF TypeInv, KeepInv, PlaceInv

LEMMA FreshIsHeader == FreshHeader \in Headers
<1>1. [s \in Slots |-> 0] \in [Slots -> Nat] /\ [s \in Slots |-> 0] \in [Slots -> 0 .. 15]
  OBVIOUS
<1> QED BY <1>1 DEF FreshHeader, Header, Headers

LEMMA ScanStartTyped ==
    /\ ScanStart.hdr \in Headers /\ ScanStart.coffset = 0 /\ ScanStart.size = 0
    /\ ScanStart.stubv = 0 /\ ScanStart.copied = FALSE /\ ScanStart.rmoverlay = FALSE
    /\ ScanStart = [coffset |-> ScanStart.coffset, size |-> ScanStart.size,
                    rmoverlay |-> ScanStart.rmoverlay, copied |-> ScanStart.copied,
                    stubv |-> ScanStart.stubv, hdr |-> ScanStart.hdr]
BY FreshIsHeader DEF ScanStart

LEMMA TypeInit ==
    ASSUME Init
    PROVE  TypeInv
<1>1. /\ fs = InitFiles /\ pc = "idle" /\ opt = OptStart /\ scan = ScanStart
      /\ nth = 1 /\ ret = 0 /\ before = InitFiles /\ commands = 0 /\ faults = 0
  BY DEF Init
<1>2. KeepInv
  BY KeepInit
<1>3. OptTyped(opt)
  BY <1>1, OptStartTyped
<1>4. FilesInv
  BY <1>1, FilesAssumption DEF FilesInv
<1>5. ScanTyped
  BY <1>1, ScanStartTyped DEF ScanTyped
<1>6. CopyTyped
  BY <1>1 DEF CopyTyped
<1>7. CountsTyped
  <2>1. Len(opt.overlay) \in Nat
    BY <1>3, LenProperties DEF OptTyped
  <2> QED BY <1>1, <2>1, BoundsAssumption DEF CountsTyped
<1> QED BY <1>2, <1>3, <1>4, <1>5, <1>6, <1>7 DEF TypeInv

LEMMA TypeStart ==
    ASSUME TypeInv, NEW c \in Commands, Start(c)
    PROVE  TypeInv'
<1>1. /\ fs' = fs /\ pc' \in {"generate", "open"} /\ opt' = Parsed(c.opts)
      /\ scan' = ScanStart /\ nth' = 1 /\ inpos' = 0 /\ ret' = 0 /\ before' = fs
      /\ commands' = commands + 1 /\ commands < MaxCommands /\ faults' = faults
  BY DEF Start
<1>2. KeepInv'
  BY KeepStart DEF TypeInv
<1>3. OptTyped(opt')
  BY <1>1, ParsedTyped
<1>4. FilesInv'
  BY <1>1 DEF TypeInv, FilesInv
<1>5. ScanTyped'
  BY <1>1, ScanStartTyped DEF ScanTyped
<1>6. CopyTyped'
  BY <1>1 DEF CopyTyped
<1>7. CountsTyped'
  <2>1. Len(opt'.overlay) \in Nat
    BY <1>3, LenProperties DEF OptTyped
  <2> QED BY <1>1, <2>1, BoundsAssumption DEF TypeInv, CountsTyped
<1> QED BY <1>2, <1>3, <1>4, <1>5, <1>6, <1>7 DEF TypeInv

\* Steps to a place where nothing is promised, with no file touched.
LEMMA TypeLeaves ==
    ASSUME TypeInv, KeepInv', UNCHANGED <<fs, opt, cmd, scan, before, nth, commands>>,
           pc' \notin {"open", "generate", "link", "scan", "scanned", "create", "copy"},
           ret' \in {0, 1, 137}, faults' \in 0 .. MaxFaults
    PROVE  TypeInv'
<1>1. FilesInv'
  BY DEF TypeInv, FilesInv
<1>2. ScanTyped'
  BY DEF TypeInv, ScanTyped
<1>3. CopyTyped' /\ CountsTyped'
  BY DEF TypeInv, CopyTyped, CountsTyped
<1> QED BY <1>1, <1>2, <1>3 DEF TypeInv

\* The header of -g, from the overlays as they were when the command began.
LinkedHeader ==
    LET sizes == [s \in Slots |-> IF s < Len(opt.overlay)
                                  THEN Len(before[opt.overlay[s + 1]]) ELSE 0]
    IN  Header([sizes EXCEPT ![NameWord] = opt.nmoffs],
               [s \in Slots |-> opt.types[s]], opt.flags, opt.ver, cmd.stub)

\* It fits, and its first three words are the sizes of the overlays.
LEMMA LinkedFits ==
    ASSUME TypeInv, commands > 0
    PROVE  /\ LinkedHeader \in Headers
           /\ LinkedHeader.lfanew = cmd.stub /\ cmd.stub \in Nat \ {0}
           /\ \A k \in 1 .. 3 : LinkedHeader.words[k - 1] =
                IF k <= Len(opt.overlay) THEN Len(before[opt.overlay[k]]) ELSE 0
<1> DEFINE W == [s \in Slots |-> IF s < Len(opt.overlay) THEN Len(before[opt.overlay[s + 1]]) ELSE 0]
           V == [W EXCEPT ![NameWord] = opt.nmoffs]
           T == [s \in Slots |-> opt.types[s]]
<1>1. Len(opt.overlay) \in Nat /\ \A k \in 1 .. Len(opt.overlay) : opt.overlay[k] \in Names
  <2>1. opt.overlay \in Seq(Names \ {"tmp"})
    BY DEF TypeInv, OptTyped
  <2> QED BY <2>1, LenProperties, ElementOfSeq
<1>2. \A n \in Names : Len(before[n]) \in Nat
  BY FileIsSeq DEF TypeInv, FilesInv
<1>3. ASSUME NEW s \in Slots, s < Len(opt.overlay)
      PROVE  Len(before[opt.overlay[s + 1]]) \in Nat
  <2>1. s + 1 \in 1 .. Len(opt.overlay)
    BY <1>1, <1>3 DEF Slots
  <2> QED BY <1>1, <1>2, <2>1
<1>4. W \in [Slots -> Nat]
  BY <1>3
<1>5. V \in [Slots -> Nat]
  <2> HIDE DEF W
  <2> QED BY <1>4 DEF TypeInv, OptTyped
<1>6. T \in [Slots -> 0 .. 15]
  <2>1. \A s \in Slots : s \in 0 .. 4
    BY DEF Slots
  <2> QED BY <2>1 DEF TypeInv, OptTyped
<1>7. opt.flags \subseteq Flags /\ opt.ver \in Nat /\ cmd.stub \in Nat \ {0}
  BY CommandsAssumption DEF TypeInv, OptTyped, KeepInv, PlaceInv
<1>8. LinkedHeader = Header(V, T, opt.flags, opt.ver, cmd.stub)
  BY DEF LinkedHeader
<1>9. ASSUME NEW k \in 1 .. 3
      PROVE  V[k - 1] = IF k <= Len(opt.overlay) THEN Len(before[opt.overlay[k]]) ELSE 0
  <2>1. k - 1 \in Slots /\ k - 1 # NameWord /\ (k - 1) + 1 = k
    BY DEF Slots, NameWord
  <2>2. k - 1 < Len(opt.overlay) <=> k <= Len(opt.overlay)
    BY <1>1
  <2> QED BY <2>1, <2>2
<1> HIDE DEF V, T
<1>10. /\ Header(V, T, opt.flags, opt.ver, cmd.stub) \in Headers
       /\ Header(V, T, opt.flags, opt.ver, cmd.stub).lfanew = cmd.stub
       /\ Header(V, T, opt.flags, opt.ver, cmd.stub).words = V
  BY <1>5, <1>6, <1>7 DEF Header, Headers
<1> QED BY <1>7, <1>8, <1>9, <1>10

\* It is the header that generate writes.
LEMMA GeneratedFits ==
    ASSUME TypeInv, pc = "generate"
    PROVE  GeneratedHeader(opt) = LinkedHeader /\ GeneratedHeader(opt) \in Headers
<1>1. fs = before /\ commands > 0
  BY DEF TypeInv, FilesInv, KeepInv, PlaceInv
<1>2. GeneratedHeader(opt) = LinkedHeader
  BY <1>1 DEF GeneratedHeader, LinkedHeader
<1> QED BY <1>1, <1>2, LinkedFits

\* What stands for no file may stand where a file does.
LEMMA MissingFile == IsFile(Missing)
<1>1. Missing \in Seq({[what |-> "nothing"]}) /\ DOMAIN Missing = {1}
  BY DEF Missing
<1>2. IsSeq(Missing)
  BY <1>1, SeqIntro
<1>3. \A k \in DOMAIN Missing : Sound(Missing[k])
  BY <1>1 DEF Missing, Sound
<1> QED BY <1>2, <1>3, FileCells

\* What a read of an overlay returns.
LEMMA OverlayChunkFile ==
    ASSUME TypeInv, pc = "link", nth <= Len(opt.overlay)
    PROVE  /\ nth \in 1 .. Len(opt.overlay) /\ opt.overlay[nth] \in Names /\ inpos \in Nat
           /\ IsFile(OverlayChunk)
<1>1. nth \in 1 .. Len(opt.overlay) /\ inpos \in Nat
  BY DEF TypeInv, CountsTyped, CopyTyped
<1>2. opt.overlay[nth] \in Names
  BY <1>1, ElementOfSeq DEF TypeInv, OptTyped
<1>3. IsFile(fs[opt.overlay[nth]])
  BY <1>2 DEF TypeInv, FilesInv
<1> DEFINE f == fs[opt.overlay[nth]]
<1> HIDE DEF f
<1>4. IsFile(Region(f, inpos, ChunkSize))
  BY <1>1, <1>3, RegionFile, BoundsAssumption DEF f
<1> QED BY <1>1, <1>2, <1>4 DEF OverlayChunk, f

\* -g: what is written is a file.
LEMMA TypeLinks ==
    ASSUME TypeInv, Generate \/ CopyOverlay \/ OverlayEnds \/ Generated \/ OverlayFails
    PROVE  TypeInv'
<1>1. KeepInv'
  BY KeepLinks DEF TypeInv
<1>2. /\ UNCHANGED <<opt, cmd, scan, before, commands>> /\ pc \in {"generate", "link"}
      /\ pc' \in {"link", "idle"} /\ ret' \in {ret, 0, 1}
  BY DEF Generate, CopyOverlay, OverlayEnds, Generated, OverlayFails
<1>3. DOMAIN fs = Names /\ \A n \in Names : IsFile(fs[n])
  BY DEF TypeInv, FilesInv
<1>4. DOMAIN fs' = Names /\ \A n \in Names : IsFile(fs'[n])
  <2>1. CASE Generate
    <3>1. IsFile(StubOf(Code(opt), GeneratedHeader(opt), cmd.stub))
      BY <1>2, <2>1, GeneratedFits, StubNamed, StubOfFile DEF Generate
    <3> QED BY <1>3, <2>1, <3>1 DEF Generate
  <2>2. CASE CopyOverlay
    <3>1. IsFile(OverlayChunk)
      BY <2>2, OverlayChunkFile DEF CopyOverlay
    <3>2. \A n \in Names : IsFile(fs[n] \o OverlayChunk)
      BY <1>3, <3>1, ConcatFile
    <3> QED BY <1>3, <2>2, <3>2 DEF CopyOverlay
  <2>3. CASE OverlayFails
    BY <1>3, <2>3, MissingFile DEF OverlayFails
  <2>4. CASE OverlayEnds \/ Generated
    BY <1>3, <2>4 DEF OverlayEnds, Generated
  <2> QED BY <2>1, <2>2, <2>3, <2>4
<1>5. FilesInv'
  BY <1>2, <1>4 DEF TypeInv, FilesInv
<1>6. ScanTyped'
  BY <1>2 DEF TypeInv, ScanTyped
<1>7. CopyTyped'
  <2>1. CASE CopyOverlay
    <3>1. inpos \in Nat /\ Len(OverlayChunk) \in Nat
      BY <2>1, OverlayChunkFile, FileIsSeq DEF CopyOverlay
    <3>2. inpos' = inpos + Len(OverlayChunk)
      BY <2>1 DEF CopyOverlay
    <3> QED BY <1>2, <3>1, <3>2 DEF CopyTyped
  <2>2. CASE Generate \/ OverlayEnds \/ Generated \/ OverlayFails
    <3>1. inpos' = inpos \/ inpos' = 0
      BY <2>2 DEF Generate, OverlayEnds, Generated, OverlayFails
    <3> QED BY <1>2, <3>1 DEF TypeInv, CopyTyped
  <2> QED BY <2>1, <2>2
<1>8. CountsTyped'
  <2>0. Len(opt.overlay) \in Nat
    BY LenProperties DEF TypeInv, OptTyped
  <2>1. nth' \in 1 .. Len(opt.overlay) + 1
    <3>1. nth \in 1 .. Len(opt.overlay) + 1
      BY DEF TypeInv, CountsTyped
    <3>2. nth' = nth \/ (nth <= Len(opt.overlay) /\ nth' = nth + 1)
      BY DEF Generate, CopyOverlay, OverlayEnds, Generated, OverlayFails
    <3> QED BY <2>0, <3>1, <3>2
  <2>2. faults' \in 0 .. MaxFaults
    <3>1. faults \in 0 .. MaxFaults
      BY DEF TypeInv, CountsTyped
    <3>2. faults' = faults \/ (faults < MaxFaults /\ faults' = faults + 1)
      BY DEF Generate, CopyOverlay, OverlayEnds, Generated, OverlayFails
    <3> QED BY <3>1, <3>2, BoundsAssumption
  <2> QED BY <1>2, <2>1, <2>2 DEF TypeInv, CountsTyped
<1>9. OptTyped(opt')
  BY <1>2 DEF TypeInv
<1> QED BY <1>1, <1>5, <1>6, <1>7, <1>8, <1>9 DEF TypeInv

\* The header under the scan.
LEMMA HereIsHeader ==
    ASSUME TypeInv, pc = "scan", HereIs("mz")
    PROVE  Here \in Headers
<1>1. IsFile(Input)
  BY InputNamed DEF TypeInv, FilesInv, Input
<1>2. IsSeq(Input) /\ Len(Input) \in Nat /\ \A k \in DOMAIN Input : Sound(Input[k])
  BY <1>1, FileIsSeq, FileCells
<1>3. scan.coffset + 1 \in DOMAIN Input
  BY <1>2, SeqFacts DEF TypeInv, ScanTyped, HereIs, HasCell
<1> QED BY <1>2, <1>3 DEF HereIs, CellAt, Here, Sound

\* One word of a header is cleared.
LEMMA ClearedWord ==
    ASSUME NEW h \in Headers, NEW s
    PROVE  [h EXCEPT !.words[s] = 0] \in Headers
BY DEF Headers

\* The sizes that the scan takes from a header.
LEMMA SizesFit ==
    ASSUME NEW h \in Headers
    PROVE  /\ \A type : find_idx(type, h) # -1 =>
                find_size(type, h) \in Nat /\ find_offs(type, h) \in Nat
           /\ Walk(h).type \in DebugTypes => SlotOffs(h, Walk(h).passed) - Walk(h).size \in Nat
<1>1. /\ h.words \in [Slots -> Nat]
      /\ h.words[0] \in Nat /\ h.words[1] \in Nat /\ h.words[2] \in Nat /\ h.words[3] \in Nat
  BY HeaderFields
<1>2. \A n \in 0 .. 4 : SlotOffs(h, n) \in Nat
  BY <1>1, SlotSum
<1>3. ASSUME NEW type, find_idx(type, h) # -1
      PROVE  find_size(type, h) \in Nat /\ find_offs(type, h) \in Nat
  <2>1. find_idx(type, h) \in Slots
    BY <1>3, FindFacts
  <2>2. find_idx(type, h) \in 0 .. 4
    BY <2>1 DEF Slots
  <2> QED BY <1>1, <1>2, <1>3, <2>1, <2>2, FindFacts
<1>4. ASSUME Walk(h).type \in DebugTypes
      PROVE  SlotOffs(h, Walk(h).passed) - Walk(h).size \in Nat
  <2>1. Walk(h).passed \in 0 .. 4 /\ Walk(h).size \in Nat
    BY WalkFacts
  <2>2. CASE Walk(h).size = 0
    BY <1>2, <2>1, <2>2
  <2>3. CASE Walk(h).size > 0
    <3>1. Walk(h).passed \in 1 .. 4 /\ Walk(h).size = h.words[Walk(h).passed - 1]
      BY <1>4, <2>1, <2>3, WalkFacts
    <3>2. \A n \in 1 .. 4 : SlotOffs(h, n) - h.words[n - 1] \in Nat
      BY <1>1, SlotSum
    <3> QED BY <3>1, <3>2
  <2> QED BY <2>1, <2>2, <2>3
<1> QED BY <1>3, <1>4

LEMMA TypeScans ==
    ASSUME TypeInv, OpenInput \/ StubHeader \/ ExeHeader \/ PayloadFound
    PROVE  TypeInv'
<1>1. /\ UNCHANGED <<fs, opt, cmd, before, made, commands, ret, nth, faults>>
      /\ pc \in {"open", "scan"} /\ pc' \in {"scan", "scanned"}
      /\ pc = "open" => pc' = "scan" /\ cmd.arg # "" /\ Exists(Input) /\ scan' = scan
  BY DEF OpenInput, StubHeader, ExeHeader, PayloadFound, Input
<1>2. KeepInv'
  BY <1>1, KeepReads DEF TypeInv, KeepInv, PlaceInv
<1>3. FilesInv'
  BY <1>1 DEF TypeInv, FilesInv
<1>4. CopyTyped'
  BY <1>1 DEF CopyTyped
<1>5. CountsTyped'
  BY <1>1 DEF TypeInv, CountsTyped, Input
<1>6. ScanTyped'
  <2>1. CASE OpenInput \/ PayloadFound
    BY <2>1 DEF OpenInput, PayloadFound, TypeInv, ScanTyped, Input
  <2>2. CASE ExeHeader
    <3>1. IsFile(Input) /\ pc = "scan"
      BY <2>2, InputNamed DEF TypeInv, FilesInv, Input, ExeHeader
    <3>2. IsSeq(Input) /\ Len(Input) \in Nat /\ \A k \in DOMAIN Input : Sound(Input[k])
      BY <3>1, FileIsSeq, FileCells
    <3>3. scan.coffset + 1 \in DOMAIN Input
      BY <2>2, <3>2, SeqFacts DEF TypeInv, ScanTyped, ExeHeader, HereIs, HasCell
    <3>4. CellAt(Input, scan.coffset).end \in Nat
      BY <2>2, <3>2, <3>3 DEF ExeHeader, HereIs, CellAt, Sound
    <3> DEFINE e == CellAt(Input, scan.coffset).end
    <3>5. scan' = [scan EXCEPT !.coffset = @ + e] /\ pc' = "scan"
      BY <2>2, <3>1 DEF ExeHeader
    <3> HIDE DEF e
    <3>6. e \in Nat
      BY <3>4 DEF e
    <3> QED BY <3>5, <3>6 DEF TypeInv, ScanTyped
  <2>3. CASE StubHeader
    <3> DEFINE w == Walk(Here)
               keep == KeptType(Here)
               seen == [scan EXCEPT !.stubv = Here.ver, !.copied = TRUE,
                                    !.hdr = Here, !.coffset = Here.lfanew,
                                    !.rmoverlay = @ \/ opt.rmstub \/ opt.strip]
               size == SlotOffs(Here, w.passed) - w.size
               clear == [Here EXCEPT !.words[w.passed - 1] = 0]
               rm == scan.rmoverlay \/ opt.rmstub \/ opt.strip
    <3>1. Here \in Headers
      BY <2>3, HereIsHeader DEF StubHeader
    <3>2. Here.lfanew \in Nat /\ Here.ver \in Nat
      BY <3>1, HeaderFields
    <3>3. seen = [coffset |-> Here.lfanew, size |-> scan.size, rmoverlay |-> rm,
                  copied |-> TRUE, stubv |-> Here.ver, hdr |-> Here]
      <4>1. seen = [scan EXCEPT !.stubv = Here.ver, !.copied = TRUE, !.hdr = Here,
                                !.coffset = Here.lfanew, !.rmoverlay = rm]
        OBVIOUS
      <4> HIDE DEF rm, seen
      <4> QED BY <4>1 DEF TypeInv, ScanTyped
    <3> HIDE DEF rm
    <3>6. opt.rmstub \/ opt.strip \/ scan.rmoverlay => rm
      BY DEF rm
    <3>4. CASE opt.rmstub
      <4>1. /\ find_idx(keep, Here) # -1
            /\ scan' = [seen EXCEPT !.coffset = @ + find_offs(keep, Here),
                                    !.size = find_size(keep, Here)]
            /\ pc' = "scanned"
        BY <2>3, <3>4 DEF StubHeader
      <4>2. find_size(keep, Here) \in Nat /\ find_offs(keep, Here) \in Nat
        BY <3>1, <4>1, SizesFit
      <4> HIDE DEF keep, seen
      <4>3. scan' = [coffset |-> Here.lfanew + find_offs(keep, Here),
                     size |-> find_size(keep, Here),
                     rmoverlay |-> rm, copied |-> TRUE, stubv |-> Here.ver, hdr |-> Here]
        BY <3>3, <4>1
      <4>4. rm
        BY <3>4, <3>6
      <4>5. Here.lfanew + find_offs(keep, Here) \in Nat /\ find_size(keep, Here) \in Nat
        BY <3>2, <4>2
      <4>6. /\ scan'.hdr \in Headers /\ scan'.coffset \in Nat /\ scan'.size \in Nat
            /\ scan'.stubv \in Nat /\ scan'.copied = TRUE
        BY <3>1, <3>2, <4>3, <4>5
      <4>7. scan'.rmoverlay
        BY <4>3, <4>4
      <4>8. scan' = [coffset |-> scan'.coffset, size |-> scan'.size,
                     rmoverlay |-> scan'.rmoverlay, copied |-> scan'.copied,
                     stubv |-> scan'.stubv, hdr |-> scan'.hdr]
        BY <4>3
      <4> HIDE DEF rm
      <4> QED BY <4>1, <4>6, <4>7, <4>8 DEF ScanTyped
    <3>5. CASE ~opt.rmstub
      <4>1. /\ pc' = "scan"
            /\ scan' = IF Stripping(Here) THEN [seen EXCEPT !.size = size, !.hdr.words[w.passed - 1] = 0]
                       ELSE seen
        BY <2>3, <3>5 DEF StubHeader
      <4>2. CASE Stripping(Here)
        <5>1. scan' = [coffset |-> Here.lfanew, size |-> size,
                       rmoverlay |-> rm, copied |-> TRUE, stubv |-> Here.ver, hdr |-> clear]
          BY <3>3, <4>1, <4>2
        <5>2. clear \in Headers /\ size \in Nat
          BY <3>1, <4>2, ClearedWord, SizesFit DEF Stripping
        <5>3. opt.strip
          BY <4>2 DEF Stripping
        <5> HIDE DEF clear, size
        <5>4. rm
          BY <3>6, <5>3
        <5>5. /\ scan'.hdr \in Headers /\ scan'.coffset \in Nat /\ scan'.size \in Nat
              /\ scan'.stubv \in Nat /\ scan'.copied = TRUE
          BY <3>2, <5>1, <5>2
        <5>6. scan'.rmoverlay
          BY <5>1, <5>4
        <5>7. scan' = [coffset |-> scan'.coffset, size |-> scan'.size,
                       rmoverlay |-> scan'.rmoverlay, copied |-> scan'.copied,
                       stubv |-> scan'.stubv, hdr |-> scan'.hdr]
          BY <5>1
        <5> QED BY <4>1, <5>5, <5>6, <5>7 DEF ScanTyped
      <4>3. CASE ~Stripping(Here)
        BY <3>1, <3>2, <3>3, <3>6, <4>1, <4>3 DEF TypeInv, ScanTyped
      <4> QED BY <4>2, <4>3
    <3> QED BY <3>4, <3>5
  <2> QED BY <2>1, <2>2, <2>3
<1>7. OptTyped(opt')
  BY <1>1 DEF TypeInv
<1> QED BY <1>2, <1>3, <1>4, <1>5, <1>6, <1>7 DEF TypeInv

LEMMA TypeMeasure ==
    ASSUME TypeInv, Measure
    PROVE  TypeInv'
<1> DEFINE size == IF scan.size # 0 THEN scan.size ELSE Len(Input) - scan.coffset
           sized == [scan.hdr EXCEPT !.words[0] = size]
<1>1. /\ UNCHANGED <<fs, opt, cmd, before, made, commands, nth, faults>>
      /\ pc = "scanned" /\ pc' \in {"create", "idle"} /\ ret' \in {ret, 0}
      /\ left' = size /\ inpos' = scan.coffset
      /\ scan' = IF scan.copied THEN scan ELSE [scan EXCEPT !.hdr.words[0] = size]
  BY DEF Measure
<1>2. KeepInv'
  BY <1>1, KeepReads DEF TypeInv
<1>3. FilesInv'
  BY <1>1 DEF TypeInv, FilesInv
<1>4. CountsTyped'
  BY <1>1 DEF TypeInv, CountsTyped, Input
<1>5. Len(Input) \in Nat /\ Input = before[cmd.arg]
  BY <1>1, InputNamed, FileIsSeq DEF TypeInv, FilesInv, Input
<1>6. scan.coffset \in Nat /\ scan.size \in Nat
  BY DEF TypeInv, ScanTyped
<1>7. size \in Int /\ (size >= 0 \/ scan.coffset > Len(before[cmd.arg]))
  BY <1>5, <1>6
<1>8. CopyTyped'
  <2> HIDE DEF size
  <2> QED BY <1>1, <1>6, <1>7 DEF CopyTyped
<1>9. ScanTyped'
  <2>1. CASE scan.copied
    BY <1>1, <2>1 DEF TypeInv, ScanTyped
  <2>2. CASE ~scan.copied
    <3>1. scan' = [coffset |-> scan.coffset, size |-> scan.size,
                   rmoverlay |-> scan.rmoverlay, copied |-> scan.copied,
                   stubv |-> scan.stubv, hdr |-> sized]
      BY <1>1, <2>2 DEF TypeInv, ScanTyped
    <3>2. scan.coffset < Len(Input) /\ scan.size = 0
      BY <1>1, <2>2 DEF TypeInv, ScanTyped, HasCell
    <3>3. size \in Nat
      BY <1>5, <1>6, <3>2
    <3> HIDE DEF size
    <3>4. sized \in Headers
      BY <3>3 DEF TypeInv, ScanTyped, Headers
    <3> HIDE DEF sized
    <3> QED BY <1>1, <2>2, <3>1, <3>4 DEF TypeInv, ScanTyped
  <2> QED BY <2>1, <2>2
<1>10. OptTyped(opt')
  BY <1>1 DEF TypeInv
<1> QED BY <1>2, <1>3, <1>4, <1>8, <1>9, <1>10 DEF TypeInv

\* The header of the output fits.
LEMMA CopiedFits ==
    ASSUME TypeInv, commands > 0 \/ pc # "idle"
    PROVE  CopiedHeader \in Headers /\ CopiedHeader.lfanew = cmd.stub
                /\ CopiedHeader.words = scan.hdr.words
<1>1. /\ scan.hdr \in Headers /\ scan.stubv \in Nat /\ opt.ver \in Nat
      /\ cmd.stub \in Nat
  BY StubNamed DEF TypeInv, ScanTyped, OptTyped
<1>2. (IF scan.stubv # 0 THEN scan.stubv ELSE opt.ver) \in Nat
  BY <1>1
<1> QED BY <1>1, <1>2 DEF CopiedHeader, Headers

\* What one turn of the copy loop reads.
LEMMA ChunkFacts ==
    ASSUME TypeInv, pc = "copy"
    PROVE  /\ IsFile(Chunk) /\ Len(Chunk) \in Nat
           /\ inpos \in Nat /\ left \in Int /\ IsFile(Input)
           /\ left > 0 => \E want \in Nat \ {0} :
                 /\ Chunk = Region(Input, inpos, want)
                 /\ Len(Chunk) = Have(Input, inpos, want)
                 /\ scan.rmoverlay => want <= left
<1> DEFINE want == IF scan.rmoverlay /\ left < ChunkSize THEN left ELSE ChunkSize
<1>1. Chunk = Region(Input, inpos, want)
  BY DEF Chunk
<1>2. IsFile(Input) /\ inpos \in Nat /\ left \in Int
  BY InputNamed DEF TypeInv, FilesInv, CopyTyped, Input
<1>3. want \in Int
  BY <1>2, BoundsAssumption
<1>4. left > 0 => want \in Nat \ {0} /\ (scan.rmoverlay => want <= left)
  BY <1>2, BoundsAssumption
<1> HIDE DEF want
<1>5. IsFile(Chunk) /\ Len(Chunk) = Have(Input, inpos, want)
  BY <1>1, <1>2, <1>3, RegionFile, RegionFacts, FileIsSeq DEF IsRegion
<1>6. Len(Chunk) \in Nat
  BY <1>5, FileIsSeq
<1> QED BY <1>1, <1>2, <1>4, <1>5, <1>6

LEMMA TargetNamed ==
    ASSUME TypeInv
    PROVE  Target \in Names
BY FilesAssumption DEF TypeInv, OptTyped, Target, InPlace

\* The output is a file, and what is left is counted down to zero.
LEMMA TypeCopies ==
    ASSUME TypeInv, Create \/ CopyChunk
    PROVE  TypeInv'
<1>1. /\ UNCHANGED <<opt, cmd, scan, before, made, commands, nth, faults, ret>>
      /\ pc \in {"create", "copy"} /\ pc' = "copy"
  BY DEF Create, CopyChunk
<1>2. KeepInv'
  BY KeepCopies DEF TypeInv
<1>3. CountsTyped'
  BY <1>1 DEF TypeInv, CountsTyped
<1>4. ScanTyped'
  BY <1>1 DEF TypeInv, ScanTyped
<1>5. DOMAIN fs = Names /\ \A n \in Names : IsFile(fs[n])
  BY DEF TypeInv, FilesInv
<1>6. DOMAIN fs' = Names /\ \A n \in Names : IsFile(fs'[n])
  <2>1. CASE Create
    <3>1. IsFile(IF opt.rmstub THEN << >> ELSE Stub(CopiedHeader, cmd.stub))
      <4>1. IsFile(Stub(CopiedHeader, cmd.stub))
        BY <1>1, CopiedFits, StubNamed, StubFile
      <4> QED BY <4>1, EmptyFile
    <3> QED BY <1>5, <2>1, <3>1 DEF Create
  <2>2. CASE CopyChunk
    <3>1. IsFile(Chunk)
      BY <2>2, ChunkFacts DEF CopyChunk
    <3>2. \A n \in Names : IsFile(fs[n] \o Chunk)
      BY <1>5, <3>1, ConcatFile
    <3> QED BY <1>5, <2>2, <3>2 DEF CopyChunk
  <2> QED BY <2>1, <2>2
<1>7. FilesInv'
  BY <1>1, <1>6 DEF TypeInv, FilesInv
<1>8. CopyTyped'
  <2>1. CASE Create
    BY <1>1, <2>1 DEF Create, TypeInv, CopyTyped
  <2>2. CASE CopyChunk
    <3>1. PICK want \in Nat \ {0} : /\ Len(Chunk) = Have(Input, inpos, want)
                                    /\ scan.rmoverlay => want <= left
      BY <2>2, ChunkFacts DEF CopyChunk
    <3>2. /\ Len(Chunk) \in Nat /\ inpos \in Nat /\ left \in Int /\ Len(Input) \in Nat
      BY <2>2, ChunkFacts, FileIsSeq DEF CopyChunk
    <3>3. Len(Chunk) <= want
      BY <3>1, <3>2 DEF Have
    <3>4. /\ left > 0 /\ inpos' = inpos + Len(Chunk)
          /\ left' = IF scan.rmoverlay THEN left - Len(Chunk) ELSE left
      BY <2>2 DEF CopyChunk
    <3>5. left' \in Int /\ left' >= 0 /\ inpos' \in Nat
      BY <3>1, <3>2, <3>3, <3>4
    <3> QED BY <3>5 DEF CopyTyped
  <2> QED BY <2>1, <2>2
<1>9. OptTyped(opt')
  BY <1>1 DEF TypeInv
<1> QED BY <1>2, <1>3, <1>4, <1>7, <1>8, <1>9 DEF TypeInv

\* shutil.move.
LEMMA TypeMoves ==
    ASSUME TypeInv, Rename \/ MoveTruncates \/ Refill \/ MoveUnlinks
    PROVE  TypeInv'
<1>1. /\ UNCHANGED <<opt, cmd, scan, before, made, commands, nth, faults>>
      /\ pc \in {"move", "refill"} /\ pc' \in {"refill", "idle"} /\ ret' \in {ret, 0}
  BY DEF Rename, MoveTruncates, Refill, MoveUnlinks
<1>2. KeepInv'
  BY KeepMoves DEF TypeInv
<1>3. CountsTyped' /\ CopyTyped'
  BY <1>1 DEF TypeInv, CountsTyped, CopyTyped
<1>4. ScanTyped'
  BY <1>1 DEF TypeInv, ScanTyped
<1>5. DOMAIN fs = Names /\ \A n \in Names : IsFile(fs[n])
  BY DEF TypeInv, FilesInv
<1>6. cmd.arg \in Names /\ "tmp" \in Names
  BY <1>1, InputNamed, FilesAssumption
<1>7. DOMAIN fs' = Names /\ \A n \in Names : IsFile(fs'[n])
  <2>1. CASE Rename
    BY <1>5, <1>6, <2>1, MissingFile DEF Rename
  <2>2. CASE MoveTruncates
    BY <1>5, <2>2, EmptyFile DEF MoveTruncates
  <2>3. CASE Refill
    <3> DEFINE more == Region(fs["tmp"], Len(fs[cmd.arg]), ChunkSize)
    <3>1. Len(fs[cmd.arg]) \in Nat /\ ChunkSize \in Int
      BY <1>5, <1>6, FileIsSeq, BoundsAssumption
    <3>2. IsFile(more)
      BY <1>5, <1>6, <3>1, RegionFile
    <3>3. fs' = [fs EXCEPT ![cmd.arg] = fs[cmd.arg] \o more]
      BY <2>3 DEF Refill
    <3> HIDE DEF more
    <3>4. IsFile(fs[cmd.arg] \o more)
      BY <1>5, <1>6, <3>2, ConcatFile
    <3> QED BY <1>5, <3>3, <3>4
  <2>4. CASE MoveUnlinks
    BY <1>5, <2>4, MissingFile DEF MoveUnlinks
  <2> QED BY <2>1, <2>2, <2>3, <2>4
<1>8. FilesInv'
  BY <1>1, <1>7 DEF TypeInv, FilesInv
<1>9. OptTyped(opt')
  BY <1>1 DEF TypeInv
<1> QED BY <1>2, <1>3, <1>4, <1>8, <1>9 DEF TypeInv

LEMMA TypeStep ==
    ASSUME TypeInv, [Next]_vars
    PROVE  TypeInv'
<1>0. KeepInv'
  BY KeepStep DEF TypeInv
<1>1. CASE \E c \in Commands : Start(c)
  BY <1>1, TypeStart
<1>2. CASE Generate \/ CopyOverlay \/ OverlayEnds \/ Generated \/ OverlayFails
  BY <1>2, TypeLinks
<1>3. CASE OpenInput \/ StubHeader \/ ExeHeader \/ PayloadFound
  BY <1>3, TypeScans
<1>4. CASE Measure
  BY <1>4, TypeMeasure
<1>5. CASE Create \/ CopyChunk
  BY <1>5, TypeCopies
<1>6. CASE Rename \/ MoveTruncates \/ Refill \/ MoveUnlinks
  BY <1>6, TypeMoves
<1>7. CASE Reject \/ ScanFails \/ CopyEnds
  <2>1. /\ UNCHANGED <<fs, opt, cmd, scan, before, nth, commands, faults>>
        /\ pc' \in {"idle", "move"} /\ ret' \in {ret, 0, 1}
    BY <1>7 DEF Reject, ScanFails, CopyEnds
  <2>2. ret' \in {0, 1, 137} /\ faults' \in 0 .. MaxFaults
    BY <2>1 DEF TypeInv, CountsTyped
  <2> QED BY <1>0, <2>1, <2>2, TypeLeaves
<1>8. CASE CreateFails \/ CopyFails \/ MoveFails \/ Kill
  <2>1. /\ UNCHANGED <<fs, opt, cmd, scan, before, nth, commands>>
        /\ pc' = "idle" /\ ret' \in {1, 137}
        /\ faults < MaxFaults /\ faults' = faults + 1
    BY <1>8 DEF CreateFails, CopyFails, MoveFails, Kill
  <2>2. faults' \in 0 .. MaxFaults
    BY <2>1, BoundsAssumption DEF TypeInv, CountsTyped
  <2> QED BY <1>0, <2>1, <2>2, TypeLeaves
<1>9. CASE UNCHANGED vars
  BY <1>0, <1>9
  DEF vars, TypeInv, FilesInv, ScanTyped, CopyTyped, CountsTyped, Input
<1> QED
  BY <1>1, <1>2, <1>3, <1>4, <1>5, <1>6, <1>7, <1>8, <1>9 DEF Next, Work, Faults

LEMMA TypeInductive == Spec => []TypeInv
BY TypeInit, TypeStep, PTL DEF Spec

\* Whatever commands are given, in whatever order, and wherever they fail: what
\* is on disk are files whose headers fit their fields, and no copy loop counts
\* past the end of its input.
THEOREM ToolTypeCorrect == Spec => []TypeOK
BY TypeInductive, TypeInvIsType, PTL

-----------------------------------------------------------------------------
(* What coff2exe writes: the new stub, if any, and the part of the input    *)
(* that the scan has measured.                                              *)

Size == IF scan.size # 0 THEN scan.size ELSE Len(Source) - scan.coffset
StubPart == IF opt.rmstub THEN << >> ELSE Stub(CopiedHeader, cmd.stub)
Output == StubPart \o Region(Source, scan.coffset, Size)

\* Until the copy is whole it is a part of the output, as long as the count
\* says, unless the tool overwrites its own input.
CopyInv ==
    (pc = "copy" /\ Target # cmd.arg) =>
        /\ fs[cmd.arg] = Source
        /\ inpos = scan.coffset \/ (inpos > scan.coffset /\ inpos <= Len(Source))
        /\ fs[Target] = StubPart \o Region(Source, scan.coffset, inpos - scan.coffset)
        /\ left = IF scan.rmoverlay THEN Size - (inpos - scan.coffset) ELSE Size

WriteInv ==
    /\ pc = "create" => left = Size /\ inpos = scan.coffset
    /\ CopyInv
    /\ pc \in {"move", "refill"} => fs["tmp"] = Output
    /\ Edited => Result = Output /\ cmd.arg # ""

LEMMA SourceNamed ==
    ASSUME TypeInv, pc \in {"scan", "scanned", "create", "copy", "move", "refill"}
    PROVE  IsFile(Source) /\ IsSeq(Source) /\ Len(Source) \in Nat
<1>1. IsFile(Source)
  BY InputNamed DEF TypeInv, FilesInv, Source
<1> QED BY <1>1, FileIsSeq

LEMMA SizeIsInt ==
    ASSUME TypeInv, pc \in {"scan", "scanned", "create", "copy", "move", "refill"}
    PROVE  Size \in Int /\ scan.coffset \in Nat
                /\ (~scan.rmoverlay => Size = Len(Source) - scan.coffset)
<1>1. Len(Source) \in Nat /\ scan.coffset \in Nat /\ scan.size \in Nat
  BY SourceNamed DEF TypeInv, ScanTyped
<1> QED BY <1>1 DEF Size, TypeInv, ScanTyped

LEMMA StubPartSeq ==
    ASSUME TypeInv, pc # "idle"
    PROVE  IsSeq(StubPart)
<1>1. IsFile(Stub(CopiedHeader, cmd.stub))
  BY CopiedFits, StubNamed, StubFile
<1> QED BY <1>1, EmptyFacts, FileIsSeq DEF StubPart

\* Where the tool is writing nothing, nothing is promised.
LEMMA WriteElsewhere ==
    ASSUME pc' \in {"generate", "link", "open", "scan", "scanned"}
             \/ (pc' = "idle" /\ (ret' # 0 \/ opt'.gen \/ opt'.info))
    PROVE  WriteInv'
BY DEF WriteInv, CopyInv, Edited, Wrote

LEMMA WriteCreates ==
    ASSUME TypeInv, WriteInv, Create
    PROVE  WriteInv'
<1>1. /\ UNCHANGED <<opt, cmd, scan, left, inpos, before>> /\ pc = "create" /\ pc' = "copy"
      /\ fs' = [fs EXCEPT ![Target] = StubPart]
  BY DEF Create, StubPart
<1>2. UNCHANGED <<Target, StubPart, Size, Source>>
  BY <1>1 DEF Target, InPlace, StubPart, CopiedHeader, Size, Source
<1>3. fs = before /\ DOMAIN fs = Names /\ Target \in Names /\ cmd.arg \in Names
  BY <1>1, TargetNamed, InputNamed DEF TypeInv, FilesInv
<1>4. ASSUME Target # cmd.arg
      PROVE  CopyInv'
  <2>1. fs'[cmd.arg] = Source /\ fs'[Target] = StubPart
    BY <1>1, <1>3, <1>4 DEF Source
  <2>2. left = Size /\ inpos = scan.coffset /\ Size \in Int /\ scan.coffset \in Nat
    BY <1>1, SizeIsInt DEF WriteInv
  <2>3. inpos - scan.coffset = 0
    BY <2>2
  <2>4. StubPart \o Region(Source, scan.coffset, 0) = StubPart
    <3>1. Region(Source, scan.coffset, 0) = << >>
      BY <1>1, <2>2, SourceNamed, EmptyRegion
    <3>2. IsSeq(StubPart)
      BY <1>1, StubPartSeq
    <3> QED BY <3>1, <3>2, ConcatEmpty
  <2>5. Size - 0 = Size
    BY <2>2
  <2> QED BY <1>1, <1>2, <2>1, <2>2, <2>3, <2>4, <2>5 DEF CopyInv
<1>5. CopyInv'
  BY <1>2, <1>4, <1>1 DEF CopyInv
<1> QED BY <1>1, <1>5 DEF WriteInv, Edited, Wrote

LEMMA WriteCopies ==
    ASSUME TypeInv, WriteInv, CopyChunk
    PROVE  WriteInv'
<1>1. /\ UNCHANGED <<opt, cmd, scan, before>> /\ pc = "copy" /\ pc' = "copy"
      /\ fs' = [fs EXCEPT ![Target] = @ \o Chunk]
      /\ left > 0 /\ Chunk # << >> /\ inpos' = inpos + Len(Chunk)
      /\ left' = IF scan.rmoverlay THEN left - Len(Chunk) ELSE left
  BY DEF CopyChunk
<1>2. UNCHANGED <<Target, StubPart, Size, Source>>
  BY <1>1 DEF Target, InPlace, StubPart, CopiedHeader, Size, Source
<1>3. DOMAIN fs = Names /\ Target \in Names /\ cmd.arg \in Names
  BY <1>1, TargetNamed, InputNamed DEF TypeInv, FilesInv
<1>4. ASSUME Target # cmd.arg
      PROVE  CopyInv'
  <2> DEFINE off == scan.coffset
             n == inpos - off
  <2>1. /\ fs[cmd.arg] = Source
        /\ inpos = off \/ (inpos > off /\ inpos <= Len(Source))
        /\ fs[Target] = StubPart \o Region(Source, off, n)
        /\ left = IF scan.rmoverlay THEN Size - n ELSE Size
    BY <1>1, <1>4 DEF WriteInv, CopyInv
  <2>2. /\ Size \in Int /\ off \in Nat /\ Len(Source) \in Nat /\ IsSeq(Source)
        /\ inpos \in Nat /\ left \in Int
    BY <1>1, SizeIsInt, SourceNamed, ChunkFacts
  <2>3. Input = Source
    BY <2>1 DEF Input
  <2>4. PICK want \in Nat \ {0} : /\ Chunk = Region(Source, inpos, want)
                                  /\ Len(Chunk) = Have(Source, inpos, want)
    BY <1>1, <2>3, ChunkFacts
  <2>5. Len(Chunk) > 0
    <3>1. IsSeq(Chunk) /\ Len(Chunk) \in Nat
      BY <1>1, ChunkFacts, FileIsSeq
    <3> QED BY <1>1, <3>1, EmptyFacts
  <2>6. inpos < Len(Source) /\ inpos + Len(Chunk) <= Len(Source) /\ Len(Chunk) \in Nat
    BY <2>2, <2>4, <2>5 DEF Have
  <2>7. n \in Nat /\ off + n = inpos /\ off + n <= Len(Source)
    BY <2>1, <2>2, <2>6
  <2>8. Chunk = Region(Source, off + n, want)
    BY <2>4, <2>7
  <2>9. Region(Source, off, n) \o Chunk = Region(Source, off, n + want)
    <3> HIDE DEF n, off
    <3>1. want \in Nat /\ n \in Nat /\ off \in Nat /\ IsSeq(Source) /\ off + n <= Len(Source)
      BY <2>2, <2>7
    <3>2. Region(Source, off, n) \o Region(Source, off + n, want) = Region(Source, off, n + want)
      BY <3>1, RegionGoesOn
    <3> QED BY <2>8, <3>2
  <2>10. Region(Source, off, n + Len(Chunk)) = Region(Source, off, n + want)
    <3>1. n + Len(Chunk) = n + want \/ (off + (n + Len(Chunk)) >= Len(Source) /\ n + Len(Chunk) <= n + want)
      BY <2>2, <2>4, <2>6, <2>7 DEF Have
    <3>2. n + Len(Chunk) \in Nat /\ n + want \in Int
      BY <2>6, <2>7
    <3> DEFINE a == n + Len(Chunk)
               b == n + want
    <3> HIDE DEF a, b
    <3>3. a = b \/ (off + a >= Len(Source) /\ a <= b)
      BY <3>1 DEF a, b
    <3>4. a \in Nat /\ b \in Int
      BY <3>2 DEF a, b
    <3>5. Region(Source, off, a) = Region(Source, off, b)
      BY <2>2, <3>3, <3>4, RegionWhole
    <3> QED BY <3>5 DEF a, b
  <2>11. IsSeq(StubPart) /\ IsSeq(Chunk) /\ IsSeq(Region(Source, off, n))
    <3>1. IsRegion(Region(Source, off, n), Source, off, n)
      <4>1. n \in Int
        BY <2>7
      <4> HIDE DEF n, off
      <4> QED BY <2>2, <4>1, RegionFacts
    <3> QED BY <1>1, <3>1, StubPartSeq, ChunkFacts, FileIsSeq DEF IsRegion
  <2>12. fs'[Target] = (StubPart \o Region(Source, off, n)) \o Chunk
    BY <1>1, <1>3, <2>1
  <2>13. fs'[Target] = StubPart \o Region(Source, off, n + Len(Chunk))
    <3> DEFINE r == Region(Source, off, n)
    <3> HIDE DEF r
    <3>1. (StubPart \o r) \o Chunk = StubPart \o (r \o Chunk)
      BY <2>11, ConcatThree DEF r
    <3> QED BY <2>9, <2>10, <2>12, <3>1 DEF r
  <2>14. n + Len(Chunk) = inpos' - off
    BY <1>1, <2>2, <2>6
  <2>15. fs'[cmd.arg] = Source
    BY <1>1, <1>3, <1>4, <2>1
  <2>16. inpos' > off /\ inpos' <= Len(Source)
    BY <1>1, <2>1, <2>2, <2>5, <2>6
  <2>17. left' = IF scan.rmoverlay THEN Size - (inpos' - off) ELSE Size
    <3>1. CASE scan.rmoverlay
      <4>1. left' = left - Len(Chunk) /\ left = Size - n
        BY <1>1, <2>1, <3>1
      <4>2. Size - n - Len(Chunk) = Size - (n + Len(Chunk))
        BY <2>2, <2>6, <2>7
      <4> HIDE DEF n, off
      <4>3. left' = Size - (n + Len(Chunk))
        BY <4>1, <4>2
      <4> QED BY <2>14, <3>1, <4>3
    <3>2. CASE ~scan.rmoverlay
      BY <1>1, <2>1, <3>2
    <3> QED BY <3>1, <3>2
  <2>18. fs'[Target] = StubPart \o Region(Source, off, inpos' - off)
    BY <2>13, <2>14
  <2> QED BY <1>1, <1>2, <2>15, <2>16, <2>17, <2>18 DEF CopyInv
<1>5. CopyInv'
  BY <1>1, <1>2, <1>4 DEF CopyInv
<1> QED BY <1>1, <1>5 DEF WriteInv, Edited, Wrote

\* The loop ends when the count is used up or the input is: the copy is whole.
LEMMA CopyWhole ==
    ASSUME TypeInv, WriteInv, CopyEnds, Target # cmd.arg
    PROVE  fs[Target] = Output
<1> DEFINE off == scan.coffset
           n == inpos - off
<1>1. pc = "copy" /\ (left <= 0 \/ Chunk = << >>)
  BY DEF CopyEnds
<1>2. /\ fs[cmd.arg] = Source
      /\ inpos = off \/ (inpos > off /\ inpos <= Len(Source))
      /\ fs[Target] = StubPart \o Region(Source, off, n)
      /\ left = IF scan.rmoverlay THEN Size - n ELSE Size
  BY <1>1 DEF WriteInv, CopyInv
<1>3. /\ Size \in Int /\ off \in Nat /\ Len(Source) \in Nat /\ IsSeq(Source)
      /\ inpos \in Nat /\ left \in Int
      /\ ~scan.rmoverlay => Size = Len(Source) - off
  BY <1>1, SizeIsInt, SourceNamed, ChunkFacts
<1>4. n \in Nat /\ off + n = inpos
  BY <1>2, <1>3
<1>5. left >= 0 \/ inpos > Len(Source)
  BY <1>1 DEF TypeInv, CopyTyped, Source
<1>6. \/ n = Size
      \/ off + n >= Len(Source) /\ n <= Size
      \/ n = 0 /\ Size <= 0
  <2>1. CASE left <= 0
    <3>1. CASE scan.rmoverlay
      BY <1>2, <1>3, <1>4, <1>5, <2>1, <3>1
    <3>2. CASE ~scan.rmoverlay
      BY <1>2, <1>3, <1>4, <2>1, <3>2
    <3> QED BY <3>1, <3>2
  <2>2. CASE left > 0
    <3>1. PICK want \in Nat \ {0} : Len(Chunk) = Have(Source, inpos, want)
      BY <1>1, <1>2, <2>2, ChunkFacts DEF Input
    <3>2. Len(Chunk) = 0
      BY <1>1, <1>3, <2>2, EmptyFacts
    <3>3. inpos >= Len(Source)
      BY <1>3, <3>1, <3>2 DEF Have
    <3>4. n <= Size
      BY <1>2, <1>3, <1>4, <2>2, <3>3
    <3> QED BY <1>4, <3>3, <3>4
  <2> QED BY <1>3, <2>1, <2>2
<1>7. Region(Source, off, n) = Region(Source, off, Size)
  <2> DEFINE z == Size
  <2> HIDE DEF n, off, z
  <2>1. /\ n \in Nat /\ off \in Nat /\ z \in Int /\ IsSeq(Source)
        /\ n = z \/ (off + n >= Len(Source) /\ n <= z) \/ (n = 0 /\ z <= 0)
    BY <1>3, <1>4, <1>6 DEF z
  <2>2. Region(Source, off, n) = Region(Source, off, z)
    BY <2>1, RegionWhole
  <2> QED BY <2>2 DEF z
<1> QED BY <1>2, <1>7 DEF Output

LEMMA WriteEnds ==
    ASSUME TypeInv, WriteInv, CopyEnds
    PROVE  WriteInv'
<1>1. /\ UNCHANGED <<fs, opt, cmd, scan, before>> /\ pc = "copy"
      /\ InPlace => pc' = "move"
      /\ ~InPlace => pc' = "idle"
  BY DEF CopyEnds
<1>2. UNCHANGED <<Target, Output, InPlace>>
  BY <1>1 DEF Target, InPlace, Output, StubPart, CopiedHeader, Size, Source
<1>3. ~opt.gen
  BY <1>1 DEF TypeInv, KeepInv, PlaceInv
<1>4. CASE InPlace
  <2>1. Target = "tmp" /\ Target # cmd.arg
    BY <1>1, <1>4, InputNamed DEF Target
  <2>2. fs["tmp"] = Output
    BY <2>1, CopyWhole
  <2>3. pc' = "move" /\ fs'["tmp"] = Output'
    BY <1>1, <1>2, <1>4, <2>2
  <2> QED BY <2>3 DEF WriteInv, CopyInv, Edited, Wrote
<1>5. CASE ~InPlace
  <2>1. Target = opt.out /\ pc' = "idle"
    BY <1>1, <1>5 DEF Target
  <2>2. Edited' => Target # cmd.arg /\ Result' = fs[Target]
    BY <1>1, <1>2, <1>3, <1>5, <2>1 DEF Edited, Result, InPlace
  <2>3. Edited' => Result' = Output' /\ cmd'.arg # ""
    BY <1>1, <1>2, <2>2, CopyWhole DEF TypeInv, KeepInv, PlaceInv
  <2> QED BY <2>1, <2>3 DEF WriteInv, CopyInv
<1> QED BY <1>4, <1>5

\* The finished program comes to its place.
LEMMA WriteMoves ==
    ASSUME TypeInv, WriteInv, Rename \/ MoveTruncates \/ Refill \/ MoveUnlinks
    PROVE  WriteInv'
<1>1. /\ UNCHANGED <<opt, cmd, scan, before>>
      /\ pc \in {"move", "refill"} /\ pc' \in {"refill", "idle"}
  BY DEF Rename, MoveTruncates, Refill, MoveUnlinks
<1>2. UNCHANGED <<Output, InPlace>>
  BY <1>1 DEF InPlace, Output, StubPart, CopiedHeader, Size, Source
<1>3. /\ fs["tmp"] = Output /\ DOMAIN fs = Names /\ "tmp" \in Names
      /\ cmd.arg \in Names /\ cmd.arg # "tmp" /\ cmd.arg # ""
      /\ ~opt.gen /\ InPlace
  BY <1>1, InputNamed, FilesAssumption
  DEF WriteInv, TypeInv, FilesInv, KeepInv, PlaceInv
<1>4. Result' = fs'[cmd.arg]
  BY <1>1, <1>2, <1>3 DEF Result
<1>5. CASE Rename \/ MoveUnlinks
  <2>1. fs'[cmd.arg] = fs["tmp"] /\ pc' = "idle"
    BY <1>3, <1>5 DEF Rename, MoveUnlinks
  <2> QED BY <1>1, <1>2, <1>3, <1>4, <2>1 DEF WriteInv, CopyInv
<1>6. CASE MoveTruncates \/ Refill
  <2>1. fs'["tmp"] = fs["tmp"] /\ pc' = "refill"
    BY <1>3, <1>6 DEF MoveTruncates, Refill
  <2> QED BY <1>2, <1>3, <2>1 DEF WriteInv, CopyInv, Edited, Wrote
<1> QED BY <1>5, <1>6

LEMMA WriteStep ==
    ASSUME TypeInv, WriteInv, [Next]_vars
    PROVE  WriteInv'
<1>1. CASE \E c \in Commands : Start(c)
  <2>1. pc' \in {"generate", "open"}
    BY <1>1 DEF Start
  <2> QED BY <2>1, WriteElsewhere
<1>2. CASE Generate \/ CopyOverlay \/ OverlayEnds \/ Generated \/ OverlayFails
  <2>1. pc' = "link" \/ (pc' = "idle" /\ opt'.gen)
    BY <1>2 DEF Generate, CopyOverlay, OverlayEnds, Generated, OverlayFails, TypeInv, KeepInv, PlaceInv
  <2> QED BY <2>1, WriteElsewhere
<1>3. CASE OpenInput \/ StubHeader \/ ExeHeader \/ PayloadFound
  <2>1. pc' \in {"scan", "scanned"}
    BY <1>3 DEF OpenInput, StubHeader, ExeHeader, PayloadFound
  <2> QED BY <2>1, WriteElsewhere
<1>4. CASE Measure
  <2>1. /\ UNCHANGED <<fs, opt, cmd, before>> /\ pc = "scanned"
        /\ pc' = IF opt.info THEN "idle" ELSE "create"
        /\ left' = IF scan.size # 0 THEN scan.size ELSE Len(Input) - scan.coffset
        /\ inpos' = scan.coffset
        /\ scan'.coffset = scan.coffset /\ scan'.size = scan.size
    <3>1. scan' = IF scan.copied THEN scan
                  ELSE [scan EXCEPT !.hdr.words[0] = left']
      BY <1>4 DEF Measure
    <3>2. scan'.coffset = scan.coffset /\ scan'.size = scan.size
      BY <3>1 DEF TypeInv, ScanTyped
    <3> QED BY <1>4, <3>2 DEF Measure
  <2>2. Input = Source
    BY <2>1 DEF TypeInv, FilesInv, Input, Source
  <2>3. left' = Size' /\ inpos' = scan'.coffset
    BY <2>1, <2>2 DEF Size, Source
  <2>4. CASE opt.info
    BY <2>1, <2>4, WriteElsewhere
  <2>5. CASE ~opt.info
    BY <2>1, <2>3, <2>5 DEF WriteInv, CopyInv, Edited, Wrote
  <2> QED BY <2>4, <2>5
<1>5. CASE Create
  BY <1>5, WriteCreates
<1>6. CASE CopyChunk
  BY <1>6, WriteCopies
<1>7. CASE CopyEnds
  BY <1>7, WriteEnds
<1>8. CASE Rename \/ MoveTruncates \/ Refill \/ MoveUnlinks
  BY <1>8, WriteMoves
<1>9. CASE Reject \/ ScanFails \/ CreateFails \/ CopyFails \/ MoveFails \/ Kill
  <2>1. pc' = "idle" /\ ret' \in {1, 137}
    BY <1>9 DEF Reject, ScanFails, CreateFails, CopyFails, MoveFails, Kill
  <2>2. ret' # 0
    BY <2>1
  <2> QED BY <2>1, <2>2, WriteElsewhere
<1>10. CASE UNCHANGED vars
  <2>1. UNCHANGED <<fs, opt, cmd, scan, before, pc, left, inpos, ret, commands>>
    BY <1>10 DEF vars
  <2>2. UNCHANGED <<Output, StubPart, Size, Source, Target, Result, Edited>>
    BY <2>1 DEF Output, StubPart, CopiedHeader, Size, Source, Target, Result, InPlace, Edited, Wrote
  <2> QED BY <2>1, <2>2 DEF WriteInv, CopyInv
<1> QED
  BY <1>1, <1>2, <1>3, <1>4, <1>5, <1>6, <1>7, <1>8, <1>9, <1>10 DEF Next, Work, Faults

LEMMA WriteInductive == Spec => []WriteInv
<1>1. Init => WriteInv
  <2> SUFFICES ASSUME Init PROVE WriteInv
    OBVIOUS
  <2>1. pc = "idle" /\ commands = 0
    BY DEF Init
  <2>2. ~(commands > 0)
    BY <2>1
  <2> QED BY <2>1, <2>2 DEF WriteInv, CopyInv, Edited, Wrote
<1>2. TypeInv /\ WriteInv /\ [Next]_vars => WriteInv'
  BY WriteStep
<1> QED BY <1>1, <1>2, TypeInductive, PTL DEF Spec

-----------------------------------------------------------------------------
(* What the scan makes of a file whose header leads to a payload.          *)

SourceHeader == CellAt(Source, 0).hdr

\* The overlay that -r keeps has been looked up.
PickedBy(s, h) ==
    /\ opt.rmstub /\ find_idx(KeptType(h), h) # -1
    /\ s.coffset = h.lfanew + find_offs(KeptType(h), h)
    /\ s.size = find_size(KeptType(h), h)
    /\ s.copied = TRUE

\* The header has been copied, or, for -s, all of it but the last overlay.
SeenBy(s, h) ==
    /\ ~opt.rmstub /\ s.coffset = h.lfanew /\ s.copied = TRUE
    /\ Stripping(h) =>
         /\ Walk(h).passed > 1
         /\ s.size = SlotOffs(h, Walk(h).passed) - Walk(h).size
         /\ s.hdr = [h EXCEPT !.words[Walk(h).passed - 1] = 0]
    /\ ~Stripping(h) => s.size = 0 /\ s.hdr = h

\* There was no header of ours, and the payload has been found.
BareBy(s, h) ==
    /\ HasCell(Source, HeaderEnd(Source))
    /\ s.coffset = HeaderEnd(Source) /\ s.size = 0
    /\ s.copied = FALSE /\ s.hdr = h

FoundBy(s, h) ==
    \/ StartsWith(Source, "mz") /\ (PickedBy(s, SourceHeader) \/ SeenBy(s, SourceHeader))
    \/ ~StartsWith(Source, "mz") /\ BareBy(s, h)

SizedHeader == [FreshHeader EXCEPT !.words[0] = Len(Source) - HeaderEnd(Source)]

ScanInv ==
    (OneHeader(Source) /\ ~opt.gen) =>
        /\ pc = "scan" =>
             \/ scan = ScanStart
             \/ StartsWith(Source, "mz") /\ SeenBy(scan, SourceHeader)
             \/ /\ StartsWith(Source, "exe")
                /\ scan = [ScanStart EXCEPT !.coffset = HeaderEnd(Source)]
        /\ pc = "scanned" => FoundBy(scan, FreshHeader)
        /\ pc \in {"create", "copy", "move", "refill"} => FoundBy(scan, SizedHeader)
        /\ Edited => FoundBy(scan, SizedHeader)

\* Where nothing has been found, nothing is promised.
LEMMA ScanElsewhere ==
    ASSUME pc' \in {"generate", "link", "open"}
             \/ (pc' = "idle" /\ (ret' # 0 \/ opt'.gen \/ opt'.info))
    PROVE  ScanInv'
BY DEF ScanInv, Edited, Wrote

\* What has been found stays found.
LEMMA ScanKept ==
    ASSUME ScanInv, UNCHANGED <<opt, cmd, scan, before>>,
           pc \in {"create", "copy", "move", "refill"},
           pc' \in {"create", "copy", "move", "refill", "idle"}
    PROVE  ScanInv'
<1>1. UNCHANGED <<Source, SourceHeader, SizedHeader>>
  BY DEF Source, SourceHeader, SizedHeader
<1>2. FoundBy(scan, SizedHeader)' <=> FoundBy(scan, SizedHeader)
  BY <1>1 DEF FoundBy, PickedBy, SeenBy, BareBy, Stripping
<1> QED BY <1>1, <1>2 DEF ScanInv

\* One step of the scan.
LEMMA ScanTurns ==
    ASSUME TypeInv, ScanInv, StubHeader \/ ExeHeader \/ PayloadFound
    PROVE  ScanInv'
<1> SUFFICES ASSUME OneHeader(Source), ~opt.gen PROVE ScanInv'
  <2>1. UNCHANGED <<Source, opt>>
    BY DEF StubHeader, ExeHeader, PayloadFound, Source
  <2> QED BY <2>1 DEF ScanInv
<1>1. /\ UNCHANGED <<opt, cmd, before>> /\ pc = "scan" /\ pc' \in {"scan", "scanned"}
  BY DEF StubHeader, ExeHeader, PayloadFound
<1>2. UNCHANGED <<Source, SourceHeader>> /\ Input = Source
  BY <1>1 DEF Source, SourceHeader, Input, TypeInv, FilesInv
<1>3. \/ scan = ScanStart
      \/ StartsWith(Source, "mz") /\ SeenBy(scan, SourceHeader)
      \/ StartsWith(Source, "exe") /\ scan = [ScanStart EXCEPT !.coffset = HeaderEnd(Source)]
  BY <1>1 DEF ScanInv
<1>4. scan = ScanStart => scan.coffset = 0
  BY ScanStartTyped
<1>5. scan # ScanStart => scan.coffset = HeaderEnd(Source)
  BY <1>3, ScanStartTyped DEF SeenBy, HeaderEnd, SourceHeader
<1>6. scan # ScanStart => ~HereIs("mz") /\ ~HereIs("exe")
  BY <1>2, <1>5 DEF OneHeader, HereIs
<1>7. scan = ScanStart => \A kind : HereIs(kind) <=> StartsWith(Source, kind)
  BY <1>2, <1>4 DEF HereIs, StartsWith
<1>8. CASE StubHeader
  <2>1. scan = ScanStart /\ StartsWith(Source, "mz") /\ Here = SourceHeader
    BY <1>2, <1>4, <1>6, <1>7, <1>8 DEF StubHeader, Here, SourceHeader
  <2> DEFINE h == SourceHeader
             w == Walk(h)
             keep == KeptType(h)
             rm == scan.rmoverlay \/ opt.rmstub \/ opt.strip
             seen == [scan EXCEPT !.stubv = h.ver, !.copied = TRUE, !.hdr = h,
                                  !.coffset = h.lfanew, !.rmoverlay = rm]
  <2>2. /\ seen = [coffset |-> h.lfanew, size |-> scan.size, rmoverlay |-> rm,
                   copied |-> TRUE, stubv |-> h.ver, hdr |-> h]
        /\ scan.size = 0
    <3>1. scan = [coffset |-> scan.coffset, size |-> scan.size,
                  rmoverlay |-> scan.rmoverlay, copied |-> scan.copied,
                  stubv |-> scan.stubv, hdr |-> scan.hdr]
      BY DEF TypeInv, ScanTyped
    <3>2. scan.size = 0
      BY <2>1, ScanStartTyped
    <3>3. seen = [scan EXCEPT !.stubv = h.ver, !.copied = TRUE, !.hdr = h,
                              !.coffset = h.lfanew, !.rmoverlay = rm]
      OBVIOUS
    <3> HIDE DEF rm, h, seen
    <3>4. seen = [coffset |-> h.lfanew, size |-> scan.size, rmoverlay |-> rm,
                  copied |-> TRUE, stubv |-> h.ver, hdr |-> h]
      BY <3>1, <3>3
    <3> QED BY <3>2, <3>4
  <2>3. CASE opt.rmstub
    <3>1. /\ find_idx(keep, h) # -1 /\ pc' = "scanned"
          /\ scan' = [seen EXCEPT !.coffset = @ + find_offs(keep, h),
                                  !.size = find_size(keep, h)]
      BY <1>8, <2>1, <2>3 DEF StubHeader
    <3> HIDE DEF rm, seen
    <3>2. /\ scan'.coffset = h.lfanew + find_offs(keep, h)
          /\ scan'.size = find_size(keep, h) /\ scan'.copied = TRUE
      BY <2>2, <3>1
    <3>3. PickedBy(scan, SourceHeader)'
      BY <1>1, <1>2, <2>3, <3>1, <3>2 DEF PickedBy
    <3> QED BY <1>1, <1>2, <2>1, <3>1, <3>3 DEF ScanInv, FoundBy, Edited, Wrote
  <2>4. CASE ~opt.rmstub
    <3> DEFINE size == SlotOffs(h, w.passed) - w.size
    <3>1. /\ pc' = "scan" /\ (Stripping(h) => w.passed > 1)
          /\ scan' = IF Stripping(h)
                     THEN [seen EXCEPT !.size = size, !.hdr.words[w.passed - 1] = 0]
                     ELSE seen
      BY <1>1, <1>8, <2>1, <2>4 DEF StubHeader
    <3>2. UNCHANGED Stripping(h)
      BY <1>1, <1>2 DEF Stripping
    <3>3. SeenBy(scan, SourceHeader)'
      <4>1. CASE Stripping(h)
        <5> DEFINE clear == [h EXCEPT !.words[w.passed - 1] = 0]
        <5>1. scan' = [seen EXCEPT !.size = size, !.hdr = clear]
          BY <2>2, <3>1, <4>1
        <5> HIDE DEF rm, seen, size, clear
        <5>2. /\ scan'.coffset = h.lfanew /\ scan'.copied = TRUE
              /\ scan'.size = size /\ scan'.hdr = clear
          BY <2>2, <5>1
        <5>3. w.passed > 1 /\ ~opt'.rmstub /\ SourceHeader' = h /\ Stripping(h)'
          BY <1>1, <1>2, <2>4, <3>1, <3>2, <4>1
        <5> QED BY <5>2, <5>3 DEF SeenBy, size, clear
      <4>2. CASE ~Stripping(h)
        <5>1. scan' = seen
          BY <3>1, <4>2
        <5> HIDE DEF rm, seen
        <5>2. /\ scan'.coffset = h.lfanew /\ scan'.copied = TRUE
              /\ scan'.size = 0 /\ scan'.hdr = h
          BY <2>2, <5>1
        <5>3. ~opt'.rmstub /\ SourceHeader' = h /\ ~Stripping(h)'
          BY <1>1, <1>2, <2>4, <3>2, <4>2
        <5> QED BY <5>2, <5>3 DEF SeenBy
      <4> QED BY <4>1, <4>2
    <3> QED BY <1>1, <1>2, <2>1, <3>1, <3>3 DEF ScanInv, Edited, Wrote
  <2> QED BY <2>3, <2>4
<1>9. CASE ExeHeader
  <2>1. scan = ScanStart /\ StartsWith(Source, "exe") /\ pc' = "scan"
    BY <1>1, <1>6, <1>7, <1>9 DEF ExeHeader
  <2>2. HeaderEnd(Source) = CellAt(Source, 0).end
    BY <2>1 DEF HeaderEnd, StartsWith
  <2>3. scan' = [scan EXCEPT !.coffset = 0 + HeaderEnd(Source)]
    BY <1>2, <1>4, <1>9, <2>1, <2>2 DEF ExeHeader
  <2>4. HeaderEnd(Source) \in Nat
    <3>1. IsFile(Source) /\ Len(Source) \in Nat
      BY <1>1, SourceNamed
    <3>2. 1 \in DOMAIN Source
      BY <2>1, <3>1, FileIsSeq, SeqFacts DEF StartsWith, HasCell
    <3>3. Sound(Source[1])
      BY <3>1, <3>2, FileCells
    <3> QED BY <2>1, <2>2, <3>3 DEF Sound, StartsWith, CellAt
  <2>5. scan' = [ScanStart EXCEPT !.coffset = HeaderEnd(Source)]
    BY <2>1, <2>3, <2>4
  <2> QED BY <1>1, <1>2, <2>1, <2>5 DEF ScanInv, Edited, Wrote
<1>10. CASE PayloadFound
  <2>1. /\ pc' = "scanned" /\ scan' = scan
        /\ HasCell(Source, scan.coffset) /\ ~HereIs("mz") /\ ~HereIs("exe")
    BY <1>2, <1>10 DEF PayloadFound
  <2>2. FoundBy(scan, FreshHeader)
    <3>1. CASE scan = ScanStart
      <4>1. ~StartsWith(Source, "mz") /\ ~StartsWith(Source, "exe")
        BY <1>7, <2>1, <3>1
      <4>2. HeaderEnd(Source) = 0
        BY <4>1 DEF HeaderEnd
      <4>3. scan.hdr = FreshHeader
        BY <3>1 DEF ScanStart
      <4> QED BY <2>1, <3>1, <4>1, <4>2, <4>3, ScanStartTyped DEF FoundBy, BareBy
    <3>2. CASE StartsWith(Source, "mz") /\ SeenBy(scan, SourceHeader)
      BY <3>2 DEF FoundBy
    <3>3. CASE /\ StartsWith(Source, "exe")
               /\ scan = [ScanStart EXCEPT !.coffset = HeaderEnd(Source)]
      <4>1. ~StartsWith(Source, "mz")
        BY <3>3 DEF StartsWith
      <4>2. /\ scan.coffset = HeaderEnd(Source) /\ scan.size = 0 /\ scan.copied = FALSE
            /\ scan.hdr = FreshHeader
        BY <3>3 DEF ScanStart
      <4> QED BY <2>1, <4>1, <4>2 DEF FoundBy, BareBy
    <3> QED BY <1>3, <3>1, <3>2, <3>3
  <2>3. FoundBy(scan, FreshHeader)'
    BY <1>1, <1>2, <2>1, <2>2
    DEF FoundBy, PickedBy, SeenBy, BareBy, Stripping
  <2> QED BY <2>1, <2>3 DEF ScanInv, Edited, Wrote
<1> QED BY <1>8, <1>9, <1>10

LEMMA ScanMeasures ==
    ASSUME TypeInv, ScanInv, Measure
    PROVE  ScanInv'
<1> DEFINE size == IF scan.size # 0 THEN scan.size ELSE Len(Input) - scan.coffset
<1>1. /\ UNCHANGED <<opt, cmd, before>> /\ pc = "scanned"
      /\ pc' = IF opt.info THEN "idle" ELSE "create"
      /\ scan' = IF scan.copied THEN scan ELSE [scan EXCEPT !.hdr.words[0] = size]
  BY DEF Measure
<1>2. UNCHANGED <<Source, SourceHeader, SizedHeader>> /\ Input = Source
  BY <1>1 DEF Source, SourceHeader, SizedHeader, Input, TypeInv, FilesInv
<1>3. CASE opt.info
  BY <1>1, <1>3, ScanElsewhere
<1>4. CASE ~opt.info
  <2> SUFFICES ASSUME OneHeader(Source), ~opt.gen PROVE FoundBy(scan, SizedHeader)'
    BY <1>1, <1>2, <1>4 DEF ScanInv, Edited, Wrote
  <2>1. FoundBy(scan, FreshHeader)
    BY <1>1 DEF ScanInv
  <2>2. CASE StartsWith(Source, "mz")
    <3>1. scan' = scan
      BY <1>1, <2>1, <2>2 DEF FoundBy, PickedBy, SeenBy
    <3> QED BY <1>1, <1>2, <2>1, <2>2, <3>1 DEF FoundBy, PickedBy, SeenBy, Stripping
  <2>3. CASE ~StartsWith(Source, "mz")
    <3>1. BareBy(scan, FreshHeader)
      BY <2>1, <2>3 DEF FoundBy
    <3>2. /\ scan' = [scan EXCEPT !.hdr.words[0] = size]
          /\ size = Len(Source) - HeaderEnd(Source)
      BY <1>1, <1>2, <3>1 DEF BareBy
    <3>3. scan'.hdr = [scan.hdr EXCEPT !.words[0] = size]
      BY <3>2 DEF TypeInv, ScanTyped
    <3>4. scan'.hdr = SizedHeader
      BY <3>1, <3>2, <3>3 DEF SizedHeader, BareBy
    <3>5. scan'.coffset = scan.coffset /\ scan'.size = scan.size /\ scan'.copied = scan.copied
      BY <3>2 DEF TypeInv, ScanTyped
    <3> QED BY <1>2, <2>3, <3>1, <3>4, <3>5 DEF FoundBy, BareBy
  <2> QED BY <2>2, <2>3
<1> QED BY <1>3, <1>4

LEMMA ScanStep ==
    ASSUME TypeInv, ScanInv, [Next]_vars
    PROVE  ScanInv'
<1>1. CASE \E c \in Commands : Start(c)
  <2>1. pc' \in {"generate", "open"}
    BY <1>1 DEF Start
  <2> QED BY <2>1, ScanElsewhere
<1>2. CASE Generate \/ CopyOverlay \/ OverlayEnds \/ Generated \/ OverlayFails
  <2>1. pc' = "link" \/ (pc' = "idle" /\ opt'.gen)
    BY <1>2 DEF Generate, CopyOverlay, OverlayEnds, Generated, OverlayFails, TypeInv, KeepInv, PlaceInv
  <2> QED BY <2>1, ScanElsewhere
<1>3. CASE OpenInput
  <2>1. pc' = "scan" /\ scan' = scan /\ scan = ScanStart
    BY <1>3 DEF OpenInput, TypeInv, ScanTyped
  <2> QED BY <2>1 DEF ScanInv, Edited, Wrote
<1>4. CASE StubHeader \/ ExeHeader \/ PayloadFound
  BY <1>4, ScanTurns
<1>5. CASE Measure
  BY <1>5, ScanMeasures
<1>6. CASE Create \/ CopyChunk \/ CopyEnds
  <2>1. /\ UNCHANGED <<opt, cmd, scan, before>> /\ pc \in {"create", "copy"}
        /\ pc' \in {"copy", "move", "idle"}
    BY <1>6 DEF Create, CopyChunk, CopyEnds
  <2> QED BY <2>1, ScanKept
<1>7. CASE Rename \/ MoveTruncates \/ Refill \/ MoveUnlinks
  <2>1. /\ UNCHANGED <<opt, cmd, scan, before>> /\ pc \in {"move", "refill"}
        /\ pc' \in {"refill", "idle"}
    BY <1>7 DEF Rename, MoveTruncates, Refill, MoveUnlinks
  <2> QED BY <2>1, ScanKept
<1>8. CASE Reject \/ ScanFails \/ CreateFails \/ CopyFails \/ MoveFails \/ Kill
  <2>1. pc' = "idle" /\ ret' \in {1, 137}
    BY <1>8 DEF Reject, ScanFails, CreateFails, CopyFails, MoveFails, Kill
  <2>2. ret' # 0
    BY <2>1
  <2> QED BY <2>1, <2>2, ScanElsewhere
<1>9. CASE UNCHANGED vars
  <2>1. UNCHANGED <<fs, opt, cmd, scan, before, pc, ret, commands>>
    BY <1>9 DEF vars
  <2>2. UNCHANGED <<Source, SourceHeader, SizedHeader, Edited>>
    BY <2>1 DEF Source, SourceHeader, SizedHeader, Edited, Wrote
  <2> QED BY <2>1, <2>2 DEF ScanInv, FoundBy, PickedBy, SeenBy, BareBy, Stripping
<1> QED
  BY <1>1, <1>2, <1>3, <1>4, <1>5, <1>6, <1>7, <1>8, <1>9 DEF Next, Work, Faults

LEMMA ScanInductive == Spec => []ScanInv
<1>1. Init => ScanInv
  <2> SUFFICES ASSUME Init PROVE ScanInv
    OBVIOUS
  <2>1. pc = "idle" /\ commands = 0
    BY DEF Init
  <2>2. ~(commands > 0)
    BY <2>1
  <2> QED BY <2>1, <2>2 DEF ScanInv, Edited, Wrote
<1>2. TypeInv /\ ScanInv /\ [Next]_vars => ScanInv'
  BY ScanStep
<1> QED BY <1>1, <1>2, TypeInductive, PTL DEF Spec

-----------------------------------------------------------------------------
(* What the stub makes of a program that coff2exe has written.              *)

\* A command that has edited a file knows where, what and behind which header.
LEMMA EditedFacts ==
    ASSUME TypeInv, WriteInv, Edited
    PROVE  /\ IsFile(Source) /\ IsSeq(Source) /\ Len(Source) \in Nat
           /\ CopiedHeader \in Headers /\ CopiedHeader.lfanew = cmd.stub
           /\ CopiedHeader.lfanew # 0 /\ CopiedHeader.words = scan.hdr.words
           /\ scan.coffset \in Nat /\ scan.size \in Nat /\ scan.hdr \in Headers
           /\ Result = StubPart \o Region(Source, scan.coffset, Size)
<1>1. commands > 0 /\ ~opt.gen
  BY DEF Edited, Wrote
<1>2. cmd \in Commands /\ cmd.arg # ""
  BY <1>1 DEF TypeInv, KeepInv, PlaceInv, WriteInv
<1>3. cmd.arg \in Names
  BY <1>2, CommandsAssumption
<1>4. IsFile(Source)
  BY <1>3 DEF TypeInv, FilesInv, Source
<1>5. Result = Output
  BY DEF WriteInv
<1> QED
  BY <1>1, <1>4, <1>5, FileIsSeq, CopiedFits, StubNamed DEF TypeInv, ScanTyped, Output

\* The header of a file with one header leads to no other.
LEMMA SourceDescribed ==
    ASSUME IsFile(Source), StartsWith(Source, "mz"), OneHeader(Source)
    PROVE  /\ Describes(Source, SourceHeader) /\ SourceHeader \in Headers
           /\ HasCell(Source, SourceHeader.lfanew) =>
                CellAt(Source, SourceHeader.lfanew).what # "mz"
<1>1. HeaderEnd(Source) = SourceHeader.lfanew
  BY DEF HeaderEnd, SourceHeader
<1>2. Describes(Source, SourceHeader)
  BY <1>1 DEF Describes, OneHeader, SourceHeader
<1> QED BY <1>2, DescribedHeader DEF Describes

\* Without a header the tool copies what the file is beyond its exe part.
LEMMA BareIsRest ==
    ASSUME TypeInv, WriteInv, Edited, ~StartsWith(Source, "mz"), BareBy(scan, SizedHeader)
    PROVE  Region(Source, scan.coffset, Size) = Bare(Source)
<1> DEFINE e == HeaderEnd(Source)
<1>1. /\ IsSeq(Source) /\ Len(Source) \in Nat
      /\ HasCell(Source, e) /\ scan.coffset = e /\ e \in Nat /\ Size = Len(Source) - e
  BY EditedFacts DEF BareBy, Size
<1>2. Size \in Nat \ {0} /\ e + Size = Len(Source)
  BY <1>1 DEF HasCell
<1>3. Region(Source, e, Size) = From(Source, e)
  BY <1>1, <1>2, RestIsRegion
<1>4. CASE StartsWith(Source, "exe")
  BY <1>1, <1>3, <1>4 DEF HeaderEnd, Bare
<1>5. CASE ~StartsWith(Source, "exe")
  <2>1. e = 0
    BY <1>5 DEF HeaderEnd
  <2> QED BY <1>1, <1>3, <1>5, <2>1, FromStart DEF Bare
<1> QED BY <1>4, <1>5

LEMMA RestubHolds ==
    ASSUME TypeInv, WriteInv, ScanInv
    PROVE  RestubKeeps
<1> SUFFICES ASSUME Edited, ~opt.rmstub, ~opt.strip, Plain(Source)
             PROVE  /\ StartsWith(Source, "mz") => StubRegions(Result) = StubRegions(Source)
                    /\ ~StartsWith(Source, "mz") =>
                          StubRegions(Result) = <<Bare(Source), << >>, << >>>>
  BY DEF RestubKeeps
<1> DEFINE h == CopiedHeader
           g == SourceHeader
           z == Size
<1>1. /\ IsFile(Source) /\ IsSeq(Source) /\ Len(Source) \in Nat
      /\ h \in Headers /\ h.lfanew # 0 /\ h.words = scan.hdr.words
      /\ Result = Stub(h, h.lfanew) \o Region(Source, scan.coffset, z)
  BY EditedFacts DEF StubPart
<1>2. FoundBy(scan, SizedHeader) /\ OneHeader(Source)
  BY DEF ScanInv, Plain, Edited
<1>3. CASE StartsWith(Source, "mz")
  <2>1. /\ Describes(Source, g) /\ g \in Headers /\ Packed(g)
        /\ HasCell(Source, g.lfanew) => CellAt(Source, g.lfanew).what # "mz"
    BY <1>1, <1>2, <1>3, SourceDescribed DEF Plain, SourceHeader
  <2>2. scan.coffset = g.lfanew /\ scan.size = 0 /\ scan.hdr = g
    BY <1>2, <1>3 DEF FoundBy, PickedBy, SeenBy, Stripping
  <2>3. g.lfanew \in Nat
    BY <2>1, HeaderFields
  <2>4. z \in Int /\ Len(Source) <= g.lfanew + z
    BY <1>1, <2>2, <2>3 DEF Size
  <2>5. h.words = g.words
    BY <1>1, <2>2
  <2>6. Packed(h)
    BY <2>1, <2>5 DEF Packed
  <2> HIDE DEF h, g, z
  <2>7. Result = Stub(h, h.lfanew) \o Region(Source, g.lfanew, z)
    BY <1>1, <2>2
  <2>8. Describes(Result, h)
    BY <1>1, <2>1, <2>3, <2>4, <2>7, CopiedFile
  <2>9. \A n \in 1 .. 3 : Overlay(Result, h, n) = Overlay(Source, g, n)
    <3>1. h \in Headers /\ h.lfanew # 0 /\ IsFile(Source) /\ g \in Headers /\ z \in Int
      BY <1>1, <2>1, <2>4
    <3>2. ASSUME NEW n \in 1 .. 3
          PROVE  Overlay(Stub(h, h.lfanew) \o Region(Source, g.lfanew, z), h, n)
                   = Overlay(Source, g, n)
      <4>1. \A s \in 0 .. n - 1 : h.words[s] = g.words[s]
        BY <2>5
      <4>2. SlotOffs(g, n) <= z \/ Len(Source) <= g.lfanew + z
        BY <2>4
      <4> QED BY <3>1, <4>1, <4>2, CopiedOverlay
    <3> QED BY <2>7, <3>2
  <2>10. StubRegions(Result) = <<Overlay(Result, h, 1), Overlay(Result, h, 2), Overlay(Result, h, 3)>>
    BY <2>6, <2>8, PackedRegions
  <2>11. StubRegions(Source) = <<Overlay(Source, g, 1), Overlay(Source, g, 2), Overlay(Source, g, 3)>>
    BY <2>1, PackedRegions
  <2> QED BY <1>3, <2>9, <2>10, <2>11
<1>4. CASE ~StartsWith(Source, "mz")
  <2> DEFINE e == HeaderEnd(Source)
             t == Region(Source, e, z)
  <2>1. BareBy(scan, SizedHeader)
    BY <1>2, <1>4 DEF FoundBy
  <2>2. /\ HasCell(Source, e) /\ scan.coffset = e /\ e \in Nat
        /\ z = Len(Source) - e /\ h.words = SizedHeader.words
    BY <1>1, <2>1, EditedFacts DEF BareBy, Size
  <2>3. z \in Nat \ {0} /\ e + z = Len(Source)
    BY <1>1, <2>2 DEF HasCell
  <2>4. h.words[0] = z /\ h.words[1] = 0 /\ h.words[2] = 0
    BY <2>2 DEF SizedHeader, FreshHeader, Header, Slots
  <2>5. t = Bare(Source)
    BY <1>4, <2>1, <2>2, BareIsRest
  <2>6. CellAt(Source, e).what # "mz"
    BY <1>2, <2>2 DEF OneHeader
  <2>7. Packed(h)
    BY <2>3, <2>4 DEF Packed
  <2> HIDE DEF h, z, e
  <2>8. Result = Stub(h, h.lfanew) \o t
    BY <1>1, <2>2
  <2>9. Describes(Result, h)
    <3>1. z \in Int
      BY <2>3
    <3> QED BY <1>1, <2>2, <2>6, <2>8, <3>1, CopiedFile
  <2>10. StubRegions(Result) = <<Overlay(Result, h, 1), Overlay(Result, h, 2), Overlay(Result, h, 3)>>
    BY <2>7, <2>9, PackedRegions
  <2>11. /\ h.lfanew \in Nat \ {0} /\ h.words \in [Slots -> Nat]
         /\ IsSeq(Result)
    BY <1>1, <2>9, HeaderFields, FileIsSeq DEF Describes
  <2>12. Overlay(Result, h, 1) = t
    <3>1. Len(Stub(h, h.lfanew)) = h.lfanew /\ IsSeq(Stub(h, h.lfanew))
      BY <1>1, <2>11, StubFile, FileIsSeq
    <3>2. IsSeq(t) /\ Len(t) = z
      <4>1. IsRegion(Region(Source, e, z), Source, e, z) /\ z \in Int
        BY <1>1, <2>2, <2>3, RegionFacts
      <4>2. Have(Source, e, z) = z
        BY <1>1, <2>2, <2>3 DEF Have, HasCell
      <4> QED BY <4>1, <4>2 DEF IsRegion
    <3>3. Region(Stub(h, h.lfanew) \o t, h.lfanew, z) = t
      <4> HIDE DEF t
      <4> QED BY <3>1, <3>2, RegionAppended
    <3>4. h.lfanew + SlotOffs(h, 0) = h.lfanew
      BY <2>11, SlotSum
    <3> QED BY <2>4, <2>8, <3>3, <3>4 DEF Overlay
  <2>13. Overlay(Result, h, 2) = << >>
    <3>1. h.lfanew + SlotOffs(h, 1) \in Nat
      BY <2>4, <2>3, <2>11, SlotSum
    <3> QED BY <2>4, <2>11, <3>1, EmptyRegion DEF Overlay
  <2>14. Overlay(Result, h, 3) = << >>
    <3>1. h.lfanew + SlotOffs(h, 2) \in Nat
      BY <2>4, <2>3, <2>11, SlotSum
    <3> QED BY <2>4, <2>11, <3>1, EmptyRegion DEF Overlay
  <2> QED BY <1>4, <2>5, <2>10, <2>12, <2>13, <2>14
<1> QED BY <1>3, <1>4

LEMMA StripHolds ==
    ASSUME TypeInv, WriteInv, ScanInv
    PROVE  StripExact
<1> SUFFICES ASSUME Edited, opt.strip, ~opt.rmstub, OneHeader(Source), DebugIsLast(Source)
             PROVE  LET last == Walk(SourceHeader).passed
                        was == StubRegions(Source)
                        is == StubRegions(Result)
                    IN  /\ \A k \in 1 .. 3 : is[k] = IF k = last THEN << >> ELSE was[k]
                        /\ Len(From(Result, cmd.stub)) = Len(is[1]) + Len(is[2]) + Len(is[3])
  BY DEF StripExact, SourceHeader
<1> DEFINE h == CopiedHeader
           g == SourceHeader
           last == Walk(g).passed
           z == Size
           t == Region(Source, g.lfanew, z)
<1>1. /\ IsFile(Source) /\ IsSeq(Source) /\ Len(Source) \in Nat
      /\ h \in Headers /\ h.lfanew # 0 /\ h.lfanew = cmd.stub /\ h.words = scan.hdr.words
      /\ Result = Stub(h, h.lfanew) \o Region(Source, scan.coffset, z)
  BY EditedFacts DEF StubPart
<1>2. StartsWith(Source, "mz") /\ FoundBy(scan, SizedHeader)
  BY DEF ScanInv, DebugIsLast, Edited
<1>3. /\ Describes(Source, g) /\ g \in Headers
      /\ HasCell(Source, g.lfanew) => CellAt(Source, g.lfanew).what # "mz"
  BY <1>1, <1>2, SourceDescribed
<1>4. /\ g.words \in [Slots -> Nat] /\ g.lfanew \in Nat
      /\ g.words[0] \in Nat /\ g.words[1] \in Nat /\ g.words[2] \in Nat /\ g.words[3] \in Nat
  BY <1>3, HeaderFields
<1>5. /\ Walk(g).type \in DebugTypes /\ Walk(g).size > 0
      /\ \A s \in Slots \ {NameWord} : s >= last => g.words[s] = 0
  BY DEF DebugIsLast, SourceHeader
<1>6. /\ last > 1 /\ scan.coffset = g.lfanew
      /\ scan.size = SlotOffs(g, last) - Walk(g).size
      /\ scan.hdr = [g EXCEPT !.words[last - 1] = 0]
  BY <1>2, <1>5 DEF FoundBy, PickedBy, SeenBy, Stripping
<1>7. /\ last \in 2 .. 4 /\ Walk(g).size = g.words[last - 1]
      /\ \A s \in Slots : s < last => g.words[s] # 0
  BY <1>3, <1>5, <1>6, WalkFacts
<1>8. h.words = [g.words EXCEPT ![last - 1] = 0]
  BY <1>1, <1>3, <1>6 DEF Headers
<1> HIDE DEF h, g, last
<1>9. /\ SlotOffs(g, last) = SlotOffs(g, last - 1) + g.words[last - 1]
      /\ SlotOffs(g, last - 1) \in Nat \ {0}
  <2>1. g.words[0] > 0 /\ g.words[1] > 0
    BY <1>4, <1>7 DEF Slots
  <2>2. CASE last = 2
    BY <1>4, <2>1, <2>2, SlotSum
  <2>3. CASE last = 3
    BY <1>4, <2>1, <2>3, SlotSum
  <2>4. CASE last = 4
    BY <1>4, <2>1, <2>4, SlotSum
  <2> QED BY <1>7, <2>2, <2>3, <2>4
<1>10. z = SlotOffs(g, last - 1) /\ z \in Int
  <2>1. g.words[last - 1] \in Nat
    <3>1. last - 1 \in Slots
      BY <1>7 DEF Slots
    <3> QED BY <1>4, <3>1
  <2>2. scan.size = SlotOffs(g, last - 1)
    BY <1>6, <1>7, <1>9, <2>1
  <2> QED BY <1>9, <2>2 DEF Size
<1> HIDE DEF z
<1>11. Result = Stub(h, h.lfanew) \o t
  BY <1>1, <1>6
<1>12. Describes(Result, h) /\ From(Result, h.lfanew) = t
  <2> DEFINE off == g.lfanew
  <2>1. h \in Headers /\ h.lfanew # 0 /\ IsFile(Source) /\ off \in Nat /\ z \in Int
    BY <1>1, <1>4, <1>10
  <2>2. HasCell(Source, off) => CellAt(Source, off).what # "mz"
    BY <1>3
  <2> HIDE DEF off
  <2>3. LET f == Stub(h, h.lfanew) \o Region(Source, off, z)
        IN  Describes(f, h) /\ From(f, h.lfanew) = Region(Source, off, z)
    BY <2>1, <2>2, CopiedFile
  <2> QED BY <1>11, <2>3 DEF off
<1>13. /\ h.words[0] = IF last = 1 THEN 0 ELSE g.words[0]
       /\ h.words[1] = IF last = 2 THEN 0 ELSE g.words[1]
       /\ h.words[2] = IF last = 3 THEN 0 ELSE g.words[2]
  <2>1. 0 \in Slots /\ 1 \in Slots /\ 2 \in Slots
    BY DEF Slots
  <2>2. \A s \in Slots : h.words[s] = IF s = last - 1 THEN 0 ELSE g.words[s]
    BY <1>4, <1>8
  <2> QED BY <1>7, <2>1, <2>2
<1>14. /\ last <= 2 => g.words[2] = 0
       /\ last > 2 => g.words[2] # 0
       /\ g.words[0] # 0 /\ g.words[1] # 0
  BY <1>5, <1>7 DEF Slots, NameWord
<1>15. Packed(g) /\ Packed(h)
  BY <1>7, <1>13, <1>14 DEF Packed
<1>16. /\ \A n \in 1 .. 3 : StubRegions(Source)[n] = Overlay(Source, g, n)
       /\ \A n \in 1 .. 3 : StubRegions(Result)[n] = Overlay(Result, h, n)
  BY <1>3, <1>12, <1>15, PackedRegions
<1>17. /\ h.words \in [Slots -> Nat] /\ h.lfanew \in Nat
       /\ h.words[0] \in Nat /\ h.words[1] \in Nat /\ h.words[2] \in Nat
  BY <1>1, HeaderFields
<1>18. \A n \in 1 .. 3 : SlotOffs(g, n - 1) \in Nat /\ SlotOffs(h, n - 1) \in Nat
  BY <1>4, <1>17, SlotSum
<1>19. ASSUME NEW n \in 1 .. 3, n < last
       PROVE  Overlay(Result, h, n) = Overlay(Source, g, n)
  <2>1. \A s \in 0 .. n - 1 : h.words[s] = g.words[s]
    <3>1. \A s \in 0 .. n - 1 : s \in {0, 1, 2} /\ s + 1 # last
      BY <1>7, <1>19
    <3> QED BY <1>7, <1>13, <3>1
  <2>2. SlotOffs(g, n) <= z
    <3>1. n \in {1, 2, 3} /\ last - 1 \in {1, 2, 3} /\ n <= last - 1
      BY <1>7, <1>19
    <3> QED BY <1>4, <1>10, <3>1, SlotSum
  <2>3. SlotOffs(g, n) <= z \/ Len(Source) <= g.lfanew + z
    BY <2>2
  <2>4. h \in Headers /\ h.lfanew # 0 /\ IsFile(Source) /\ g \in Headers /\ z \in Int
    BY <1>1, <1>3, <1>10
  <2>5. Overlay(Stub(h, h.lfanew) \o Region(Source, g.lfanew, z), h, n) = Overlay(Source, g, n)
    BY <2>1, <2>3, <2>4, CopiedOverlay
  <2> QED BY <1>11, <2>5
<1>20. ASSUME NEW n \in 1 .. 3, NEW f, IsSeq(f), NEW x \in Headers, x.words[n - 1] = 0,
              SlotOffs(x, n - 1) \in Nat
       PROVE  Overlay(f, x, n) = << >>
  <2>1. x.lfanew + SlotOffs(x, n - 1) \in Nat
    BY <1>20, HeaderFields
  <2> QED BY <1>20, <2>1, EmptyRegion DEF Overlay
<1>21. IsSeq(Result)
  BY <1>12, FileIsSeq DEF Describes
<1>22. ASSUME NEW n \in 1 .. 3, n >= last
       PROVE  Overlay(Result, h, n) = << >>
  <2>1. h.words[n - 1] = 0
    <3>1. last \in {2, 3} /\ (n = 2 \/ n = 3)
      BY <1>7, <1>22
    <3> QED BY <1>13, <1>14, <1>22, <3>1
  <2> QED BY <1>1, <1>18, <1>20, <1>21, <2>1
<1>23. ASSUME NEW n \in 1 .. 3, n > last
       PROVE  Overlay(Source, g, n) = << >>
  <2>1. n = 3 /\ last = 2
    BY <1>7, <1>23
  <2>2. g.words[n - 1] = 0
    BY <1>14, <2>1
  <2> QED BY <1>1, <1>3, <1>18, <1>20, <2>2
<1>24. \A n \in 1 .. 3 : StubRegions(Result)[n] = IF n = last THEN << >> ELSE StubRegions(Source)[n]
  <2> TAKE n \in 1 .. 3
  <2>1. CASE n < last
    BY <1>7, <1>16, <1>19, <2>1
  <2>2. CASE n = last
    BY <1>7, <1>16, <1>22, <2>2
  <2>3. CASE n > last
    <3>1. n >= last
      BY <1>7, <2>3
    <3> QED BY <1>7, <1>16, <1>22, <1>23, <2>3, <3>1
  <2> QED BY <1>7, <2>1, <2>2, <2>3
<1>25. Len(t) = Have(Source, g.lfanew, z)
  BY <1>1, <1>4, <1>10, RegionFacts DEF IsRegion
<1>26. ASSUME NEW n \in 1 .. 3
       PROVE  Len(Overlay(Source, g, n)) = Have(Source, g.lfanew + SlotOffs(g, n - 1), g.words[n - 1])
  <2> DEFINE off == g.lfanew + SlotOffs(g, n - 1)
             len == g.words[n - 1]
  <2>1. off \in Nat /\ len \in Int
    <3>1. n - 1 \in Slots
      BY DEF Slots
    <3> QED BY <1>4, <1>18, <3>1
  <2> HIDE DEF off, len
  <2>2. IsRegion(Region(Source, off, len), Source, off, len)
    BY <1>1, <2>1, RegionFacts
  <2> QED BY <2>2 DEF IsRegion, Overlay, off, len
<1> DEFINE l == g.lfanew
           a == g.words[0]
           b == g.words[1]
           c == g.words[2]
<1>27. /\ Len(Overlay(Source, g, 1)) = Have(Source, l, a)
       /\ Len(Overlay(Source, g, 2)) = Have(Source, l + a, b)
       /\ Len(Overlay(Source, g, 3)) = Have(Source, (l + a) + b, c)
  <2>1. /\ l + SlotOffs(g, 0) = l /\ l + SlotOffs(g, 1) = l + a
        /\ l + SlotOffs(g, 2) = (l + a) + b
    BY <1>4, SlotSum
  <2>2. /\ Len(Overlay(Source, g, 1)) = Have(Source, l + SlotOffs(g, 1 - 1), g.words[1 - 1])
        /\ Len(Overlay(Source, g, 2)) = Have(Source, l + SlotOffs(g, 2 - 1), g.words[2 - 1])
        /\ Len(Overlay(Source, g, 3)) = Have(Source, l + SlotOffs(g, 3 - 1), g.words[3 - 1])
    BY <1>26
  <2>3. 1 - 1 = 0 /\ 2 - 1 = 1 /\ 3 - 1 = 2
    OBVIOUS
  <2> QED BY <2>1, <2>2, <2>3
<1>28. l \in Nat /\ a \in Nat /\ b \in Nat /\ c \in Nat
  BY <1>4
<1>29. /\ last = 2 => z = a
       /\ last = 3 => z = a + b
       /\ last = 4 => z = (a + b) + c
  BY <1>4, <1>10, SlotSum
<1>30. /\ Have(Source, l, a + b) = Have(Source, l, a) + Have(Source, l + a, b)
       /\ Have(Source, l, (a + b) + c) = Have(Source, l, a + b) + Have(Source, (l + a) + b, c)
  <2> HIDE DEF l, a, b, c
  <2>1. Have(Source, l, a + b) = Have(Source, l, a) + Have(Source, l + a, b)
    BY <1>1, <1>28, HaveSum
  <2>2. a + b \in Nat /\ l + (a + b) = (l + a) + b
    BY <1>28
  <2>3. Have(Source, l, (a + b) + c) = Have(Source, l, a + b) + Have(Source, l + (a + b), c)
    BY <1>1, <1>28, <2>2, HaveSum
  <2> QED BY <2>1, <2>2, <2>3
<1>31. Have(Source, l, a) \in Nat /\ Have(Source, l + a, b) \in Nat /\ Have(Source, (l + a) + b, c) \in Nat
  <2> HIDE DEF l, a, b, c
  <2>1. l + a \in Nat /\ (l + a) + b \in Nat /\ a \in Int /\ b \in Int /\ c \in Int
    BY <1>28
  <2> QED BY <1>1, <1>28, <2>1, HaveNat
<1>32. Len(<< >>) = 0
  OBVIOUS
<1>33. Len(t) = Len(Overlay(Result, h, 1)) + Len(Overlay(Result, h, 2)) + Len(Overlay(Result, h, 3))
  <2> HIDE DEF l, a, b, c, t
  <2>1. CASE last = 2
    <3>1. Overlay(Result, h, 1) = Overlay(Source, g, 1)
      BY <1>19, <2>1
    <3>2. Overlay(Result, h, 2) = << >> /\ Overlay(Result, h, 3) = << >>
      BY <1>22, <2>1
    <3>3. Len(t) = Have(Source, l, a)
      BY <1>25, <1>29, <2>1 DEF l
    <3> QED BY <1>27, <1>31, <1>32, <3>1, <3>2, <3>3
  <2>2. CASE last = 3
    <3>1. Overlay(Result, h, 1) = Overlay(Source, g, 1) /\ Overlay(Result, h, 2) = Overlay(Source, g, 2)
      BY <1>19, <2>2
    <3>2. Overlay(Result, h, 3) = << >>
      BY <1>22, <2>2
    <3>3. Len(t) = Have(Source, l, a + b)
      BY <1>25, <1>29, <2>2 DEF l
    <3> QED BY <1>27, <1>30, <1>31, <1>32, <3>1, <3>2, <3>3
  <2>3. CASE last = 4
    <3>1. /\ Overlay(Result, h, 1) = Overlay(Source, g, 1)
          /\ Overlay(Result, h, 2) = Overlay(Source, g, 2)
          /\ Overlay(Result, h, 3) = Overlay(Source, g, 3)
      BY <1>19, <2>3
    <3>2. Len(t) = Have(Source, l, (a + b) + c)
      BY <1>25, <1>29, <2>3 DEF l
    <3> QED BY <1>27, <1>30, <1>31, <3>1, <3>2
  <2> QED BY <1>7, <2>1, <2>2, <2>3
<1>34. Len(From(Result, cmd.stub))
         = Len(StubRegions(Result)[1]) + Len(StubRegions(Result)[2]) + Len(StubRegions(Result)[3])
  <2>1. /\ StubRegions(Result)[1] = Overlay(Result, h, 1)
        /\ StubRegions(Result)[2] = Overlay(Result, h, 2)
        /\ StubRegions(Result)[3] = Overlay(Result, h, 3)
    BY <1>16
  <2>2. From(Result, cmd.stub) = t
    BY <1>1, <1>12
  <2> HIDE DEF t
  <2> QED BY <1>33, <2>1, <2>2
<1> QED BY <1>24, <1>34 DEF last, g

\* What -r copies is one overlay, and the lookup through the type map found the
\* one that the size words lead to.
LEMMA UnstubHolds ==
    ASSUME TypeInv, WriteInv, ScanInv
    PROVE  UnstubAgrees
<1> SUFFICES ASSUME Edited, opt.rmstub, Plain(Source)
             PROVE  /\ StartsWith(Source, "mz") =>
                          (KeptRegions(SourceHeader) # {} =>
                             \E k \in KeptRegions(SourceHeader) : Result = StubRegions(Source)[k])
                    /\ ~StartsWith(Source, "mz") => Result = Bare(Source)
  BY DEF UnstubAgrees, SourceHeader
<1>1. IsFile(Source) /\ IsSeq(Source) /\ scan.coffset \in Nat /\ scan.size \in Nat
  BY EditedFacts
<1>2. Result = Region(Source, scan.coffset, Size)
  <2>1. Result = << >> \o Region(Source, scan.coffset, Size)
    BY EditedFacts DEF StubPart
  <2>2. Size \in Int
    BY <1>1, SeqFacts DEF Size
  <2>3. IsSeq(Region(Source, scan.coffset, Size))
    BY <1>1, <2>2, RegionFacts DEF IsRegion
  <2> QED BY <2>1, <2>3, ConcatEmpty
<1>3. FoundBy(scan, SizedHeader) /\ OneHeader(Source)
  BY DEF ScanInv, Plain, Edited
<1>4. CASE StartsWith(Source, "mz")
  <2> DEFINE g == SourceHeader
             idx == find_idx(KeptType(g), g)
  <2>1. Describes(Source, g) /\ g \in Headers /\ Packed(g)
    BY <1>1, <1>3, <1>4, SourceDescribed DEF Plain, SourceHeader
  <2>2. PickedBy(scan, g)
    BY <1>3, <1>4 DEF FoundBy, SeenBy
  <2>3. /\ idx \in Slots /\ g.types[idx] = KeptType(g)
        /\ \A s \in Slots : g.types[s] = KeptType(g) => idx <= s
        /\ scan.size = g.words[idx] /\ scan.coffset = g.lfanew + SlotOffs(g, idx)
    BY <2>1, <2>2, FindFacts DEF PickedBy
  <2> SUFFICES ASSUME NEW k \in KeptRegions(g)
               PROVE  \E n \in KeptRegions(g) : Result = StubRegions(Source)[n]
    BY <1>4
  <2>4. k \in 1 .. 3 /\ g.words[k - 1] # 0 /\ g.types[k - 1] = KeptType(g)
    BY DEF KeptRegions
  <2> HIDE DEF g, idx
  <2>5. k - 1 \in Slots /\ idx <= k - 1 /\ k - 1 \in 0 .. 2
    <3>1. k - 1 \in Slots
      BY <2>4 DEF Slots
    <3> QED BY <2>3, <2>4, <3>1
  <2>6. idx \in 0 .. 2 /\ idx + 1 \in 1 .. 3
    BY <2>3, <2>5 DEF Slots
  <2>7. g.words[idx] # 0
    <3>1. /\ g.words[0] = 0 => g.words[1] = 0
          /\ g.words[1] = 0 => g.words[2] = 0
      BY <2>1 DEF Packed
    <3>2. (idx = 0 \/ idx = 1 \/ idx = 2) /\ (k - 1 = 0 \/ k - 1 = 1 \/ k - 1 = 2)
      BY <2>5, <2>6
    <3> QED BY <2>4, <2>5, <3>1, <3>2
  <2>8. idx + 1 \in KeptRegions(g)
    <3>1. (idx + 1) - 1 = idx
      BY <2>6
    <3> QED BY <2>3, <2>6, <2>7, <3>1 DEF KeptRegions
  <2>9. Result = Overlay(Source, g, idx + 1)
    <3>1. (idx + 1) - 1 = idx
      BY <2>6
    <3>2. Size = g.words[idx]
      BY <2>3, <2>7 DEF Size
    <3> QED BY <1>2, <2>3, <3>1, <3>2 DEF Overlay
  <2>10. StubRegions(Source)[idx + 1] = Overlay(Source, g, idx + 1)
    BY <2>1, <2>6, PackedRegions
  <2> QED BY <2>8, <2>9, <2>10
<1>5. CASE ~StartsWith(Source, "mz")
  <2>1. BareBy(scan, SizedHeader)
    BY <1>3, <1>5 DEF FoundBy
  <2> QED BY <1>2, <1>5, <2>1, BareIsRest
<1> QED BY <1>4, <1>5

-----------------------------------------------------------------------------
(* What -g links.                                                          *)

\* The overlays are other files than the output.
Linkable == \A k \in DOMAIN opt.overlay : opt.overlay[k] # opt.out

OverlaysAreThere ==
    \A k \in 1 .. Len(opt.overlay) : opt.overlay[k] \in Names /\ before[opt.overlay[k]] # Missing

\* The stub with n overlays behind it, and p cells of the next one.
LinkedBy(f, n, p) ==
    LET h == LinkedHeader
        l == LinkedHeader.lfanew
    IN  /\ IsFile(f) /\ StartsWith(f, "mz") /\ CellAt(f, 0).hdr = h /\ l <= Len(f)
        /\ Len(opt.overlay) <= SizeWords => Region(f, 0, l) = Stub(h, l)
        /\ \A j \in 0 .. 3 : n = j => Len(f) = l + SlotOffs(h, j) + p
        /\ \A k \in 1 .. 3 : k <= n =>
             /\ l + SlotOffs(h, k) <= Len(f)
             /\ Overlay(f, h, k) = before[opt.overlay[k]]
        /\ \A k \in 1 .. 3 : (k = n + 1 /\ k <= Len(opt.overlay)) =>
             Region(f, l + SlotOffs(h, k - 1), p) = Region(before[opt.overlay[k]], 0, p)

LinkInv ==
    /\ pc = "generate" => nth = 1 /\ inpos = 0
    /\ pc = "link" =>
         /\ \A n \in Names \ {opt.out} : fs[n] = before[n]
         /\ opt.out \in Names /\ OverlaysAreThere
         /\ nth > Len(opt.overlay) => inpos = 0
         /\ Linkable =>
              /\ nth <= Len(opt.overlay) => inpos <= Len(before[opt.overlay[nth]])
              /\ LinkedBy(fs[opt.out], nth - 1, inpos)
    /\ (Wrote /\ opt.gen) =>
         OverlaysAreThere /\ (Linkable => LinkedBy(Result, Len(opt.overlay), 0))

\* One read of a file finds something as long as it is not at the end...
LEMMA ChunkGoesOn ==
    ASSUME NEW t, IsSeq(t), NEW p \in Nat, p <= Len(t),
           NEW r, r = Region(t, p, ChunkSize)
    PROVE  /\ IsSeq(r) /\ Len(r) \in Nat /\ p + Len(r) <= Len(t)
           /\ p < Len(t) => r # << >> /\ Len(r) > 0
           /\ p = Len(t) => r = << >>
<1>1. ChunkSize \in Nat \ {0} /\ ChunkSize \in Int /\ Len(t) \in Nat
  BY BoundsAssumption, SeqFacts
<1>2. IsSeq(r) /\ Len(r) = Have(t, p, ChunkSize)
  <2>1. IsRegion(Region(t, p, ChunkSize), t, p, ChunkSize)
    BY <1>1, RegionFacts
  <2> QED BY <2>1 DEF IsRegion
<1>3. /\ Len(r) \in Nat /\ p + Len(r) <= Len(t)
      /\ p < Len(t) => Len(r) > 0
      /\ p = Len(t) => Len(r) = 0
  BY <1>1, <1>2 DEF Have
<1> QED BY <1>2, <1>3, EmptyFacts

\* ...and continues what was read before it.
LEMMA ChunkJoins ==
    ASSUME NEW t, IsSeq(t), NEW p \in Nat, p <= Len(t),
           NEW r, r = Region(t, p, ChunkSize), NEW q, q = p + Len(r)
    PROVE  Region(t, 0, p) \o r = Region(t, 0, q)
<1>1. ChunkSize \in Nat \ {0} /\ ChunkSize \in Int /\ Len(t) \in Nat
  BY BoundsAssumption, SeqFacts
<1>2. IsRegion(Region(t, p, ChunkSize), t, p, ChunkSize)
  BY <1>1, RegionFacts
<1> DEFINE b == p + ChunkSize
<1>3. q \in Nat /\ b \in Int /\ (q = b \/ (0 + q >= Len(t) /\ q <= b))
  <2>1. Len(r) = Have(t, p, ChunkSize)
    BY <1>2 DEF IsRegion
  <2> QED BY <1>1, <2>1 DEF Have
<1>4. Region(t, 0, p) \o r = Region(t, 0, b)
  <2>1. 0 \in Nat /\ ChunkSize \in Nat /\ 0 + p <= Len(t) /\ 0 + p = p
    BY <1>1
  <2>2. Region(t, 0, p) \o Region(t, 0 + p, ChunkSize) = Region(t, 0, p + ChunkSize)
    BY <2>1, RegionGoesOn
  <2> QED BY <2>1, <2>2
<1> HIDE DEF b
<1> QED BY <1>3, <1>4, RegionWhole

\* The overlays as they were when the command began, and the header.
LEMMA LinkedFacts ==
    ASSUME TypeInv, commands > 0
    PROVE  /\ LinkedHeader \in Headers /\ LinkedHeader.lfanew \in Nat \ {0}
           /\ Len(opt.overlay) \in Nat
           /\ \A k \in 1 .. Len(opt.overlay) :
                /\ k \in DOMAIN opt.overlay /\ opt.overlay[k] \in Names \ {"tmp"}
                /\ IsFile(before[opt.overlay[k]]) /\ IsSeq(before[opt.overlay[k]])
                /\ Len(before[opt.overlay[k]]) \in Nat
           /\ \A k \in 1 .. 3 :
                /\ LinkedHeader.words[k - 1] \in Nat
                /\ SlotOffs(LinkedHeader, k - 1) \in Nat /\ SlotOffs(LinkedHeader, k) \in Nat
                /\ SlotOffs(LinkedHeader, k) = SlotOffs(LinkedHeader, k - 1) + LinkedHeader.words[k - 1]
                /\ k <= Len(opt.overlay) => LinkedHeader.words[k - 1] = Len(before[opt.overlay[k]])
                /\ ~(k <= Len(opt.overlay)) => LinkedHeader.words[k - 1] = 0
<1> DEFINE h == LinkedHeader
<1>1. /\ h \in Headers /\ h.lfanew \in Nat \ {0}
      /\ \A k \in 1 .. 3 : h.words[k - 1] =
           IF k <= Len(opt.overlay) THEN Len(before[opt.overlay[k]]) ELSE 0
  BY LinkedFits
<1>2. /\ Len(opt.overlay) \in Nat
      /\ \A k \in 1 .. Len(opt.overlay) : k \in DOMAIN opt.overlay /\ opt.overlay[k] \in Names \ {"tmp"}
  <2>1. opt.overlay \in Seq(Names \ {"tmp"})
    BY DEF TypeInv, OptTyped
  <2> QED BY <2>1, LenProperties, ElementOfSeq
<1>3. \A n \in Names : IsFile(before[n]) /\ IsSeq(before[n]) /\ Len(before[n]) \in Nat
  BY FileIsSeq DEF TypeInv, FilesInv
<1> HIDE DEF h
<1>4. /\ h.words \in [Slots -> Nat] /\ h.words[0] \in Nat /\ h.words[1] \in Nat /\ h.words[2] \in Nat
      /\ SlotOffs(h, 0) = 0 /\ SlotOffs(h, 1) = h.words[0]
      /\ SlotOffs(h, 2) = h.words[0] + h.words[1]
      /\ SlotOffs(h, 3) = h.words[0] + h.words[1] + h.words[2]
  BY <1>1, HeaderFields, SlotSum
<1>5. \A k \in 1 .. 3 : /\ h.words[k - 1] \in Nat /\ SlotOffs(h, k - 1) \in Nat /\ SlotOffs(h, k) \in Nat
                        /\ SlotOffs(h, k) = SlotOffs(h, k - 1) + h.words[k - 1]
  <2> TAKE k \in 1 .. 3
  <2>1. CASE k = 1
    BY <1>4, <2>1
  <2>2. CASE k = 2
    BY <1>4, <2>2
  <2>3. CASE k = 3
    BY <1>4, <2>3
  <2> QED BY <2>1, <2>2, <2>3
<1> QED BY <1>1, <1>2, <1>3, <1>5 DEF h

\* The stub alone.
LEMMA LinkedAlone ==
    ASSUME TypeInv, commands > 0, NEW f,
           f = StubOf(Code(opt), LinkedHeader, LinkedHeader.lfanew)
    PROVE  LinkedBy(f, 0, 0)
<1> DEFINE h == LinkedHeader
           l == h.lfanew
<1>1. h \in Headers /\ l \in Nat \ {0} /\ SlotOffs(h, 0) = 0
  BY LinkedFacts, HeaderFields, SlotSum
<1>2. IsFile(f) /\ Len(f) = l /\ f[1] = MzCell(h) /\ IsSeq(f)
  BY <1>1, StubOfFile, FileIsSeq
<1>3. StartsWith(f, "mz") /\ CellAt(f, 0).hdr = h /\ l <= Len(f)
  BY <1>1, <1>2 DEF StartsWith, HasCell, CellAt, MzCell
<1>4. ASSUME Len(opt.overlay) <= SizeWords
      PROVE  Region(f, 0, l) = Stub(h, l)
  <2>1. ~(Len(opt.overlay) > SizeWords)
    BY <1>4, LinkedFacts DEF SizeWords
  <2>2. f = Stub(h, l)
    BY <2>1 DEF Code, Stub
  <2> HIDE DEF h, l
  <2>3. Region(f, 0, l) = From(f, 0)
    BY <1>1, <1>2, RestIsRegion
  <2> QED BY <1>2, <2>2, <2>3, FromStart
<1>5. Len(f) = l + SlotOffs(h, 0) + 0
  BY <1>1, <1>2
<1>6. ASSUME NEW k \in 1 .. 3, k = 0 + 1, k <= Len(opt.overlay)
      PROVE  Region(f, l + SlotOffs(h, k - 1), 0) = Region(before[opt.overlay[k]], 0, 0)
  <2>1. k \in 1 .. Len(opt.overlay) /\ k - 1 = 0
    BY <1>6, LinkedFacts
  <2>2. IsSeq(before[opt.overlay[k]])
    BY <2>1, LinkedFacts
  <2> HIDE DEF h
  <2>3. SlotOffs(h, k - 1) = 0 /\ l + 0 \in Nat
    BY <1>1, <2>1
  <2>4. Region(f, l + 0, 0) = << >> /\ Region(before[opt.overlay[k]], 0, 0) = << >>
    BY <1>2, <2>2, <2>3, EmptyRegion
  <2> QED BY <2>3, <2>4
<1> QED BY <1>2, <1>3, <1>4, <1>5, <1>6 DEF LinkedBy

\* A chunk of an overlay more.
LEMMA LinkedGrows ==
    ASSUME TypeInv, commands > 0, NEW n \in Nat, n < Len(opt.overlay),
           NEW p \in Nat, NEW f, LinkedBy(f, n, p), NEW c,
           p <= Len(before[opt.overlay[n + 1]]),
           c = Region(before[opt.overlay[n + 1]], p, ChunkSize)
    PROVE  /\ p + Len(c) <= Len(before[opt.overlay[n + 1]])
           /\ LinkedBy(f \o c, n, p + Len(c))
<1> DEFINE h == LinkedHeader
           t == before[opt.overlay[n + 1]]
           l == h.lfanew
           g == f \o c
           q == p + Len(c)
<1>1. /\ h \in Headers /\ l \in Nat \ {0} /\ n + 1 \in 1 .. Len(opt.overlay)
      /\ IsFile(t) /\ IsSeq(t) /\ Len(t) \in Nat
      /\ \A k \in 1 .. 3 : /\ h.words[k - 1] \in Nat /\ SlotOffs(h, k - 1) \in Nat
                           /\ SlotOffs(h, k) \in Nat
                           /\ SlotOffs(h, k) = SlotOffs(h, k - 1) + h.words[k - 1]
  <2> DEFINE m == Len(opt.overlay)
  <2>1. m \in Nat
    BY LinkedFacts
  <2>2. n < m
    OBVIOUS
  <2>3. n + 1 \in 1 .. Len(opt.overlay)
    <3>1. n + 1 \in 1 .. m
      <4> HIDE DEF m
      <4> QED BY <2>1, <2>2
    <3> QED BY <3>1
  <2> QED BY <2>3, LinkedFacts
<1>2. /\ IsFile(f) /\ StartsWith(f, "mz") /\ CellAt(f, 0).hdr = h /\ l <= Len(f)
      /\ Len(opt.overlay) <= SizeWords => Region(f, 0, l) = Stub(h, l)
      /\ \A j \in 0 .. 3 : n = j => Len(f) = l + SlotOffs(h, j) + p
      /\ \A k \in 1 .. 3 : k <= n => l + SlotOffs(h, k) <= Len(f)
                                     /\ Overlay(f, h, k) = before[opt.overlay[k]]
      /\ \A k \in 1 .. 3 : (k = n + 1 /\ k <= Len(opt.overlay)) =>
           Region(f, l + SlotOffs(h, k - 1), p) = Region(before[opt.overlay[k]], 0, p)
  BY DEF LinkedBy
<1>3. /\ IsSeq(c) /\ Len(c) \in Nat /\ p + Len(c) <= Len(t)
      /\ Region(t, 0, p) \o c = Region(t, 0, q)
  <2>1. IsSeq(t) /\ p <= Len(t) /\ c = Region(t, p, ChunkSize) /\ q = p + Len(c)
    BY <1>1
  <2> HIDE DEF t, q
  <2>2. IsSeq(c) /\ Len(c) \in Nat /\ p + Len(c) <= Len(t)
    BY <2>1, ChunkGoesOn
  <2>3. Region(t, 0, p) \o c = Region(t, 0, q)
    BY <2>1, ChunkJoins
  <2> QED BY <2>2, <2>3
<1>4. IsFile(c)
  <2>1. ChunkSize \in Int
    BY BoundsAssumption
  <2> HIDE DEF t
  <2> QED BY <1>1, <2>1, RegionFile DEF t
<1>5. IsSeq(f) /\ Len(f) \in Nat /\ q \in Nat /\ l \in Nat /\ l <= Len(f)
  BY <1>1, <1>2, <1>3, FileIsSeq
<1>6. /\ IsFile(g) /\ IsSeq(g) /\ Len(g) = Len(f) + Len(c)
      /\ \A k \in 1 .. Len(f) : g[k] = f[k]
  BY <1>2, <1>3, <1>4, <1>5, ConcatFile, ConcatFacts
<1>12. IsSeq(f) /\ IsSeq(c)
  BY <1>3, <1>5
<1> HIDE DEF h, t, l, g, q
<1>7. StartsWith(g, "mz") /\ CellAt(g, 0).hdr = h /\ l <= Len(g)
  <2>1. 0 < Len(f) /\ 0 + 1 \in 1 .. Len(f)
    BY <1>2, <1>5 DEF StartsWith, HasCell
  <2>2. CellAt(g, 0) = CellAt(f, 0)
    BY <1>6, <2>1 DEF CellAt
  <2>3. 0 < Len(g) /\ l <= Len(g)
    <3>1. Len(c) \in Nat /\ Len(g) = Len(f) + Len(c)
      BY <1>3, <1>6
    <3> QED BY <1>5, <2>1, <3>1
  <2> QED BY <1>2, <2>2, <2>3 DEF StartsWith, HasCell
<1>8. Len(opt.overlay) <= SizeWords => Region(g, 0, l) = Stub(h, l)
  <2>1. 0 \in Nat /\ l \in Nat /\ 0 + l <= Len(f)
    BY <1>1, <1>2, <1>5
  <2>2. Region(f \o c, 0, l) = Region(f, 0, l)
    BY <1>12, <2>1, RegionKept
  <2>3. Region(g, 0, l) = Region(f, 0, l)
    BY <2>2 DEF g
  <2> QED BY <1>2, <2>3
<1>9. ASSUME NEW j \in 0 .. 3, n = j
      PROVE  Len(g) = l + SlotOffs(h, j) + q
  <2> DEFINE x == SlotOffs(h, j)
  <2>1. x \in Nat /\ Len(f) = l + x + p
    <3>1. j = 0 \/ j \in 1 .. 3
      OBVIOUS
    <3>2. SlotOffs(h, 0) \in Nat
      <4>1. 1 \in 1 .. 3 /\ 1 - 1 = 0
        OBVIOUS
      <4> QED BY <1>1, <4>1
    <3> QED BY <1>1, <1>2, <1>9, <3>1, <3>2
  <2> HIDE DEF x
  <2>2. Len(g) = l + x + q
    BY <1>1, <1>3, <1>5, <1>6, <2>1 DEF q
  <2> QED BY <2>2 DEF x
<1>10. ASSUME NEW k \in 1 .. 3, k <= n
       PROVE  l + SlotOffs(h, k) <= Len(g) /\ Overlay(g, h, k) = before[opt.overlay[k]]
  <2> DEFINE x == SlotOffs(h, k - 1)
             y == SlotOffs(h, k)
             w == h.words[k - 1]
             off == l + x
  <2>1. w \in Nat /\ x \in Nat /\ y \in Nat /\ y = x + w /\ l + y <= Len(f)
        /\ Overlay(f, h, k) = before[opt.overlay[k]]
    BY <1>1, <1>2, <1>10
  <2> HIDE DEF x, y, w
  <2>2. off \in Nat /\ off + w <= Len(f) /\ l + y <= Len(g)
    <3>1. Len(c) \in Nat /\ Len(g) = Len(f) + Len(c)
      BY <1>3, <1>6
    <3>2. l \in Nat /\ Len(f) \in Nat /\ x \in Nat /\ w \in Nat /\ y = x + w /\ l + y <= Len(f)
      BY <1>5, <2>1
    <3>3. l + x \in Nat
      BY <3>2
    <3>4. l + x + w <= Len(f)
      BY <3>2
    <3>5. l + y <= Len(g)
      BY <3>1, <3>2
    <3> QED BY <3>3, <3>4, <3>5
  <2> HIDE DEF off
  <2>3. Region(g, off, w) = Region(f, off, w)
    <3>1. off \in Nat /\ w \in Nat
      BY <2>1, <2>2
    <3>2. off + w <= Len(f)
      BY <2>2
    <3>3. Region(f \o c, off, w) = Region(f, off, w)
      BY <1>12, <3>1, <3>2, RegionKept
    <3> QED BY <3>3 DEF g
  <2>4. Overlay(g, h, k) = Overlay(f, h, k)
    BY <2>3 DEF Overlay, off, x, w, l
  <2> QED BY <2>1, <2>2, <2>4 DEF y
<1>11. ASSUME NEW k \in 1 .. 3, k = n + 1, k <= Len(opt.overlay)
       PROVE  Region(g, l + SlotOffs(h, k - 1), q) = Region(before[opt.overlay[k]], 0, q)
  <2> DEFINE x == SlotOffs(h, k - 1)
             off == l + x
  <2>1. x \in Nat
    BY <1>1
  <2>0. k - 1 \in 0 .. 3 /\ n = k - 1
    BY <1>11
  <2>2. Len(f) = l + x + p /\ Region(f, off, p) = Region(t, 0, p)
    BY <1>2, <1>11, <2>0 DEF t
  <2> HIDE DEF x
  <2>3. off \in Nat /\ off + p = Len(f) /\ off + p <= Len(f)
    BY <1>5, <2>1, <2>2
  <2>8. off + p <= Len(g)
    <3>1. Len(c) \in Nat /\ Len(g) = Len(f) + Len(c)
      BY <1>3, <1>6
    <3> QED BY <1>5, <2>3, <3>1
  <2> HIDE DEF off
  <2>4. Region(g, off, p) = Region(t, 0, p)
    <3>1. off \in Nat /\ p \in Nat
      BY <2>3
    <3>2. off + p <= Len(f)
      BY <2>3
    <3>3. Region(f \o c, off, p) = Region(f, off, p)
      BY <1>12, <3>1, <3>2, RegionKept
    <3> QED BY <2>2, <3>3 DEF g
  <2>5. Region(g, off + p, Len(c)) = c
    BY <1>3, <1>5, <2>3, RegionAppended DEF g
  <2>6. Region(g, off, p) \o Region(g, off + p, Len(c)) = Region(g, off, p + Len(c))
    <3>1. IsSeq(g) /\ Len(c) \in Nat
      BY <1>3, <1>6
    <3>2. Len(c) \in Int
      BY <3>1
    <3> QED BY <2>3, <2>8, <3>1, <3>2, RegionGoesOn
  <2>7. Region(g, off, q) = Region(t, 0, q)
    BY <1>3, <2>4, <2>5, <2>6 DEF q
  <2> QED BY <1>11, <2>7 DEF off, x, t
<1> QED BY <1>3, <1>6, <1>7, <1>8, <1>9, <1>10, <1>11 DEF LinkedBy, h, t, l, g, q

\* An overlay that has been read to its end.
LEMMA LinkedEnds ==
    ASSUME TypeInv, commands > 0, NEW n \in Nat, n < Len(opt.overlay),
           NEW p \in Nat, NEW f, LinkedBy(f, n, p),
           p = Len(before[opt.overlay[n + 1]])
    PROVE  LinkedBy(f, n + 1, 0)
<1> DEFINE h == LinkedHeader
           t == before[opt.overlay[n + 1]]
           l == h.lfanew
<1>1. /\ h \in Headers /\ l \in Nat \ {0} /\ n + 1 \in 1 .. Len(opt.overlay)
      /\ Len(opt.overlay) \in Nat
      /\ IsFile(t) /\ IsSeq(t) /\ Len(t) \in Nat
      /\ \A k \in 1 .. Len(opt.overlay) : IsSeq(before[opt.overlay[k]])
      /\ \A k \in 1 .. 3 :
           /\ h.words[k - 1] \in Nat /\ SlotOffs(h, k - 1) \in Nat /\ SlotOffs(h, k) \in Nat
           /\ SlotOffs(h, k) = SlotOffs(h, k - 1) + h.words[k - 1]
           /\ k <= Len(opt.overlay) => h.words[k - 1] = Len(before[opt.overlay[k]])
  <2> DEFINE m == Len(opt.overlay)
  <2>1. m \in Nat
    BY LinkedFacts
  <2>2. n < m
    OBVIOUS
  <2>3. n + 1 \in 1 .. Len(opt.overlay)
    <3>1. n + 1 \in 1 .. m
      <4> HIDE DEF m
      <4> QED BY <2>1, <2>2
    <3> QED BY <3>1
  <2> QED BY <2>3, LinkedFacts
<1>2. /\ IsFile(f) /\ StartsWith(f, "mz") /\ CellAt(f, 0).hdr = h /\ l <= Len(f)
      /\ Len(opt.overlay) <= SizeWords => Region(f, 0, l) = Stub(h, l)
      /\ \A j \in 0 .. 3 : n = j => Len(f) = l + SlotOffs(h, j) + p
      /\ \A k \in 1 .. 3 : k <= n => l + SlotOffs(h, k) <= Len(f)
                                     /\ Overlay(f, h, k) = before[opt.overlay[k]]
      /\ \A k \in 1 .. 3 : (k = n + 1 /\ k <= Len(opt.overlay)) =>
           Region(f, l + SlotOffs(h, k - 1), p) = Region(before[opt.overlay[k]], 0, p)
  BY DEF LinkedBy
<1>3. IsSeq(f) /\ Len(f) \in Nat /\ l \in Nat
  BY <1>1, <1>2, FileIsSeq
<1> HIDE DEF h, t, l
<1>4. ASSUME NEW k \in 1 .. 3, k = n + 1
      PROVE  /\ l + SlotOffs(h, k) = Len(f)
             /\ Overlay(f, h, k) = before[opt.overlay[k]]
  <2> DEFINE x == SlotOffs(h, k - 1)
             y == SlotOffs(h, k)
             w == h.words[k - 1]
  <2>1. k - 1 \in 0 .. 3 /\ n = k - 1 /\ k <= Len(opt.overlay)
    BY <1>1, <1>4
  <2>2. w = p /\ x \in Nat /\ y = x + w
    BY <1>1, <1>4, <2>1
  <2>3. Len(f) = l + x + p /\ Region(f, l + x, p) = Region(t, 0, p)
    BY <1>2, <1>4, <2>1 DEF t
  <2>4. Overlay(f, h, k) = Region(f, l + x, w)
    BY DEF Overlay, l
  <2> HIDE DEF x, y, w
  <2>5. l + y = Len(f)
    BY <1>1, <2>2, <2>3
  <2>6. Region(t, 0, p) = t
    <3>1. 0 \in Nat /\ p \in Nat /\ 0 + p >= Len(t)
      BY <1>1 DEF t
    <3>2. Region(t, 0, p) = From(t, 0)
      BY <1>1, <3>1, RestIsRegion
    <3> QED BY <1>1, <3>2, FromStart
  <2>7. Overlay(f, h, k) = t
    BY <2>2, <2>3, <2>4, <2>6
  <2> QED BY <1>4, <2>5, <2>7 DEF t, y
<1>5. ASSUME NEW j \in 0 .. 3, n + 1 = j
      PROVE  Len(f) = l + SlotOffs(h, j) + 0
  <2>1. j \in 1 .. 3
    BY <1>5
  <2> DEFINE y == SlotOffs(h, j)
  <2>2. l + y = Len(f) /\ y \in Nat
    BY <1>1, <1>4, <1>5, <2>1
  <2> HIDE DEF y
  <2>3. Len(f) = l + y + 0
    BY <1>1, <2>2
  <2> QED BY <2>3 DEF y
<1>6. ASSUME NEW k \in 1 .. 3, k <= n + 1
      PROVE  l + SlotOffs(h, k) <= Len(f) /\ Overlay(f, h, k) = before[opt.overlay[k]]
  <2>1. CASE k <= n
    BY <1>2, <2>1
  <2>2. CASE k = n + 1
    <3>1. l + SlotOffs(h, k) = Len(f) /\ Overlay(f, h, k) = before[opt.overlay[k]]
      BY <1>4, <2>2
    <3> QED BY <1>3, <3>1
  <2> QED BY <1>6, <2>1, <2>2
<1>7. ASSUME NEW k \in 1 .. 3, k = n + 1 + 1, k <= Len(opt.overlay)
      PROVE  Region(f, l + SlotOffs(h, k - 1), 0) = Region(before[opt.overlay[k]], 0, 0)
  <2> DEFINE x == SlotOffs(h, k - 1)
  <2>1. IsSeq(before[opt.overlay[k]]) /\ x \in Nat
    BY <1>1, <1>7
  <2> HIDE DEF x
  <2>2. l + x \in Nat
    BY <1>3, <2>1
  <2>3. Region(f, l + x, 0) = << >> /\ Region(before[opt.overlay[k]], 0, 0) = << >>
    BY <1>3, <2>1, <2>2, EmptyRegion
  <2> QED BY <2>3 DEF x
<1> QED BY <1>2, <1>5, <1>6, <1>7 DEF LinkedBy, h, l

LEMMA LinkElsewhere ==
    ASSUME pc' \notin {"generate", "link"}, pc' = "idle" => ret' # 0 \/ ~opt'.gen
    PROVE  LinkInv'
BY DEF LinkInv, Wrote

\* The stub alone.
LEMMA LinkStarts ==
    ASSUME TypeInv, LinkInv, Generate
    PROVE  LinkInv'
<1>1. /\ pc = "generate" /\ pc' = "link" /\ opt.out # ""
      /\ \A k \in DOMAIN opt.overlay : Exists(fs[opt.overlay[k]])
      /\ fs' = [fs EXCEPT ![opt.out] = StubOf(Code(opt), GeneratedHeader(opt), cmd.stub)]
      /\ UNCHANGED <<opt, cmd, nth, inpos, before>>
  BY DEF Generate
<1>2. fs = before /\ DOMAIN fs = Names /\ commands > 0 /\ nth = 1 /\ inpos = 0
  BY <1>1 DEF TypeInv, FilesInv, KeepInv, PlaceInv, LinkInv
<1>3. opt.out \in Names
  BY <1>1 DEF TypeInv, OptTyped
<1>4. OverlaysAreThere
  BY <1>1, <1>2, LinkedFacts DEF OverlaysAreThere, Exists
<1>5. LinkedBy(fs'[opt.out], 0, 0)
  <2>1. GeneratedHeader(opt) = LinkedHeader /\ LinkedHeader.lfanew = cmd.stub
    BY <1>1, <1>2, GeneratedFits, LinkedFits
  <2>2. fs'[opt.out] = StubOf(Code(opt), LinkedHeader, LinkedHeader.lfanew)
    BY <1>1, <1>2, <1>3, <2>1
  <2> QED BY <1>2, <2>2, LinkedAlone
<1>6. UNCHANGED <<Linkable, OverlaysAreThere, LinkedHeader>>
  BY <1>1 DEF Linkable, OverlaysAreThere, LinkedHeader
<1>7. LinkedBy(fs[opt.out], nth - 1, inpos)'
  <2>1. nth' - 1 = 0 /\ inpos' = 0
    <3>1. nth' = nth /\ nth = 1 /\ inpos' = inpos
      BY <1>1, <1>2
    <3> QED BY <1>2, <3>1
  <2> QED BY <1>1, <1>5, <1>6, <2>1 DEF LinkedBy
<1>8. OverlaysAreThere' /\ opt'.out \in Names /\ \A n \in Names \ {opt'.out} : fs'[n] = before'[n]
  BY <1>1, <1>2, <1>3, <1>4, <1>6
<1>9. nth' <= Len(opt'.overlay) => inpos' <= Len(before'[opt'.overlay[nth']])
  <2>1. nth <= Len(opt.overlay) => 1 \in 1 .. Len(opt.overlay)
    BY <1>2, LinkedFacts
  <2>2. 1 \in 1 .. Len(opt.overlay) => Len(before[opt.overlay[1]]) \in Nat
    BY <1>2, LinkedFacts
  <2>3. nth <= Len(opt.overlay) => 0 <= Len(before[opt.overlay[nth]])
    BY <1>2, <2>1, <2>2
  <2> QED BY <1>1, <1>2, <2>3
<1>10. inpos' = 0 /\ pc' # "idle" /\ pc' # "generate"
  BY <1>1, <1>2
<1> QED BY <1>7, <1>8, <1>9, <1>10 DEF LinkInv, Wrote

\* The overlay that is copied is what it was, and in its place.
LEMMA LinkHere ==
    ASSUME TypeInv, LinkInv, pc = "link", nth <= Len(opt.overlay), Linkable
    PROVE  /\ nth - 1 \in Nat /\ nth - 1 < Len(opt.overlay) /\ (nth - 1) + 1 = nth
           /\ inpos \in Nat /\ inpos <= Len(before[opt.overlay[nth]])
           /\ LinkedBy(fs[opt.out], nth - 1, inpos)
           /\ opt.out \in DOMAIN fs
           /\ IsSeq(before[opt.overlay[nth]]) /\ Len(before[opt.overlay[nth]]) \in Nat
           /\ OverlayChunk = Region(before[opt.overlay[nth]], inpos, ChunkSize)
<1>1. DOMAIN fs = Names /\ commands > 0 /\ inpos \in Nat /\ nth \in 1 .. Len(opt.overlay) + 1
  BY DEF TypeInv, FilesInv, KeepInv, PlaceInv, CopyTyped, CountsTyped
<1>2. Len(opt.overlay) \in Nat
  BY <1>1, LinkedFacts
<1>3. nth \in 1 .. Len(opt.overlay) /\ nth \in Nat \ {0}
  BY <1>1, <1>2
<1>4. /\ nth \in DOMAIN opt.overlay /\ opt.overlay[nth] \in Names \ {"tmp"}
      /\ IsSeq(before[opt.overlay[nth]]) /\ Len(before[opt.overlay[nth]]) \in Nat
  BY <1>1, <1>3, LinkedFacts
<1>5. fs[opt.overlay[nth]] = before[opt.overlay[nth]]
  BY <1>4 DEF LinkInv, Linkable
<1>6. nth - 1 \in Nat /\ nth - 1 < Len(opt.overlay) /\ (nth - 1) + 1 = nth
  BY <1>2, <1>3
<1> QED BY <1>1, <1>4, <1>5, <1>6 DEF LinkInv, OverlayChunk

\* Then the overlays, none of which has been written to.
LEMMA LinkCopies ==
    ASSUME TypeInv, LinkInv, CopyOverlay
    PROVE  LinkInv'
<1>1. /\ pc = "link" /\ pc' = "link" /\ nth <= Len(opt.overlay) /\ inpos' = inpos + Len(OverlayChunk)
      /\ fs' = [fs EXCEPT ![opt.out] = @ \o OverlayChunk]
      /\ UNCHANGED <<opt, cmd, nth, before>>
  BY DEF CopyOverlay
<1>2. /\ \A n \in Names \ {opt.out} : fs[n] = before[n]
      /\ opt.out \in Names /\ OverlaysAreThere
  BY <1>1 DEF LinkInv
<1>3. DOMAIN fs = Names /\ commands > 0 /\ Len(opt.overlay) \in Nat /\ nth \in 1 .. Len(opt.overlay) + 1
  BY <1>1, LinkedFacts DEF TypeInv, FilesInv, KeepInv, PlaceInv, CountsTyped
<1>4. UNCHANGED <<Linkable, OverlaysAreThere, LinkedHeader>>
  BY <1>1 DEF Linkable, OverlaysAreThere, LinkedHeader
<1>5. \A n \in Names \ {opt.out} : fs'[n] = before[n]
  BY <1>1, <1>2, <1>3
<1>6. ASSUME Linkable
      PROVE  /\ inpos' <= Len(before[opt.overlay[nth]])
             /\ LinkedBy(fs'[opt.out], nth - 1, inpos')
  <2> DEFINE m == nth - 1
             c == OverlayChunk
             f == fs[opt.out]
  <2>1. /\ m \in Nat /\ m < Len(opt.overlay) /\ m + 1 = nth
        /\ inpos \in Nat /\ inpos <= Len(before[opt.overlay[nth]])
        /\ LinkedBy(f, m, inpos)
        /\ c = Region(before[opt.overlay[nth]], inpos, ChunkSize)
    BY <1>1, <1>6, LinkHere
  <2>2. fs'[opt.out] = f \o c
    BY <1>1, <1>2, <1>3
  <2> HIDE DEF m, c, f
  <2>3. /\ inpos <= Len(before[opt.overlay[m + 1]])
        /\ c = Region(before[opt.overlay[m + 1]], inpos, ChunkSize)
    BY <2>1
  <2>4. /\ inpos + Len(c) <= Len(before[opt.overlay[m + 1]])
        /\ LinkedBy(f \o c, m, inpos + Len(c))
    BY <1>3, <2>1, <2>3, LinkedGrows
  <2>5. inpos' = inpos + Len(c)
    BY <1>1 DEF c
  <2>6. inpos' <= Len(before[opt.overlay[nth]]) /\ LinkedBy(fs'[opt.out], m, inpos')
    BY <2>1, <2>2, <2>4, <2>5
  <2> QED BY <2>6 DEF m
<1>7. Linkable' => /\ inpos' <= Len(before'[opt'.overlay[nth']])
                   /\ LinkedBy(fs[opt.out], nth - 1, inpos)'
  BY <1>1, <1>4, <1>6 DEF LinkedBy
<1>8. nth' <= Len(opt'.overlay)
  BY <1>1
<1>9. ~(nth' > Len(opt'.overlay))
  BY <1>1, <1>3
<1>10. OverlaysAreThere' /\ opt'.out \in Names /\ \A n \in Names \ {opt'.out} : fs'[n] = before'[n]
  BY <1>1, <1>2, <1>4, <1>5
<1> QED BY <1>1, <1>7, <1>9, <1>10 DEF LinkInv, Wrote

\* A read that finds nothing more is one at the end.
LEMMA LinkEnds ==
    ASSUME TypeInv, LinkInv, OverlayEnds
    PROVE  LinkInv'
<1>1. /\ pc = "link" /\ pc' = "link" /\ nth <= Len(opt.overlay) /\ OverlayChunk = << >>
      /\ nth' = nth + 1 /\ inpos' = 0
      /\ UNCHANGED <<fs, opt, cmd, before>>
  BY DEF OverlayEnds
<1>2. /\ \A n \in Names \ {opt.out} : fs[n] = before[n]
      /\ opt.out \in Names /\ OverlaysAreThere
  BY <1>1 DEF LinkInv
<1>3. commands > 0 /\ Len(opt.overlay) \in Nat /\ nth \in 1 .. Len(opt.overlay) + 1
  BY <1>1, LinkedFacts DEF TypeInv, KeepInv, PlaceInv, CountsTyped
<1>4. UNCHANGED <<Linkable, OverlaysAreThere, LinkedHeader>>
  BY <1>1 DEF Linkable, OverlaysAreThere, LinkedHeader
<1>5. ASSUME Linkable
      PROVE  LinkedBy(fs[opt.out], nth, 0)
  <2> DEFINE m == nth - 1
             f == fs[opt.out]
             t == before[opt.overlay[nth]]
             c == OverlayChunk
  <2>1. /\ m \in Nat /\ m < Len(opt.overlay) /\ m + 1 = nth
        /\ inpos \in Nat /\ inpos <= Len(t)
        /\ LinkedBy(f, m, inpos)
        /\ IsSeq(t) /\ Len(t) \in Nat /\ c = Region(t, inpos, ChunkSize) /\ c = << >>
    BY <1>1, <1>5, LinkHere
  <2> HIDE DEF m, f, t, c
  <2>2. inpos < Len(t) => c # << >>
    BY <2>1, ChunkGoesOn
  <2>3. inpos = Len(t)
    BY <2>1, <2>2
  <2>4. inpos = Len(before[opt.overlay[m + 1]])
    BY <2>1, <2>3 DEF t
  <2>5. LinkedBy(f, m + 1, 0)
    BY <1>3, <2>1, <2>4, LinkedEnds
  <2> QED BY <2>1, <2>5 DEF f
<1>6. Linkable' => LinkedBy(fs[opt.out], nth - 1, inpos)'
  <2>1. nth' - 1 = nth
    BY <1>1, <1>3
  <2> QED BY <1>1, <1>4, <1>5, <2>1 DEF LinkedBy
<1>7. nth' <= Len(opt'.overlay) => inpos' <= Len(before'[opt'.overlay[nth']])
  <2>1. ASSUME nth' <= Len(opt.overlay)
        PROVE  0 <= Len(before[opt.overlay[nth']])
    <3>1. nth' \in 1 .. Len(opt.overlay)
      BY <1>1, <1>3, <2>1
    <3>2. Len(before[opt.overlay[nth']]) \in Nat
      BY <1>3, <3>1, LinkedFacts
    <3> QED BY <3>2
  <2> QED BY <1>1, <2>1
<1>8. OverlaysAreThere' /\ opt'.out \in Names /\ \A n \in Names \ {opt'.out} : fs'[n] = before'[n]
  BY <1>1, <1>2, <1>4
<1> QED BY <1>1, <1>6, <1>7, <1>8 DEF LinkInv, Wrote

LEMMA LinkStep ==
    ASSUME TypeInv, LinkInv, [Next]_vars
    PROVE  LinkInv'
<1>1. CASE \E c \in Commands : Start(c)
  <2>1. pc' \in {"generate", "open"} /\ nth' = 1 /\ inpos' = 0
    BY <1>1 DEF Start
  <2> QED BY <2>1 DEF LinkInv, Wrote
<1>2. CASE Generate
  BY <1>2, LinkStarts
<1>3. CASE CopyOverlay
  BY <1>3, LinkCopies
<1>9. CASE OverlayEnds
  BY <1>9, LinkEnds
<1>4. CASE Generated
  <2>1. /\ pc = "link" /\ pc' = "idle" /\ nth > Len(opt.overlay)
        /\ UNCHANGED <<fs, opt, cmd, before>>
    BY <1>4 DEF Generated
  <2>2. /\ OverlaysAreThere /\ inpos = 0
        /\ Linkable => LinkedBy(fs[opt.out], nth - 1, inpos)
    BY <2>1 DEF LinkInv
  <2>3. opt.gen /\ Len(opt.overlay) \in Nat /\ nth - 1 = Len(opt.overlay)
    <3>1. opt.overlay \in Seq(Names \ {"tmp"}) /\ opt.gen
      BY <2>1 DEF TypeInv, OptTyped, KeepInv, PlaceInv
    <3>2. Len(opt.overlay) \in Nat
      BY <3>1, LenProperties
    <3>3. nth \in 1 .. Len(opt.overlay) + 1
      BY DEF TypeInv, CountsTyped
    <3> QED BY <2>1, <3>1, <3>2, <3>3
  <2>4. UNCHANGED <<Linkable, OverlaysAreThere, LinkedHeader>>
    BY <2>1 DEF Linkable, OverlaysAreThere, LinkedHeader
  <2>5. Result' = fs[opt.out]
    BY <2>1, <2>3 DEF Result, InPlace
  <2>6. Linkable' => LinkedBy(Result, Len(opt.overlay), 0)'
    BY <2>1, <2>2, <2>3, <2>4, <2>5 DEF LinkedBy
  <2> QED BY <2>1, <2>2, <2>4, <2>6 DEF LinkInv
<1>5. CASE OpenInput \/ StubHeader \/ ExeHeader \/ PayloadFound \/ Create \/ CopyChunk
           \/ MoveTruncates \/ Refill
  <2>1. pc' \in {"scan", "scanned", "copy", "refill"}
    BY <1>5 DEF OpenInput, StubHeader, ExeHeader, PayloadFound, Create, CopyChunk,
                MoveTruncates, Refill
  <2> QED BY <2>1, LinkElsewhere
<1>6. CASE Measure \/ CopyEnds \/ Rename \/ MoveUnlinks
  <2>1. /\ pc \in {"scanned", "copy", "move", "refill"} /\ opt' = opt
        /\ pc' \in {"create", "move", "idle"}
    BY <1>6 DEF Measure, CopyEnds, Rename, MoveUnlinks
  <2>2. ~opt'.gen
    BY <2>1 DEF TypeInv, KeepInv, PlaceInv
  <2> QED BY <2>1, <2>2, LinkElsewhere
<1>7. CASE OverlayFails \/ Reject \/ ScanFails \/ CreateFails \/ CopyFails \/ MoveFails \/ Kill
  <2>1. pc' = "idle" /\ ret' \in {1, 137}
    BY <1>7 DEF OverlayFails, Reject, ScanFails, CreateFails, CopyFails, MoveFails, Kill
  <2>2. ret' # 0
    BY <2>1
  <2> QED BY <2>1, <2>2, LinkElsewhere
<1>8. CASE UNCHANGED vars
  <2>1. UNCHANGED <<fs, opt, cmd, before, pc, nth, inpos, ret, commands>>
    BY <1>8 DEF vars
  <2>2. UNCHANGED <<Linkable, OverlaysAreThere, LinkedHeader, Wrote, Result>>
    BY <2>1 DEF Linkable, OverlaysAreThere, LinkedHeader, Wrote, Result, InPlace
  <2> QED BY <2>1, <2>2 DEF LinkInv, LinkedBy
<1> QED
  BY <1>1, <1>2, <1>3, <1>4, <1>5, <1>6, <1>7, <1>8, <1>9 DEF Next, Work, Faults

LEMMA LinkInductive == Spec => []LinkInv
<1>1. Init => LinkInv
  <2> SUFFICES ASSUME Init PROVE LinkInv
    OBVIOUS
  <2>1. pc = "idle" /\ commands = 0
    BY DEF Init
  <2>2. ~(commands > 0)
    BY <2>1
  <2> QED BY <2>1, <2>2 DEF LinkInv, Wrote
<1>2. TypeInv /\ LinkInv /\ [Next]_vars => LinkInv'
  BY LinkStep
<1> QED BY <1>1, <1>2, TypeInductive, PTL DEF Spec

\* What the header says of the overlays is what the stub reads out of it, as far
\* as it reads.
LEMMA GenerateHolds ==
    ASSUME TypeInv, LinkInv
    PROVE  GenerateDescribes
<1> SUFFICES ASSUME /\ Wrote /\ opt.gen
                    /\ \A k \in DOMAIN opt.overlay : opt.overlay[k] # opt.out
                    /\ Len(opt.overlay) <= SizeWords
                    /\ ~StartsWith(From(Result, cmd.stub), "mz")
             PROVE  /\ Region(Result, 0, cmd.stub) = Stub(CellAt(Result, 0).hdr, cmd.stub)
                    /\ \A k \in 1 .. 3 :
                         (Linked(k) = << >> \/ \A j \in 1 .. k - 1 : Linked(j) # << >>) =>
                            StubRegions(Result)[k] = Linked(k)
  BY DEF GenerateDescribes
<1> DEFINE h == LinkedHeader
           f == Result
           m == Len(opt.overlay)
           l == cmd.stub
<1>1. /\ IsFile(f) /\ StartsWith(f, "mz") /\ CellAt(f, 0).hdr = h
      /\ Region(f, 0, h.lfanew) = Stub(h, h.lfanew)
      /\ \A k \in 1 .. 3 : k <= m => Overlay(f, h, k) = before[opt.overlay[k]]
  <2>1. LinkedBy(f, m, 0)
    BY DEF LinkInv, Linkable
  <2>2. m \in Nat /\ \A k \in 1 .. 3 : k <= m => k <= m
    BY LinkedFacts DEF Wrote
  <2> QED BY <2>1, <2>2 DEF LinkedBy
<1>2. commands > 0 /\ h.lfanew = l /\ l \in Nat /\ m \in Nat
  BY LinkedFits, LinkedFacts DEF Wrote
<1>3. \A k \in 1 .. 3 : /\ h.lfanew + SlotOffs(h, k - 1) \in Nat
                        /\ k <= m => IsSeq(before[opt.overlay[k]]) /\ h.words[k - 1] = Len(before[opt.overlay[k]])
                        /\ ~(k <= m) => h.words[k - 1] = 0
  <2> TAKE k \in 1 .. 3
  <2>1. SlotOffs(h, k - 1) \in Nat /\ h.lfanew \in Nat
    BY <1>2, LinkedFacts
  <2>2. h.lfanew + SlotOffs(h, k - 1) \in Nat
    BY <2>1
  <2>3. k <= m => k \in 1 .. m
    BY <1>2
  <2> QED BY <1>2, <2>2, <2>3, LinkedFacts
<1>4. IsSeq(f) /\ Len(f) \in Nat
  BY <1>1, FileIsSeq
<1> HIDE DEF h, f, m, l
<1>5. Describes(f, h)
  <2> SUFFICES ASSUME HasCell(f, l) PROVE CellAt(f, l).what # "mz"
    BY <1>1, <1>2 DEF Describes
  <2> DEFINE t == From(f, l)
  <2>1. IsSeq(t) /\ Len(t) = (IF l < Len(f) THEN Len(f) - l ELSE 0)
        /\ \A k \in 1 .. Len(t) : t[k] = f[l + k]
    BY <1>2, <1>4, FromFacts
  <2>2. ~StartsWith(t, "mz")
    BY DEF f, l
  <2> HIDE DEF t
  <2>3. 0 < Len(t) /\ 1 \in 1 .. Len(t)
    BY <1>2, <1>4, <2>1 DEF HasCell
  <2>4. CellAt(t, 0) = CellAt(f, l)
    BY <2>1, <2>3 DEF CellAt
  <2> QED BY <2>2, <2>3, <2>4 DEF StartsWith, HasCell
<1>6. \A k \in 1 .. 3 : /\ Overlay(f, h, k) = Linked(k)
                        /\ h.words[k - 1] = 0 <=> Linked(k) = << >>
  <2> TAKE k \in 1 .. 3
  <2>1. CASE k <= m
    <3>1. Linked(k) = before[opt.overlay[k]] /\ IsSeq(Linked(k)) /\ h.words[k - 1] = Len(Linked(k))
      BY <1>3, <2>1 DEF Linked, m
    <3> QED BY <1>1, <2>1, <3>1, EmptyFacts
  <2>2. CASE ~(k <= m)
    <3>1. Linked(k) = << >> /\ h.words[k - 1] = 0
      BY <1>3, <2>2 DEF Linked, m
    <3>2. Region(f, h.lfanew + SlotOffs(h, k - 1), 0) = << >>
      BY <1>3, <1>4, EmptyRegion
    <3> QED BY <3>1, <3>2 DEF Overlay
  <2> QED BY <2>1, <2>2
<1>7. ASSUME NEW k \in 1 .. 3, Linked(k) = << >> \/ \A j \in 1 .. k - 1 : Linked(j) # << >>
      PROVE  StubRegions(f)[k] = Linked(k)
  <2>1. /\ h.words[0] = 0 <=> Linked(1) = << >>
        /\ h.words[1] = 0 <=> Linked(2) = << >>
        /\ h.words[2] = 0 <=> Linked(3) = << >>
    <3>1. 1 \in 1 .. 3 /\ 2 \in 1 .. 3 /\ 3 \in 1 .. 3 /\ 1 - 1 = 0 /\ 2 - 1 = 1 /\ 3 - 1 = 2
      OBVIOUS
    <3> QED BY <1>6, <3>1
  <2>2. CASE k = 1
    BY <1>5, <1>6, <2>2, KnownRegions
  <2>3. CASE k = 2
    <3>1. Linked(2) = << >> \/ Linked(1) # << >>
      <4>1. k = 2 => 1 \in 1 .. k - 1
        OBVIOUS
      <4> QED BY <1>7, <2>3, <4>1
    <3> QED BY <1>5, <1>6, <2>1, <2>3, <3>1, KnownRegions
  <2>4. CASE k = 3
    <3>1. Linked(3) = << >> \/ (Linked(1) # << >> /\ Linked(2) # << >>)
      <4>1. k = 3 => 1 \in 1 .. k - 1 /\ 2 \in 1 .. k - 1
        OBVIOUS
      <4> QED BY <1>7, <2>4, <4>1
    <3> QED BY <1>5, <1>6, <2>1, <2>4, <3>1, KnownRegions
  <2> QED BY <2>2, <2>3, <2>4
<1> QED BY <1>1, <1>2, <1>7 DEF f, l

-----------------------------------------------------------------------------
(* What -r gives back, over any number of commands.  On disk there are      *)
(* payloads, without or behind an exe header, and programs that carry one;   *)
(* linking, stubifying and stripping keep it so.                            *)

\* What -r copies: the overlay it keeps, or the rest of the file where the
\* header says nothing of its size.
KeptOffs(h) == h.lfanew + SlotOffs(h, KeptSlot(h))
KeptSize(f, h) ==
    IF h.words[KeptSlot(h)] # 0 THEN h.words[KeptSlot(h)] ELSE Len(f) - KeptOffs(h)

\* The header leads to a payload, and nothing before the overlay that -r keeps
\* is empty, so that -s does not cut it off.
Carries(f, h) ==
    /\ HasCell(f, h.lfanew) => CellAt(f, h.lfanew).what \notin {"mz", "exe"}
    /\ KeptSlot(h) # -1 =>
         /\ \A s \in Slots : s < KeptSlot(h) => h.words[s] # 0
         /\ Region(f, KeptOffs(h), KeptSize(f, h)) \in Payloads

\* A name that names no file, an empty file, a payload, or a program.
Good(f) ==
    \/ f = Missing \/ f = << >>
    \/ ~StartsWith(f, "mz") /\ Bare(f) \in Payloads
    \/ StartsWith(f, "mz") /\ Carries(f, CellAt(f, 0).hdr)

\* A payload is a file that begins with one of the two magics.
LEMMA PayloadFacts ==
    ASSUME NEW p \in Payloads
    PROVE  /\ IsFile(p) /\ IsSeq(p) /\ Len(p) \in Nat \ {0} /\ p # << >>
           /\ HasCell(p, 0) /\ CellAt(p, 0).what \in {"coff", "elf"}
           /\ ~StartsWith(p, "mz") /\ ~StartsWith(p, "exe")
<1>1. /\ \E n \in Names : p = Bare(InitFiles[n])
      /\ StartsWith(p, "coff") \/ StartsWith(p, "elf")
  BY DEF Payloads
<1>2. PICK n \in Names : p = Bare(InitFiles[n])
  BY <1>1
<1>3. IsFile(InitFiles[n])
  BY FilesAssumption
<1>4. IsFile(p)
  <2> DEFINE f == InitFiles[n]
             e == CellAt(f, 0).end
  <2>1. IsSeq(f) /\ Len(f) \in Nat
    BY <1>3, FileIsSeq
  <2>2. CASE StartsWith(f, "exe")
    <3>1. e \in Nat
      <4>1. 0 + 1 \in DOMAIN f /\ f[0 + 1].what = "exe"
        BY <2>1, <2>2, SeqFacts DEF StartsWith, HasCell, CellAt
      <4> QED BY <1>3, <4>1 DEF IsFile, CellAt
    <3>2. p = From(f, e)
      BY <1>2, <2>2 DEF Bare
    <3>3. From(f, e) = Region(f, e, Len(f))
      <4> HIDE DEF f, e
      <4>1. e + Len(f) >= Len(f)
        BY <2>1, <3>1
      <4> QED BY <2>1, <3>1, <4>1, RestIsRegion
    <3>4. IsFile(Region(f, e, Len(f)))
      <4>1. Len(f) \in Int
        BY <2>1
      <4> HIDE DEF f, e
      <4> QED BY <1>3, <2>1, <3>1, <4>1, RegionFile DEF f
    <3> QED BY <3>2, <3>3, <3>4
  <2>3. CASE ~StartsWith(f, "exe")
    BY <1>2, <1>3, <2>3 DEF Bare
  <2> QED BY <2>2, <2>3
<1>5. IsSeq(p) /\ Len(p) \in Nat /\ HasCell(p, 0) /\ CellAt(p, 0).what \in {"coff", "elf"}
  BY <1>1, <1>4, FileIsSeq DEF StartsWith
<1>6. Len(p) # 0
  BY <1>5 DEF HasCell
<1> QED BY <1>4, <1>5, <1>6, EmptyFacts DEF StartsWith

\* What is on disk has one header at most, which leads to a payload.
LEMMA GoodIsOne ==
    ASSUME NEW f, IsFile(f), Good(f)
    PROVE  OneHeader(f)
<1>1. IsSeq(f) /\ Len(f) \in Nat
  BY FileIsSeq
<1>2. CASE f = Missing \/ f = << >>
  <2>1. HasCell(f, 0) => CellAt(f, 0).what \notin {"mz", "exe"}
    <3>1. CASE f = Missing
      <4>1. CellAt(f, 0).what = "nothing"
        BY <3>1 DEF Missing, CellAt
      <4> QED BY <4>1
    <3>2. CASE f = << >>
      BY <3>2, EmptyFacts DEF HasCell
    <3> QED BY <1>2, <3>1, <3>2
  <2>2. HeaderEnd(f) = 0
    BY <2>1 DEF HeaderEnd, StartsWith
  <2> QED BY <2>1, <2>2 DEF OneHeader
<1>3. CASE ~StartsWith(f, "mz") /\ Bare(f) \in Payloads
  <2> DEFINE e == HeaderEnd(f)
  <2>1. HasCell(Bare(f), 0) /\ CellAt(Bare(f), 0).what \in {"coff", "elf"}
    BY <1>3, PayloadFacts
  <2>2. CASE StartsWith(f, "exe")
    <3>1. e = CellAt(f, 0).end /\ Bare(f) = From(f, e)
      BY <1>3, <2>2 DEF HeaderEnd, Bare
    <3>2. e \in Nat
      <4>1. 0 + 1 \in DOMAIN f /\ f[0 + 1].what = "exe"
        BY <1>1, <2>2, SeqFacts DEF StartsWith, HasCell, CellAt
      <4> QED BY <3>1, <4>1 DEF IsFile, CellAt
    <3> HIDE DEF e
    <3>3. SUFFICES ASSUME HasCell(f, e) PROVE CellAt(f, e).what \notin {"mz", "exe"}
      BY DEF OneHeader, e
    <3>4. \A k \in 1 .. Len(From(f, e)) : From(f, e)[k] = f[e + k]
      BY <1>1, <3>2, FromFacts
    <3>5. 1 \in 1 .. Len(From(f, e))
      BY <1>1, <2>1, <3>1, <3>2, FromFacts DEF HasCell
    <3>6. CellAt(f, e) = CellAt(Bare(f), 0)
      BY <3>1, <3>4, <3>5 DEF CellAt
    <3> QED BY <2>1, <3>6
  <2>3. CASE ~StartsWith(f, "exe")
    <3>1. e = 0 /\ Bare(f) = f
      BY <1>3, <2>3 DEF HeaderEnd, Bare
    <3> QED BY <2>1, <3>1 DEF OneHeader
  <2> QED BY <2>2, <2>3
<1>4. CASE StartsWith(f, "mz") /\ Carries(f, CellAt(f, 0).hdr)
  BY <1>4 DEF OneHeader, HeaderEnd, Carries
<1> QED BY <1>2, <1>3, <1>4 DEF Good

\* Which overlay is kept depends on types and flags alone.
LEMMA SameKept ==
    ASSUME NEW h, NEW g, h.types = g.types, h.flags = g.flags
    PROVE  KeptSlot(h) = KeptSlot(g) /\ KeptType(h) = KeptType(g)
<1>1. KeptType(h) = KeptType(g)
  BY DEF KeptType
<1> QED BY <1>1, SameTypes DEF KeptSlot

\* What a header carries the header of the copy carries, if the copy goes as far.
LEMMA CopyCarries ==
    ASSUME NEW h \in Headers, h.lfanew # 0, NEW f, IsFile(f), NEW g \in Headers,
           Carries(f, g), NEW z \in Int, h.types = g.types, h.flags = g.flags,
           KeptSlot(g) # -1 =>
             /\ \A s \in Slots : s < KeptSlot(g) => h.words[s] = g.words[s]
             /\ \/ /\ h.words[KeptSlot(g)] = g.words[KeptSlot(g)]
                   /\ \/ Len(f) <= g.lfanew + z
                      \/ /\ g.words[KeptSlot(g)] # 0
                         /\ SlotOffs(g, KeptSlot(g)) + g.words[KeptSlot(g)] <= z
                \/ /\ h.words[KeptSlot(g)] = 0 /\ g.words[KeptSlot(g)] # 0
                   /\ z = SlotOffs(g, KeptSlot(g)) + g.words[KeptSlot(g)]
    PROVE  Good(Stub(h, h.lfanew) \o Region(f, g.lfanew, z))
<1> DEFINE s == Stub(h, h.lfanew)
           t == Region(f, g.lfanew, z)
           r == s \o t
           idx == KeptSlot(g)
<1>1. /\ h.lfanew \in Nat \ {0} /\ g.lfanew \in Nat
      /\ IsSeq(f) /\ Len(f) \in Nat
  BY HeaderFields, FileIsSeq
<1>2. IsSeq(s) /\ Len(s) = h.lfanew
  BY <1>1, StubFile, FileIsSeq
<1>3. /\ HasCell(f, g.lfanew) => CellAt(f, g.lfanew).what \notin {"mz", "exe"}
      /\ idx # -1 =>
           /\ \A k \in Slots : k < idx => g.words[k] # 0
           /\ Region(f, KeptOffs(g), KeptSize(f, g)) \in Payloads
  BY DEF Carries
<1>4. Describes(r, h)
  <2> DEFINE off == g.lfanew
  <2>1. HasCell(f, off) => CellAt(f, off).what # "mz"
    BY <1>3
  <2>2. off \in Nat
    BY <1>1
  <2> HIDE DEF off
  <2>3. Describes(Stub(h, h.lfanew) \o Region(f, off, z), h)
    BY <2>1, <2>2, CopiedFile
  <2> QED BY <2>3 DEF off
<1>5. IsSeq(t)
  BY <1>1, RegionFacts DEF IsRegion
<1>6. ASSUME HasCell(r, h.lfanew)
      PROVE  CellAt(r, h.lfanew).what \notin {"mz", "exe"}
  <2>1. HasCell(t, 0) /\ CellAt(r, h.lfanew) = CellAt(t, 0)
    <3> HIDE DEF t
    <3> QED BY <1>5, <1>6, CopiedHead
  <2>2. StartsWith(t, CellAt(t, 0).what)
    BY <2>1 DEF StartsWith
  <2>3. HasCell(f, g.lfanew) /\ CellAt(f, g.lfanew).what = CellAt(t, 0).what
    BY <1>1, <2>2, RegionStart
  <2> QED BY <1>3, <2>1, <2>3
<1>7. KeptSlot(h) = idx
  BY SameKept
<1>8. ASSUME idx # -1
      PROVE  /\ \A k \in Slots : k < idx => h.words[k] # 0
             /\ Region(r, KeptOffs(h), KeptSize(r, h)) \in Payloads
  <2> DEFINE a == SlotOffs(g, idx)
             w == KeptSize(f, g)
             v == KeptSize(r, h)
             l == g.lfanew
  <2>1. idx \in Slots
    BY <1>8, FindFacts DEF KeptSlot
  <2>2. a \in Nat /\ g.words[idx] \in Nat /\ h.words[idx] \in Nat
    BY <2>1, SlotSteps
  <2>3. SlotOffs(h, idx) = a
    BY <1>8, <2>1, SameSlots
  <2>4. Region(f, l + a, w) \in Payloads
    BY <1>3, <1>8 DEF KeptOffs
  <2>5. Region(f, l + a, w) # << >>
    BY <2>4, PayloadFacts
  <2>6. w = IF g.words[idx] # 0 THEN g.words[idx] ELSE Len(f) - (l + a)
    BY DEF KeptSize, KeptOffs
  <2>7. v = IF h.words[idx] # 0 THEN h.words[idx] ELSE Len(r) - (Len(s) + a)
    BY <1>2, <1>7, <2>3 DEF KeptSize, KeptOffs
  <2>8. Len(r) \in Nat
    BY <1>4, FileIsSeq DEF Describes
  <2>9. \/ /\ h.words[idx] = g.words[idx]
           /\ Len(f) <= l + z \/ (g.words[idx] # 0 /\ a + g.words[idx] <= z)
        \/ h.words[idx] = 0 /\ g.words[idx] # 0 /\ z = a + g.words[idx]
    BY <1>8
  <2>10. \A k \in Slots : k < idx => h.words[k] # 0
    BY <1>3, <1>8
  <2>11. w \in Int /\ v \in Int /\ l \in Nat
    <3> HIDE DEF a, w, v, l, idx, r, s
    <3>1. Len(s) \in Nat /\ l \in Nat
      BY <1>1, <1>2 DEF l
    <3> QED BY <1>1, <2>2, <2>6, <2>7, <2>8, <3>1
  <2>12. \/ v = w /\ (a + w <= z \/ Len(f) <= l + z)
         \/ /\ v = Len(r) - (Len(s) + a)
            /\ z = a + w \/ (Len(f) <= l + z /\ w = Len(f) - (l + a))
    <3> HIDE DEF a, w, v, l, idx, r, s
    <3> QED BY <2>2, <2>6, <2>7, <2>9
  <2>13. Region(r, Len(s) + a, v) = Region(f, l + a, w)
    <3>1. r = s \o Region(f, l, z)
      OBVIOUS
    <3> HIDE DEF a, w, v, idx, s, l, r
    <3> DEFINE p == Len(s) + a
               q == l + a
    <3>2. Len(s) \in Nat
      BY <1>1, <1>2
    <3>3. IsSeq(s) /\ IsSeq(f) /\ l \in Nat /\ a \in Nat /\ w \in Int /\ v \in Int
      BY <1>1, <1>2, <2>2, <2>11
    <3>4. p \in Nat /\ q \in Nat /\ l <= q /\ p = Len(s) + (q - l)
      BY <3>2, <3>3
    <3>5. \/ v = w /\ (q + w <= l + z \/ Len(f) <= l + z)
          \/ /\ v = Len(s \o Region(f, l, z)) - p
             /\ l + z = q + w \/ (Len(f) <= l + z /\ w = Len(f) - q)
      BY <2>12, <3>1, <3>3
    <3> HIDE DEF p, q
    <3>6. w \in Nat \ {0} /\ q < Len(f)
      <4>1. Region(f, q, w) # << >>
        BY <2>5 DEF q
      <4>2. w > 0 /\ q < Len(f)
        BY <3>3, <3>4, <4>1, RegionFull
      <4> QED BY <3>3, <4>2
    <3>7. Region(s \o Region(f, l, z), p, v) = Region(f, q, w)
      <4>1. CASE v = w /\ (q + w <= l + z \/ Len(f) <= l + z)
        BY <3>3, <3>4, <3>6, <4>1, RegionShift
      <4>2. CASE v = Len(s \o Region(f, l, z)) - p
                 /\ (l + z = q + w \/ (Len(f) <= l + z /\ w = Len(f) - q))
        BY <3>3, <3>4, <3>6, <4>2, RegionLeft
      <4> QED BY <3>5, <4>1, <4>2
    <3> QED BY <3>1, <3>7 DEF p, q
  <2>14. Len(s) + a = KeptOffs(h)
    BY <1>2, <1>7, <2>3 DEF KeptOffs
  <2> HIDE DEF a, w, v, l, idx, r, s
  <2> QED BY <2>4, <2>10, <2>13, <2>14 DEF v
<1>9. h = CellAt(r, 0).hdr /\ StartsWith(r, "mz")
  BY <1>4 DEF Describes
<1> HIDE DEF r
<1> QED BY <1>6, <1>7, <1>8, <1>9 DEF Good, Carries, r

\* The header of the copy has the types and flags that the scan has seen.
LEMMA CopiedTypes ==
    ASSUME scan.hdr \in Headers
    PROVE  CopiedHeader.types = scan.hdr.types /\ CopiedHeader.flags = scan.hdr.flags
BY DEF CopiedHeader, Headers

LEMMA KeptIsNoDebug ==
    ASSUME NEW h
    PROVE  KeptType(h) \notin DebugTypes
BY DEF KeptType, DebugTypes, OT_COFF, OT_DJ32, OT_E64, OT_D64, OT_D32

\* Who begins with a header is there.
LEMMA MzIsFile ==
    ASSUME NEW f, StartsWith(f, "mz")
    PROVE  f # Missing /\ f # << >>
<1>1. CASE f = Missing
  <2>1. CellAt(f, 0).what = "nothing"
    BY <1>1 DEF Missing, CellAt
  <2> QED BY <2>1 DEF StartsWith
<1>2. CASE f = << >>
  BY <1>2, EmptyFacts DEF StartsWith, HasCell
<1> QED BY <1>1, <1>2

\* A program whose stub is replaced carries what it carried, also when -s cuts
\* something off.
LEMMA StubbedGood ==
    ASSUME TypeInv, WriteInv, ScanInv, Edited, ~opt.rmstub,
           Good(Source), StartsWith(Source, "mz")
    PROVE  Good(Result)
<1> DEFINE h == CopiedHeader
           g == SourceHeader
           z == Size
           idx == KeptSlot(g)
           last == Walk(g).passed
<1>1. /\ IsFile(Source) /\ IsSeq(Source) /\ Len(Source) \in Nat
      /\ h \in Headers /\ h.lfanew # 0 /\ h.words = scan.hdr.words
      /\ scan.coffset \in Nat /\ scan.size \in Nat /\ scan.hdr \in Headers
      /\ Result = Stub(h, h.lfanew) \o Region(Source, scan.coffset, z)
  BY EditedFacts DEF StubPart
<1>2. h.types = scan.hdr.types /\ h.flags = scan.hdr.flags
  BY <1>1, CopiedTypes
<1>3. Carries(Source, g)
  <2>1. Source # Missing /\ Source # << >>
    BY MzIsFile
  <2> QED BY <2>1 DEF Good, SourceHeader
<1>4. OneHeader(Source)
  BY <1>1, GoodIsOne
<1>5. g \in Headers
  BY <1>1, <1>4, SourceDescribed
<1>6. SeenBy(scan, g)
  BY <1>4 DEF ScanInv, Edited, FoundBy, PickedBy
<1>7. scan.coffset = g.lfanew /\ g.lfanew \in Nat
  BY <1>5, <1>6, HeaderFields DEF SeenBy
<1>8. z = IF scan.size # 0 THEN scan.size ELSE Len(Source) - g.lfanew
  BY <1>7 DEF Size
<1>9. z \in Int /\ Result = Stub(h, h.lfanew) \o Region(Source, g.lfanew, z)
  BY <1>1, <1>7, <1>8
<1>10. idx # -1 => idx \in Slots
  BY <1>5, FindFacts DEF KeptSlot
<1>11. CASE ~Stripping(g)
  <2>1. scan.hdr = g /\ scan.size = 0
    BY <1>6, <1>11 DEF SeenBy
  <2>2. h.words = g.words /\ h.types = g.types /\ h.flags = g.flags
    BY <1>1, <1>2, <2>1
  <2>3. Len(Source) <= g.lfanew + z
    BY <1>1, <1>7, <1>8, <2>1
  <2> HIDE DEF h, g, z, idx
  <2>4. Good(Stub(h, h.lfanew) \o Region(Source, g.lfanew, z))
    BY <1>1, <1>3, <1>5, <1>9, <2>2, <2>3, CopyCarries
  <2> QED BY <1>9, <2>4
<1>12. CASE Stripping(g)
  <2>1. /\ last > 1 /\ scan.size = SlotOffs(g, last) - Walk(g).size
        /\ scan.hdr = [g EXCEPT !.words[last - 1] = 0]
        /\ Walk(g).type \in DebugTypes
    BY <1>6, <1>12 DEF SeenBy, Stripping
  <2>2. /\ last \in 2 .. 4 /\ last - 1 \in Slots /\ Walk(g).size \in Nat
        /\ \A s \in Slots : s < last => g.words[s] # 0
    BY <1>5, <2>1, WalkFacts DEF Slots
  <2>3. /\ h.types = g.types /\ h.flags = g.flags
        /\ h.words = [g.words EXCEPT ![last - 1] = 0]
    BY <1>1, <1>2, <1>5, <2>1 DEF Headers
  <2>4. \A s \in Slots : h.words[s] = IF s = last - 1 THEN 0 ELSE g.words[s]
    BY <1>5, <2>3, HeaderFields
  <2>5. /\ SlotOffs(g, last) = SlotOffs(g, last - 1) + g.words[last - 1]
        /\ g.words[last - 1] \in Nat
    <3>1. (last - 1) + 1 = last
      BY <2>2
    <3>2. SlotOffs(g, (last - 1) + 1) = SlotOffs(g, last - 1) + g.words[last - 1]
          /\ g.words[last - 1] \in Nat
      BY <1>5, <2>2, SlotSteps
    <3> QED BY <3>1, <3>2
  <2>6. SlotOffs(g, last - 1) \in Nat \ {0}
    <3>1. 0 \in Slots /\ g.words[0] # 0 /\ 1 \in 0 .. 4 /\ last - 1 \in 0 .. 4 /\ 1 <= last - 1
      BY <2>2 DEF Slots
    <3>2. SlotOffs(g, 1) = g.words[0] /\ g.words[0] \in Nat
      <4>1. g.words \in [Slots -> Nat] /\ g.words[0] \in Nat
        BY <1>5, HeaderFields
      <4> QED BY <4>1, SlotSum
    <3>3. SlotOffs(g, last - 1) \in Nat /\ SlotOffs(g, 1) <= SlotOffs(g, last - 1)
      BY <1>5, <3>1, SlotsGrow
    <3> QED BY <3>1, <3>2, <3>3
  <2>7. idx # -1 =>
          /\ \A s \in Slots : s < idx => g.words[s] # 0
          /\ idx < last
          /\ Walk(g).size # 0 => idx < last - 1 /\ Walk(g).size = g.words[last - 1]
    <3> SUFFICES ASSUME idx # -1
                 PROVE  /\ \A s \in Slots : s < idx => g.words[s] # 0
                        /\ idx < last
                        /\ Walk(g).size # 0 =>
                              idx < last - 1 /\ Walk(g).size = g.words[last - 1]
      OBVIOUS
    <3>1. \A s \in Slots : s < idx => g.words[s] # 0
      BY <1>3 DEF Carries
    <3>2. KeptType(g) \notin DebugTypes /\ find_idx(KeptType(g), g) # -1
      BY KeptIsNoDebug DEF KeptSlot
    <3>3. \A s \in Slots : s < find_idx(KeptType(g), g) => g.words[s] # 0
      BY <3>1 DEF KeptSlot
    <3>4. /\ find_idx(KeptType(g), g) < Walk(g).passed
          /\ Walk(g).size # 0 => /\ find_idx(KeptType(g), g) < Walk(g).passed - 1
                                 /\ Walk(g).size = g.words[Walk(g).passed - 1]
      BY <1>5, <2>1, <3>2, <3>3, WalkPasses
    <3> QED BY <3>1, <3>4 DEF KeptSlot
  <2>8. Walk(g).size # 0 => Walk(g).size = g.words[last - 1]
    <3>1. Walk(g).size # 0 => Walk(g).size > 0
      BY <2>2
    <3> QED BY <1>5, <2>1, <3>1, WalkFacts
  <2> DEFINE a == SlotOffs(g, last - 1)
             w == g.words[last - 1]
             v == Walk(g).size
  <2>9. z = IF v # 0 THEN a ELSE a + w
    <3>1. scan.size = a + w - v /\ a \in Nat \ {0} /\ w \in Nat /\ (v # 0 => v = w)
      BY <2>1, <2>5, <2>6, <2>8
    <3>2. v \in Nat
      BY <2>2
    <3> HIDE DEF a, w, v, z
    <3> QED BY <1>8, <3>1, <3>2
  <2>10. ASSUME idx # -1
         PROVE  /\ \A s \in Slots : s < idx => h.words[s] = g.words[s]
                /\ \/ /\ h.words[idx] = g.words[idx] /\ g.words[idx] # 0
                      /\ SlotOffs(g, idx) + g.words[idx] <= z
                   \/ /\ h.words[idx] = 0 /\ g.words[idx] # 0
                      /\ z = SlotOffs(g, idx) + g.words[idx]
    <3>1. idx \in Slots /\ idx < last /\ (v # 0 => idx < last - 1)
      BY <1>10, <2>7, <2>10
    <3>2. \A s \in Slots : s < idx => h.words[s] = g.words[s]
      <4> HIDE DEF h, g, idx, last
      <4> QED BY <2>2, <2>4, <3>1 DEF Slots
    <3>3. g.words[idx] # 0
      BY <2>2, <3>1
    <3>4. CASE idx = last - 1
      <4>1. v = 0
        <5> HIDE DEF idx, last, v
        <5> QED BY <2>2, <3>1, <3>4
      <4>2. h.words[idx] = 0 /\ z = SlotOffs(g, idx) + g.words[idx]
        BY <2>4, <2>9, <3>1, <3>4, <4>1
      <4> QED BY <3>2, <3>3, <4>2
    <3>5. CASE idx # last - 1
      <4>1. h.words[idx] = g.words[idx]
        BY <2>4, <3>1, <3>5
      <4>2. idx + 1 \in 0 .. 4 /\ last - 1 \in 0 .. 4 /\ idx + 1 <= last - 1
        <5> HIDE DEF idx, last
        <5> QED BY <2>2, <3>1, <3>5 DEF Slots
      <4>3. SlotOffs(g, idx + 1) <= a /\ SlotOffs(g, idx + 1) \in Nat
        BY <1>5, <4>2, SlotsGrow
      <4>4. SlotOffs(g, idx + 1) = SlotOffs(g, idx) + g.words[idx]
        BY <1>5, <3>1, SlotSteps
      <4>5. a <= z
        <5>1. a \in Nat /\ w \in Nat
          BY <2>5, <2>6
        <5> HIDE DEF a, w, v, z
        <5> QED BY <2>9, <5>1
      <4>6. SlotOffs(g, idx) + g.words[idx] <= z
        <5>1. a \in Nat /\ z \in Int
          BY <1>9, <2>6
        <5> HIDE DEF a, z
        <5> QED BY <4>3, <4>4, <4>5, <5>1
      <4> QED BY <3>2, <3>3, <4>1, <4>6
    <3> QED BY <3>4, <3>5
  <2> HIDE DEF h, g, z, idx, last, a, w, v
  <2>11. Good(Stub(h, h.lfanew) \o Region(Source, g.lfanew, z))
    BY <1>1, <1>3, <1>5, <1>9, <2>3, <2>10, CopyCarries DEF idx
  <2> QED BY <1>9, <2>11
<1> QED BY <1>11, <1>12

\* A payload that gets a stub is what the header describes.
LEMMA BareGood ==
    ASSUME TypeInv, WriteInv, ScanInv, Edited, ~opt.rmstub,
           Good(Source), ~StartsWith(Source, "mz"), Source # Missing, Source # << >>
    PROVE  Good(Result)
<1> DEFINE h == CopiedHeader
           s == Stub(h, h.lfanew)
           t == Bare(Source)
           r == s \o t
<1>1. /\ IsFile(Source) /\ IsSeq(Source) /\ Len(Source) \in Nat
      /\ h \in Headers /\ h.lfanew # 0 /\ h.words = scan.hdr.words /\ scan.hdr \in Headers
      /\ Result = s \o Region(Source, scan.coffset, Size)
  BY EditedFacts DEF StubPart
<1>2. t \in Payloads /\ OneHeader(Source)
  BY <1>1, GoodIsOne DEF Good
<1>3. /\ IsFile(t) /\ IsSeq(t) /\ Len(t) \in Nat \ {0} /\ HasCell(t, 0)
      /\ CellAt(t, 0).what \in {"coff", "elf"} /\ ~StartsWith(t, "mz")
  BY <1>2, PayloadFacts
<1>4. BareBy(scan, SizedHeader)
  BY <1>2 DEF ScanInv, Edited, FoundBy
<1>5. Region(Source, scan.coffset, Size) = t
  BY <1>4, BareIsRest
<1>6. Result = r
  BY <1>1, <1>5
<1>7. scan.hdr = SizedHeader /\ Size = Len(Source) - HeaderEnd(Source)
  BY <1>4 DEF BareBy, Size
<1>8. /\ \A k \in Slots : h.types[k] = 0
      /\ h.flags = {}
      /\ h.words[0] = Size
  <2>1. h.types = SizedHeader.types /\ h.flags = SizedHeader.flags /\ h.words = SizedHeader.words
    BY <1>1, <1>7, CopiedTypes
  <2> QED BY <1>7, <2>1 DEF SizedHeader, FreshHeader, Header, Slots
<1>9. Size = Len(t)
  <2> DEFINE e == HeaderEnd(Source)
  <2>1. e \in Nat /\ HasCell(Source, e) /\ scan.coffset = e
    BY <1>4, EditedFacts DEF BareBy
  <2>2. Size \in Nat \ {0} /\ Size \in Int /\ e + Size = Len(Source)
    BY <1>1, <1>7, <2>1 DEF HasCell
  <2>3. IsRegion(t, Source, e, Size)
    BY <1>1, <1>5, <2>1, <2>2, RegionFacts
  <2>4. Have(Source, e, Size) = Size
    BY <1>1, <2>1, <2>2 DEF Have, HasCell
  <2> QED BY <2>3, <2>4 DEF IsRegion
<1>10. KeptSlot(h) = 0
  <2>1. KeptType(h) = OT_COFF
    BY <1>8 DEF KeptType
  <2>2. TypeCount(h) = 0
    BY <1>8 DEF TypeCount
  <2> QED BY <2>1, <2>2 DEF KeptSlot, find_idx
<1>11. IsSeq(s) /\ Len(s) = h.lfanew /\ h.lfanew \in Nat \ {0}
  BY <1>1, HeaderFields, StubFile, FileIsSeq
<1> HIDE DEF h, t
<1>12. Describes(r, h)
  BY <1>1, <1>3, WrittenFile
<1>13. HasCell(r, h.lfanew) => CellAt(r, h.lfanew).what \notin {"mz", "exe"}
  <2>1. HasCell(r, h.lfanew) => CellAt(r, h.lfanew) = CellAt(t, 0)
    BY <1>1, <1>3, CopiedHead
  <2> QED BY <1>3, <2>1
<1>14. KeptOffs(h) = Len(s)
  <2>1. SlotOffs(h, 0) = 0
    BY <1>1, HeaderFields, SlotSum
  <2> QED BY <1>10, <1>11, <2>1 DEF KeptOffs
<1>15. KeptSize(r, h) = Len(t)
  BY <1>3, <1>8, <1>9, <1>10 DEF KeptSize
<1>16. Region(r, Len(s), Len(t)) = t
  BY <1>3, <1>11, RegionAppended
<1>17. \A k \in Slots : ~(k < 0)
  BY DEF Slots
<1> HIDE DEF s, r
<1>18. Carries(r, h)
  BY <1>2, <1>10, <1>13, <1>14, <1>15, <1>16, <1>17 DEF Carries, t
<1> QED BY <1>6, <1>12, <1>18 DEF Good, Describes

\* What -r gives back.
LEMMA UnstubGood ==
    ASSUME TypeInv, WriteInv, ScanInv, Edited, opt.rmstub, Good(Source),
           Source # Missing, Source # << >>
    PROVE  Result \in Payloads
<1>1. IsFile(Source) /\ IsSeq(Source) /\ scan.coffset \in Nat /\ scan.size \in Nat
  BY EditedFacts
<1>2. Result = Region(Source, scan.coffset, Size)
  <2>1. Result = << >> \o Region(Source, scan.coffset, Size)
    BY EditedFacts DEF StubPart
  <2>2. Size \in Int
    BY <1>1, SeqFacts DEF Size
  <2>3. IsSeq(Region(Source, scan.coffset, Size))
    BY <1>1, <2>2, RegionFacts DEF IsRegion
  <2> QED BY <2>1, <2>3, ConcatEmpty
<1>3. FoundBy(scan, SizedHeader) /\ OneHeader(Source)
  BY <1>1, GoodIsOne DEF ScanInv, Edited
<1>4. CASE StartsWith(Source, "mz")
  <2> DEFINE g == SourceHeader
  <2>1. Carries(Source, g) /\ g \in Headers
    BY <1>1, <1>3, <1>4, SourceDescribed DEF Good, SourceHeader
  <2>2. PickedBy(scan, g)
    BY <1>3, <1>4 DEF FoundBy, SeenBy
  <2>3. /\ KeptSlot(g) # -1
        /\ scan.size = g.words[KeptSlot(g)] /\ scan.coffset = KeptOffs(g)
    <3>1. find_idx(KeptType(g), g) # -1
      BY <2>2 DEF PickedBy
    <3>2. /\ find_size(KeptType(g), g) = g.words[find_idx(KeptType(g), g)]
          /\ find_offs(KeptType(g), g) = SlotOffs(g, find_idx(KeptType(g), g))
      BY <2>1, <3>1, FindFacts
    <3> QED BY <2>2, <3>1, <3>2 DEF PickedBy, KeptSlot, KeptOffs
  <2>4. Size = KeptSize(Source, g)
    BY <2>3 DEF Size, KeptSize
  <2> QED BY <1>2, <2>1, <2>3, <2>4 DEF Carries
<1>5. CASE ~StartsWith(Source, "mz")
  <2>1. BareBy(scan, SizedHeader)
    BY <1>3, <1>5 DEF FoundBy
  <2>2. Bare(Source) \in Payloads
    BY <1>5 DEF Good
  <2> QED BY <1>2, <1>5, <2>1, <2>2, BareIsRest
<1> QED BY <1>4, <1>5

\* A payload without a stub is good as well.
LEMMA PayloadGood ==
    ASSUME NEW p \in Payloads
    PROVE  Good(p)
<1>1. ~StartsWith(p, "mz") /\ ~StartsWith(p, "exe")
  BY PayloadFacts
<1> QED BY <1>1 DEF Good, Bare

\* What a command that goes on, or has written, was given.
KnownInv ==
    /\ commands > 0 => opt = Parsed(cmd.opts)
    /\ pc = "link" => ~opt.bad /\ opt.out # ""
    /\ pc \in {"create", "copy", "move", "refill"} => ~opt.info
    /\ (Wrote /\ opt.gen) => ~opt.bad /\ opt.out # ""
    /\ (Wrote /\ ~opt.gen) => cmd.arg # ""

\* The file that the command writes.
Dest == IF opt.gen \/ ~InPlace THEN opt.out ELSE cmd.arg

\* What there was before the command is good, and what no command writes is what
\* it always was; besides the file it writes the command changes nothing but the
\* file of mkstemp, and not even that one when it fails of itself.
DiskGood ==
    /\ \A n \in Names \ {"tmp"} : Good(before[n])
    /\ \A n \in Names \ {"tmp"} :
         (\A c \in Commands : Written(c) # n) => before[n] = InitFiles[n]
    /\ \A n \in Names \ {"tmp", Dest} : fs[n] = before[n]
    /\ (pc = "idle" /\ ~Wrote) => \A n \in Names \ {"tmp"} : fs[n] = before[n]

DiskInv == KnownInv /\ ((Orderly /\ faults = 0) => DiskGood)

\* What -g links, where the options are as they are meant.
LEMMA LinkedGood ==
    ASSUME TypeInv, LinkInv, KnownInv, DiskGood, Orderly, Wrote, opt.gen
    PROVE  Good(Result)
<1> DEFINE h == LinkedHeader
           f == Result
           slot == LinkedSlot(opt)
           m == Len(opt.overlay)
<1>1. commands > 0 /\ cmd \in Commands /\ opt = Parsed(cmd.opts) /\ ~opt.bad /\ opt.out # ""
  BY DEF Wrote, KnownInv, TypeInv, KeepInv, PlaceInv
<1>2. opt.overlay \in Seq(Names \ {"tmp"})
  BY DEF TypeInv, OptTyped
<1>3. /\ m \in Nat /\ DOMAIN opt.overlay = 1 .. m
      /\ \A k \in 1 .. m : opt.overlay[k] \in Names \ {"tmp"}
  BY <1>2, LenProperties, ElementOfSeq
<1>4. Written(cmd) = opt.out
  BY <1>1 DEF Written
<1>5. \A k \in 1 .. m, d \in Commands : Written(d) # opt.overlay[k]
  BY <1>1, <1>3 DEF Orderly
<1>6. \A k \in 1 .. m : before[opt.overlay[k]] = InitFiles[opt.overlay[k]]
  BY <1>3, <1>5 DEF DiskGood
<1>7. OverlaysAreThere
  BY DEF LinkInv
<1>8. \A k \in 1 .. m : Exists(InitFiles[opt.overlay[k]])
  BY <1>6, <1>7 DEF OverlaysAreThere, Exists
<1>9. Links(cmd)
  BY <1>1, <1>3, <1>8 DEF Links
<1>10. /\ opt.overlay # << >> => InitFiles[opt.overlay[1]] \in Payloads
       /\ slot # -1 => /\ slot < NameWord /\ slot < m
                       /\ InitFiles[opt.overlay[slot + 1]] \in Payloads
                       /\ \A k \in 1 .. slot : InitFiles[opt.overlay[k]] # << >>
  BY <1>1, <1>9 DEF Orderly
<1>11. m >= 1 => before[opt.overlay[1]] \in Payloads
  <2> SUFFICES ASSUME m >= 1 PROVE before[opt.overlay[1]] \in Payloads
    OBVIOUS
  <2>1. 1 \in 1 .. m
    BY <1>3
  <2>2. opt.overlay # << >>
    BY <1>3, <2>1, EmptySeq
  <2> QED BY <1>6, <1>10, <2>1, <2>2
<1>12. Linkable
  BY <1>1, <1>3, <1>4, <1>5 DEF Linkable
<1>13. LinkedBy(f, m, 0)
  BY <1>12 DEF LinkInv
<1>14. /\ h \in Headers /\ h.lfanew \in Nat \ {0}
       /\ \A k \in 1 .. 3 : h.words[k - 1] =
            IF k <= m THEN Len(before[opt.overlay[k]]) ELSE 0
  BY <1>1, LinkedFits
<1>15. /\ IsFile(f) /\ IsSeq(f) /\ Len(f) \in Nat
       /\ StartsWith(f, "mz") /\ CellAt(f, 0).hdr = h
       /\ m = 0 => Len(f) = h.lfanew + SlotOffs(h, 0) + 0
       /\ \A k \in 1 .. 3 : k <= m => Overlay(f, h, k) = before[opt.overlay[k]]
  <2>1. 0 \in 0 .. 3
    OBVIOUS
  <2> QED BY <1>13, <2>1, FileIsSeq DEF LinkedBy
<1>16. KeptSlot(h) = slot
  <2> DEFINE g == [FreshHeader EXCEPT !.types = [s \in Slots |-> opt.types[s]],
                                      !.flags = opt.flags]
  <2>1. g.types = h.types /\ g.flags = h.flags
    BY DEF FreshHeader, LinkedHeader, Header
  <2>2. slot = KeptSlot(g)
    BY DEF LinkedSlot
  <2> HIDE DEF g, h
  <2> QED BY <2>1, <2>2, SameKept
<1> HIDE DEF h, f, slot, m
<1>17. h.lfanew + SlotOffs(h, 0) = h.lfanew
  BY <1>14, HeaderFields, SlotSum
<1>18. HasCell(f, h.lfanew) => CellAt(f, h.lfanew).what \notin {"mz", "exe"}
  <2>1. CASE m = 0
    <3>1. Len(f) = h.lfanew + SlotOffs(h, 0) + 0 /\ h.lfanew \in Nat
      BY <1>14, <1>15, <2>1
    <3>2. Len(f) = h.lfanew
      BY <1>17, <3>1
    <3> QED BY <3>1, <3>2 DEF HasCell
  <2>2. CASE m >= 1
    <3> DEFINE q == before[opt.overlay[1]]
               l == h.lfanew
               w == h.words[0]
    <3>1. q = Region(f, l, w) /\ w \in Int
      <4>1. Overlay(f, h, 1) = q
        BY <1>15, <2>2
      <4>2. h.words[1 - 1] \in Nat /\ 1 - 1 = 0
        BY <1>14, HeaderFields
      <4> QED BY <1>17, <4>1, <4>2 DEF Overlay
    <3>2. HasCell(q, 0) /\ CellAt(q, 0).what \in {"coff", "elf"}
      BY <1>11, <2>2, PayloadFacts
    <3>3. l \in Nat
      BY <1>14
    <3> DEFINE kind == CellAt(q, 0).what
    <3>4. StartsWith(q, kind)
      BY <3>2 DEF StartsWith
    <3>5. kind \notin {"mz", "exe"}
      BY <3>2
    <3> HIDE DEF q, l, w, kind
    <3>6. HasCell(f, l) /\ CellAt(f, l).what = kind
      BY <1>15, <3>1, <3>3, <3>4, RegionStart
    <3> QED BY <3>5, <3>6 DEF l
  <2> QED BY <1>3, <2>1, <2>2
<1>19. ASSUME slot # -1
       PROVE  /\ \A s \in Slots : s < slot => h.words[s] # 0
              /\ Region(f, KeptOffs(h), KeptSize(f, h)) \in Payloads
  <2>1. slot \in Slots
    BY <1>14, <1>16, <1>19, FindFacts DEF KeptSlot
  <2>2. slot < 3 /\ slot < m /\ InitFiles[opt.overlay[slot + 1]] \in Payloads
    BY <1>10, <1>19 DEF NameWord
  <2>11. \A k \in 1 .. slot : InitFiles[opt.overlay[k]] # << >>
    BY <1>10, <1>19
  <2>3. \A s \in Slots : s <= slot =>
          /\ s + 1 \in 1 .. 3 /\ s + 1 \in 1 .. m /\ (s + 1) - 1 = s /\ s + 1 <= m
    BY <1>3, <2>1, <2>2 DEF Slots
  <2>4. ASSUME NEW s \in Slots, s <= slot
        PROVE  h.words[s] # 0
    <3> DEFINE n == s + 1
    <3>1. n \in 1 .. 3 /\ n \in 1 .. m /\ n - 1 = s /\ n <= m
      BY <2>3, <2>4
    <3>2. h.words[n - 1] = Len(before[opt.overlay[n]])
      BY <1>14, <3>1
    <3>5. before[opt.overlay[n]] # << >>
      <4>1. before[opt.overlay[n]] = InitFiles[opt.overlay[n]]
        BY <1>6, <3>1
      <4>2. CASE s = slot
        BY <2>2, <4>1, <4>2, PayloadFacts
      <4>3. CASE s # slot
        <5>1. n \in 1 .. slot
          BY <2>1, <2>4, <4>3 DEF Slots
        <5> QED BY <2>11, <4>1, <5>1
      <4> QED BY <4>2, <4>3
    <3>3. IsFile(before[opt.overlay[n]])
      BY <1>3, <3>1 DEF TypeInv, FilesInv, m
    <3>4. Len(before[opt.overlay[n]]) # 0
      BY <3>3, <3>5, FileIsSeq, EmptyFacts
    <3> HIDE DEF n
    <3> QED BY <3>1, <3>2, <3>4
  <2>5. \A s \in Slots : s < slot => s <= slot
    BY <2>1 DEF Slots
  <2> DEFINE n == slot + 1
  <2>6. n \in 1 .. 3 /\ n \in 1 .. m /\ n - 1 = slot /\ n <= m
    <3>1. slot <= slot
      BY <2>1 DEF Slots
    <3> QED BY <2>1, <2>3, <3>1
  <2>7. KeptOffs(h) = h.lfanew + SlotOffs(h, n - 1) /\ KeptSize(f, h) = h.words[n - 1]
    BY <1>16, <2>1, <2>4, <2>6 DEF KeptOffs, KeptSize
  <2>8. Overlay(f, h, n) = before[opt.overlay[n]]
    BY <1>15, <2>6
  <2>9. before[opt.overlay[n]] \in Payloads
    BY <1>6, <2>2, <2>6
  <2> HIDE DEF n
  <2>10. Region(f, KeptOffs(h), KeptSize(f, h)) \in Payloads
    BY <2>7, <2>8, <2>9 DEF Overlay
  <2> QED BY <2>4, <2>5, <2>10
<1>20. Carries(f, h)
  BY <1>16, <1>18, <1>19 DEF Carries
<1>21. Good(f)
  BY <1>15, <1>20 DEF Good
<1> QED BY <1>21 DEF f

LEMMA KnownStep ==
    ASSUME TypeInv, KnownInv, [Next]_vars
    PROVE  KnownInv'
<1>1. CASE \E c \in Commands : Start(c)
  <2>1. PICK c \in Commands : Start(c)
    BY <1>1
  <2>2. /\ cmd' = c /\ opt' = Parsed(c.opts) /\ opt' = Parsed(cmd'.opts)
        /\ pc' \in {"generate", "open"}
    BY <2>1 DEF Start
  <2> QED BY <2>2 DEF KnownInv, Wrote
<1>2. CASE Generate
  <2>1. /\ ~opt.bad /\ opt.out # "" /\ pc' = "link"
        /\ UNCHANGED <<opt, cmd, commands>>
    BY <1>2 DEF Generate
  <2> QED BY <2>1 DEF KnownInv, Wrote
<1>3. CASE Measure
  <2>1. /\ pc = "scanned" /\ pc' \in {"idle", "create"} /\ UNCHANGED <<opt, cmd, commands>>
        /\ IF opt.info THEN pc' = "idle" ELSE pc' = "create"
    BY <1>3 DEF Measure
  <2>2. ~opt.gen
    BY <2>1 DEF TypeInv, KeepInv, PlaceInv
  <2> QED BY <2>1, <2>2 DEF KnownInv, Wrote
<1>4. CASE CopyOverlay \/ OverlayEnds
  <2>1. pc = "link" /\ pc' = "link" /\ UNCHANGED <<opt, cmd, commands>>
    BY <1>4 DEF CopyOverlay, OverlayEnds
  <2> QED BY <2>1 DEF KnownInv, Wrote
<1>5. CASE Generated
  <2>1. pc = "link" /\ pc' = "idle" /\ UNCHANGED <<opt, cmd, commands>>
    BY <1>5 DEF Generated
  <2>2. opt.gen
    BY <2>1 DEF TypeInv, KeepInv, PlaceInv
  <2> QED BY <2>1, <2>2 DEF KnownInv, Wrote
<1>6. CASE OpenInput \/ StubHeader \/ ExeHeader \/ PayloadFound
  <2>1. pc' \in {"scan", "scanned"} /\ UNCHANGED <<opt, cmd, commands>>
    BY <1>6 DEF OpenInput, StubHeader, ExeHeader, PayloadFound
  <2> QED BY <2>1 DEF KnownInv, Wrote
<1>7. CASE Create \/ CopyChunk \/ CopyEnds \/ Rename \/ MoveTruncates \/ Refill \/ MoveUnlinks
  <2>1. /\ pc \in {"create", "copy", "move", "refill"}
        /\ pc' \in {"copy", "move", "refill", "idle"} /\ UNCHANGED <<opt, cmd, commands>>
    BY <1>7 DEF Create, CopyChunk, CopyEnds, Rename, MoveTruncates, Refill, MoveUnlinks
  <2>2. ~opt.gen /\ cmd.arg # ""
    BY <2>1 DEF TypeInv, KeepInv, PlaceInv
  <2> QED BY <2>1, <2>2 DEF KnownInv, Wrote
<1>8. CASE Reject \/ ScanFails \/ Faults
  <2>1. pc' = "idle" /\ ret' \in {1, 137} /\ UNCHANGED <<opt, cmd, commands>>
    BY <1>8 DEF Reject, ScanFails, Faults, OverlayFails, CreateFails, CopyFails, MoveFails, Kill
  <2>2. ret' # 0
    BY <2>1
  <2> QED BY <2>1, <2>2 DEF KnownInv, Wrote
<1>9. CASE UNCHANGED vars
  BY <1>9 DEF vars, KnownInv, Wrote
<1> QED
  BY <1>1, <1>2, <1>3, <1>4, <1>5, <1>6, <1>7, <1>8, <1>9 DEF Next, Work

\* What is scanned and copied is a file that was there.
ThereInv ==
    (~opt.gen /\ (pc \in {"scan", "scanned", "create", "copy", "move", "refill"} \/ Wrote)) =>
        Source # Missing

LEMMA ThereStep ==
    ASSUME TypeInv, ThereInv, [Next]_vars
    PROVE  ThereInv'
<1>1. CASE (\E c \in Commands : Start(c)) \/ Generate \/ CopyOverlay \/ OverlayEnds
  <2>1. pc' \in {"generate", "open", "link"}
    <3>1. CASE \E c \in Commands : Start(c)
      BY <3>1 DEF Start
    <3>2. CASE Generate
      BY <3>2 DEF Generate
    <3>3. CASE CopyOverlay \/ OverlayEnds
      BY <3>3 DEF CopyOverlay, OverlayEnds
    <3> QED BY <1>1, <3>1, <3>2, <3>3
  <2> QED BY <2>1 DEF ThereInv, Wrote
<1>2. CASE Generated
  <2>1. opt' = opt /\ opt.gen
    BY <1>2 DEF Generated, TypeInv, KeepInv, PlaceInv
  <2> QED BY <2>1 DEF ThereInv
<1>3. CASE OpenInput
  <2>1. /\ fs[cmd.arg] # Missing /\ fs = before
        /\ UNCHANGED <<cmd, before>>
    BY <1>3 DEF OpenInput, Exists, TypeInv, FilesInv
  <2> QED BY <2>1 DEF ThereInv, Source
<1>4. CASE StubHeader \/ ExeHeader \/ PayloadFound \/ Measure \/ Create \/ CopyChunk \/ CopyEnds
           \/ Rename \/ MoveTruncates \/ Refill \/ MoveUnlinks
  <2>1. /\ pc \in {"scan", "scanned", "create", "copy", "move", "refill"}
        /\ UNCHANGED <<cmd, opt, before>>
    BY <1>4 DEF StubHeader, ExeHeader, PayloadFound, Measure, Create, CopyChunk, CopyEnds,
                Rename, MoveTruncates, Refill, MoveUnlinks
  <2> QED BY <2>1 DEF ThereInv, Source
<1>5. CASE Reject \/ ScanFails \/ Faults
  <2>1. pc' = "idle" /\ ret' \in {1, 137}
    BY <1>5 DEF Reject, ScanFails, Faults, OverlayFails, CreateFails, CopyFails, MoveFails, Kill
  <2>2. ret' # 0
    BY <2>1
  <2> QED BY <2>1, <2>2 DEF ThereInv, Wrote
<1>6. CASE UNCHANGED vars
  BY <1>6 DEF vars, ThereInv, Wrote, Source
<1> QED
  BY <1>1, <1>2, <1>3, <1>4, <1>5, <1>6 DEF Next, Work

LEMMA ThereInductive == Spec => []ThereInv
<1>1. Init => ThereInv
  <2> SUFFICES ASSUME Init PROVE ThereInv
    OBVIOUS
  <2>1. pc = "idle" /\ commands = 0
    BY DEF Init
  <2>2. ~(commands > 0)
    BY <2>1
  <2> QED BY <2>1, <2>2 DEF ThereInv, Wrote
<1>2. TypeInv /\ ThereInv /\ [Next]_vars => ThereInv'
  BY ThereStep
<1> QED BY <1>1, <1>2, TypeInductive, PTL DEF Spec

\* Who has found something to copy had an input with something in it.
LEMMA SourceIsThere ==
    ASSUME TypeInv, WriteInv, ScanInv, ThereInv, Edited, OneHeader(Source)
    PROVE  Source # Missing /\ Source # << >>
<1>1. FoundBy(scan, SizedHeader) /\ Len(Source) \in Nat
  BY EditedFacts DEF ScanInv, Edited
<1>2. CASE StartsWith(Source, "mz")
  BY <1>2, MzIsFile
<1>3. CASE ~StartsWith(Source, "mz")
  <2>1. scan.coffset \in Nat /\ scan.coffset < Len(Source)
    BY <1>1, <1>3, EditedFacts DEF FoundBy, BareBy, HasCell
  <2>2. Len(Source) # 0
    BY <1>1, <2>1
  <2> QED BY <2>2, EmptyFacts DEF ThereInv, Edited
<1> QED BY <1>2, <1>3

\* coff2exe, by commands that are used as they are meant, has another input.
LEMMA OrderlyEdits ==
    ASSUME TypeInv, KnownInv, Orderly, Wrote, ~opt.gen
    PROVE  Edited /\ cmd.arg \in Names \ {"tmp"}
<1>1. cmd \in Commands /\ opt = Parsed(cmd.opts) /\ cmd.arg # ""
  BY DEF Wrote, KnownInv, TypeInv, KeepInv, PlaceInv
<1>2. opt.out = "" \/ opt.out # cmd.arg
  BY <1>1 DEF Orderly
<1> QED BY <1>1, <1>2, CommandsAssumption DEF Edited

\* What a command has written is good again.
LEMMA WroteGood ==
    ASSUME TypeInv, WriteInv, ScanInv, ThereInv, LinkInv, KnownInv, DiskGood, Orderly, Wrote
    PROVE  Good(Result)
<1>1. CASE opt.gen
  BY <1>1, LinkedGood
<1>2. CASE ~opt.gen
  <2>1. Edited /\ Good(Source)
    BY <1>2, OrderlyEdits DEF DiskGood, Source
  <2>2. Source # Missing /\ Source # << >>
    <3>1. OneHeader(Source)
      BY <2>1, EditedFacts, GoodIsOne
    <3> QED BY <2>1, <3>1, SourceIsThere
  <2>3. CASE opt.rmstub
    BY <2>1, <2>2, <2>3, UnstubGood, PayloadGood
  <2>4. CASE ~opt.rmstub /\ StartsWith(Source, "mz")
    BY <2>1, <2>4, StubbedGood
  <2>5. CASE ~opt.rmstub /\ ~StartsWith(Source, "mz")
    BY <2>1, <2>2, <2>5, BareGood
  <2> QED BY <2>3, <2>4, <2>5
<1> QED BY <1>1, <1>2

\* A new command finds what the one before it has left.
LEMMA DiskStarts ==
    ASSUME TypeInv, WriteInv, ScanInv, ThereInv, LinkInv, KnownInv, DiskGood, Orderly,
           NEW c \in Commands, Start(c)
    PROVE  DiskGood'
<1>1. pc = "idle" /\ pc' # "idle" /\ before' = fs /\ fs' = fs
  BY DEF Start
<1>2. \A n \in Names \ {"tmp", Dest} : fs[n] = before[n]
  BY DEF DiskGood
<1>3. CASE ~Wrote
  <2>1. \A n \in Names \ {"tmp"} : fs[n] = before[n]
    BY <1>1, <1>3 DEF DiskGood
  <2>2. \A n \in Names \ {"tmp"} : Good(fs[n])
    BY <2>1 DEF DiskGood
  <2>3. \A n \in Names \ {"tmp"} :
          (\A d \in Commands : Written(d) # n) => fs[n] = InitFiles[n]
    BY <2>1 DEF DiskGood
  <2> QED BY <1>1, <2>2, <2>3 DEF DiskGood
<1>4. CASE Wrote
  <2>1. fs[Dest] = Result
    BY DEF Dest, Result
  <2>2. \A n \in Names \ {"tmp"} : Good(fs[n])
    <3>1. Good(fs[Dest])
      BY <1>4, <2>1, WroteGood
    <3>2. \A n \in Names \ {"tmp", Dest} : Good(fs[n])
      BY <1>2 DEF DiskGood
    <3> QED BY <3>1, <3>2
  <2>3. cmd \in Commands /\ Written(cmd) = Dest
    <3>1. cmd \in Commands /\ opt = Parsed(cmd.opts) /\ (opt.gen \/ ~opt.info)
      BY <1>4 DEF Wrote, KnownInv, TypeInv, KeepInv, PlaceInv
    <3> QED BY <3>1 DEF Written, Dest, InPlace
  <2>4. \A n \in Names \ {"tmp"} :
          (\A d \in Commands : Written(d) # n) => fs[n] = InitFiles[n]
    BY <1>2, <2>3 DEF DiskGood
  <2> QED BY <1>1, <2>2, <2>4 DEF DiskGood
<1> QED BY <1>3, <1>4

\* A command that writes its own file alone, and ends with it written.
LEMMA DiskWorks ==
    ASSUME DiskGood, UNCHANGED <<opt, cmd, before>>,
           \A n \in Names \ {"tmp", Dest} : fs'[n] = fs[n],
           pc' # "idle" \/ Wrote'
    PROVE  DiskGood'
<1>1. Dest' = Dest
  BY DEF Dest, InPlace
<1> QED BY <1>1 DEF DiskGood

\* One that ends before it has written anything.
LEMMA DiskRests ==
    ASSUME TypeInv, DiskGood, UNCHANGED <<fs, opt, cmd, before>>,
           pc \in {"open", "generate", "scan", "scanned"}
    PROVE  DiskGood'
<1>1. Dest' = Dest
  BY DEF Dest, InPlace
<1>2. fs' = before'
  BY DEF TypeInv, FilesInv
<1> QED BY <1>1, <1>2 DEF DiskGood

LEMMA DiskStep ==
    ASSUME TypeInv, WriteInv, ScanInv, ThereInv, LinkInv, DiskInv, [Next]_vars
    PROVE  DiskInv'
<1>1. KnownInv' /\ KnownInv
  BY KnownStep DEF DiskInv
<1>2. faults \in Nat /\ DOMAIN fs = Names
  BY BoundsAssumption DEF TypeInv, CountsTyped, FilesInv
<1> SUFFICES ASSUME Orderly, faults' = 0 PROVE DiskGood'
  BY <1>1 DEF DiskInv
<1>3. CASE Faults
  <2>1. faults' = faults + 1
    <3>1. CASE OverlayFails \/ CreateFails
      BY <3>1 DEF OverlayFails, CreateFails
    <3>2. CASE CopyFails \/ MoveFails \/ Kill
      BY <3>2 DEF CopyFails, MoveFails, Kill
    <3> QED BY <1>3, <3>1, <3>2 DEF Faults
  <2> QED BY <1>2, <2>1
<1>4. ASSUME UNCHANGED faults
      PROVE  DiskGood
  BY <1>4 DEF DiskInv
<1>5. CASE \E c \in Commands : Start(c)
  <2>1. PICK c \in Commands : Start(c)
    BY <1>5
  <2>2. DiskGood
    BY <1>4, <2>1 DEF Start
  <2> QED BY <1>1, <2>1, <2>2, DiskStarts
<1>6. CASE Reject \/ OpenInput \/ StubHeader \/ ExeHeader \/ PayloadFound \/ ScanFails \/ Measure
  <2>1. /\ UNCHANGED <<fs, opt, cmd, before, faults>>
        /\ pc \in {"open", "generate", "scan", "scanned"}
    <3>1. CASE Reject \/ OpenInput \/ PayloadFound \/ ScanFails
      BY <3>1 DEF Reject, OpenInput, PayloadFound, ScanFails
    <3>2. CASE StubHeader \/ ExeHeader
      BY <3>2 DEF StubHeader, ExeHeader
    <3>3. CASE Measure
      BY <3>3 DEF Measure
    <3> QED BY <1>6, <3>1, <3>2, <3>3
  <2> QED BY <1>4, <2>1, DiskRests
<1>7. CASE Generate \/ CopyOverlay \/ OverlayEnds
  <2>1. /\ UNCHANGED <<opt, cmd, before, faults>> /\ pc' = "link"
        /\ pc \in {"generate", "link"} /\ \A n \in Names \ {opt.out} : fs'[n] = fs[n]
    BY <1>2, <1>7 DEF Generate, CopyOverlay, OverlayEnds
  <2>2. Dest = opt.out
    BY <2>1 DEF TypeInv, KeepInv, PlaceInv, Dest
  <2> QED BY <1>4, <2>1, <2>2, DiskWorks
<1>8. CASE Generated
  <2>1. UNCHANGED <<fs, opt, cmd, before, faults, commands>> /\ pc' = "idle" /\ ret' = 0 /\ pc = "link"
    BY <1>8 DEF Generated
  <2>2. Wrote'
    BY <2>1 DEF TypeInv, KeepInv, PlaceInv, Wrote
  <2> QED BY <1>4, <2>1, <2>2, DiskWorks
<1>9. CASE Create \/ CopyChunk
  <2>1. /\ UNCHANGED <<opt, cmd, before, faults>> /\ pc' = "copy"
        /\ pc \in {"create", "copy"} /\ \A n \in Names \ {Target} : fs'[n] = fs[n]
    BY <1>2, <1>9 DEF Create, CopyChunk
  <2>2. Target \in {"tmp", Dest}
    BY DEF Dest, Target
  <2> QED BY <1>4, <2>1, <2>2, DiskWorks
<1>10. CASE CopyEnds
  <2>1. /\ UNCHANGED <<fs, opt, cmd, before, faults, commands>> /\ pc = "copy"
        /\ IF InPlace THEN pc' = "move" ELSE pc' = "idle" /\ ret' = 0
    BY <1>10 DEF CopyEnds
  <2>2. pc' # "idle" \/ Wrote'
    BY <1>1, <2>1 DEF TypeInv, KeepInv, PlaceInv, KnownInv, Wrote
  <2> QED BY <1>4, <2>1, <2>2, DiskWorks
<1>11. CASE Rename \/ MoveTruncates \/ Refill \/ MoveUnlinks
  <2>1. /\ UNCHANGED <<opt, cmd, before, faults, commands>> /\ pc \in {"move", "refill"}
        /\ \A n \in Names \ {"tmp", cmd.arg} : fs'[n] = fs[n]
        /\ pc' = "refill" \/ (pc' = "idle" /\ ret' = 0)
    BY <1>2, <1>11 DEF Rename, MoveTruncates, Refill, MoveUnlinks
  <2>2. Dest = cmd.arg /\ (pc' # "idle" \/ Wrote')
    BY <1>1, <2>1 DEF TypeInv, KeepInv, PlaceInv, KnownInv, Wrote, Dest
  <2> QED BY <1>4, <2>1, <2>2, DiskWorks
<1>12. CASE UNCHANGED vars
  <2>1. UNCHANGED <<fs, pc, opt, cmd, before, faults, commands, ret>>
    BY <1>12 DEF vars
  <2>2. Wrote' = Wrote /\ Dest' = Dest /\ DiskGood
    BY <1>4, <2>1 DEF Wrote, Dest, InPlace
  <2> QED BY <2>1, <2>2 DEF DiskGood
<1> QED
  BY <1>3, <1>5, <1>6, <1>7, <1>8, <1>9, <1>10, <1>11, <1>12 DEF Next, Work

LEMMA DiskInit == Init => DiskInv
<1> SUFFICES ASSUME Init PROVE DiskInv
  OBVIOUS
<1>1. pc = "idle" /\ commands = 0 /\ fs = InitFiles /\ before = InitFiles
  BY DEF Init
<1>2. ~(commands > 0) /\ ~Wrote
  BY <1>1 DEF Wrote
<1>3. KnownInv
  BY <1>1, <1>2 DEF KnownInv
<1>4. ASSUME Orderly, NEW n \in Names \ {"tmp"}
      PROVE  Good(InitFiles[n])
  <2>1. CASE InitFiles[n] = Missing \/ InitFiles[n] = << >>
    BY <2>1 DEF Good
  <2>2. CASE InitFiles[n] # Missing /\ InitFiles[n] # << >>
    <3>1. Bare(InitFiles[n]) \in Payloads
      BY <1>4, <2>2 DEF Orderly, Exists
    <3>2. ~StartsWith(InitFiles[n], "mz")
      <4> SUFFICES ASSUME StartsWith(InitFiles[n], "mz") PROVE FALSE
        OBVIOUS
      <4>1. Bare(InitFiles[n]) = InitFiles[n]
        BY DEF Bare, StartsWith
      <4> QED BY <3>1, <4>1, PayloadFacts
    <3> QED BY <3>1, <3>2 DEF Good
  <2> QED BY <2>1, <2>2
<1> QED BY <1>1, <1>2, <1>3, <1>4 DEF DiskInv, DiskGood

LEMMA DiskInductive == Spec => []DiskInv
<1>1. TypeInv /\ WriteInv /\ ScanInv /\ ThereInv /\ LinkInv /\ DiskInv /\ [Next]_vars => DiskInv'
  BY DiskStep
<1> QED
  BY <1>1, DiskInit, TypeInductive, WriteInductive, ScanInductive, ThereInductive,
     LinkInductive, PTL DEF Spec

LEMMA PayloadHolds ==
    ASSUME TypeInv, WriteInv, ScanInv, ThereInv, DiskInv
    PROVE  UnstubGivesPayload
<1> SUFFICES ASSUME Orderly, faults = 0, Edited, opt.rmstub PROVE Result \in Payloads
  BY DEF UnstubGivesPayload
<1>1. Wrote /\ ~opt.gen /\ KnownInv /\ DiskGood
  BY DEF Edited, DiskInv
<1>2. Good(Source)
  BY <1>1, OrderlyEdits DEF DiskGood, Source
<1>3. OneHeader(Source)
  BY <1>2, EditedFacts, GoodIsOne
<1>4. Source # Missing /\ Source # << >>
  BY <1>3, SourceIsThere
<1> QED BY <1>2, <1>4, UnstubGood

-----------------------------------------------------------------------------
(* How far a command is from its end.                                       *)

\* While shutil.move copies, the input is a beginning of the finished program.
RefillInv ==
    pc = "refill" =>
        /\ Len(fs[cmd.arg]) <= Len(fs["tmp"])
        /\ fs[cmd.arg] = Region(fs["tmp"], 0, Len(fs[cmd.arg]))

\* What shutil.move works on.
LEMMA MoveFacts ==
    ASSUME TypeInv, pc \in {"move", "refill"}
    PROVE  /\ DOMAIN fs = Names /\ cmd.arg \in Names /\ cmd.arg # "tmp"
           /\ IsSeq(fs["tmp"]) /\ Len(fs["tmp"]) \in Nat
           /\ IsSeq(fs[cmd.arg]) /\ Len(fs[cmd.arg]) \in Nat
BY InputNamed, FilesAssumption, FileIsSeq DEF TypeInv, FilesInv

\* One turn of its copy loop: more than nothing, and no more than there is.
LEMMA RefillTurn ==
    ASSUME TypeInv, RefillInv, Refill
    PROVE  /\ fs'["tmp"] = fs["tmp"] /\ Len(fs'[cmd.arg]) \in Nat
           /\ Len(fs'[cmd.arg]) > Len(fs[cmd.arg])
           /\ Len(fs'[cmd.arg]) <= Len(fs["tmp"])
           /\ fs'[cmd.arg] = Region(fs["tmp"], 0, Len(fs'[cmd.arg]))
<1> DEFINE t == fs["tmp"]
           f == fs[cmd.arg]
           n == Len(f)
           r == Region(t, n, ChunkSize)
<1>1. /\ pc = "refill" /\ f # t
      /\ fs' = [fs EXCEPT ![cmd.arg] = f \o r]
  BY DEF Refill
<1>2. /\ DOMAIN fs = Names /\ cmd.arg \in Names /\ cmd.arg # "tmp"
      /\ IsSeq(t) /\ Len(t) \in Nat /\ IsSeq(f) /\ n \in Nat
  BY <1>1, MoveFacts
<1>3. n <= Len(t) /\ f = Region(t, 0, n)
  BY <1>1 DEF RefillInv
<1>4. fs'["tmp"] = t /\ fs'[cmd.arg] = f \o r
  <2> DEFINE g == f \o r
  <2> HIDE DEF g
  <2>1. fs' = [fs EXCEPT ![cmd.arg] = g]
    BY <1>1 DEF g
  <2>2. fs'["tmp"] = fs["tmp"] /\ fs'[cmd.arg] = g
    BY <1>2, <2>1
  <2> QED BY <2>2 DEF g
<1>5. ChunkSize \in Nat \ {0}
  BY BoundsAssumption
<1> HIDE DEF t, f, n, r
<1>6. n < Len(t)
  <2> SUFFICES ASSUME n = Len(t) PROVE FALSE
    BY <1>2, <1>3
  <2>1. Region(t, 0, n) = From(t, 0)
    BY <1>2, RestIsRegion
  <2>2. From(t, 0) = t
    BY <1>2, FromStart
  <2> QED BY <1>1, <1>3, <2>1, <2>2
<1>7. IsSeq(r) /\ Len(r) = Have(t, n, ChunkSize)
  <2>1. IsRegion(Region(t, n, ChunkSize), t, n, ChunkSize)
    BY <1>2, <1>5, RegionFacts
  <2> QED BY <2>1 DEF IsRegion, r
<1>8. Len(r) \in Nat /\ Len(r) > 0 /\ n + Len(r) <= Len(t)
  BY <1>2, <1>5, <1>6, <1>7 DEF Have
<1>9. Len(f \o r) = n + Len(r)
  BY <1>2, <1>7, Concat DEF IsConcat, n
<1>10. f \o r = Region(t, 0, n + Len(r))
  <2>1. Region(t, 0, n) \o Region(t, 0 + n, ChunkSize) = Region(t, 0, n + ChunkSize)
    <3>1. IsSeq(t) /\ 0 \in Nat /\ n \in Nat /\ ChunkSize \in Nat /\ 0 + n <= Len(t)
      BY <1>2, <1>3, <1>5
    <3> QED BY <3>1, RegionGoesOn
  <2>2. 0 + n = n
    BY <1>2
  <2>3. f \o r = Region(t, 0, n + ChunkSize)
    BY <1>3, <2>1, <2>2 DEF r
  <2> DEFINE a == n + Len(r)
             b == n + ChunkSize
  <2>4. a \in Nat /\ b \in Int /\ (a = b \/ (0 + a >= Len(t) /\ a <= b))
    BY <1>2, <1>5, <1>6, <1>7 DEF Have
  <2> HIDE DEF a, b
  <2>5. Region(t, 0, a) = Region(t, 0, b)
    BY <1>2, <2>4, RegionWhole
  <2> QED BY <2>3, <2>5 DEF a, b
<1>11. n + Len(r) \in Nat /\ n + Len(r) > n
  BY <1>2, <1>8
<1> QED BY <1>4, <1>8, <1>9, <1>10, <1>11 DEF t, f, n

LEMMA RefillStep ==
    ASSUME TypeInv, RefillInv, [Next]_vars
    PROVE  RefillInv'
<1> SUFFICES ASSUME pc' = "refill" PROVE RefillInv'
  BY DEF RefillInv
<1>1. MoveTruncates \/ Refill \/ UNCHANGED vars
  BY DEF Next, Work, Faults, Start, Reject, Generate, CopyOverlay, OverlayEnds, Generated, OpenInput,
         StubHeader, ExeHeader, PayloadFound, ScanFails, Measure, Create, CopyChunk, CopyEnds,
         Rename, MoveUnlinks, OverlayFails, CreateFails, CopyFails, MoveFails, Kill
<1>2. CASE MoveTruncates
  <2>1. /\ cmd' = cmd /\ fs' = [fs EXCEPT ![cmd.arg] = << >>]
        /\ DOMAIN fs = Names /\ cmd.arg \in Names /\ cmd.arg # "tmp"
        /\ IsSeq(fs["tmp"]) /\ Len(fs["tmp"]) \in Nat
    BY <1>2, MoveFacts DEF MoveTruncates
  <2>2. fs'[cmd.arg] = << >> /\ fs'["tmp"] = fs["tmp"]
    BY <2>1
  <2>3. Len(fs'[cmd.arg]) = 0
    BY <2>2, EmptyFacts
  <2>4. Region(fs["tmp"], 0, 0) = << >>
    BY <2>1, EmptyRegion
  <2>5. 0 <= Len(fs["tmp"])
    BY <2>1
  <2> QED BY <2>1, <2>2, <2>3, <2>4, <2>5 DEF RefillInv
<1>3. CASE Refill
  <2>1. cmd' = cmd
    BY <1>3 DEF Refill
  <2> QED BY <1>3, <2>1, RefillTurn DEF RefillInv
<1>4. CASE UNCHANGED vars
  BY <1>4 DEF vars, RefillInv
<1> QED BY <1>1, <1>2, <1>3, <1>4

LEMMA RefillInductive == Spec => []RefillInv
<1>1. Init => RefillInv
  BY DEF Init, RefillInv
<1>2. TypeInv /\ RefillInv /\ [Next]_vars => RefillInv'
  BY RefillStep
<1> QED BY <1>1, <1>2, TypeInductive, PTL DEF Spec

\* What is still to be read of the input.
Ahead == IF inpos < Len(Source) THEN Len(Source) - inpos ELSE 0
Copying == 2 * Len(Source) + cmd.stub

\* StepsLeft, place by place, now and after a step.
LEMMA StepsAt ==
    /\ pc = "idle" => StepsLeft = 0
    /\ pc = "generate" => StepsLeft = OverlaysAhead(Len(opt.overlay)) + 2
    /\ pc = "link" => StepsLeft = OverlaysAhead(Len(opt.overlay) + 1 - nth) - inpos + 1
    /\ pc = "open" => StepsLeft = IF cmd.arg = "" THEN 1 ELSE Copying + 8
    /\ pc = "scan" => StepsLeft = Copying + (IF scan = ScanStart THEN 7 ELSE 6)
    /\ pc = "scanned" => StepsLeft = Copying + 5
    /\ pc = "create" => StepsLeft = Copying + 4
    /\ pc = "copy" => StepsLeft = 2 * Ahead + Len(fs[Target]) + 3
    /\ pc = "move" => StepsLeft = Len(fs["tmp"]) + 2
    /\ pc = "refill" => StepsLeft = Len(fs["tmp"]) - Len(fs[cmd.arg]) + 1
BY DEF StepsLeft, Ahead, Copying

LEMMA StepsThen ==
    /\ pc' = "idle" => StepsLeft' = 0
    /\ pc' = "link" => StepsLeft' = OverlaysAhead(Len(opt.overlay) + 1 - nth)' - inpos' + 1
    /\ pc' = "scan" => StepsLeft' = Copying' + (IF scan' = ScanStart THEN 7 ELSE 6)
    /\ pc' = "scanned" => StepsLeft' = Copying' + 5
    /\ pc' = "create" => StepsLeft' = Copying' + 4
    /\ pc' = "copy" => StepsLeft' = 2 * Ahead' + Len(fs'[Target']) + 3
    /\ pc' = "move" => StepsLeft' = Len(fs'["tmp"]) + 2
    /\ pc' = "refill" => StepsLeft' = Len(fs'["tmp"]) - Len(fs'[cmd'.arg]) + 1
BY DEF StepsLeft, Ahead, Copying

\* The overlay that is the n-th from the end, and the steps of the last n.
FromEnd(n) == before[opt.overlay[Len(opt.overlay) - n + 1]]

LEMMA OverlaysCounted ==
    ASSUME TypeInv, commands > 0
    PROVE  /\ OverlaysAhead(0) = 0
           /\ \A n \in 0 .. Len(opt.overlay) : OverlaysAhead(n) \in Nat
           /\ \A n \in 1 .. Len(opt.overlay) :
                OverlaysAhead(n) = OverlaysAhead(n - 1) + Len(FromEnd(n)) + 1
<1> DEFINE m == Len(opt.overlay)
           Counts(g, N) == g = [k \in 0 .. N |-> IF k = 0 THEN 0 ELSE g[k - 1] + Len(FromEnd(k)) + 1]
           S == {N \in Nat : \E g : Counts(g, N)}
<1>1. m \in Nat
  BY LinkedFacts
<1>2. \A k \in 1 .. m : Len(FromEnd(k)) \in Nat
  <2> TAKE k \in 1 .. m
  <2>1. m - k + 1 \in 1 .. m
    BY <1>1
  <2> QED BY <2>1, LinkedFacts DEF FromEnd
<1> HIDE DEF m
<1>3. 0 \in S
  <2> DEFINE first == [k \in 0 .. 0 |-> 0]
  <2>1. first = [k \in 0 .. 0 |-> IF k = 0 THEN 0 ELSE first[k - 1] + Len(FromEnd(k)) + 1]
    OBVIOUS
  <2> HIDE DEF first
  <2>2. Counts(first, 0)
    BY <2>1
  <2> HIDE DEF Counts
  <2> QED BY <2>2
<1>4. ASSUME NEW N \in Nat, N \in S
      PROVE  N + 1 \in S
  <2>1. PICK g : Counts(g, N)
    BY <1>4
  <2> DEFINE next == [k \in 0 .. N + 1 |-> IF k = N + 1 THEN g[N] + Len(FromEnd(N + 1)) + 1
                                           ELSE g[k]]
  <2>2. Counts(next, N + 1)
    BY <2>1
  <2> HIDE DEF next, Counts
  <2> QED BY <2>2
<1>5. \A N \in Nat : N \in S
  <2> HIDE DEF S
  <2> QED BY <1>3, <1>4, NatSetInduction
<1> DEFINE A == CHOOSE g : Counts(g, m)
<1>6. Counts(A, m)
  <2>1. \E g : Counts(g, m)
    BY <1>1, <1>5
  <2> QED BY <2>1
<1>7. \A n : OverlaysAhead(n) = A[n]
  BY DEF OverlaysAhead, FromEnd, m
<1> HIDE DEF A
<1>8. \A k \in 0 .. m : A[k] = IF k = 0 THEN 0 ELSE A[k - 1] + Len(FromEnd(k)) + 1
  BY <1>6
<1>9. A[0] = 0 /\ \A k \in 1 .. m : A[k] = A[k - 1] + Len(FromEnd(k)) + 1
  <2>1. 0 \in 0 .. m /\ \A k \in 1 .. m : k \in 0 .. m /\ k # 0
    BY <1>1
  <2> QED BY <1>8, <2>1
<1> DEFINE T == {N \in Nat : N <= m => A[N] \in Nat}
<1>10. 0 \in T
  BY <1>9
<1>11. ASSUME NEW N \in Nat, N \in T
       PROVE  N + 1 \in T
  <2> SUFFICES ASSUME N + 1 <= m PROVE A[N + 1] \in Nat
    OBVIOUS
  <2>1. N + 1 \in 1 .. m /\ (N + 1) - 1 = N /\ N <= m
    BY <1>1
  <2>2. A[N + 1] = A[N] + Len(FromEnd(N + 1)) + 1
    BY <1>9, <2>1
  <2>3. A[N] \in Nat /\ Len(FromEnd(N + 1)) \in Nat
    BY <1>2, <1>11, <2>1
  <2> QED BY <2>2, <2>3
<1>12. \A N \in Nat : N \in T
  <2> HIDE DEF T
  <2> QED BY <1>10, <1>11, NatSetInduction
<1>13. \A n \in 0 .. m : A[n] \in Nat
  BY <1>1, <1>12
<1> QED BY <1>7, <1>9, <1>13 DEF m

\* The n-th overlay from the end is the one that is copied when so many are left.
LEMMA LinkAhead ==
    ASSUME TypeInv, LinkInv, pc = "link", Linkable
    PROVE  \/ /\ nth = Len(opt.overlay) + 1 /\ inpos = 0
              /\ OverlaysAhead(Len(opt.overlay) + 1 - nth) = 0
           \/ /\ nth <= Len(opt.overlay)
              /\ inpos \in Nat /\ inpos <= Len(before[opt.overlay[nth]])
              /\ Len(before[opt.overlay[nth]]) \in Nat
              /\ OverlaysAhead(Len(opt.overlay) - nth) \in Nat
              /\ OverlaysAhead(Len(opt.overlay) + 1 - nth) =
                   OverlaysAhead(Len(opt.overlay) - nth) + Len(before[opt.overlay[nth]]) + 1
<1> DEFINE m == Len(opt.overlay)
           n == m + 1 - nth
<1>1. commands > 0 /\ nth \in 1 .. m + 1 /\ m \in Nat
  BY LinkedFacts DEF TypeInv, CountsTyped, KeepInv, PlaceInv
<1>2. CASE nth > m
  <2>1. nth = m + 1 /\ n = 0 /\ inpos = 0
    BY <1>1, <1>2 DEF LinkInv
  <2> HIDE DEF n
  <2>2. OverlaysAhead(n) = 0
    BY <1>1, <2>1, OverlaysCounted
  <2> QED BY <2>1, <2>2 DEF n
<1>3. CASE ~(nth > m)
  <2>1. nth <= m /\ n \in 1 .. m /\ n - 1 = m - nth /\ n - 1 \in 0 .. m /\ m - n + 1 = nth
    BY <1>1, <1>3
  <2>2. /\ inpos \in Nat /\ inpos <= Len(before[opt.overlay[nth]])
        /\ Len(before[opt.overlay[nth]]) \in Nat
    BY <2>1, LinkHere
  <2>3. FromEnd(n) = before[opt.overlay[nth]]
    BY <2>1 DEF FromEnd
  <2> HIDE DEF n
  <2>4. /\ OverlaysAhead(n) = OverlaysAhead(n - 1) + Len(FromEnd(n)) + 1
        /\ OverlaysAhead(n - 1) \in Nat
    BY <1>1, <2>1, OverlaysCounted
  <2> QED BY <2>1, <2>2, <2>3, <2>4 DEF n
<1> QED BY <1>2, <1>3

\* What is counted does not change while it is copied.
LEMMA AheadKept ==
    ASSUME UNCHANGED <<opt, before>>
    PROVE  /\ Len(opt'.overlay) = Len(opt.overlay)
           /\ OverlaysAhead(Len(opt.overlay) + 1 - nth)' = OverlaysAhead(Len(opt.overlay) + 1 - nth')
BY DEF OverlaysAhead

\* A file is named on the command line.
HasArg == cmd.arg # ""

\* Then there is an input of some length.
LEMMA SourceSized ==
    ASSUME TypeInv, pc # "idle", HasArg
    PROVE  Len(Source) \in Nat /\ Copying \in Nat /\ cmd.stub \in Nat
<1>1. cmd \in Commands /\ cmd.stub \in Nat \ {0}
  BY StubNamed
<1>2. cmd.arg \in Names
  BY <1>1, CommandsAssumption DEF HasArg
<1>3. Len(Source) \in Nat
  BY <1>2, FileIsSeq DEF TypeInv, FilesInv, Source
<1>4. cmd.stub \in Nat
  BY <1>1
<1> QED BY <1>3, <1>4 DEF Copying

LEMMA AheadSized ==
    ASSUME TypeInv, Len(Source) \in Nat, inpos \in Nat
    PROVE  Ahead \in Nat /\ Ahead <= Len(Source)
BY DEF Ahead

LEMMA TargetSized ==
    ASSUME TypeInv
    PROVE  IsSeq(fs[Target]) /\ Len(fs[Target]) \in Nat
BY TargetNamed, FileIsSeq DEF TypeInv, FilesInv

\* Whoever works has a step left.
LEMMA StepsPositive ==
    ASSUME TypeInv, LinkInv, RefillInv, pc # "idle", opt.gen => Linkable
    PROVE  StepsLeft \in Nat \ {0}
<1>1. pc \in Places
  BY DEF TypeInv, KeepInv, PlaceInv
<1>2. CASE pc = "generate"
  <2> DEFINE a == OverlaysAhead(Len(opt.overlay))
  <2>1. a \in Nat
    <3>1. commands > 0
      BY <1>2 DEF TypeInv, KeepInv, PlaceInv
    <3>2. Len(opt.overlay) \in Nat
      BY <3>1, LinkedFacts
    <3>3. Len(opt.overlay) \in 0 .. Len(opt.overlay)
      BY <3>2
    <3> QED BY <3>1, <3>3, OverlaysCounted
  <2>2. StepsLeft = a + 2
    BY <1>2, StepsAt
  <2> HIDE DEF a
  <2> QED BY <2>1, <2>2
<1>6. CASE pc = "link"
  <2> DEFINE a == OverlaysAhead(Len(opt.overlay) + 1 - nth)
             b == OverlaysAhead(Len(opt.overlay) - nth)
             l == Len(before[opt.overlay[nth]])
  <2>1. Linkable
    BY <1>6 DEF TypeInv, KeepInv, PlaceInv
  <2>2. StepsLeft = a - inpos + 1
    BY <1>6, StepsAt
  <2>3. \/ inpos = 0 /\ a = 0
        \/ inpos \in Nat /\ l \in Nat /\ b \in Nat /\ inpos <= l /\ a = b + l + 1
    BY <1>6, <2>1, LinkAhead
  <2> HIDE DEF a, b, l
  <2> QED BY <2>2, <2>3
<1>3. CASE pc \in {"open", "scan", "scanned", "create"}
  <2>1. cmd.arg = "" => pc = "open"
    BY <1>3 DEF TypeInv, KeepInv, PlaceInv
  <2>2. CASE cmd.arg = ""
    <3>1. StepsLeft = 1
      BY <2>1, <2>2, StepsAt
    <3> QED BY <3>1
  <2>3. CASE cmd.arg # ""
    <3>1. Copying \in Nat
      BY <1>3, <2>3, SourceSized DEF HasArg
    <3>2. \/ StepsLeft = Copying + 8 \/ StepsLeft = Copying + 7 \/ StepsLeft = Copying + 6
          \/ StepsLeft = Copying + 5 \/ StepsLeft = Copying + 4
      BY <1>3, <2>3, StepsAt
    <3> QED BY <3>1, <3>2
  <2> QED BY <2>2, <2>3
<1>4. CASE pc = "copy"
  <2>1. HasArg /\ inpos \in Nat
    BY <1>4 DEF HasArg, TypeInv, KeepInv, PlaceInv, CopyTyped
  <2>2. Ahead \in Nat /\ Len(fs[Target]) \in Nat
    BY <1>4, <2>1, SourceSized, AheadSized, TargetSized
  <2> DEFINE a == Ahead
             l == Len(fs[Target])
  <2>3. StepsLeft = 2 * a + l + 3 /\ a \in Nat /\ l \in Nat
    BY <1>4, <2>2, StepsAt
  <2> HIDE DEF a, l
  <2> QED BY <2>3
<1>5. CASE pc \in {"move", "refill"}
  <2>1. Len(fs["tmp"]) \in Nat /\ Len(fs[cmd.arg]) \in Nat
    BY <1>5, MoveFacts
  <2> DEFINE t == Len(fs["tmp"])
             f == Len(fs[cmd.arg])
  <2>2. StepsLeft = t + 2 \/ (f <= t /\ StepsLeft = t - f + 1)
    BY <1>5, StepsAt DEF RefillInv
  <2>3. t \in Nat /\ f \in Nat
    BY <2>1
  <2> HIDE DEF t, f
  <2> QED BY <2>2, <2>3
<1> QED BY <1>1, <1>2, <1>3, <1>4, <1>5, <1>6 DEF Places

\* The next state is nearer to the end.
Nearer == StepsLeft' \in 0 .. StepsLeft - 1

LEMMA NearerLink ==
    ASSUME TypeInv, LinkInv, Linkable, Generate \/ CopyOverlay \/ OverlayEnds
    PROVE  Nearer
<1> DEFINE m == Len(opt.overlay)
           a == OverlaysAhead(m + 1 - nth)
           b == OverlaysAhead(m - nth)
           l == Len(before[opt.overlay[nth]])
<1>1. /\ UNCHANGED <<opt, before>> /\ pc \in {"generate", "link"} /\ pc' = "link"
      /\ commands > 0 /\ m \in Nat
  BY LinkedFacts DEF Generate, CopyOverlay, OverlayEnds, TypeInv, KeepInv, PlaceInv
<1>2. StepsLeft' = OverlaysAhead(m + 1 - nth') - inpos' + 1
  BY <1>1, AheadKept, StepsThen
<1>3. CASE Generate
  <2> DEFINE z == OverlaysAhead(m)
  <2>1. pc = "generate" /\ nth' = 1 /\ inpos' = 0
    BY <1>3 DEF Generate, LinkInv
  <2>2. z \in Nat
    <3>1. m \in 0 .. m
      BY <1>1
    <3> QED BY <1>1, <3>1, OverlaysCounted
  <2>3. StepsLeft = z + 2
    BY <2>1, StepsAt
  <2>4. StepsLeft' = z - 0 + 1
    <3>1. m + 1 - nth' = m
      BY <1>1, <2>1
    <3> QED BY <1>2, <2>1, <3>1
  <2> HIDE DEF z
  <2> QED BY <2>2, <2>3, <2>4 DEF Nearer
<1>4. CASE CopyOverlay \/ OverlayEnds
  <2>1. pc = "link" /\ nth <= m /\ nth \in 1 .. m + 1
    BY <1>4 DEF CopyOverlay, OverlayEnds, TypeInv, CountsTyped
  <2>2. inpos \in Nat /\ l \in Nat /\ b \in Nat /\ inpos <= l /\ a = b + l + 1
    <3>1. ~(nth = m + 1)
      BY <1>1, <2>1
    <3> QED BY <2>1, <3>1, LinkAhead
  <2>3. StepsLeft = a - inpos + 1
    BY <2>1, StepsAt
  <2>4. CASE CopyOverlay
    <3> DEFINE c == Len(OverlayChunk)
               t == before[opt.overlay[nth]]
               r == OverlayChunk
    <3>1. inpos' = inpos + c /\ nth' = nth /\ r # << >>
      BY <2>4 DEF CopyOverlay
    <3>2. IsSeq(t) /\ inpos <= Len(t) /\ r = Region(t, inpos, ChunkSize)
      BY <2>1, LinkHere
    <3>3. c \in Nat /\ inpos + c <= l /\ (inpos = Len(t) => r = << >>)
      <4> HIDE DEF t, r
      <4>1. Len(r) \in Nat /\ inpos + Len(r) <= Len(t) /\ (inpos = Len(t) => r = << >>)
        BY <2>2, <3>2, ChunkGoesOn
      <4> QED BY <4>1 DEF t, r
    <3>4. c # 0
      <4> HIDE DEF t, r
      <4>1. IsSeq(r)
        BY <2>2, <3>2, ChunkGoesOn
      <4> QED BY <3>1, <4>1, EmptyFacts DEF r
    <3>5. StepsLeft' = a - (inpos + c) + 1
      BY <1>2, <3>1
    <3> HIDE DEF a, b, l, c
    <3> QED BY <2>2, <2>3, <3>3, <3>4, <3>5 DEF Nearer
  <2>5. CASE OverlayEnds
    <3>1. inpos' = 0 /\ nth' = nth + 1
      BY <2>5 DEF OverlayEnds
    <3>2. StepsLeft' = b - 0 + 1
      <4>1. m \in Nat
        BY <1>1
      <4>2. nth \in Nat
        BY <2>1, <4>1
      <4>3. nth' = nth + 1
        BY <3>1
      <4>4. m + 1 - nth' = m - nth
        <5> HIDE DEF m
        <5> QED BY <4>1, <4>2, <4>3
      <4> QED BY <1>2, <3>1, <4>4
    <3> HIDE DEF a, b, l
    <3> QED BY <2>2, <2>3, <3>2 DEF Nearer
  <2> QED BY <1>4, <2>4, <2>5
<1> QED BY <1>3, <1>4

\* Only at the start of the file does the scan meet a header...
LEMMA HeaderIsFirst ==
    ASSUME TypeInv, ScanInv, OneHeader(Source), pc = "scan", HereIs("mz") \/ HereIs("exe")
    PROVE  scan = ScanStart /\ Input = Source
<1>1. Input = Source /\ ~opt.gen
  BY DEF Source, Input, TypeInv, FilesInv, KeepInv, PlaceInv
<1>2. \/ scan = ScanStart
      \/ StartsWith(Source, "mz") /\ SeenBy(scan, SourceHeader)
      \/ StartsWith(Source, "exe") /\ scan = [ScanStart EXCEPT !.coffset = HeaderEnd(Source)]
  BY <1>1 DEF ScanInv
<1>3. scan # ScanStart => scan.coffset = HeaderEnd(Source)
  BY <1>2, ScanStartTyped DEF SeenBy, HeaderEnd, SourceHeader
<1>4. scan # ScanStart => ~HereIs("mz") /\ ~HereIs("exe")
  BY <1>1, <1>3 DEF OneHeader, HereIs
<1> QED BY <1>1, <1>4

\* ...and it leads away from there.
LEMMA HeaderLeads ==
    ASSUME TypeInv, ScanInv, OneHeader(Source), scan = ScanStart,
           StubHeader \/ ExeHeader
    PROVE  pc' = "scan" => scan' # ScanStart
<1>1. pc = "scan" /\ (HereIs("mz") \/ HereIs("exe"))
  BY DEF StubHeader, ExeHeader
<1>2. Input = Source /\ scan.coffset = 0 /\ ScanStart.copied = FALSE
  BY <1>1, HeaderIsFirst, ScanStartTyped
<1>3. CASE StubHeader
  <2> DEFINE w == Walk(Here)
             seen == [scan EXCEPT !.stubv = Here.ver, !.copied = TRUE,
                                  !.hdr = Here, !.coffset = Here.lfanew,
                                  !.rmoverlay = @ \/ opt.rmstub \/ opt.strip]
  <2>1. pc' = "scan" =>
          \/ scan' = [seen EXCEPT !.size = SlotOffs(Here, w.passed) - w.size,
                                  !.hdr.words[w.passed - 1] = 0]
          \/ scan' = seen
    BY <1>3 DEF StubHeader
  <2>2. seen.copied = TRUE /\ seen = [f \in DOMAIN seen |-> seen[f]] /\ "copied" \in DOMAIN seen
    BY ScanStartTyped
  <2> HIDE DEF seen, w
  <2>3. pc' = "scan" => scan'.copied = TRUE
    BY <2>1, <2>2
  <2> QED BY <1>2, <2>3
<1>4. CASE ExeHeader
  <2>1. /\ HasCell(Source, 0) /\ CellAt(Source, 0).what = "exe"
        /\ scan' = [scan EXCEPT !.coffset = 0 + CellAt(Source, 0).end]
    BY <1>2, <1>4 DEF ExeHeader, HereIs
  <2>2. HeaderEnd(Source) = CellAt(Source, 0).end
    BY <2>1 DEF HeaderEnd, StartsWith
  <2>3. CellAt(Source, 0).end \in Nat
    <3>1. IsFile(Source) /\ Len(Source) \in Nat
      BY <1>1, SourceNamed
    <3>2. 1 \in DOMAIN Source
      BY <2>1, <3>1, FileIsSeq, SeqFacts DEF HasCell
    <3>3. Sound(Source[1])
      BY <3>1, <3>2, FileCells
    <3> QED BY <2>1, <3>3 DEF Sound, CellAt
  <2>4. CellAt(Source, 0).end # 0
    BY <2>1, <2>2 DEF OneHeader
  <2>5. scan'.coffset = CellAt(Source, 0).end
    BY <2>1, <2>3, ScanStartTyped
  <2> QED BY <2>4, <2>5, ScanStartTyped
<1> QED BY <1>3, <1>4

\* The scan reads one header at most.
LEMMA NearerScan ==
    ASSUME TypeInv, ScanInv, OneHeader(Source),
           OpenInput \/ StubHeader \/ ExeHeader \/ PayloadFound \/ Measure, pc' # "idle"
    PROVE  Nearer
<1>1. UNCHANGED <<opt, cmd, before, fs>> /\ HasArg /\ pc # "idle" /\ ~opt.gen
  BY DEF HasArg, OpenInput, StubHeader, ExeHeader, PayloadFound, Measure, TypeInv, KeepInv, PlaceInv
<1>2. Copying \in Nat /\ Copying' = Copying
  BY <1>1, SourceSized DEF Copying, Source
<1>3. CASE OpenInput
  <2>1. pc = "open" /\ pc' = "scan"
    BY <1>3 DEF OpenInput
  <2>2. StepsLeft = Copying + 8
    BY <1>1, <2>1, StepsAt DEF HasArg
  <2>3. StepsLeft' = Copying + 7 \/ StepsLeft' = Copying + 6
    BY <1>2, <2>1, StepsThen
  <2> QED BY <1>2, <2>2, <2>3 DEF Nearer
<1>4. CASE PayloadFound
  <2>1. pc = "scan" /\ pc' = "scanned"
    BY <1>4 DEF PayloadFound
  <2>2. StepsLeft = Copying + 7 \/ StepsLeft = Copying + 6
    BY <2>1, StepsAt
  <2>3. StepsLeft' = Copying + 5
    BY <1>2, <2>1, StepsThen
  <2> QED BY <1>2, <2>2, <2>3 DEF Nearer
<1>5. CASE Measure
  <2>1. pc = "scanned" /\ pc' = "create"
    BY <1>5 DEF Measure
  <2>2. StepsLeft = Copying + 5
    BY <2>1, StepsAt
  <2>3. StepsLeft' = Copying + 4
    BY <1>2, <2>1, StepsThen
  <2> QED BY <1>2, <2>2, <2>3 DEF Nearer
<1>6. CASE StubHeader \/ ExeHeader
  <2>1. pc = "scan" /\ pc' \in {"scan", "scanned"} /\ (HereIs("mz") \/ HereIs("exe"))
    BY <1>6 DEF StubHeader, ExeHeader
  <2>2. scan = ScanStart
    BY <1>1, <2>1, HeaderIsFirst
  <2>3. StepsLeft = Copying + 7
    BY <2>1, <2>2, StepsAt
  <2>4. StepsLeft' = Copying + 5 \/ StepsLeft' = Copying + 6
    <3>1. pc' = "scan" => scan' # ScanStart
      BY <1>6, <2>2, HeaderLeads
    <3> QED BY <1>2, <2>1, <3>1, StepsThen
  <2> QED BY <1>2, <2>3, <2>4 DEF Nearer
<1> QED BY <1>3, <1>4, <1>5, <1>6

\* The output is not the input.
LEMMA TargetIsOther ==
    ASSUME TypeInv, pc \in {"create", "copy"}, opt.out # cmd.arg
    PROVE  Target # cmd.arg /\ HasArg /\ ~opt.gen
BY InputNamed DEF Target, InPlace, HasArg, TypeInv, KeepInv, PlaceInv

\* The stub of the output is as long as the wrapper said.
LEMMA StubPartSize ==
    ASSUME TypeInv, pc # "idle"
    PROVE  Len(StubPart) \in Nat /\ Len(StubPart) <= cmd.stub /\ cmd.stub \in Nat
<1> DEFINE n == cmd.stub
<1>1. n \in Nat \ {0} /\ CopiedHeader \in Headers
  BY StubNamed, CopiedFits
<1>2. Len(Stub(CopiedHeader, n)) = n
  BY <1>1, StubFile
<1>3. Len(StubPart) = 0 \/ Len(StubPart) = n
  BY <1>2, EmptyFacts DEF StubPart
<1> HIDE DEF n
<1>4. n \in Nat /\ Len(StubPart) \in Nat /\ Len(StubPart) <= n
  BY <1>1, <1>3
<1> QED BY <1>4 DEF n

\* One turn of the copy loop reads more than nothing, and what there is.
LEMMA ChunkAhead ==
    ASSUME TypeInv, WriteInv, CopyChunk, Target # cmd.arg
    PROVE  /\ Len(Chunk) \in Nat \ {0}
           /\ Ahead \in Nat /\ Ahead' = Ahead - Len(Chunk) /\ Ahead' \in Nat
<1> DEFINE c == Len(Chunk)
           n == Len(Source)
<1>1. /\ pc = "copy" /\ left > 0 /\ Chunk # << >> /\ inpos' = inpos + c
      /\ Source' = Source
  BY DEF CopyChunk, Source
<1>2. Input = Source
  BY <1>1 DEF WriteInv, CopyInv, Input
<1>3. c \in Nat /\ n \in Nat /\ inpos \in Nat
  BY <1>1, ChunkFacts, SourceNamed
<1>4. c # 0
  BY <1>1, ChunkFacts, FileIsSeq, EmptyFacts
<1>5. PICK want \in Nat \ {0} : c = Have(Source, inpos, want)
  BY <1>1, <1>2, ChunkFacts
<1>6. inpos < n /\ inpos + c <= n
  BY <1>3, <1>4, <1>5 DEF Have
<1>7. Ahead = n - inpos
  BY <1>6 DEF Ahead
<1>8. Ahead' = IF inpos + c < n THEN n - (inpos + c) ELSE 0
  BY <1>1 DEF Ahead
<1> HIDE DEF c, n
<1>9. c \in Nat \ {0} /\ Ahead \in Nat /\ Ahead' = Ahead - c /\ Ahead' \in Nat
  BY <1>3, <1>4, <1>6, <1>7, <1>8
<1> QED BY <1>9 DEF c

\* What has been read has been written: it counts once less.
LEMMA NearerCopy ==
    ASSUME TypeInv, WriteInv, opt.out # cmd.arg,
           Create \/ CopyChunk \/ CopyEnds, pc' # "idle"
    PROVE  Nearer
<1>1. /\ UNCHANGED <<opt, cmd, before>> /\ pc \in {"create", "copy"} /\ pc # "idle"
  BY DEF Create, CopyChunk, CopyEnds
<1>2. UNCHANGED <<Target, Source>> /\ Target # cmd.arg /\ HasArg
  BY <1>1, TargetIsOther DEF Target, InPlace, Source
<1>3. DOMAIN fs = Names /\ Target \in Names
  BY TargetNamed DEF TypeInv, FilesInv
<1> DEFINE l == Len(fs[Target])
           a == Ahead
           n == Len(Source)
           p == Len(StubPart)
           s == cmd.stub
           c == Len(Chunk)
<1>4. l \in Nat /\ n \in Nat /\ p \in Nat /\ s \in Nat /\ p <= s
  BY <1>1, <1>2, TargetSized, SourceSized, StubPartSize
<1>5. inpos \in Nat
  BY <1>1 DEF TypeInv, CopyTyped
<1>6. a \in Nat /\ a <= n
  BY <1>4, <1>5, AheadSized
<1>7. CASE Create
  <2>1. /\ pc = "create" /\ pc' = "copy" /\ inpos' = inpos
        /\ fs' = [fs EXCEPT ![Target] = StubPart]
    BY <1>7 DEF Create, StubPart
  <2>2. a' = a /\ l' = p
    BY <1>2, <1>3, <2>1 DEF Ahead
  <2>3. StepsLeft = 2 * n + s + 4
    BY <2>1, StepsAt DEF Copying
  <2>4. StepsLeft' = 2 * a + p + 3
    BY <2>1, <2>2, StepsThen
  <2> HIDE DEF l, a, n, p, s
  <2> QED BY <1>4, <1>6, <2>3, <2>4 DEF Nearer
<1>8. CASE CopyChunk
  <2>1. /\ pc = "copy" /\ pc' = "copy"
        /\ fs' = [fs EXCEPT ![Target] = fs[Target] \o Chunk]
    BY <1>8 DEF CopyChunk
  <2>2. c \in Nat \ {0} /\ a' = a - c /\ a' \in Nat
    BY <1>2, <1>8, ChunkAhead
  <2>3. l' = l + c
    <3>1. IsSeq(fs[Target]) /\ IsSeq(Chunk)
      BY <2>1, TargetSized, ChunkFacts, FileIsSeq
    <3>2. Len(fs[Target] \o Chunk) = l + c
      BY <3>1, Concat DEF IsConcat
    <3>3. fs'[Target] = fs[Target] \o Chunk
      BY <1>3, <2>1
    <3> QED BY <1>2, <3>2, <3>3
  <2>4. StepsLeft = 2 * a + l + 3
    BY <2>1, StepsAt
  <2>5. StepsLeft' = 2 * a' + l' + 3
    BY <2>1, StepsThen
  <2> DEFINE b == a'
             m == l'
  <2>6. b = a - c /\ b \in Nat /\ m = l + c /\ StepsLeft' = 2 * b + m + 3
    BY <2>2, <2>3, <2>5
  <2> HIDE DEF l, a, c, b, m
  <2> QED BY <1>4, <1>6, <2>2, <2>4, <2>6 DEF Nearer
<1>9. CASE CopyEnds
  <2>1. pc = "copy" /\ pc' = "move" /\ fs' = fs /\ InPlace
    BY <1>9 DEF CopyEnds
  <2>2. StepsLeft = 2 * a + l + 3
    BY <2>1, StepsAt
  <2>3. StepsLeft' = l + 2
    BY <2>1, StepsThen DEF Target
  <2> HIDE DEF l, a
  <2> QED BY <1>4, <1>6, <2>2, <2>3 DEF Nearer
<1> QED BY <1>7, <1>8, <1>9

\* Copying the finished program to its place.
LEMMA NearerMove ==
    ASSUME TypeInv, RefillInv, MoveTruncates \/ Refill
    PROVE  Nearer
<1> DEFINE t == Len(fs["tmp"])
           f == Len(fs[cmd.arg])
<1>1. /\ cmd' = cmd /\ pc \in {"move", "refill"} /\ pc' = "refill"
  BY DEF MoveTruncates, Refill
<1>2. /\ DOMAIN fs = Names /\ cmd.arg \in Names /\ cmd.arg # "tmp"
      /\ t \in Nat /\ f \in Nat
  BY <1>1, MoveFacts
<1>3. CASE MoveTruncates
  <2>1. pc = "move" /\ fs' = [fs EXCEPT ![cmd.arg] = << >>]
    BY <1>3 DEF MoveTruncates
  <2>2. fs'["tmp"] = fs["tmp"] /\ Len(fs'[cmd.arg]) = 0
    BY <1>2, <2>1, EmptyFacts
  <2>3. StepsLeft = t + 2
    BY <2>1, StepsAt
  <2>4. StepsLeft' = t - 0 + 1
    BY <1>1, <2>2, StepsThen
  <2> HIDE DEF t
  <2> QED BY <1>2, <2>3, <2>4 DEF Nearer
<1>4. CASE Refill
  <2> DEFINE g == Len(fs'[cmd.arg])
  <2>1. fs'["tmp"] = fs["tmp"] /\ g \in Nat /\ g > f /\ g <= t /\ pc = "refill"
    BY <1>4, RefillTurn DEF Refill
  <2>2. StepsLeft = t - f + 1
    BY <2>1, StepsAt
  <2>3. StepsLeft' = t - g + 1
    BY <1>1, <2>1, StepsThen
  <2> HIDE DEF t, f, g
  <2> QED BY <1>2, <2>1, <2>2, <2>3 DEF Nearer
<1> QED BY <1>3, <1>4

LEMMA StepNears ==
    ASSUME TypeInv, WriteInv, ScanInv, LinkInv, RefillInv, [Next]_vars,
           pc # "idle", Straight, ~UNCHANGED vars
    PROVE  Nearer
<1>1. CASE pc' = "idle"
  <2>1. StepsLeft' = 0
    BY <1>1, StepsThen
  <2>2. StepsLeft \in Nat \ {0}
    BY StepsPositive DEF Straight, Linkable
  <2> QED BY <2>1, <2>2 DEF Nearer
<1>2. CASE pc' # "idle"
  <2>1. \/ Generate \/ CopyOverlay \/ OverlayEnds \/ OpenInput \/ StubHeader \/ ExeHeader \/ PayloadFound
        \/ Measure \/ Create \/ CopyChunk \/ CopyEnds \/ MoveTruncates \/ Refill
    BY <1>2 DEF Next, Work, Faults, Start, Reject, Generated, ScanFails, Rename, MoveUnlinks,
                OverlayFails, CreateFails, CopyFails, MoveFails, Kill
  <2>2. CASE Generate \/ CopyOverlay \/ OverlayEnds
    <3>1. opt.gen
      BY <2>2 DEF Generate, CopyOverlay, OverlayEnds, TypeInv, KeepInv, PlaceInv
    <3>2. Linkable
      BY <3>1 DEF Straight, Linkable
    <3> QED BY <2>2, <3>2, NearerLink
  <2>3. CASE OpenInput \/ StubHeader \/ ExeHeader \/ PayloadFound \/ Measure
    <3>1. cmd.arg # "" /\ ~opt.gen
      BY <2>3 DEF OpenInput, StubHeader, ExeHeader, PayloadFound, Measure,
                  TypeInv, KeepInv, PlaceInv
    <3>2. OneHeader(Source)
      BY <3>1 DEF Straight
    <3> QED BY <1>2, <2>3, <3>2, NearerScan
  <2>4. CASE Create \/ CopyChunk \/ CopyEnds
    <3>1. cmd.arg # "" /\ ~opt.gen
      BY <2>4 DEF Create, CopyChunk, CopyEnds, TypeInv, KeepInv, PlaceInv
    <3>2. opt.out # cmd.arg
      BY <3>1 DEF Straight
    <3> QED BY <1>2, <2>4, <3>2, NearerCopy
  <2>5. CASE MoveTruncates \/ Refill
    BY <2>5, NearerMove
  <2> QED BY <2>1, <2>2, <2>3, <2>4, <2>5
<1> QED BY <1>1, <1>2

-----------------------------------------------------------------------------
\* What -g links is what the stub finds, with empty overlays among the others and
\* with up to nine: each of the three regions that fullstub derives from the header
\* is the overlay that was linked there, byte for byte, unless one before it is
\* empty, and the stub in front is whole.
THEOREM LinkedIsFound == Spec => []GenerateDescribes
<1>1. TypeInv /\ LinkInv => GenerateDescribes
  BY GenerateHolds
<1> QED BY <1>1, TypeInductive, LinkInductive, PTL

\* coff2exe with a new stub, the old one dropped: the program is told the same
\* three regions, and a bare payload becomes the first of them.
THEOREM RestubIsFaithful == Spec => []RestubKeeps
<1>1. TypeInv /\ WriteInv /\ ScanInv => RestubKeeps
  BY RestubHolds
<1> QED BY <1>1, TypeInductive, WriteInductive, ScanInductive, PTL

\* -s takes the debug info, which is the last overlay, out of the header and out
\* of the file, and leaves every other region as it was.
THEOREM StripIsExact == Spec => []StripExact
<1>1. TypeInv /\ WriteInv /\ ScanInv => StripExact
  BY StripHolds
<1> QED BY <1>1, TypeInductive, WriteInductive, ScanInductive, PTL

\* What -r copies, found through the type map, is a region the stub would have
\* given the program, found through the size words.
THEOREM UnstubMeetsStub == Spec => []UnstubAgrees
<1>1. TypeInv /\ WriteInv /\ ScanInv => UnstubAgrees
  BY UnstubHolds
<1> QED BY <1>1, TypeInductive, WriteInductive, ScanInductive, PTL

\* The way through any number of commands that link, stubify, strip and unstub:
\* as long as none fails, -r gives back one of the payloads that there were.
THEOREM UnstubIsWhole == Spec => []UnstubGivesPayload
<1>1. TypeInv /\ WriteInv /\ ScanInv /\ ThereInv /\ DiskInv => UnstubGivesPayload
  BY PayloadHolds
<1> QED
  BY <1>1, TypeInductive, WriteInductive, ScanInductive, ThereInductive, DiskInductive, PTL

\* No command works for ever: every read of an overlay or of the input, and every
\* other step, brings it nearer to its end, for files, overlays and buffers of every
\* size and wherever a fault strikes, unless the command reads what it writes or its
\* input's header leads to another one.
THEOREM EndIsNear == Spec => NearsEnd
<1>1. TypeInv /\ WriteInv /\ ScanInv /\ LinkInv /\ RefillInv /\ [Next]_vars =>
        [(pc # "idle" /\ Straight) => StepsLeft' \in 0 .. StepsLeft - 1]_vars
  BY StepNears DEF Nearer
<1> QED
  BY <1>1, TypeInductive, WriteInductive, ScanInductive, LinkInductive, RefillInductive, PTL
  DEF Spec, NearsEnd
=============================================================================
