------------------------------ MODULE Djstubify ------------------------------
(***************************************************************************)
(* djstubify2.py: one process at a time works on a file system.  A command *)
(* is a list of options, at most one argument and the length of the stub   *)
(* that the djstubify wrapper names with -S.                               *)
(*                                                                         *)
(* Commands follow each other, so that what one wrote another one reads.   *)
(* A command may be killed at any step; system calls may fail at the       *)
(* points where the code (or Python's exception) ends the command.         *)
(***************************************************************************)
EXTENDS StubImage

CONSTANTS
    Names,        \* names of files; "tmp" stands for the file of mkstemp()
    InitFiles,    \* [Names -> file contents or Missing] before any command
    Commands,     \* the command lines that may be given
    ChunkSize,    \* how many cells one turn of a copy loop moves (4096 bytes)
    MaxCommands,  \* bound: how many commands are given
    MaxFaults     \* bound: how many system calls fail or processes are killed

\* What a name has that names no file.  No file holds such a cell; a file may be
\* empty.
Missing == <<[what |-> "nothing"]>>
Exists(f) == f # Missing

ASSUME FilesAssumption ==
    /\ "tmp" \in Names /\ "" \notin Names
    /\ DOMAIN InitFiles = Names
    /\ InitFiles["tmp"] = Missing
    /\ \A n \in Names : IsFile(InitFiles[n])
    /\ \A n \in Names : Exists(InitFiles[n]) =>
         \A k \in DOMAIN InitFiles[n] : InitFiles[n][k].what # "nothing"

\* What getopt and int() let through; a type is one nibble.
OptionOK(x) ==
    CASE x.opt \in {"-V", "-n"} -> x.arg \in Nat
      [] x.opt = "-t" -> x.arg \in 0 .. 15
      [] x.opt \in {"-l", "-o"} -> x.arg \in Names \ {"tmp"}
      [] x.opt = "-f" -> x.arg \subseteq Flags
      [] OTHER -> x.opt \in {"-g", "-i", "-r", "-s"}

\* Nobody names the file of mkstemp(), and a stub has a header.
ASSUME CommandsAssumption ==
    \A c \in Commands :
        /\ c.arg = "" \/ c.arg \in Names \ {"tmp"}
        /\ c.stub \in Nat \ {0}
        /\ c.opts \in Seq({c.opts[k] : k \in DOMAIN c.opts})
        /\ \A k \in DOMAIN c.opts : OptionOK(c.opts[k])

ASSUME BoundsAssumption ==
    ChunkSize \in Nat \ {0} /\ MaxCommands \in Nat /\ MaxFaults \in Nat

VARIABLES
    fs,        \* the file system
    pc,        \* where the process is; "idle" when there is none
    cmd,       \* the command given last
    opt,       \* what its options said
    scan,      \* coff2exe's view of the input: see ScanStart
    left,      \* coff_file_size, counted down only when rmoverlay is set
    inpos,     \* file position of the input, or of the overlay that is copied
    nth,       \* index of the overlay that generate copies
    ret,       \* exit code of the last command
    before,    \* history: the file system when the command began
    made,      \* history: <<file>> once the command has closed what it wrote
    commands,  \* how many commands were given
    faults     \* how many faults happened

vars == <<fs, pc, cmd, opt, scan, left, inpos, nth, ret, before, made,
          commands, faults>>
locals == <<cmd, opt, scan, left, inpos, nth>>
history == <<before, commands>>

-----------------------------------------------------------------------------
(* The command line.                                                       *)

STUB_VER == 8
NoTypes == [s \in 0 .. 4 |-> 0]

OptStart ==
    [ver |-> STUB_VER, req |-> 0, types |-> NoTypes, type |-> 0,
     overlay |-> << >>, nmoffs |-> 0, flags |-> {}, out |-> "", gen |-> FALSE,
     info |-> FALSE, rmstub |-> FALSE, strip |-> FALSE, bad |-> FALSE]

\* type_map |= type_val << type_shift, in the nibble it changes.
OrNibble(a, b) ==
    LET or(bit) == IF 1 \in {(a \div bit) % 2, (b \div bit) % 2} THEN bit ELSE 0
    IN  or(1) + or(2) + or(4) + or(8)

\* The nibble at type_shift.  What lies beyond the 16 bits of the type map is
\* one nibble here: write_u16 refuses it all alike.
Nibble(o) == IF Len(o.overlay) < 4 THEN Len(o.overlay) ELSE 4

\* One turn of the option loop of main().  A bad option ends the process.
OptTurn(o, x) ==
    IF o.bad THEN o
    ELSE CASE x.opt = "-V" ->
                IF x.arg = 0 \/ x.arg > o.ver \/ x.arg < o.ver - 1
                THEN [o EXCEPT !.req = x.arg, !.bad = TRUE]
                ELSE [o EXCEPT !.req = x.arg, !.ver = x.arg]
           [] x.opt = "-t" ->
                IF x.arg = 0 THEN [o EXCEPT !.bad = TRUE]
                ELSE [o EXCEPT !.type = x.arg, !.types[Nibble(o)] = OrNibble(@, x.arg)]
           [] x.opt = "-l" ->
                IF o.type = 0 THEN [o EXCEPT !.bad = TRUE]
                ELSE [o EXCEPT !.overlay = Append(@, x.arg)]
           [] x.opt = "-n" -> [o EXCEPT !.nmoffs = x.arg]
           [] x.opt = "-f" -> [o EXCEPT !.flags = @ \cup x.arg]
           [] x.opt = "-o" -> [o EXCEPT !.out = x.arg]
           [] x.opt = "-g" -> [o EXCEPT !.gen = TRUE]
           [] x.opt = "-i" -> [o EXCEPT !.info = TRUE]
           [] x.opt = "-r" -> [o EXCEPT !.rmstub = TRUE]
           [] x.opt = "-s" -> [o EXCEPT !.strip = TRUE]

\* Without -V a program with overlays is written for the stub before this one.
Defaulted(o) ==
    IF o.req = 0 /\ o.overlay # << >> /\ o.ver = 8
    THEN [o EXCEPT !.ver = 7, !.flags = @ \ {"elf"}]
    ELSE o

Parsed(options) ==
    LET after[n \in 0 .. Len(options)] ==
            IF n = 0 THEN OptStart ELSE OptTurn(after[n - 1], options[n])
    IN  Defaulted(after[Len(options)])

\* The stub as -S delivers it: no sizes, no types, no flags.
FreshHeader == Header([s \in Slots |-> 0], [s \in Slots |-> 0], {}, 0, 0)

\* Variant: sizes one word too far.
GeneratedHeaderShifted(o) ==
    LET sizes == [s \in Slots |-> IF s \in 1 .. Len(o.overlay)
                                  THEN Len(fs[o.overlay[s]]) ELSE 0]
    IN  Header([sizes EXCEPT ![NameWord] = o.nmoffs],
               [s \in Slots |-> o.types[s]], o.flags, o.ver, cmd.stub)

\* The header that generate writes: sizes of the overlays, then the name
\* offset over word 3.  The sizes of the fifth to the ninth overlay fall on bytes
\* that are written again or that only the program reads (payload2_name).
GeneratedHeader(o) ==
    LET sizes == [s \in Slots |-> IF s < Len(o.overlay)
                                  THEN Len(fs[o.overlay[s + 1]]) ELSE 0]
    IN  Header([sizes EXCEPT ![NameWord] = o.nmoffs],
               [s \in Slots |-> o.types[s]], o.flags, o.ver, cmd.stub)

-----------------------------------------------------------------------------
ScanStart ==
    [coffset |-> 0, size |-> 0, rmoverlay |-> FALSE, copied |-> FALSE,
     stubv |-> 0, hdr |-> FreshHeader]

Init ==
    /\ fs = InitFiles
    /\ pc = "idle"
    /\ cmd = [opts |-> << >>, arg |-> "", stub |-> 1]
    /\ opt = OptStart
    /\ scan = ScanStart
    /\ left = 0 /\ inpos = 0 /\ nth = 1
    /\ ret = 0
    /\ before = InitFiles
    /\ made = << >>
    /\ commands = 0 /\ faults = 0

\* main(): parse the options, then generate or coff2exe.
Start(c) ==
    /\ pc = "idle"
    /\ commands < MaxCommands
    /\ commands' = commands + 1
    /\ cmd' = c
    /\ opt' = Parsed(c.opts)
    /\ scan' = ScanStart
    /\ left' = 0 /\ inpos' = 0 /\ nth' = 1
    /\ before' = fs
    /\ made' = << >>
    /\ ret' = 0
    /\ pc' = IF opt'.gen THEN "generate" ELSE "open"
    /\ UNCHANGED <<fs, faults>>

Exit(code) ==
    /\ pc' = "idle"
    /\ ret' = code

\* Bad options, -g without -o, no argument, an overlay that is not there, type
\* nibbles that do not fit into 16 bits, an input that is not there: the
\* process ends before it has touched a file.
Reject ==
    /\ \/ pc \in {"generate", "open"} /\ opt.bad
       \/ pc = "generate" /\ opt.out = ""
       \/ pc = "generate" /\ \E k \in DOMAIN opt.overlay : ~Exists(fs[opt.overlay[k]])
       \/ pc = "generate" /\ ~opt.bad /\ opt.types[4] # 0
       \/ pc = "open" /\ ~(cmd.arg # "" /\ Exists(fs[cmd.arg]))
    /\ Exit(1)
    /\ UNCHANGED <<fs, locals, history, made, faults>>

-----------------------------------------------------------------------------
(* -g: a new file from the stub and the overlays.                          *)

\* The header holds nine size words; those of more overlays are written over
\* the stub's code.
SizeWords == 9
Code(o) == IF Len(o.overlay) > SizeWords THEN "sizes" ELSE "stub"

Generate ==
    /\ pc = "generate"
    /\ ~opt.bad
    /\ opt.out # ""
    /\ \A k \in DOMAIN opt.overlay : Exists(fs[opt.overlay[k]])
    /\ opt.types[4] = 0
    /\ fs' = [fs EXCEPT ![opt.out] = StubOf(Code(opt), GeneratedHeader(opt), cmd.stub)]
    /\ pc' = "link"
    /\ UNCHANGED <<locals, history, made, ret, faults>>

\* copy_file reads an overlay to its end, as long as it may have become.
OverlayChunk == Region(fs[opt.overlay[nth]], inpos, ChunkSize)

\* Variant: leaves what does not fill the buffer.
CopyOverlayWholeChunks ==
    /\ pc = "link"
    /\ nth <= Len(opt.overlay)
    /\ OverlayChunk # << >>
    /\ fs' = [fs EXCEPT ![opt.out] =
                IF Len(OverlayChunk) < ChunkSize THEN @ ELSE @ \o OverlayChunk]
    /\ inpos' = inpos + Len(OverlayChunk)
    /\ UNCHANGED <<pc, cmd, opt, scan, left, nth, history, made, ret, faults>>

CopyOverlay ==
    /\ pc = "link"
    /\ nth <= Len(opt.overlay)
    /\ OverlayChunk # << >>
    /\ fs' = [fs EXCEPT ![opt.out] = @ \o OverlayChunk]
    /\ inpos' = inpos + Len(OverlayChunk)
    /\ UNCHANGED <<pc, cmd, opt, scan, left, nth, history, made, ret, faults>>

OverlayEnds ==
    /\ pc = "link"
    /\ nth <= Len(opt.overlay)
    /\ OverlayChunk = << >>
    /\ nth' = nth + 1
    /\ inpos' = 0
    /\ UNCHANGED <<fs, pc, cmd, opt, scan, left, history, made, ret, faults>>

\* copy_file fails: what has been written is removed.
OverlayFails ==
    /\ pc = "link"
    /\ nth <= Len(opt.overlay)
    /\ faults < MaxFaults
    /\ faults' = faults + 1
    /\ fs' = [fs EXCEPT ![opt.out] = Missing]
    /\ Exit(1)
    /\ UNCHANGED <<locals, history, made>>

Generated ==
    /\ pc = "link"
    /\ nth > Len(opt.overlay)
    /\ made' = <<fs[opt.out]>>
    /\ Exit(0)
    /\ UNCHANGED <<fs, locals, history, faults>>

-----------------------------------------------------------------------------
(* coff2exe: the scan of the input.                                        *)

Input == fs[cmd.arg]
HereIs(kind) == HasCell(Input, scan.coffset) /\ CellAt(Input, scan.coffset).what = kind
Here == CellAt(Input, scan.coffset).hdr

OpenInput ==
    /\ pc = "open"
    /\ ~opt.bad
    /\ cmd.arg # "" /\ Exists(fs[cmd.arg])
    /\ pc' = "scan"
    /\ UNCHANGED <<fs, locals, history, made, ret, faults>>

\* The overlay that -r keeps.
KeptType(h) ==
    IF "elf" \notin h.flags THEN OT_COFF
    ELSE IF "dj32" \in h.flags THEN OT_DJ32 ELSE OT_E64

\* Variant: knows only one of the debug types.
StrippingD64(h) == opt.strip /\ ~opt.rmstub /\ Walk(h).type = OT_D64

Stripping(h) == opt.strip /\ ~opt.rmstub /\ Walk(h).type \in DebugTypes

\* A stub header that the tool accepts.  -r picks one overlay and stops; -s
\* cuts the last overlay off when the walk ended at a debug type, and clears
\* the size word before the one where the walk ended.
StubHeader ==
    /\ pc = "scan"
    /\ HereIs("mz")
    /\ Here.ver >= 8
    /\ LET w == Walk(Here)
           keep == KeptType(Here)
           seen == [scan EXCEPT !.stubv = Here.ver, !.copied = TRUE,
                                !.hdr = Here, !.coffset = Here.lfanew,
                                !.rmoverlay = @ \/ opt.rmstub \/ opt.strip]
       IN  IF opt.rmstub
           THEN /\ find_idx(keep, Here) # -1
                /\ scan' = [seen EXCEPT !.coffset = @ + find_offs(keep, Here),
                                        !.size = find_size(keep, Here)]
                /\ pc' = "scanned"
           ELSE /\ Stripping(Here) => w.passed > 1
                /\ scan' = IF Stripping(Here)
                           THEN [seen EXCEPT
                                    !.size = SlotOffs(Here, w.passed) - w.size,
                                    !.hdr.words[w.passed - 1] = 0]
                           ELSE seen
                /\ UNCHANGED pc
    /\ UNCHANGED <<fs, cmd, opt, left, inpos, nth, history, made, ret, faults>>

\* A plain exe (an older djgpp stub): the payload follows its last block.
ExeHeader ==
    /\ pc = "scan"
    /\ HereIs("exe")
    /\ scan' = [scan EXCEPT !.coffset = @ + CellAt(Input, scan.coffset).end]
    /\ UNCHANGED <<fs, pc, cmd, opt, left, inpos, nth, history, made, ret, faults>>

\* A payload, or something unknown, which is only warned about.
PayloadFound ==
    /\ pc = "scan"
    /\ HasCell(Input, scan.coffset)
    /\ ~HereIs("mz") /\ ~HereIs("exe")
    /\ HereIs("coff") => scan.stubv = 0 \/ "elf" \notin scan.hdr.flags
    /\ HereIs("elf") => scan.stubv = 0 \/ "elf" \in scan.hdr.flags
    /\ pc' = "scanned"
    /\ UNCHANGED <<fs, locals, history, made, ret, faults>>

\* Nothing to read at the offset, a stub that is too old, no overlay for -r,
\* -s with a walk that ended too early, a payload the flags do not announce.
ScanFails ==
    /\ pc = "scan"
    /\ \/ ~HasCell(Input, scan.coffset)
       \/ HereIs("mz") /\ Here.ver < 8
       \/ HereIs("mz") /\ Here.ver >= 8 /\ opt.rmstub /\ find_idx(KeptType(Here), Here) = -1
       \/ HereIs("mz") /\ Here.ver >= 8 /\ Stripping(Here) /\ Walk(Here).passed <= 1
       \/ HereIs("coff") /\ scan.stubv # 0 /\ "elf" \in scan.hdr.flags
       \/ HereIs("elf") /\ scan.stubv # 0 /\ "elf" \notin scan.hdr.flags
    /\ Exit(1)
    /\ UNCHANGED <<fs, locals, history, made, faults>>

\* The size defaults to the rest of the file; -i stops here.
Measure ==
    /\ pc = "scanned"
    /\ LET size == IF scan.size # 0 THEN scan.size ELSE Len(Input) - scan.coffset
       IN  /\ left' = size
           /\ scan' = IF scan.copied THEN scan
                      ELSE [scan EXCEPT !.hdr.words[0] = size]
    /\ inpos' = scan.coffset
    /\ IF opt.info THEN Exit(0) ELSE pc' = "create" /\ UNCHANGED ret
    /\ UNCHANGED <<fs, cmd, opt, nth, history, made, faults>>

-----------------------------------------------------------------------------
(* coff2exe: the output.                                                   *)

InPlace == opt.out = ""
Target == IF InPlace THEN "tmp" ELSE opt.out

\* Variant: keeps the old stub's length.
CopiedHeaderOldLength ==
    [scan.hdr EXCEPT !.ver = IF scan.stubv # 0 THEN scan.stubv ELSE opt.ver]

\* The header of the output: the copied fields with the new stub's length.
CopiedHeader ==
    [scan.hdr EXCEPT !.ver = IF scan.stubv # 0 THEN scan.stubv ELSE opt.ver,
                     !.lfanew = cmd.stub]

Create ==
    /\ pc = "create"
    /\ fs' = [fs EXCEPT ![Target] = IF opt.rmstub THEN << >>
                                    ELSE Stub(CopiedHeader, cmd.stub)]
    /\ pc' = "copy"
    /\ UNCHANGED <<locals, history, made, ret, faults>>

\* The output cannot be created.
CreateFails ==
    /\ pc \in {"generate", "create"}
    /\ ~opt.bad /\ (pc = "generate" => opt.out # "")
    /\ faults < MaxFaults
    /\ faults' = faults + 1
    /\ Exit(1)
    /\ UNCHANGED <<fs, locals, history, made>>

\* Only when an overlay is being removed does the count bound the copy.
Chunk ==
    LET want == IF scan.rmoverlay /\ left < ChunkSize THEN left ELSE ChunkSize
    IN  Region(Input, inpos, want)

\* Variant: counts the buffer's size instead of the bytes that were read.
CopyChunkByBuffer ==
    /\ pc = "copy"
    /\ left > 0
    /\ Chunk # << >>
    /\ fs' = [fs EXCEPT ![Target] = @ \o Chunk]
    /\ inpos' = inpos + Len(Chunk)
    /\ left' = IF scan.rmoverlay THEN left - ChunkSize ELSE left
    /\ UNCHANGED <<pc, cmd, opt, scan, nth, history, made, ret, faults>>

\* Variant: seeks to the payload before every read.
CopyChunkSeeksBack ==
    /\ pc = "copy"
    /\ left > 0
    /\ Chunk # << >>
    /\ fs' = [fs EXCEPT ![Target] = @ \o Chunk]
    /\ inpos' = scan.coffset
    /\ left' = IF scan.rmoverlay THEN left - Len(Chunk) ELSE left
    /\ UNCHANGED <<pc, cmd, opt, scan, nth, history, made, ret, faults>>

CopyChunk ==
    /\ pc = "copy"
    /\ left > 0
    /\ Chunk # << >>
    /\ fs' = [fs EXCEPT ![Target] = @ \o Chunk]
    /\ inpos' = inpos + Len(Chunk)
    /\ left' = IF scan.rmoverlay THEN left - Len(Chunk) ELSE left
    /\ UNCHANGED <<pc, cmd, opt, scan, nth, history, made, ret, faults>>

\* A read, a write or a close fails: the exception ends the process and what
\* has been written stays.
CopyFails ==
    /\ pc \in {"link", "copy"}
    /\ faults < MaxFaults
    /\ faults' = faults + 1
    /\ Exit(1)
    /\ UNCHANGED <<fs, locals, history, made>>

\* Variant: the end of the input does not end the loop.
CopyEndsByCount ==
    /\ pc = "copy"
    /\ left <= 0
    /\ made' = <<fs[Target]>>
    /\ IF InPlace THEN pc' = "move" /\ UNCHANGED ret ELSE Exit(0)
    /\ UNCHANGED <<fs, locals, history, faults>>

CopyEnds ==
    /\ pc = "copy"
    /\ left <= 0 \/ Chunk = << >>
    /\ made' = <<fs[Target]>>
    /\ IF InPlace THEN pc' = "move" /\ UNCHANGED ret ELSE Exit(0)
    /\ UNCHANGED <<fs, locals, history, faults>>

\* shutil.move renames within a file system...
Rename ==
    /\ pc = "move"
    /\ fs' = [fs EXCEPT ![cmd.arg] = fs["tmp"], !["tmp"] = Missing]
    /\ Exit(0)
    /\ UNCHANGED <<locals, history, made, faults>>

\* ...and otherwise copies: the input is truncated, filled and only then is
\* the temporary file removed.
MoveTruncates ==
    /\ pc = "move"
    /\ fs' = [fs EXCEPT ![cmd.arg] = << >>]
    /\ pc' = "refill"
    /\ UNCHANGED <<locals, history, made, ret, faults>>

Refill ==
    /\ pc = "refill"
    /\ fs[cmd.arg] # fs["tmp"]
    /\ fs' = [fs EXCEPT ![cmd.arg] = @ \o Region(fs["tmp"], Len(@), ChunkSize)]
    /\ UNCHANGED <<pc, locals, history, made, ret, faults>>

\* Variant: the temporary file goes before the copy is whole.
MoveUnlinksEarly ==
    /\ pc = "refill"
    /\ fs' = [fs EXCEPT !["tmp"] = Missing]
    /\ Exit(0)
    /\ UNCHANGED <<locals, history, made, faults>>

MoveUnlinks ==
    /\ pc = "refill"
    /\ fs[cmd.arg] = fs["tmp"]
    /\ fs' = [fs EXCEPT !["tmp"] = Missing]
    /\ Exit(0)
    /\ UNCHANGED <<locals, history, made, faults>>

MoveFails ==
    /\ pc \in {"move", "refill"}
    /\ faults < MaxFaults
    /\ faults' = faults + 1
    /\ Exit(1)
    /\ UNCHANGED <<fs, locals, history, made>>

\* The process is killed: what is on disk stays.
Kill ==
    /\ pc # "idle"
    /\ faults < MaxFaults
    /\ faults' = faults + 1
    /\ Exit(137)
    /\ UNCHANGED <<fs, locals, history, made>>

Work ==
    \/ Reject
    \/ Generate \/ CopyOverlay \/ OverlayEnds \/ Generated
    \/ OpenInput \/ StubHeader \/ ExeHeader \/ PayloadFound \/ ScanFails
    \/ Measure \/ Create \/ CopyChunk \/ CopyEnds
    \/ Rename \/ MoveTruncates \/ Refill \/ MoveUnlinks

Faults == OverlayFails \/ CreateFails \/ CopyFails \/ MoveFails \/ Kill

Next == (\E c \in Commands : Start(c)) \/ Work \/ Faults

\* A running command goes on; nobody has to give another one.
Spec == Init /\ [][Next]_vars /\ WF_vars(Work)

-----------------------------------------------------------------------------
Places == {"idle", "generate", "link", "open", "scan", "scanned", "create",
           "copy", "move", "refill"}

\* Files are files with headers that fit their fields, whatever was written and
\* however far, and the copy loop never counts past the end of its input.
TypeOK ==
    /\ DOMAIN fs = Names
    /\ \A n \in Names : IsFile(fs[n])
    /\ pc \in Places
    /\ ret \in {0, 1, 137}
    /\ pc \in {"open", "generate"} => scan = ScanStart
    /\ pc \in {"scan", "scanned", "create"} => Exists(Input)
    /\ scan.hdr \in Headers /\ scan.coffset \in Nat
    /\ pc = "copy" => left \in Int
    /\ pc \in {"generate", "link", "copy"} => inpos \in Nat
    /\ pc = "copy" => left >= 0 \/ inpos > Len(before[cmd.arg])
    /\ nth \in 1 .. Len(opt.overlay) + 1
    /\ commands \in 0 .. MaxCommands /\ faults \in 0 .. MaxFaults

\* A command has just written a file, successfully.  (-g does not look at -i.)
Wrote == pc = "idle" /\ commands > 0 /\ ret = 0 /\ (opt.gen \/ ~opt.info)
\* ...by coff2exe, from a file other than the one that it wrote.
Edited == Wrote /\ ~opt.gen /\ opt.out # cmd.arg
Source == before[cmd.arg]
Result == fs[IF opt.gen \/ ~InPlace THEN opt.out ELSE cmd.arg]

\* What -g links in the place of a region, if it links anything there.
Linked(k) == IF k <= Len(opt.overlay) THEN before[opt.overlay[k]] ELSE << >>

\* What -g links is what the stub finds: of the three regions that fullstub
\* derives from the header each is the overlay that was linked there, byte for
\* byte, unless an overlay before it was empty: then the stub loses its place, and
\* only what is empty is still found empty.  The stub in front is whole as long
\* as the header holds all the sizes.  (An overlay that is the output is cut off;
\* one that begins with a stub of its own is read as the next header of the
\* chain.)
GenerateDescribes ==
    (/\ Wrote /\ opt.gen
     /\ \A k \in DOMAIN opt.overlay : opt.overlay[k] # opt.out
     /\ Len(opt.overlay) <= SizeWords
     /\ ~StartsWith(From(Result, cmd.stub), "mz")) =>
        /\ Region(Result, 0, cmd.stub) = Stub(CellAt(Result, 0).hdr, cmd.stub)
        /\ \A k \in 1 .. 3 :
             (Linked(k) = << >> \/ \A j \in 1 .. k - 1 : Linked(j) # << >>) =>
                StubRegions(Result)[k] = Linked(k)

\* Putting a new stub before a program changes nothing of what the stub tells
\* it, and a bare payload becomes the first region.
RestubKeeps ==
    (Edited /\ ~opt.rmstub /\ ~opt.strip /\ Plain(Source)) =>
        /\ StartsWith(Source, "mz") => StubRegions(Result) = StubRegions(Source)
        /\ ~StartsWith(Source, "mz") => StubRegions(Result) = <<Bare(Source), << >>, << >>>>

\* The debug info is the last overlay that the header describes.
DebugIsLast(f) ==
    /\ StartsWith(f, "mz")
    /\ LET h == CellAt(f, 0).hdr
           w == Walk(h)
       IN  /\ w.type \in DebugTypes /\ w.size > 0
           /\ \A s \in Slots \ {NameWord} : s >= w.passed => h.words[s] = 0

\* -s on a file with debug info removes that overlay, from the header and from
\* the file, and nothing else.
StripExact ==
    (Edited /\ opt.strip /\ ~opt.rmstub /\ OneHeader(Source) /\ DebugIsLast(Source)) =>
        LET last == Walk(CellAt(Source, 0).hdr).passed
            was == StubRegions(Source)
            is == StubRegions(Result)
        IN  /\ \A k \in 1 .. 3 : is[k] = IF k = last THEN << >> ELSE was[k]
            /\ Len(From(Result, cmd.stub)) = Len(is[1]) + Len(is[2]) + Len(is[3])

\* The regions that hold an overlay of the type that -r keeps.
KeptRegions(h) == {k \in 1 .. 3 : h.words[k - 1] # 0 /\ h.types[k - 1] = KeptType(h)}

\* The tool's way to an overlay, through the type map, and the stub's way to a
\* region, through the size words, lead to the same bytes: what -r gives is a
\* region that the stub would have given the program.
UnstubAgrees ==
    (Edited /\ opt.rmstub /\ Plain(Source)) =>
        /\ StartsWith(Source, "mz") =>
             LET kept == KeptRegions(CellAt(Source, 0).hdr)
             IN  kept # {} => \E k \in kept : Result = StubRegions(Source)[k]
        /\ ~StartsWith(Source, "mz") => Result = Bare(Source)

\* The payloads there were before any command.
Payloads ==
    {p \in {Bare(InitFiles[n]) : n \in Names} : StartsWith(p, "coff") \/ StartsWith(p, "elf")}

\* The slot of the overlay that -r keeps, or -1.
KeptSlot(h) == find_idx(KeptType(h), h)

\* The file that a command writes, and whether it finds what it is to link.
Written(c) ==
    LET o == Parsed(c.opts)
    IN  IF o.gen \/ o.out # "" THEN o.out ELSE IF o.info THEN "" ELSE c.arg
Links(c) ==
    LET o == Parsed(c.opts)
    IN  o.gen /\ ~o.bad /\ o.out # "" /\ \A k \in DOMAIN o.overlay : Exists(InitFiles[o.overlay[k]])

\* The overlay that -r will keep, by the options of -g.
LinkedSlot(o) ==
    KeptSlot([FreshHeader EXCEPT !.types = [s \in Slots |-> o.types[s]], !.flags = o.flags])

\* Commands that are used as they are meant: every file is empty or carries a
\* payload, no command writes over its input or over what another one links, the
\* first overlay is a payload, and so is what -t and -f announce as the one to
\* keep, with no empty overlay before it.
Orderly ==
    /\ \A n \in Names : Exists(InitFiles[n]) =>
         InitFiles[n] = << >> \/ Bare(InitFiles[n]) \in Payloads
    /\ \A c \in Commands :
         LET o == Parsed(c.opts)
             slot == LinkedSlot(o)
         IN  /\ o.gen \/ o.out = "" \/ o.out # c.arg
             /\ o.gen => \A k \in DOMAIN o.overlay, d \in Commands : Written(d) # o.overlay[k]
             /\ Links(c) =>
                  /\ o.overlay # << >> => InitFiles[o.overlay[1]] \in Payloads
                  /\ slot # -1 =>
                       /\ slot < NameWord /\ slot < Len(o.overlay)
                       /\ InitFiles[o.overlay[slot + 1]] \in Payloads
                       /\ \A k \in 1 .. slot : InitFiles[o.overlay[k]] # << >>

\* Over any number of commands, until one fails: -r gives back one of the
\* payloads that there were to link, whole.
UnstubGivesPayload ==
    (Orderly /\ faults = 0 /\ Edited /\ opt.rmstub) => Result \in Payloads

\* Working in place never loses the program: at any moment, whatever fails and
\* whenever the process dies, the old file or the finished new one is there.
NoLoss ==
    (~opt.gen /\ InPlace /\ cmd.arg # "" /\ commands > 0) =>
        \/ fs[cmd.arg] = before[cmd.arg]
        \/ made # << >> /\ made[1] \in {fs[cmd.arg], fs["tmp"]}

\* After -s the header describes the whole file: what has lost its entry has
\* lost its bytes.
StripCoversFile ==
    (Wrote /\ opt.strip /\ ~opt.gen /\ ~opt.rmstub /\ StartsWith(Source, "mz")) =>
        Len(Result) = cmd.stub + SlotOffs(CellAt(Result, 0).hdr, 3)

\* -i reads every file the tool has written.
ReadsOwnFiles ==
    (pc = "idle" /\ opt.info /\ ~opt.bad /\ StartsWith(Source, "mz")) => ret # 1

\* A PE program (an exe header that leads to neither COFF nor ELF) is
\* stubified.
StubifiesPE ==
    (pc = "idle" /\ commands > 0 /\ cmd.opts = << >> /\ StartsWith(Source, "mz")) =>
        ret # 1

\* The steps that copy the last n overlays: a read for each cell at most, and
\* one that finds the end.
OverlaysAhead(n) ==
    LET m == Len(opt.overlay)
        ahead[k \in 0 .. m] ==
            IF k = 0 THEN 0 ELSE ahead[k - 1] + Len(before[opt.overlay[m - k + 1]]) + 1
    IN  ahead[n]

\* How many more steps the running command takes at most.  What is still to be
\* read of the input counts twice, because in place it is copied once more.
StepsLeft ==
    LET ahead == IF inpos < Len(Source) THEN Len(Source) - inpos ELSE 0
        copying == 2 * Len(Source) + cmd.stub
    IN  CASE pc = "idle" -> 0
          [] pc = "generate" -> OverlaysAhead(Len(opt.overlay)) + 2
          [] pc = "link" -> OverlaysAhead(Len(opt.overlay) + 1 - nth) - inpos + 1
          [] pc = "open" -> IF cmd.arg = "" THEN 1 ELSE copying + 8
          [] pc = "scan" -> copying + IF scan = ScanStart THEN 7 ELSE 6
          [] pc = "scanned" -> copying + 5
          [] pc = "create" -> copying + 4
          [] pc = "copy" -> 2 * ahead + Len(fs[Target]) + 3
          [] pc = "move" -> Len(fs["tmp"]) + 2
          [] pc = "refill" -> Len(fs["tmp"]) - Len(fs[cmd.arg]) + 1

\* The header of the input leads to no other, and the output is neither the
\* input nor an overlay.
Straight ==
    IF opt.gen THEN \A k \in DOMAIN opt.overlay : opt.overlay[k] # opt.out
    ELSE cmd.arg = "" \/ (OneHeader(Source) /\ opt.out # cmd.arg)

\* Every step brings a command nearer to its end, whatever fails: the loops that
\* link, scan, copy and move end for all sizes of the file, of the overlays and of
\* the buffer.  (A header may lead back to an earlier one, and an output that is
\* the input or an overlay grows while it is read; then they need not.)
NearsEnd ==
    [][(pc # "idle" /\ Straight) => StepsLeft' \in 0 .. StepsLeft - 1]_vars

\* A command that is running comes to its end.
CommandEnds == (pc # "idle") ~> (pc = "idle")
=============================================================================
