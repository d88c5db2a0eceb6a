# A verification development for djstub

djstub is a loader stub for DOS programs (`src/src/*.c`) and the host tools that
put it in front of COFF and ELF payloads (`djstubify2.py`, `djlink`, `djstrip`).
This directory holds TLA+ models of its parts, the TLC runs that check them on
small instances and the TLAPS proofs of what holds for every instance.

## The system

| part | source | state it keeps | operations |
|---|---|---|---|
| ministub | `ministub.c` | `env`, `envp[]`, counters of the scan | scan the environment, ask the host for its own stub, else `fullstub` |
| stub control | `stub.c` | file position, offsets and sizes of the payloads, the stub info, selectors | follow the header chain, allocate, build descriptors, load, switch to DPMI, jump |
| payload loaders | `coff.c`, `elf.c` | section or program headers, bounds of the image | `read_headers`, `get_va`, `get_length`, `read_sections` behind `struct ldops` |
| far memory and reading | `util.c` 35-119 | progress of `_long_read` | `farmemcpy`, `farmemset`, `_long_read` |
| low memory, DPMI switch | `util.c` 121-297 | the stub's DOS block, the host's pool | `get_low_pool`, `shrink_low`, `free_low`, `dpmi_init` |
| DPMI wrappers | `dpmi.c` | none | one INT 31h call each |
| djstubify | `djstubify2.py` | options, the scan of the input, the output | link (`-g`), look (`-i`), strip (`-s`), unstub (`-r`), restub |
| djlink, djstrip, djelfextract | shell scripts | files under `/tmp` | call djstubify and binutils |

**How they interact.** The tool and the stub never meet: what they share is the
exe header. The size words at 0x1c, the type map at 0x36, the flags at 0x38, the
version at 0x3b and lfanew at 0x3c are written by `main()` and `coff2exe()` of
`djstubify2.py` and read back both by `coff2exe()` and by `fullstub()`. Inside
the stub everything is calls within one sequential program: `main` of ministub
calls `fullstub`, which calls a loader through `struct ldops`; the loader shares
the file position with its caller and stores through a descriptor whose base the
caller computed. The host (DPMI, DOS) is called and may refuse.

**What is hard.** Nothing in the stub runs concurrently; the hazards are 32-bit
wrap-around in addresses and counters, stores rounded to whole words next to
memory that is already loaded, reads that come back short or fail, state
that one turn of a loop leaves for the next, descriptors copied before they are
complete, and conventional memory that is given back while the host still works
in it. In the tools it is sequences of
commands on one file, failures and kills while a file is being replaced, and jobs
that share a file name. `PROJECT.json` lists the hazards line by line.

**What makes each part correct.**

- Loader: everything stored lies in the block; an image that gets control is
  whole; a file that cannot be loaded is refused; it ends.
- Header chain and djstubify: the regions the stub computes are the overlays that
  were linked; restub, strip and unstub change only what they are for; the
  program being edited is never lost.
- Environment: the two passes agree; `envp` lists every string once; the size
  reported covers the whole block.
- Low memory: the host never works in memory that is somebody else's and finds
  its pool as it left it; PSP and the program's area stay whole and apart.
- Stub control: every selector the program gets reaches what the stub info says
  of it; nobody else's descriptor is changed; it comes to an end.
- djlink: jobs with names of their own do not disturb each other, a job that
  fails leaves no program, and none leaves a file in `/tmp`.

## The modules

| module | models | |
|---|---|---|
| `ImageLoad` | – | abstract: a wanted program is delivered whole in one step, refused for a cause it has, or spoilt by a failed read |
| `PayloadLoader` | `stub.c` 196-202, 256-346, 385; `coff.c`; `elf.c`; `util.c` 35-119 | the loader, one action per branch of the code |
| `EnvScan` | `ministub.c` 92-120; `stub.c` 135-146, 208-216 | the walks over the environment |
| `LowMemory` | `util.c` 122-297 | giving conventional memory back to DOS |
| `Dpmi` | `dpmi.c` 27-150 | the descriptor calls the stub makes, as operators on the host's table |
| `StubMain` | `ministub.c` 121-158; `stub.c` 47-410 | the whole stub, over `LowMemory`, `Dpmi` and `StubImage` |
| `StubImage` | `djstubify2.py` 97-130, 216-241; `stub.c` 153-194, 387-393 | the file format, read by both programs |
| `Djstubify` | `djstubify2.py` 138-351, 372-554 | commands on a file system, with failures and kills |
| `Djlink` | `djlink`; `djstubify2.py` 503-540 | concurrent link jobs and the files they share |
| `PayloadLoaderInv`, `EnvScanInv` | | inductive invariants that have a module of their own |
| `…Proofs` | | the theorems |
| `MC…` | | the small instances |

### PayloadLoader

`pc` says where `fullstub` is: reading headers, in the program header loop
(`scan`), about to allocate, at the head of the section loop (`load`), in
`_long_read` (`read`), at the caller's comparison (`check`), or at one of the four
ends. `beg` and `end` are the loader's bounds, `memLin`, `memBase` and `allocSize`
the placement, `pos` the position of `ifile`, `done` and `size` the counters of
`_long_read`. Memory maps every linear address to the *file offset* whose byte it
holds, or to `Zero` (cleared), `Stale` (the byte that pads an odd copy) or `Junk`
(never written). So "the right byte is here" is an equation between addresses,
and no contents need be made up. All address arithmetic wraps at `AddrLimit`,
as the segment base and the offsets do.

A COFF payload is three loadable sections, the third with no bytes in the file,
which makes `read_coff_sections` the same loop as `read_elf_sections`. A payload
whose header checks fail is one with `headersOk = FALSE`.

Preconditions (named assumptions and premises): sections ascend without
overlap and end below the last address (`WellFormed`), as linkers write them. An
ELF segment at address 0 is excluded from `BlockSafe` (`StartsAtZero`), because
`read_elf_headers` uses 0 for "nothing seen yet"; `ImageCorrect` includes it.

### StubImage and Djstubify

A file is a sequence of cells; a header and a payload's first 0x40 bytes are one
cell each. `StubRead` is the loop of `fullstub` and `StubRegions` the three regions
it reports; `find_idx`, `find_offs`, `find_size` and `Walk` are the tool's way of
reading the same header. The properties compare the two. `Plain` says of a file that its
header leads to a payload and describes overlays without a gap, as the files of `-g`
do; `IsFile`, that no header field is out of its range.

`Djstubify` is a file system and one process. `Start` takes a command line and
folds `OptTurn` over its options. The other actions are the branches of `main` and
`coff2exe` in their order. `copy_file` (`CopyOverlay`, `OverlayEnds`) and the copy loop of
`coff2exe` move `ChunkSize` cells a turn, of what is in the file when they read it.
`shutil.move` is both of its forms: a rename, and truncate, fill, unlink. `Kill`
may hit at every step, the failing calls where the code or an exception ends the
process. `before` and `made` are history variables that only properties read.
A name without a file has `Missing`, which is no file's contents; a file may be empty, and an
empty overlay is linked like any other, with size word 0. The header has room for nine
size words; `Code` is what becomes of the stub's code when there are more. A command may name
its input, or an overlay, as its output; what it should do then nothing in the repository says,
so the properties exclude it (`Edited`, `GenerateDescribes`, `Straight`), and no instance does it.

The properties of one edit compare two programs that never meet. `GenerateDescribes`:
what `-g` writes into the header is what the stub reads out of it, byte for byte and behind a
whole stub, for up to nine overlays. To the stub a size of 0 means that there is no overlay, and
it then does not know where the next one begins (`stub.c` 173), so what lies behind an empty
overlay is left open; nothing empty is taken for something else. `RestubKeeps`: with
a new stub of another length all three regions stay. `StripExact`: the debug overlay
leaves the header and the file. `UnstubAgrees`: `-r` finds an overlay through the type
map, the stub through the size words, and both find the same bytes.
`NearsEnd` counts the steps that a command still has (`StepsLeft`: what is left to read of the
input counts twice, since in place it is moved once more; `OverlaysAhead` is what `copy_file`
still has to do) and says that each step lowers the count. It is about files whose header leads
to no other, as every file of the tool's, and an output that is neither the input nor an overlay
(`Straight`): `lfanew` may lead back to an earlier header, and `-g -o x -l x` reads what it
writes for ever, so otherwise the tool need not end.
`UnstubGivesPayload` looks at several commands, until one fails: `-r` gives back what was
linked. The tool cannot promise that by itself, so the property has a premise, `Orderly`, about
the files and command lines alone, which the instance of `djstubify` and `djstubify_faults`
satisfies (the mutant shows it): every file is empty or carries a payload; no command
writes over its input or over what another one links; the first overlay is a payload, and what
`-t` and `-f` announce as the payload to keep is one, lies before the name offset in word 3 and
has no empty overlay before it.

### EnvScan

A cell of the block is NUL, "ELFEXEC=" or a letter. `CountTurn`/`CountDone` and
`FillTurn`/`FillDone` are the two passes, `ExecTurn`/`ExecDone` the search for
`ELFEXEC=`, `SizeTurn`/`SizeDone` the sum of `env_size`.

### LowMemory

Memory is a function from paragraphs to what they hold: a part of the PSP, a part
of the host's pool *as of its n-th DOS call*, or junk. The actions are the calls of
`dpmi_init` in their order: `Query` (1687h and its answers), `Shrink`, `Move`,
`Switch`, `FreeLow`, and the ways out. `ShrinkOnly` is `shrink_low` alone.
Every DOS call goes through the host, which then has written its pool anew, and
whoever got released memory may have written there (`AfterCall`). So a copy taken
too early, or memory released too early, is an inequality of contents.

### StubMain

`pc` is where `main` or `fullstub` is. The pieces are composed by conjunction:
`LoadAndSwitch` is `CallInit(info.minkeep)` of `LowMemory`, `LowRuns` are
the steps `dpmi_init` then takes by itself, and `Switched` or `Fallback` go on when it is
done. `ldt` is the host's table; each action applies the calls of `Dpmi` in the
order of the code. A call that fails returns -1, kept in 16 bits: selector
0xffff, the table's last one (`NoSel`); nothing in the code checks it, and
nothing here does. `strict` hosts refuse to change descriptors that come
from `dpmi_segment_to_descriptor`, as DPMI allows. The loader is one step that delivers
or refuses, as `ImageLoad` shows it. `HeaderTurn` is one turn of the header loop.

`noffset` and `noffset2` are set only by a header that has the overlay before, so what one
header set is still there after the next. `TellsOverlays`: that does no harm where the last header
has no gap, however many came before. That the loop, turn by turn, comes to `StubRead`, the
function over whole files that the properties of `Djstubify` use, is a lemma
(`LoopIsStubRead`): both are `StubTurn` repeated, and it says that `Len(f) + 1` turns are
enough.

### Djlink

One action per command of the script (the shell's own tests and `mktemp` are one action,
`Begin`: nothing of another job matters to them), and `djstubify -g` in its three steps: the sizes
are taken, the output is created, the debug file is copied. Any job may run between
two of them. Debug info is the job it belongs to, so that size, checksum and
contents of different jobs can be told apart. A file of an earlier job may
already lie in `/tmp`.

## The runs

| run | question | result |
|---|---|---|
| `load` | Is everything stored in the block, the image whole, the invariant kept, does the loader end, and does it implement `ImageLoad`? | holds, 17473 states |
| `load_ioerr` | Is a failed read noticed? | no: `read()` = -1 goes unnoticed (`util.c` 108-117) |
| `load_tail` | Does clearing stay in the block for word-aligned segments? | no: one byte past it (`elf.c` 143) |
| `djstubify` | Do tool and stub agree after any three commands, and does every step lead to the end? | holds, 105950 states |
| `djstubify_faults` | Does one failure or kill lose the program? | no loss, 20368 states |
| `djstubify_strip` | Does the header describe the whole file after `-s`? | no, after a second `-s` |
| `djstubify_version` | Can the tool look at what it linked without `-V`? | no: "stub too old" |
| `djstubify_elf` | Can it look at a plain ELF file it stubified? | no: "header is invalid" |
| `djstubify_pe` | Does it stubify PE? | no: taken for a stub of version 0 |
| `envscan` | Do the scans agree, is the size right, does the first `ELFEXEC=` win? | holds, 3031 states |
| `stub` | Is low memory safe in the whole stub, are the selectors and the overlays it tells of right, and does it end? | holds, 16834 states |
| `djlink` | What do concurrent jobs do to each other? | holds, 95004 states |

**Bounds.** `PayloadLoader`: pages of 4 bytes, 40 addresses, images of up to 20
bytes, so that sections take several chunks, chunks are odd, images fill their
pages exactly, and blocks lie below the image (the base wraps) or end at the
last address; files are cut off in every section. Properties relate a byte to
its section and a section to the block, so nothing depends on the true sizes;
the proofs confirm this. `Djstubify`: payloads of 1 to 3 cells of different
lengths, so that no two offsets agree by accident, in chunks of 2, so that a loop ends with a
whole chunk, a part of one or none; one build has an empty overlay between two others, one
has ten overlays; three commands are link, edit and look, or link and two edits; one fault,
since the first ends the command.
`EnvScan`: every block of up to 7 cells, which has up to three strings and every
place for `ELFEXEC=`. `MCStubMain`: twelve paragraphs, with the host's pool before, right
behind or far behind the stub's block, absent, or so big that the block must grow
into it; tables with every number of free descriptors from none to more than the stub
needs and each kind of last entry; header chains of up to two headers, also with a
second one that is packed or has a gap where the first has none, one that leads
back to itself, one that leads out of the file. The proofs confirm that the sizes do not matter.
`MCDjlink`: three jobs that share a name (one is refused), one with a name of its own
and one without.

**Fairness.** The stub is one sequential program, so weak fairness of `Next`
(it takes a step while it has one) is what running means. `MaxIoErrors` bounds
failing reads: if every read failed for ever the loop would not end.
For `Djstubify`, weak fairness of `Work` says that a running process goes on; there
is none on `Start` (nobody has to give a command) nor on faults. `StubEnds` rests on
weak fairness of `Next` of `StubMain` and on a header chain that leads forward: on one that leads
back the loop of `fullstub` does not end. `Djlink` states no liveness. Deadlock is
not checked because all the programs stop.

## What is proved

`PayloadLoaderProofs` holds for every `PageSize` (even), `AddrLimit`, set of
well-formed payloads, set of blocks and number of failing reads:

- `TypeCorrect`: `[]TypeOK`. Every computed address stays within 32 bits.
- `StaysInBlock`: `[]BlockSafe`. Without read errors every store lies in the
  block, but for one padding byte right behind it, only when `TailFits` fails.
- `ImageIsWhole`: `[]ImageCorrect`.
- `Inductive`: `[]IInv`, from which the last two follow.

`BlockSafe` and `ImageCorrect` are not inductive: a store is inside the block
only because the scan has covered the section (`ScanInv`), because the block is as
long as the image and the base is the block minus `beg` (`PlaceInv`), and because
the read loop's counters agree with the file position and it is at an even
offset whenever it goes on (`LoopInv`: an odd chunk is the last one).
`SectionsInv` says what is in place; that a later store does not touch it needs
the order of the sections and the parity of the padding. The proof has
a lemma for each of these steps, and lemmas about the arithmetic of
`Wrap`, `Lin`, `PageAlign` and `EvenUp`. The assumptions are the named ones of
`PayloadLoader`, which every run evaluates.

`EnvScanProofs` holds for every environment block and path (`EnvScanInv` holds the
invariant, `EInv`):

- `EnvScanInductive`: `[]EInv`; `EnvScanTypeCorrect`: `[]TypeOK`, no index leaves the
  block or the array.
- `NoOverrun`: `[]FillInBounds`. While the first pass runs, `envc` is the number of
  starts of strings before `i`; while the second runs, so is `envc2`, and the first
  `envc2` entries are those starts in order (`CountInv`, `FillInv`). That number grows
  with `i`, so the entry being written is below `envc`. `EnvpIsExact`: `[]EnvpExact`.
- `FirstWins`: `[]FirstElfExecWins`, from what the search has passed (`ExecInv`).
- `SizeIsExact`: `[]EnvSizeExact`. `SizeInv` says the sum so far is the distance
  between two starts; `NextString` shows that a string ends one cell before the next
  start, because no two NULs meet before the end of the block.

`LoadPromiseProofs`: `LoaderKeepsPromise`, `Spec => Promise!Safe`, the safety part of the
refinement of `ImageLoad`. `CauseInv` says which causes of a refusal are settled at
each place, in particular that a section that is being read fits into the file
exactly if its read comes out whole.

`LowMemoryProofs` holds for every size, layout and answer: `LowInductive`, `[]LowInv`.
What is wanted (`HostPoolHeld`, `HostPoolCurrent`, `PspKept`, `AreaKept`) needs two more
parts. `ArenaOK`: the stub's block, the host's block and other programs never
overlap. `ProgressOK`: until the switch the host lives in its own block; from `Move` to
`Switch` the copy *is* the pool as of the last call, because no call lies between;
and the block has been cut to PSP, area and pool. So what `FreeLow` releases is a block nobody uses.

`StubMainProofs`: `StubGivesBack`, `Spec => LowSpec`. The whole stub implements
`LowMemory`; the one thing to know is that the area it asks for is the one the stub info
promises (`AreaKnown`). `StubLowMemorySafe` carries the four properties over.

The rest of `StubMainProofs` holds for every table of descriptors and every host that follows
`Dpmi`: `MainInductive`, `[]MainInv`, from which follow `StubTypeCorrect`
(`[]TypeOK`), `OthersStay` (`[]OthersUntouched`), `SelectorsAreTrue` (`[]SelectorsTrue`) and `HandoverIsOwned`
(`[]HandoverOwned`). `Handover`, its main part, says for each stage which descriptors exist
and what is in them, field by field. A new descriptor is none of the old ones
because the host hands out free ones, and those were free when the stub was
started (`Keeps`). `Unset` says that selectors are 0 until they are made, so that
a host that has not yet run out of descriptors had not run out before. `Stage` ties `pc` to `dpmi_init`'s progress
and to the area. All are under `~Starved`, the condition of the properties: a host
that has no descriptor left makes the code change a descriptor it does not own.

`OverlaysAreTold` (`[]TellsOverlays`) holds for files of any length with any number of
headers, which may also lead back. `ChainInv`: `chain` is what some number of turns makes of
the file; so when the loop ends it has what `StubRead` has (`LoopIsStubRead`), and the proofs
about files apply to the running stub. `StubRead` allows one turn more than the file has
cells, and that is enough (`EndsInTime`): a turn depends only on the cell it looks at (`SameCell`), so
a loop that looks at one cell twice never ends, and one that ends looks at different cells, of
which there are `Len(f)`. `Followed` keeps which header the sizes are from (`Says`), and
`SaysOverlays` shows that an offset left by another header then belongs to an empty region.

`DjstubifyProofs` holds for all files, all command lines, every chunk size and any number
of commands, faults and kills:

- `ProgramSurvives`: `[]NoLoss`. Until `shutil.move` the input is as it was, since
  everything is written to the file of `mkstemp`; during the move that file is the
  finished program.
- `ToolTypeCorrect`: `[]TypeOK`, from `TypeInv`. That a file stays a file, and the copy's
  count within the input, needs to know what the options can set (`OptTyped`) and when the scan
  sets a size (`ScanTyped`: only when it also sets `rmoverlay`).
- `RestubIsFaithful`, `StripIsExact`, `UnstubMeetsStub`: `[]RestubKeeps`, `[]StripExact`,
  `[]UnstubAgrees`. Two invariants lead there. `WriteInv`: the output is the stub and one
  region of the input; while the loop copies (`CopyInv`), the part of it up to `inpos`,
  and `left` is what is missing, if it counts at all. `ScanInv`: where that region
  begins, how long it is and what header goes in front, as `coff2exe` has found it in a
  file with one header. Together they say what the result of an edit is,
  and the rest is about files.
- `LinkedIsFound`: `[]GenerateDescribes`, from `LinkInv`: the file begins with the stub; of
  the n-th overlay what is before `inpos` has been copied behind those before it, which lie each in
  its region; and the header, written before any of them was copied, is right about all.
  `ChunkJoins` is the turn of the loop: a beginning and the chunk behind it are the longer beginning.
  It holds for overlays of any length, none included: an empty one moves no other
  (`LinkedFacts`, `LinkedGrows`), and `KnownRegions` says which regions the stub then still knows.
  The name offset that `-n` writes over word 3 does no harm because the stub reads words 0 to 2.

- `UnstubIsWhole`: `[]UnstubGivesPayload`, the one property of several commands. What one
  command leaves is what the next one finds, so the invariant speaks of the whole disk
  (`DiskInv`): every file was `Good` when the command began, and the command changes none but
  the one it writes. `Good`: no file, a payload with or without an exe header, or a header that
  `Carries` a payload: it leads to no other header, what `-r` would copy is one of `Payloads`, and no
  size word before that one is 0. The last part is what `-s` needs: the walk then gets
  past the kept overlay, so what it cuts off lies behind it (`WalkPasses`), or, when a second `-s`
  has lost the way, it clears the word of the kept overlay itself and `-r` takes the
  rest of the file, which ends there. Each kind of command keeps that: `LinkedGood`, `BareGood`,
  `StubbedGood` (by `CopyCarries`), `UnstubGood`.
- `EndIsNear`: `NearsEnd`, an action property: no `Straight` command works for ever. Each turn
  of `copy_file` takes at least one cell of an overlay that nobody writes (`LinkAhead`), and
  the end of one overlay leaves the steps of those behind it (`OverlaysCounted`, by induction on their
  number). The scan reads at most
  one header, at the start (`HeaderIsFirst`, `HeaderLeads`, from `ScanInv`). A turn of the copy loop
  reads at least one cell and no more than there is (`ChunkAhead`, from `CopyInv`), and what it
  takes from the input is what it adds to the output. While `shutil.move` copies, the target is
  a beginning of the finished program (`RefillInv`), so as long as the two differ there is
  something to copy (`RefillTurn`). A fault ends the command.

`StubImageProofs` has the lemmas about files that they share: what a region of a concatenation
is (`RegionKept`, `RegionAppended`, `RegionShift`, `RegionGoesOn`), what `find_idx` finds
(`FindFacts`), where `Walk` stops (`WalkFacts`), and `PackedRegions`: of a file whose header
leads to a payload and describes overlays without a gap, `StubRegions` are the overlays
at the sums of the sizes before them. The loop of `fullstub` is a recursive function
over turns; that it exists and settles after two turns in a file with one header (`TurnsExist`, `TurnsStable`, `StubKnows`)
is an induction in which the set of numbers that have the property is named as a set
(`NatSetInduction`), since the provers cannot instantiate an operator.

`DjlinkProofs`, for any number of jobs: `JobTypeCorrect` (`[]TypeOK`), `AloneGetsOwnDebug`, `FailedIsUndone`,
`TmpIsClean`, from what a job has at each place (its file of `mktemp` from `Begin` to
`RemoveTmp`) and from nobody else writing the file of a name that is not shared.

Only model-checked: `Termination`, `CommandEnds`, `StubEnds` and `ScanEnds` (liveness is out of
the prover's reach; of `CommandEnds`, `EndIsNear` proves that only so many steps can follow, and TLC
that they do), and the fairness part of the refinement of `ImageLoad`. The properties of the runs that expect
a violation are false, and nothing is proved of them.

## Assumptions

All are named ASSUMEs of the modules, evaluated by the runs. Beyond types and
sizes: payloads are `WellFormed` (as linkers write them); DOS hands out blocks that do not
overlap (`LayoutsAssumption`); the host tells the truth about its pool or says it has
none (`Replies`), and its PSP selector covers the PSP (`WorldsAssumption`); the low
pool fits a real-mode segment (`InfoAssumption`); nobody names the file of `mkstemp`, a
stub is not empty, and `-t` is given one nibble (`CommandsAssumption`); files have headers
whose fields are in their range (`FilesAssumption`, `WorldsAssumption`).

## Not modelled

- The wrappers of `dpmi.c` that nothing calls, and `elf.py`, `elf.h`, `coff.h`: layouts and register
  moves without a decision in them.
- In `djstubify2.py`: the text `-i` prints, with the name looked up through word 3; `-h`, `-v`, `-d`;
  an unknown option; what `-o` that names the input or an overlay ought to do; what the tenth
  size word does to the stub's code beyond that it changes it; the name (`payload2_name`) that the
  stub copies from 0x30, where the sizes of a sixth overlay and of the next ones fall too. With `-g` or `-o` a failure leaves a partial output,
  of which the code promises nothing.
- In `djlink`: the parsing of options, the branch for Darwin, a full `/tmp`. README.md's older
  command line passes a file name to `-n`, which `int()` refuses.
- `djelfextract` (one `dd`), the messages and version texts of the stub, the build files and
  the packaging.
