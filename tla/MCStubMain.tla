----------------------------- MODULE MCStubMain -----------------------------
(***************************************************************************)
(* Twelve paragraphs of memory, nine descriptors and the files of two      *)
(* cells and more that the header loop may meet.                           *)
(***************************************************************************)
EXTENDS StubMain

\* The stub's block starts at 1; the host's pool before it, right behind it or further up.
MCLayouts ==
    {[own |-> o, seg |-> s, size |-> n] : o \in {1, 2, 5}, s \in {0}, n \in {0, 1}}
    \cup {[own |-> 2, seg |-> s, size |-> 2] : s \in {3, 5, 7}}
    \cup {[own |-> 7, seg |-> 8, size |-> 2]}
MCOthers == {11}

MzSizes(sizes, lfanew) ==
    MzCell(Header([s \in Slots |-> sizes[s + 1]], [s \in Slots |-> 0], {}, 8, lfanew))
Mz(lfanew) == MzSizes(<<0, 1, 2, 3>>, lfanew)
Data == [what |-> "data", of |-> "x", at |-> 1]
MCFiles ==
    {<<Mz(1)>> \o Payload("elf", "x", 2), <<Mz(1), Mz(3), Data>> \o Payload("coff", "x", 1),
     <<Mz(1), MzSizes(<<1, 1, 1, 0>>, 2)>> \o Payload("coff", "x", 3),
     <<MzSizes(<<1, 0, 0, 0>>, 1), Mz(2)>> \o Payload("coff", "x", 3),
     <<Mz(1), Data>>, <<Mz(5)>>, <<Mz(0)>>, <<Mz(1), Mz(0)>>, << >>}

\* The table starts with the runtime's ds and the host's PSP; n descriptors
\* are free; the last is free, somebody's or beyond the end of the table.
Desc(owner, base, limit) == [owner |-> owner, base |-> base, limit |-> limit, rights |-> "data16"]
Table(n, last) ==
    [s \in 1 .. 9 |->
        CASE s = 1 -> [Desc("runtime", 0, 1000) EXCEPT !.rights = "data32"]
          [] s = 2 -> Desc("host", 4, 3)
          [] s = 9 -> Desc(last, 50, 9)
          [] s - 2 <= n -> Desc("nobody", 0, 0)
          [] OTHER -> Desc("other", 60 + s, s)]

World(forced, hostStub, elfexec, strict, file, table) ==
    [argc |-> TRUE, forced |-> forced, hostStub |-> hostStub, elfexec |-> elfexec,
     strict |-> strict, file |-> file, table |-> table]
Elf == <<Mz(1)>> \o Payload("elf", "x", 2)

MCWorlds ==
    {World(FALSE, h, e, FALSE, f, Table(6, "other")) : h, e \in BOOLEAN, f \in MCFiles}
    \cup {World(TRUE, TRUE, FALSE, s, Elf, Table(n, last)) :
            s \in BOOLEAN, n \in 0 .. 6, last \in {"nobody", "other", "absent"}}
    \cup {[World(FALSE, FALSE, FALSE, FALSE, Elf, Table(6, "other")) EXCEPT !.argc = FALSE]}
=============================================================================
