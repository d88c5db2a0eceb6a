----------------------------- MODULE MCDjstubify -----------------------------
(***************************************************************************)
(* Files of a few cells and the command lines that build, stubify, strip   *)
(* and take apart programs from them.                                      *)
(***************************************************************************)
EXTENDS Djstubify

MCNames == {"tmp", "coff", "dos", "host", "dbg", "old", "elf", "none", "gone", "x", "y"}

MCInitFiles ==
    [n \in MCNames |->
        CASE n = "coff" -> Payload("coff", n, 3)
          [] n \in {"dos", "elf"} -> Payload("elf", n, 2)
          [] n = "host" -> Payload("elf", n, 3)
          [] n = "dbg" -> Payload("elf", n, 1)
          [] n = "old" -> <<ExeCell(2), [what |-> "code", of |-> n, at |-> 1]>>
                            \o Payload("coff", n, 3)
          [] n = "none" -> << >>
          [] OTHER -> Missing]

Opt(o, a) == [opt |-> o, arg |-> a]
Cmd(opts, arg, stub) == [opts |-> opts, arg |-> arg, stub |-> stub]
Link(type, name) == <<Opt("-t", type), Opt("-l", name)>>
Gen(flags, links) ==
    <<Opt("-g", 0), Opt("-V", 8), Opt("-f", flags), Opt("-o", "x")>> \o links

\* One overlay many times over, with one type.
Repeat(type, name, n) == <<Opt("-t", type)>> \o [k \in 1 .. n |-> Opt("-l", name)]

\* dj64: host payload and debug info; dj32: DOS payload, host payload, debug
\* info; a program without debug info; a type given twice; an empty file among
\* the overlays; more overlays than the header has size words.
Builds ==
    {Cmd(Gen({"elf"}, Link(OT_E64, "host") \o <<Opt("-n", 2)>> \o Link(OT_D64, "dbg")), "", 2),
     Cmd(Gen({"elf", "dj32"}, Link(OT_DJ32, "dos") \o Link(OT_E64, "host")
             \o <<Opt("-n", 1)>> \o Link(OT_D32, "dbg")), "", 2),
     Cmd(Gen({"elf", "static"}, Link(OT_E32, "dos") \o Link(OT_E64, "host")), "", 3),
     Cmd(Gen({"elf"}, <<Opt("-t", OT_E32)>> \o Link(OT_E64, "host")), "", 2),
     Cmd(Gen({"elf"}, Link(OT_E64, "host") \o Link(OT_D64, "none") \o Link(OT_D64, "dbg")), "", 2),
     Cmd(Gen({}, Repeat(OT_DJ32, "dbg", 10)), "", 3)}

\* Lines that end in an error, in the order of the checks.
Wrongs ==
    {Cmd(<<Opt("-V", 9)>>, "x", 2), Cmd(<<Opt("-V", 7), Opt("-V", 5)>>, "x", 2),
     Cmd(<<Opt("-l", "dbg")>>, "x", 2), Cmd(<<Opt("-g", 0)>>, "", 2), Cmd(<< >>, "", 2),
     Cmd(<<Opt("-o", "y")>>, "none", 2),
     Cmd(Gen({"elf"}, Link(OT_E64, "gone")), "", 2),
     Cmd(Gen({}, Link(1, "dos") \o Link(1, "dos") \o Link(1, "dos")
                    \o Link(1, "dos") \o Link(1, "dos")), "", 2)}

Edits ==
    {Cmd(o, a, s) : o \in {<< >>, <<Opt("-o", "y")>>, <<Opt("-s", 0)>>, <<Opt("-r", 0)>>,
                           <<Opt("-s", 0), Opt("-o", "y")>>},
                    a \in {"x", "y", "coff", "old", "elf"}, s \in {2, 4}}
        \ {c \in {Cmd(o, "y", s) : o \in {<<Opt("-o", "y")>>, <<Opt("-s", 0), Opt("-o", "y")>>},
                                   s \in {2, 4}} : TRUE}

Looks == {Cmd(<<Opt("-i", 0)>>, a, 2) : a \in {"x", "coff"}}

MCCommands == Builds \cup Wrongs \cup Edits \cup Looks
MCFewCommands ==
    Builds \cup {c \in Edits : c.arg \in {"x", "coff"}} \cup Looks

\* README.md's way of making a program, without -V, and looking at it.
MCDefaultCommands ==
    {Cmd(<<Opt("-g", 0), Opt("-f", {"elf"}), Opt("-o", "x")>> \o Link(OT_E64, "host"), "", 2)}
        \cup Looks
\* A plain ELF file, stubified and looked at.
MCElfCommands ==
    {Cmd(<< >>, "elf", 2), Cmd(<<Opt("-i", 0)>>, "elf", 2)}
\* The exe header of a PE program has no stub version.
MCPEFiles ==
    [MCInitFiles EXCEPT !["old"] =
        <<MzCell(Header([s \in Slots |-> 0], [s \in Slots |-> 0], {}, 0, 2)),
          [what |-> "code", of |-> "old", at |-> 1]>> \o Payload("pe", "old", 3)]
MCPECommands == {Cmd(<< >>, "old", 2)}
=============================================================================
