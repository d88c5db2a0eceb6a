------------------------------- MODULE Djlink -------------------------------
(***************************************************************************)
(* Any number of djlink jobs on one machine (src/djlink on Linux, with the *)
(* generating half of djstubify2.py that it ends in).                      *)
(*                                                                         *)
(* A job makes a file with mktemp and splits the debug info off its        *)
(* library: into /tmp/$D, named after -d, and the stripped library into    *)
(* the file of mktemp.  It notes a checksum of the debug file in the       *)
(* library, runs djstubify on both and removes them.  Two jobs with the    *)
(* same -d share /tmp/$D.                                                  *)
(*                                                                         *)
(* Debug info is the job it belongs to; objcopy and strip are external,    *)
(* work in one step and succeed if their input is there.                   *)
(***************************************************************************)
CONSTANTS
    Jobs,
    DebugNames,  \* what jobs may pass as -d
    NoName,      \* no -d
    Nothing,     \* no file, no checksum, no size
    DebugName,   \* [Jobs -> DebugNames \cup {NoName}]: its -d
    Stripped,    \* the jobs whose library has no debug info
    Left         \* a file that some earlier job left in /tmp

ASSUME JobsAssumption ==
    /\ DebugName \in [Jobs -> DebugNames \cup {NoName}]
    /\ NoName \notin DebugNames
    /\ Nothing \notin Jobs /\ Left \notin Jobs /\ Left # Nothing

VARIABLES
    pc,    \* where each job is
    dbg,   \* /tmp: whose debug info each name has
    tmp,   \* the jobs whose mktemp file exists
    link,  \* whose checksum each stripped library has
    size,  \* whose debug info's size djstubify has taken
    out,   \* the program each job writes
    rc     \* $RC

vars == <<pc, dbg, tmp, link, size, out, rc>>

\* Variant: one name for all.
DebugFileOfAll(j) == IF DebugName[j] = NoName THEN NoName ELSE CHOOSE n \in DebugNames : TRUE
\* DBG="/tmp/$D".
DebugFile(j) == DebugName[j]
WithDebug(j) == DebugName[j] # NoName

\* What djstubify has written: the size in the header and the debug overlay.
Program(s, l, d) == [size |-> s, link |-> l, debug |-> d]

Init ==
    /\ pc = [j \in Jobs |-> "start"]
    /\ dbg \in [DebugNames -> {Nothing, Left}]
    /\ tmp = {}
    /\ link = [j \in Jobs |-> Nothing]
    /\ size = [j \in Jobs |-> Nothing]
    /\ out = [j \in Jobs |-> Nothing]
    /\ rc = [j \in Jobs |-> 0]

Goes(j, from, to) == pc[j] = from /\ pc' = [pc EXCEPT ![j] = to]

\* -d for a library without debug info: exit 1.
Refuse(j) ==
    /\ WithDebug(j) /\ j \in Stripped
    /\ Goes(j, "start", "done")
    /\ rc' = [rc EXCEPT ![j] = 1]
    /\ UNCHANGED <<dbg, tmp, link, size, out>>

\* Variant: leaves the temporary file to strip.
BeginWithoutTmp(j) ==
    /\ WithDebug(j) => j \notin Stripped
    /\ Goes(j, "start", IF WithDebug(j) THEN "split" ELSE "stat")
    /\ UNCHANGED <<dbg, tmp, link, size, out, rc>>

\* TMP=$(mktemp), for a job with -d.
Begin(j) ==
    /\ WithDebug(j) => j \notin Stripped
    /\ Goes(j, "start", IF WithDebug(j) THEN "split" ELSE "stat")
    /\ tmp' = IF WithDebug(j) THEN tmp \cup {j} ELSE tmp
    /\ UNCHANGED <<dbg, link, size, out, rc>>

\* objcopy --only-keep-debug $SO $DBG
SplitDebug(j) ==
    /\ Goes(j, "split", "strip")
    /\ dbg' = [dbg EXCEPT ![DebugFile(j)] = j]
    /\ UNCHANGED <<tmp, link, size, out, rc>>

\* strip -o $TMP $SO fills the file that is there.
Strip(j) ==
    /\ Goes(j, "strip", "link")
    /\ UNCHANGED <<dbg, tmp, link, size, out, rc>>

\* objcopy --add-gnu-debuglink=$DBG $TMP, which fails without a debug file.
AddLink(j) ==
    /\ Goes(j, "link", "stat")
    /\ link' = [link EXCEPT ![j] = dbg[DebugFile(j)]]
    /\ UNCHANGED <<dbg, tmp, size, out, rc>>

\* djstubify, up to the sizes of the overlays.  Without a link in the library
\* $OFFS is empty, and -n takes the option that follows for its argument.
Stat(j) ==
    /\ WithDebug(j) => Nothing \notin {link[j], dbg[DebugFile(j)]}
    /\ Goes(j, "stat", "create")
    /\ size' = IF WithDebug(j) THEN [size EXCEPT ![j] = dbg[DebugFile(j)]] ELSE size
    /\ UNCHANGED <<dbg, tmp, link, out, rc>>

StatFails(j) ==
    /\ WithDebug(j) /\ Nothing \in {link[j], dbg[DebugFile(j)]}
    /\ Goes(j, "stat", "rmtmp")
    /\ rc' = [rc EXCEPT ![j] = 1]
    /\ UNCHANGED <<dbg, tmp, link, size, out>>

\* The output is created, with header and stripped library.
Create(j) ==
    /\ Goes(j, "create", "copy")
    /\ out' = [out EXCEPT ![j] = Program(size[j], link[j], Nothing)]
    /\ UNCHANGED <<dbg, tmp, link, size, rc>>

CopyDebug(j) ==
    /\ WithDebug(j) => dbg[DebugFile(j)] # Nothing
    /\ Goes(j, "copy", "rmtmp")
    /\ out' = IF WithDebug(j) THEN [out EXCEPT ![j].debug = dbg[DebugFile(j)]] ELSE out
    /\ UNCHANGED <<dbg, tmp, link, size, rc>>

\* Variant: what was written is not removed.
CopyFailsKeeps(j) ==
    /\ WithDebug(j) /\ dbg[DebugFile(j)] = Nothing
    /\ Goes(j, "copy", "rmtmp")
    /\ rc' = [rc EXCEPT ![j] = 1]
    /\ UNCHANGED <<dbg, tmp, link, size, out>>

\* copy_file fails: the output is unlinked.
CopyFails(j) ==
    /\ WithDebug(j) /\ dbg[DebugFile(j)] = Nothing
    /\ Goes(j, "copy", "rmtmp")
    /\ out' = [out EXCEPT ![j] = Nothing]
    /\ rc' = [rc EXCEPT ![j] = 1]
    /\ UNCHANGED <<dbg, tmp, link, size>>

\* Variant: nothing is removed after a failure.
RemoveTmpIfOk(j) ==
    /\ Goes(j, "rmtmp", IF WithDebug(j) /\ rc[j] = 0 THEN "test" ELSE "done")
    /\ tmp' = IF rc[j] = 0 THEN tmp \ {j} ELSE tmp
    /\ UNCHANGED <<dbg, link, size, out, rc>>

RemoveTmp(j) ==
    /\ Goes(j, "rmtmp", IF WithDebug(j) THEN "test" ELSE "done")
    /\ tmp' = tmp \ {j}
    /\ UNCHANGED <<dbg, link, size, out, rc>>

\* [ -f "$DBG" ], and then rm.
TestDebug(j) ==
    /\ Goes(j, "test", IF dbg[DebugFile(j)] = Nothing THEN "done" ELSE "rmdebug")
    /\ UNCHANGED <<dbg, tmp, link, size, out, rc>>

RemoveDebug(j) ==
    /\ Goes(j, "rmdebug", "done")
    /\ dbg' = [dbg EXCEPT ![DebugFile(j)] = Nothing]
    /\ UNCHANGED <<tmp, link, size, out, rc>>

Step(j) ==
    \/ Refuse(j) \/ Begin(j) \/ SplitDebug(j) \/ Strip(j) \/ AddLink(j)
    \/ Stat(j) \/ StatFails(j) \/ Create(j) \/ CopyDebug(j) \/ CopyFails(j)
    \/ RemoveTmp(j) \/ TestDebug(j) \/ RemoveDebug(j)

Next == \E j \in Jobs : Step(j)

Spec == Init /\ [][Next]_vars

-----------------------------------------------------------------------------
HasTmp == {"split", "strip", "link", "stat", "create", "copy", "rmtmp"}
Places == {"start", "test", "rmdebug", "done"} \cup HasTmp

\* A job has its temporary file from mktemp to rm and no longer, and only jobs
\* with -d have any business in /tmp.
TypeOK ==
    /\ pc \in [Jobs -> Places]
    /\ dbg \in [DebugNames -> Jobs \cup {Nothing, Left}]
    /\ tmp = {j \in Jobs : WithDebug(j) /\ pc[j] \in HasTmp}
    /\ link \in [Jobs -> Jobs \cup {Nothing, Left}]
    /\ size \in [Jobs -> Jobs \cup {Nothing, Left}]
    /\ \A j \in Jobs : pc[j] \in {"split", "strip", "link", "test", "rmdebug"} => WithDebug(j)
    /\ DOMAIN out = Jobs
    /\ rc \in [Jobs -> {0, 1}]

\* No other job on the machine was given the same -d.
Alone(j) == \A k \in Jobs \ {j} : DebugName[k] # DebugName[j]

\* Whatever other jobs do in the meantime, a job with a -d of its own succeeds,
\* and its program has its own debug info, the checksum of just that file in
\* the library and its size in the header.
OwnDebug ==
    \A j \in Jobs :
        (WithDebug(j) /\ Alone(j) /\ j \notin Stripped /\ pc[j] = "done") =>
            rc[j] = 0 /\ out[j] = Program(j, j, j)

\* A job that fails has written nothing, also when another one has taken its
\* debug file away between djstubify's stat and its read.
FailedLeavesNothing ==
    \A j \in Jobs : (pc[j] = "done" /\ rc[j] = 1) => out[j] = Nothing

\* When all jobs have ended, however they ended and whether or not they shared
\* a name, none of their files is left in /tmp.
NothingLeft ==
    (\A j \in Jobs : pc[j] = "done") =>
        /\ tmp = {}
        /\ \A j \in Jobs \ Stripped : WithDebug(j) => dbg[DebugName[j]] = Nothing
=============================================================================
