---------------------------- MODULE DjlinkProofs ----------------------------
(***************************************************************************)
(* Theorems about Djlink for any number of jobs and any sharing of names.  *)
(***************************************************************************)
EXTENDS Djlink, TLAPS

USE JobsAssumption

\* Where a job's debug file has been made and not yet been removed.
HasDebugFile == {"strip", "link", "stat", "create", "copy", "rmtmp", "test", "rmdebug"}
Written == {"rmtmp", "test", "rmdebug", "done"}

\* What job j has achieved when nobody else uses its name.
OwnInv(j) ==
    /\ pc[j] \in HasDebugFile => dbg[DebugName[j]] = j
    /\ pc[j] \in {"stat", "create", "copy"} => link[j] = j
    /\ pc[j] \in {"create", "copy"} => size[j] = j
    /\ pc[j] = "copy" => out[j] = Program(j, j, Nothing)
    /\ pc[j] \in Written => out[j] = Program(j, j, j)
    /\ rc[j] = 0

\* A job has failed only behind djstubify, and has then no output.
FailInv(j) ==
    /\ pc[j] \in Places \ ({"copy"} \cup Written) => out[j] = Nothing
    /\ rc[j] = 1 => out[j] = Nothing /\ pc[j] \in Written

\* A debug file is on its way to be removed by a job that will come to it, and
\* what was there before is gone once a job has split its library.
LeftInv ==
    /\ \A n \in DebugNames : dbg[n] \in Jobs =>
         \E k \in Jobs : DebugName[k] = n /\ pc[k] \in HasDebugFile
    /\ \A j \in Jobs \ Stripped :
         (WithDebug(j) /\ pc[j] \notin {"start", "split"}) => dbg[DebugName[j]] # Left

JobInv ==
    /\ TypeOK
    /\ \A j \in Jobs : FailInv(j)
    /\ \A j \in Jobs : (WithDebug(j) /\ Alone(j) /\ j \notin Stripped) => OwnInv(j)
    /\ LeftInv

-----------------------------------------------------------------------------
LEMMA JobInit == Init => JobInv
<1> SUFFICES ASSUME Init PROVE JobInv
  OBVIOUS
<1>1. TypeOK
  BY DEF Init, TypeOK, Places, HasTmp
<1>2. ASSUME NEW j \in Jobs
      PROVE  FailInv(j) /\ OwnInv(j)
  <2>1. pc[j] = "start" /\ rc[j] = 0 /\ out[j] = Nothing
    BY DEF Init
  <2> QED BY <2>1 DEF FailInv, OwnInv, HasDebugFile, HasTmp, Written
<1>3. LeftInv
  BY DEF Init, LeftInv
<1> QED BY <1>1, <1>2, <1>3 DEF JobInv

\* What a step of job k does not touch.
LEMMA OthersKept ==
    ASSUME TypeOK, NEW k \in Jobs, Step(k), NEW j \in Jobs, j # k
    PROVE  /\ pc'[j] = pc[j] /\ link'[j] = link[j] /\ size'[j] = size[j]
           /\ out'[j] = out[j] /\ rc'[j] = rc[j]
           /\ (WithDebug(j) /\ DebugName[j] # DebugName[k]) =>
                dbg'[DebugName[j]] = dbg[DebugName[j]]
<1>1. pc'[j] = pc[j]
  BY DEF TypeOK, Step, Goes, Refuse, Begin, SplitDebug, Strip, AddLink, Stat, StatFails,
       Create, CopyDebug, CopyFails, RemoveTmp, TestDebug, RemoveDebug
<1>2. link'[j] = link[j] /\ size'[j] = size[j]
  BY DEF TypeOK, Step, Refuse, Begin, SplitDebug, Strip, AddLink, Stat, StatFails,
       Create, CopyDebug, CopyFails, RemoveTmp, TestDebug, RemoveDebug
<1>3. out'[j] = out[j] /\ rc'[j] = rc[j]
  BY DEF TypeOK, Step, Refuse, Begin, SplitDebug, Strip, AddLink, Stat, StatFails,
       Create, CopyDebug, CopyFails, RemoveTmp, TestDebug, RemoveDebug
<1>4. ASSUME WithDebug(j), DebugName[j] # DebugName[k]
      PROVE  dbg'[DebugName[j]] = dbg[DebugName[j]]
  <2>1. DebugName[j] \in DebugNames
    BY <1>4 DEF WithDebug
  <2> QED BY <1>4, <2>1
    DEF TypeOK, DebugFile, Step, Refuse, Begin, SplitDebug, Strip, AddLink, Stat, StatFails,
        Create, CopyDebug, CopyFails, RemoveTmp, TestDebug, RemoveDebug
<1> QED BY <1>1, <1>2, <1>3, <1>4

LEMMA TypeStep ==
    ASSUME TypeOK, NEW k \in Jobs, Step(k)
    PROVE  TypeOK'
<1> USE DEF TypeOK, Goes, DebugFile
<1>1. /\ pc' \in [Jobs -> Places] /\ DOMAIN out' = Jobs
      /\ rc' \in [Jobs -> {0, 1}]
  BY DEF Step, Refuse, Begin, SplitDebug, Strip, AddLink, Stat, StatFails,
       Create, CopyDebug, CopyFails, RemoveTmp, TestDebug, RemoveDebug, Places, HasTmp
<1>2. dbg' \in [DebugNames -> Jobs \cup {Nothing, Left}]
  BY DEF Step, Refuse, Begin, SplitDebug, Strip, AddLink, Stat, StatFails,
       Create, CopyDebug, CopyFails, RemoveTmp, TestDebug, RemoveDebug
<1>3. WithDebug(k) => dbg[DebugFile(k)] \in Jobs \cup {Nothing, Left}
  BY DEF WithDebug
<1>4. link' \in [Jobs -> Jobs \cup {Nothing, Left}] /\ size' \in [Jobs -> Jobs \cup {Nothing, Left}]
  BY <1>3 DEF Step, Refuse, Begin, SplitDebug, Strip, AddLink, Stat, StatFails,
       Create, CopyDebug, CopyFails, RemoveTmp, TestDebug, RemoveDebug
<1>5. \A j \in Jobs : pc'[j] \in {"split", "strip", "link", "test", "rmdebug"} => WithDebug(j)
  BY DEF Step, Refuse, Begin, SplitDebug, Strip, AddLink, Stat, StatFails,
       Create, CopyDebug, CopyFails, RemoveTmp, TestDebug, RemoveDebug
<1>6. tmp' = {j \in Jobs : WithDebug(j) /\ pc'[j] \in HasTmp}
  <2>1. \A j \in Jobs \ {k} : j \in tmp' <=> j \in tmp
    BY DEF Step, Refuse, Begin, SplitDebug, Strip, AddLink, Stat, StatFails,
       Create, CopyDebug, CopyFails, RemoveTmp, TestDebug, RemoveDebug
  <2>2. k \in tmp' <=> WithDebug(k) /\ pc'[k] \in HasTmp
    BY DEF HasTmp, Step, Refuse, Begin, SplitDebug, Strip, AddLink, Stat, StatFails,
       Create, CopyDebug, CopyFails, RemoveTmp, TestDebug, RemoveDebug
  <2>3. tmp' \subseteq Jobs
    BY DEF Step, Refuse, Begin, SplitDebug, Strip, AddLink, Stat, StatFails,
       Create, CopyDebug, CopyFails, RemoveTmp, TestDebug, RemoveDebug
  <2>4. \A j \in Jobs \ {k} : pc'[j] = pc[j]
    BY OthersKept
  <2> QED BY <2>1, <2>2, <2>3, <2>4
<1> QED BY <1>1, <1>2, <1>4, <1>5, <1>6 DEF WithDebug

\* The job itself.
LEMMA OwnStep ==
    ASSUME TypeOK, NEW k \in Jobs, Step(k), WithDebug(k), k \notin Stripped, OwnInv(k)
    PROVE  OwnInv(k)'
<1>0. DebugName[k] \in DebugNames
  BY DEF WithDebug
<1> USE <1>0 DEF TypeOK, Goes, DebugFile, OwnInv, HasDebugFile, HasTmp, Written
<1>1. CASE Refuse(k) \/ Begin(k) \/ SplitDebug(k) \/ Strip(k)
  BY <1>1 DEF Refuse, Begin, SplitDebug, Strip
<1>2. CASE AddLink(k) \/ Stat(k) \/ StatFails(k)
  BY <1>2 DEF AddLink, Stat, StatFails
<1>3. CASE Create(k)
  BY <1>3 DEF Create
<1>4. CASE CopyDebug(k) \/ CopyFails(k)
  BY <1>4 DEF CopyDebug, CopyFails, Program
<1>5. CASE RemoveTmp(k) \/ TestDebug(k) \/ RemoveDebug(k)
  BY <1>5 DEF RemoveTmp, TestDebug, RemoveDebug
<1> QED BY <1>1, <1>2, <1>3, <1>4, <1>5 DEF Step

LEMMA FailStep ==
    ASSUME TypeOK, NEW k \in Jobs, Step(k), FailInv(k)
    PROVE  FailInv(k)'
<1> USE DEF TypeOK, Goes, FailInv, HasTmp, Written, Places
<1>1. CASE Refuse(k) \/ Begin(k) \/ SplitDebug(k) \/ Strip(k)
  BY <1>1 DEF Refuse, Begin, SplitDebug, Strip
<1>2. CASE AddLink(k) \/ Stat(k) \/ StatFails(k)
  BY <1>2 DEF AddLink, Stat, StatFails
<1>3. CASE Create(k)
  BY <1>3 DEF Create
<1>4. CASE CopyDebug(k) \/ CopyFails(k)
  BY <1>4 DEF CopyDebug, CopyFails
<1>5. CASE RemoveTmp(k) \/ TestDebug(k) \/ RemoveDebug(k)
  BY <1>5 DEF RemoveTmp, TestDebug, RemoveDebug
<1> QED BY <1>1, <1>2, <1>3, <1>4, <1>5 DEF Step

\* /tmp, whoever takes the step.
LEMMA LeftStep ==
    ASSUME TypeOK, NEW k \in Jobs, Step(k), LeftInv
    PROVE  LeftInv'
<1>1. \A j \in Jobs \ {k} : pc'[j] = pc[j]
  BY OthersKept
<1>2. ASSUME NEW n \in DebugNames, dbg'[n] \in Jobs
      PROVE  \E j \in Jobs : DebugName[j] = n /\ pc'[j] \in HasDebugFile
  <2>1. CASE SplitDebug(k) /\ DebugName[k] = n
    BY <2>1 DEF SplitDebug, Goes, TypeOK, HasDebugFile
  <2>2. CASE ~(SplitDebug(k) /\ DebugName[k] = n)
    <3>1. dbg'[n] = dbg[n]
      BY <1>2, <2>2
      DEF TypeOK, DebugFile, Step, Refuse, Begin, SplitDebug, Strip, AddLink, Stat, StatFails,
          Create, CopyDebug, CopyFails, RemoveTmp, TestDebug, RemoveDebug
    <3>2. PICK j \in Jobs : DebugName[j] = n /\ pc[j] \in HasDebugFile
      BY <1>2, <3>1 DEF LeftInv
    <3>3. CASE j # k
      BY <1>1, <3>2, <3>3
    <3>4. CASE j = k
      <4>1. WithDebug(k) /\ dbg[DebugFile(k)] # Nothing /\ dbg'[DebugFile(k)] # Nothing
        BY <1>2, <3>1, <3>2, <3>4 DEF WithDebug, DebugFile
      <4>2. pc'[k] \in HasDebugFile
        BY <3>2, <3>4, <4>1
        DEF TypeOK, DebugFile, Goes, HasDebugFile, HasTmp, Step, Refuse, Begin, SplitDebug, Strip, AddLink,
            Stat, StatFails, Create, CopyDebug, CopyFails, RemoveTmp, TestDebug, RemoveDebug
      <4> QED BY <3>2, <3>4, <4>2
    <3> QED BY <3>3, <3>4
  <2> QED BY <2>1, <2>2
<1>3. ASSUME NEW j \in Jobs \ Stripped, WithDebug(j), pc'[j] \notin {"start", "split"}
      PROVE  dbg'[DebugName[j]] # Left
  <2>0. DebugName[j] \in DebugNames
    BY <1>3 DEF WithDebug
  <2>1. CASE SplitDebug(k) /\ DebugName[k] = DebugName[j]
    BY <2>0, <2>1 DEF SplitDebug, DebugFile, TypeOK
  <2>2. CASE ~(SplitDebug(k) /\ DebugName[k] = DebugName[j])
    <3>1. dbg'[DebugName[j]] \in {dbg[DebugName[j]], Nothing}
      BY <2>0, <2>2
      DEF TypeOK, DebugFile, Step, Refuse, Begin, SplitDebug, Strip, AddLink, Stat, StatFails,
          Create, CopyDebug, CopyFails, RemoveTmp, TestDebug, RemoveDebug
    <3>2. pc[j] \notin {"start", "split"}
      BY <1>1, <1>3, <2>2
      DEF TypeOK, Goes, Step, Refuse, Begin, SplitDebug, Strip, AddLink, Stat, StatFails,
          Create, CopyDebug, CopyFails, RemoveTmp, TestDebug, RemoveDebug
    <3>3. dbg[DebugName[j]] # Left
      BY <1>3, <3>2 DEF LeftInv
    <3> QED BY <3>1, <3>3
  <2> QED BY <2>1, <2>2
<1> QED BY <1>2, <1>3 DEF LeftInv, WithDebug

-----------------------------------------------------------------------------
LEMMA JobStep == JobInv /\ [Next]_vars => JobInv'
<1> SUFFICES ASSUME JobInv, [Next]_vars PROVE JobInv'
  OBVIOUS
<1>1. ASSUME NEW k \in Jobs, Step(k)
      PROVE  JobInv'
  <2>1. TypeOK' /\ LeftInv'
    BY <1>1, TypeStep, LeftStep DEF JobInv
  <2>2. ASSUME NEW j \in Jobs
        PROVE  FailInv(j)'
    <3>1. CASE j = k
      BY <1>1, <3>1, FailStep DEF JobInv
    <3>2. CASE j # k
      BY <1>1, <3>2, OthersKept DEF JobInv, FailInv
    <3> QED BY <3>1, <3>2
  <2>3. ASSUME NEW j \in Jobs, WithDebug(j), Alone(j), j \notin Stripped
        PROVE  OwnInv(j)'
    <3>1. CASE j = k
      BY <1>1, <2>3, <3>1, OwnStep DEF JobInv
    <3>2. CASE j # k
      BY <1>1, <2>3, <3>2, OthersKept DEF JobInv, OwnInv, Alone
    <3> QED BY <3>1, <3>2
  <2> QED BY <2>1, <2>2, <2>3 DEF JobInv, WithDebug, Alone
<1>2. CASE UNCHANGED vars
  BY <1>2 DEF vars, JobInv, TypeOK, FailInv, OwnInv, LeftInv, WithDebug, Alone
<1> QED BY <1>1, <1>2 DEF Next

\* What the theorems below rest on.
LEMMA JobInductive == Spec => []JobInv
BY JobInit, JobStep, PTL DEF Spec

\* Every job is where the script can be, with the debug file it may need, and
\* the files of mktemp are exactly those of the jobs with -d that are between
\* their mktemp and their rm, before objcopy and strip have run as well.
THEOREM JobTypeCorrect == Spec => []TypeOK
<1>1. JobInv => TypeOK
  BY DEF JobInv
<1> QED BY <1>1, JobInductive, PTL

\* However many jobs run, one with a -d of its own gets its own debug info.
THEOREM AloneGetsOwnDebug == Spec => []OwnDebug
<1>1. JobInv => OwnDebug
  BY DEF JobInv, OwnInv, OwnDebug, Written
<1> QED BY <1>1, JobInductive, PTL

\* However many jobs share a name, one that fails leaves no program behind.
THEOREM FailedIsUndone == Spec => []FailedLeavesNothing
<1>1. JobInv => FailedLeavesNothing
  BY DEF JobInv, FailInv, FailedLeavesNothing
<1> QED BY <1>1, JobInductive, PTL

\* However many jobs share a name, the last one to end leaves /tmp clean.
THEOREM TmpIsClean == Spec => []NothingLeft
<1>1. JobInv => NothingLeft
  <2> SUFFICES ASSUME JobInv, \A j \in Jobs : pc[j] = "done"
               PROVE  /\ tmp = {}
                      /\ \A j \in Jobs \ Stripped : WithDebug(j) => dbg[DebugName[j]] = Nothing
    BY DEF NothingLeft
  <2>1. tmp = {}
    BY DEF JobInv, TypeOK, HasTmp
  <2>2. ASSUME NEW j \in Jobs \ Stripped, WithDebug(j)
        PROVE  dbg[DebugName[j]] = Nothing
    <3>1. DebugName[j] \in DebugNames
      BY <2>2 DEF WithDebug
    <3>2. dbg[DebugName[j]] \notin Jobs
      BY <3>1 DEF JobInv, LeftInv, HasDebugFile, HasTmp
    <3>3. dbg[DebugName[j]] # Left
      BY <2>2 DEF JobInv, LeftInv
    <3> QED BY <3>1, <3>2, <3>3 DEF JobInv, TypeOK
  <2> QED BY <2>1, <2>2
<1> QED BY <1>1, JobInductive, PTL
=============================================================================
