-------------------------- MODULE DetectSpool_proofs --------------------------
(***************************************************************************)
(* What a spool of detect data promises while its two processes stop, are  *)
(* killed, dumped and started again.  Types, and what a dump hands over,   *)
(* do not depend on the names; what lies before the reader does: the first *)
(* name tells the oldest file only while the names are in order (Ordered), *)
(* no start has emptied a file and no dump has left a gap (Astray).        *)
(***************************************************************************)
EXTENDS DetectSpool, SpoolRing_proofs

DetectTypes == DetectTypeOK /\ AtEof

(* What the two processes leave alone while neither starts nor stops.      *)
others == <<agentVars, saved, controlVars, countVars, savedIn, closed, inHand, cut>>
SteadyStep == (WriterStep \/ ReaderStep) /\ UNCHANGED others

(* A step of the dump after which it goes on, or is run again.             *)
DumpGoesOn ==
    dumping /\ dumping' /\ (DumpOpens \/ DumpRecord \/ DumpUnlinks \/ DumpSegv)

(* A file was emptied, or a dump was cut short and left gaps in the names. *)
Astray == emptied \/ cut

(* The steps that lead nowhere astray.                                     *)
DetectSteps ==
    \/ SteadyStep
    \/ Ask \/ LockAndWrite \/ GiveUp \/ PcifStops \/ PcifStarts
    \/ FrdRestarts \/ FrdStops \/ FrdIsKilled
    \/ DumpBegins \/ DumpGoesOn \/ DumpEnds
RoomToOpen == OpenNextForWrite => ~Exists(widx)

------------------------------------------------------------------------------
(* Types.                                                                  *)

LEMMA UsedIsBounded ==
    /\ MaxIndex \in Nat /\ MaxIndex >= 2 /\ Names = 1..MaxIndex
    /\ UsedNames \in SUBSET Names /\ UsedNames \in SUBSET (0..MaxIndex)
BY SpoolAssumption DEF Names, UsedNames

(* The search for the first name and the search for the last find one.     *)
LEMMA HighestFound ==
    ASSUME UsedNames # {}
    PROVE  HighestName \in UsedNames /\ \A j \in UsedNames : j <= HighestName
<1>1. \E i \in UsedNames : \A j \in UsedNames : j <= i
    BY UsedIsBounded, GreatestOf
<1> QED BY <1>1 DEF HighestName

LEMMA LowestFound ==
    ASSUME UsedNames # {}
    PROVE  LowestName \in UsedNames /\ \A j \in UsedNames : LowestName <= j
<1>0. UsedNames \in SUBSET Nat
    BY UsedIsBounded
<1>1. \E i \in UsedNames : \A j \in UsedNames : i <= j
    BY <1>0, LeastOf
<1> QED BY <1>1 DEF LowestName

LEMMA StartNames ==
    /\ LowestName \in Names
    /\ FirstNameToWrite \in Names
    /\ UsedNames = {} => LowestName = 1 /\ FirstNameToWrite = 1
    /\ UsedNames # {} => FirstNameToWrite = NextName(HighestName)
<1>1. CASE UsedNames = {}
    <2>1. LowestName = 1 /\ HighestName = 0
        BY <1>1 DEF LowestName, HighestName
    <2> QED BY <1>1, <2>1, UsedIsBounded DEF FirstNameToWrite
<1>2. CASE UsedNames # {}
    <2>1. LowestName \in Names /\ HighestName \in Names
        BY <1>2, LowestFound, HighestFound, UsedIsBounded
    <2>2. FirstNameToWrite = NextName(HighestName)
        BY DEF FirstNameToWrite, NextName
    <2> QED BY <1>2, <2>1, <2>2, NextNameFacts
<1> QED BY <1>1, <1>2

LEMMA DetectTypesInit == DetectInit => DetectTypes
<1> SUFFICES ASSUME DetectInit PROVE DetectTypes
    OBVIOUS
<1>1. 1 \in Names /\ MaxIndex \in Nat
    BY SpoolAssumption DEF Names
<1>2. base \in Seq(Nat) /\ size \in Seq(Nat) /\ Len(size) = Len(base) /\ out \in Seq(Nat)
    BY DEF DetectInit
<1>3. dir \in [Names -> Nat] /\ \A i \in Names : dir[i] \in FileIds \cup {NoFile}
    BY DEF DetectInit, NoFile
<1>4. /\ nrec = 0 /\ wpc = "down" /\ widx = 1 /\ wfp = NoFile /\ wleft = 0
      /\ rpc = "down" /\ ridx = 1 /\ nidx = 1 /\ rfp = NoFile /\ rpos = 0
      /\ reof \in BOOLEAN
    BY DEF DetectInit
<1>5. TypeOK
    BY <1>1, <1>2, <1>3, <1>4, SpoolAssumption DEF TypeOK, WriterPcs, ReaderPcs
<1>6. /\ asked = 0 /\ waiting = 0 /\ saved = NoPosition /\ savedIn = NoFile
      /\ dumping = FALSE /\ dname = 0 /\ dpos = 0 /\ segvs = 0 /\ gone = FALSE
      /\ wstops = 0 /\ rstops = 0 /\ kills = 0 /\ dumps = 0 /\ closed = 0 /\ inHand = {}
      /\ cut = FALSE /\ emptied = FALSE
    BY DEF DetectInit
<1>7. /\ 0 \in 0..MaxRec /\ 0 \in 0..MaxThreads /\ 0 \in 0..MaxStarts
      /\ 0 \in 0..MaxKills /\ 0 \in 0..MaxDumps /\ 0 \in 0..(MaxCheckCnt + 1)
    BY DetectAssumption, SpoolAssumption
<1> QED BY <1>4, <1>5, <1>6, <1>7 DEF DetectTypes, DetectTypeOK, AtEof

LEMMA BlockTypes ==
    ASSUME TypeOK, NEW f \in FileIds, NEW p \in Nat
    PROVE  base[f] * Chunks + p \in Nat
<1>1. base[f] \in Nat /\ Chunks \in Nat
    BY SpoolAssumption DEF TypeOK, FileIds
<1>2. base[f] * Chunks \in Nat
    BY <1>1
<1> QED BY <1>2

(* No file is forgotten, and the numbers of files go up.                   *)
LEMMA FilesStay ==
    ASSUME SpoolTypes, [Next]_vars
    PROVE  FileIds \subseteq FileIds'
<1>0. base \in Seq(Nat)
    BY DEF SpoolTypes, TypeOK
<1>1. CASE OpenNextForWrite
    <2>1. \/ base' = [base EXCEPT ![dir[widx]] = nrec]
          \/ base' = Append(base, nrec)
        BY <1>1 DEF OpenNextForWrite, OpenForWrite
    <2>2. Len(base') \in {Len(base), Len(base) + 1} /\ Len(base) \in Nat
        BY <1>0, <2>1
    <2> QED BY <2>2 DEF FileIds
<1>2. CASE base' = base
    BY <1>2 DEF FileIds
<1> QED BY <1>1, <1>2
        DEF Next, WriterStep, ReaderStep, Receive, WriteChunk, NextNameFree, ReadRecord,
            ReadPart, ReadNothing, CheckNext, NextNameExists, Drain, UnlinkRead,
            OpenNextForRead, vars, dirVars

(* What the counters and the variables of the dump hold.                   *)
LEMMA DetectFacts ==
    ASSUME DetectTypes
    PROVE  /\ TypeOK /\ AtEof /\ SpoolTypes
           /\ asked \in 0..MaxRec /\ waiting \in 0..MaxThreads
           /\ saved \in Nat \cup {NoPosition} /\ savedIn \in FileIds \cup {NoFile}
           /\ dumping \in BOOLEAN /\ gone \in BOOLEAN
           /\ dumping => wpc = "down" /\ rpc = "down" /\ segvs <= MaxCheckCnt
           /\ dname \in Names \cup {0} /\ dpos \in Nat /\ segvs \in 0..(MaxCheckCnt + 1)
           /\ dname # 0 => dumping /\ dname \in Names /\ Exists(dname)
           /\ wstops \in 0..MaxStarts /\ rstops \in 0..MaxStarts
           /\ kills \in 0..MaxKills /\ dumps \in 0..MaxDumps
           /\ closed \in Nat /\ inHand \subseteq Nat
           /\ cut \in BOOLEAN /\ emptied \in BOOLEAN
           /\ MaxRec \in Nat /\ MaxThreads \in Nat /\ MaxStarts \in Nat /\ MaxKills \in Nat
           /\ MaxDumps \in Nat /\ MaxCheckCnt \in Nat
BY DetectAssumption, SpoolAssumption DEF DetectTypes, DetectTypeOK, SpoolTypes

(* The file that the dump is in.                                           *)
LEMMA DumpedFile ==
    ASSUME DetectTypes, DumpInFile
    PROVE  /\ dname \in Names /\ Exists(dname) /\ dir[dname] \in FileIds
           /\ size[dir[dname]] \in Nat /\ base[dir[dname]] \in Nat
<1>1. TypeOK /\ dname \in Names /\ Exists(dname)
    BY DetectFacts DEF DumpInFile
<1>2. dir[dname] \in FileIds
    BY <1>1 DEF TypeOK, Exists
<1>3. base \in Seq(Nat) /\ size \in Seq(Nat) /\ Len(size) = Len(base)
    BY <1>1 DEF TypeOK
<1> QED BY <1>1, <1>2, <1>3 DEF FileIds

(* A steady step changes none of the variables that a dump or a stop does. *)
LEMMA SteadySteps ==
    ASSUME PcifWrites \/ FrdReads
    PROVE  SteadyStep /\ emptied' \in {emptied, emptied \/ (wpc = "open" /\ Exists(widx))}
<1>1. CASE PcifWrites
    BY <1>1, Zenon DEF PcifWrites, SteadyStep, others, agentVars, controlVars, dumpVars, countVars
<1>2. CASE FrdReads
    BY <1>2, Zenon DEF FrdReads, SteadyStep, others, historyVars
<1> QED BY <1>1, <1>2

LEMMA DetectTypesStep == DetectTypes /\ [DetectNext]_detectVars => DetectTypes'
<1> SUFFICES ASSUME DetectTypes, [DetectNext]_detectVars PROVE DetectTypes'
    OBVIOUS
<1>0. /\ TypeOK /\ AtEof /\ SpoolTypes
      /\ asked \in 0..MaxRec /\ waiting \in 0..MaxThreads
      /\ saved \in Nat \cup {NoPosition} /\ savedIn \in FileIds \cup {NoFile}
      /\ dumping \in BOOLEAN /\ gone \in BOOLEAN
      /\ dumping => wpc = "down" /\ rpc = "down" /\ segvs <= MaxCheckCnt
      /\ dname \in Names \cup {0} /\ dpos \in Nat /\ segvs \in 0..(MaxCheckCnt + 1)
      /\ dname # 0 => dumping /\ dname \in Names /\ Exists(dname)
      /\ wstops \in 0..MaxStarts /\ rstops \in 0..MaxStarts
      /\ kills \in 0..MaxKills /\ dumps \in 0..MaxDumps
      /\ closed \in Nat /\ inHand \subseteq Nat
      /\ cut \in BOOLEAN /\ emptied \in BOOLEAN
      /\ MaxRec \in Nat /\ MaxThreads \in Nat /\ MaxStarts \in Nat /\ MaxKills \in Nat
      /\ MaxDumps \in Nat /\ MaxCheckCnt \in Nat
    BY DetectFacts
<1>1. CASE PcifWrites \/ FrdReads
    <2>0. SteadyStep /\ emptied' \in BOOLEAN
        BY <1>0, <1>1, SteadySteps
    <2>1. Next /\ UNCHANGED others
        BY <2>0 DEF SteadyStep, Next
    <2>2. TypeOK' /\ AtEof' /\ FileIds \subseteq FileIds'
        BY <1>0, <2>1, TypeStep, AtEofStep, FilesStay
    <2>3. ~dumping
        BY <1>0, <2>0 DEF SteadyStep, WriterStep, ReaderStep, WriteChunk, NextNameFree,
                          OpenNextForWrite, ReadRecord, ReadPart, ReadNothing, CheckNext,
                          NextNameExists, Drain, UnlinkRead, OpenNextForRead
    <2> QED BY <1>0, <2>0, <2>1, <2>2, <2>3
            DEF DetectTypes, DetectTypeOK, others, agentVars, controlVars, dumpVars, countVars
<1>2. CASE LockAndWrite
    <2>1. Next /\ waiting' \in 0..MaxThreads /\ ~dumping
        BY <1>0, <1>2 DEF LockAndWrite, Next, Receive
    <2>2. TypeOK' /\ AtEof' /\ FileIds \subseteq FileIds'
        BY <1>0, <2>1, TypeStep, AtEofStep, FilesStay
    <2> QED BY <1>0, <1>2, <2>1, <2>2
            DEF LockAndWrite, DetectTypes, DetectTypeOK, controlVars, dumpVars, countVars,
                historyVars
<1>3. CASE Ask \/ GiveUp
    <2>1. asked' \in 0..MaxRec /\ waiting' \in 0..MaxThreads
        <3>1. CASE Ask
            BY <1>0, <3>1 DEF Ask
        <3>2. CASE GiveUp
            BY <1>0, <3>2 DEF GiveUp
        <3> QED BY <1>3, <3>1, <3>2
    <2>2. UNCHANGED <<vars, saved, controlVars, countVars, historyVars>>
        BY <1>3 DEF Ask, GiveUp
    <2> QED BY <1>0, <2>1, <2>2
            DEF DetectTypes, DetectTypeOK, TypeOK, AtEof, FileIds, Exists, vars, dirVars,
                writerVars, readerVars, controlVars, dumpVars, countVars, historyVars
<1>4. CASE PcifStops
    <2>1. wstops' \in 0..MaxStarts /\ waiting' \in 0..MaxThreads /\ wleft' \in 0..Chunks
        BY <1>0, <1>4, SpoolAssumption DEF PcifStops
    <2> QED BY <1>0, <1>4, <2>1
            DEF PcifStops, DetectTypes, DetectTypeOK, TypeOK, AtEof, FileIds, Exists, WriterPcs,
                dirVars, readerVars, controlVars, dumpVars, historyVars
<1>5. CASE PcifStarts
    BY <1>0, <1>5, StartNames
       DEF PcifStarts, DetectTypes, DetectTypeOK, TypeOK, AtEof, FileIds, Exists, WriterPcs,
           dirVars, readerVars, agentVars, controlVars, dumpVars, countVars, historyVars
<1>6. CASE FrdStarts
    <2>1. ridx' \in Names /\ nidx' \in Names
        BY <1>6, StartNames, NextNameFacts DEF FrdStarts
    <2> QED BY <1>0, <1>6, <2>1
            DEF FrdStarts, DetectTypes, DetectTypeOK, TypeOK, AtEof, FileIds, Exists, ReaderPcs,
                dirVars, writerVars, agentVars, controlVars, dumpVars, countVars, historyVars
<1>7. CASE OpenAtPosition
    <2>1. rfp' \in FileIds /\ rfp' # NoFile /\ rpos' \in Nat /\ ~dumping
        BY <1>0, <1>7 DEF OpenAtPosition, Exists, TypeOK
    <2> QED BY <1>0, <1>7, <2>1
            DEF OpenAtPosition, DetectTypes, DetectTypeOK, TypeOK, AtEof, FileIds, Exists,
                ReaderPcs, dirVars, writerVars, agentVars, controlVars, dumpVars, countVars,
                historyVars
<1>8. CASE FirstFileMissing
    BY <1>0, <1>8
       DEF FirstFileMissing, DetectTypes, DetectTypeOK, TypeOK, AtEof, FileIds, Exists,
           ReaderPcs, dirVars, writerVars, agentVars, controlVars, dumpVars, countVars,
           historyVars
<1>9. CASE FrdStops \/ FrdIsKilled
    <2>1. /\ rpc' = "down" /\ rfp' = NoFile /\ rpc # "down"
          /\ UNCHANGED <<dirVars, writerVars, ridx, nidx, rpos, reof, out, agentVars,
                         dumpVars, wstops, dumps, cut, emptied>>
        BY <1>9 DEF FrdStops, FrdIsKilled, FrdEnds
    <2>2. rstops' \in 0..MaxStarts /\ kills' \in 0..MaxKills /\ gone' \in BOOLEAN
        BY <1>0, <1>9 DEF FrdStops, FrdIsKilled
    <2>3. /\ saved' \in Nat \cup {NoPosition} /\ savedIn' \in FileIds \cup {NoFile}
          /\ closed' \in Nat /\ inHand' \subseteq Nat
        <3>1. CASE SavePosition
            BY <1>0, <3>1 DEF SavePosition, TypeOK
        <3>2. CASE SavePositionBehindRecord
            <4>1. rfp \in FileIds /\ rpos \in Nat /\ Chunks \in Nat
                BY <1>0, <3>2, SpoolAssumption DEF SavePositionBehindRecord, TypeOK
            <4>2. base[rfp] * Chunks + rpos \in Nat
                BY <1>0, <4>1, BlockTypes
            <4>3. BlockAt(rpos) \in Nat /\ rpos + Chunks \in Nat
                BY <4>1, <4>2 DEF BlockAt
            <4> QED BY <1>0, <3>2, <4>1, <4>3 DEF SavePositionBehindRecord
        <3>3. CASE SaveNothing
            BY <1>0, <3>3 DEF SaveNothing
        <3>4. CASE UNCHANGED <<saved, savedIn, closed, inHand>>
            BY <1>0, <3>4
        <3> QED BY <1>9, <3>1, <3>2, <3>3, <3>4 DEF FrdStops, FrdIsKilled
    <2> QED BY <1>0, <2>1, <2>2, <2>3
            DEF DetectTypes, DetectTypeOK, TypeOK, AtEof, FileIds, Exists, ReaderPcs, dirVars,
                writerVars, agentVars, dumpVars
<1>10. CASE DumpBegins
    <2>1. dumps' \in 0..MaxDumps /\ segvs' \in 0..(MaxCheckCnt + 1) /\ segvs' <= MaxCheckCnt
        BY <1>0, <1>10 DEF DumpBegins
    <2> QED BY <1>0, <1>10, <2>1
            DEF DumpBegins, DetectTypes, DetectTypeOK, TypeOK, AtEof, FileIds, Exists, vars,
                dirVars, writerVars, readerVars, agentVars, historyVars
<1>11. CASE DumpOpens
    <2>1. /\ dname' \in Names /\ Exists(dname') /\ dpos' = 0 /\ dumping
          /\ UNCHANGED <<vars, agentVars, saved, dumping, segvs, gone, countVars, historyVars>>
        BY <1>11 DEF DumpOpens, UsedNames
    <2>2. (dname' # 0 => dumping' /\ Exists(dname)') /\ dname' \in Names \cup {0}
        BY <2>1 DEF Exists, vars, dirVars
    <2>3. TypeOK' /\ AtEof' /\ FileIds' = FileIds
        BY <1>0, <2>1
           DEF TypeOK, AtEof, FileIds, Exists, vars, dirVars, writerVars, readerVars
    <2> QED BY <1>0, <2>1, <2>2, <2>3
            DEF DetectTypes, DetectTypeOK, vars, writerVars, readerVars, agentVars, countVars,
                historyVars
<1>12. CASE DumpRecord
    <2> DEFINE f    == dir[dname]
               left == size[f] - dpos
               got  == IF left < Chunks THEN left ELSE Chunks
               b    == base[f] * Chunks
    <2>1. /\ DumpInFile /\ left > 0
          /\ dpos' = dpos + got /\ out' = Append(out, b + dpos + got)
        BY <1>12 DEF DumpRecord
    <2>2. /\ f \in FileIds /\ size[f] \in Nat /\ dpos \in Nat /\ Chunks \in Nat
          /\ out \in Seq(Nat)
        BY <1>0, <2>1, DumpedFile, SpoolAssumption DEF TypeOK
    <2>3. b + 0 \in Nat
        BY <1>0, <2>2, BlockTypes
    <2> HIDE DEF b, f
    <2>4. got \in Nat
        BY <2>1, <2>2
    <2>5. b \in Int
        BY <1>0, <2>2, SpoolAssumption DEF b, TypeOK, FileIds
    <2> HIDE DEF got
    <2>6. dpos' \in Nat /\ b + dpos + got \in Nat
        BY <2>1, <2>2, <2>3, <2>4, <2>5
    <2> DEFINE r == b + dpos + got
    <2>7. r \in Nat /\ out' = Append(out, r)
        BY <2>1, <2>6
    <2> HIDE DEF r
    <2>8. out' \in Seq(Nat)
        BY <2>2, <2>7
    <2>9. UNCHANGED <<dirVars, writerVars, rpc, ridx, nidx, rfp, rpos, reof, agentVars, saved,
                      dumping, dname, segvs, gone, countVars, historyVars>>
        BY <1>12 DEF DumpRecord
    <2> QED BY <1>0, <2>6, <2>8, <2>9
            DEF DetectTypes, DetectTypeOK, TypeOK, AtEof, FileIds, Exists,
                dirVars, writerVars, agentVars, countVars, historyVars
<1>13. CASE DumpUnlinks \/ DumpSegv
    <2>0. DumpInFile /\ RemovesDumped
        BY <1>13 DEF DumpUnlinks, DumpSegv
    <2>1. /\ dir' = [dir EXCEPT ![dname] = NoFile] /\ dname' = 0 /\ dpos' = 0
          /\ UNCHANGED <<base, size, writerVars, readerVars, agentVars, saved, countVars>>
        BY <2>0 DEF RemovesDumped
    <2>2. dir' \in [Names -> Nat] /\ \A j \in Names : dir'[j] \in FileIds \cup {NoFile}
        BY <1>0, <2>1 DEF TypeOK, NoFile
    <2>3. TypeOK' /\ AtEof' /\ FileIds' = FileIds
        BY <1>0, <2>1, <2>2 DEF TypeOK, AtEof, FileIds, writerVars, readerVars
    <2>4. /\ dumping' \in BOOLEAN /\ gone' \in BOOLEAN /\ cut' \in BOOLEAN
          /\ UNCHANGED <<savedIn, closed, inHand, emptied>>
        <3>1. CASE DumpUnlinks
            BY <1>0, <3>1 DEF DumpUnlinks, historyVars
        <3>2. CASE DumpSegv
            BY <1>0, <3>2 DEF DumpSegv
        <3> QED BY <1>13, <3>1, <3>2
    <2>5. segvs' \in 0..(MaxCheckCnt + 1) /\ (dumping' => segvs' <= MaxCheckCnt)
        <3>1. CASE DumpUnlinks
            BY <1>0, <3>1 DEF DumpUnlinks
        <3>2. CASE DumpSegv
            <4>1. segvs' = segvs + 1 /\ segvs \in Nat /\ segvs <= MaxCheckCnt
                BY <1>0, <3>2 DEF DumpSegv, DumpInFile
            <4>2. segvs' \in 0..(MaxCheckCnt + 1)
                BY <1>0, <4>1
            <4>3. dumping' = (segvs' <= MaxCheckCnt)
                BY <3>2 DEF DumpSegv
            <4>4. dumping' => segvs' <= MaxCheckCnt
                BY <4>3
            <4> QED BY <4>2, <4>4
        <3> QED BY <1>13, <3>1, <3>2
    <2>6. wpc' = "down" /\ rpc' = "down"
        BY <1>0, <2>0, <2>1 DEF DumpInFile, writerVars, readerVars
    <2> QED BY <1>0, <2>1, <2>3, <2>4, <2>5, <2>6
            DEF DetectTypes, DetectTypeOK, agentVars, countVars
<1>14. CASE DumpStops
    BY <1>0, <1>14
       DEF DumpStops, DetectTypes, DetectTypeOK, TypeOK, AtEof, FileIds, Exists, vars, dirVars,
           writerVars, readerVars, agentVars, countVars
<1>15. CASE DumpEnds
    BY <1>0, <1>15
       DEF DumpEnds, DetectTypes, DetectTypeOK, TypeOK, AtEof, FileIds, Exists, vars, dirVars,
           writerVars, readerVars, agentVars, countVars
<1>16. CASE UNCHANGED detectVars
    BY <1>0, <1>16
       DEF detectVars, DetectTypes, DetectTypeOK, TypeOK, AtEof, FileIds, Exists, vars, dirVars,
           writerVars, readerVars, agentVars, controlVars, dumpVars, countVars, historyVars
<1> QED BY <1>1, <1>2, <1>3, <1>4, <1>5, <1>6, <1>7, <1>8, <1>9, <1>10, <1>11, <1>12, <1>13,
           <1>14, <1>15, <1>16
        DEF DetectNext, PcifStep, FrdStep, FrdRestarts, DumpStep

LEMMA DetectTypesHold == DetectSpec => []DetectTypes
BY DetectTypesInit, DetectTypesStep, PTL DEF DetectSpec

(* Whatever starts, stops and is dumped, indices stay among the names and  *)
(* positions are ones that ftell can return, and neither process runs      *)
(* while dap_frd dumps, also when it is run again after a SIGSEGV, which   *)
(* happens MaxCheckCnt times at most.                                      *)
THEOREM DetectTypeCorrect == DetectSpec => []DetectTypeOK
<1>1. DetectTypes => DetectTypeOK
    BY DEF DetectTypes
<1> QED BY DetectTypesHold, <1>1, PTL

------------------------------------------------------------------------------
(* The dump.                                                               *)

(* What the dump has read of the file it is in is with the DBMS.           *)
DumpInv ==
    dname # 0 => \A k \in 1..dpos : base[dir[dname]] + k \in Delivered

(* While dap_frd dumps it is the only one that does anything.              *)
LEMMA OnlyDump ==
    ASSUME DetectTypes, DetectNext, dumping
    PROVE  \/ DumpStep \/ DumpSegv \/ DumpStops
           \/ /\ UNCHANGED <<dir, base, size, out>>
              /\ UNCHANGED dumpVars
<1>0. wpc = "down" /\ rpc = "down" /\ dumping
    BY DetectFacts
<1>1. CASE PcifWrites \/ FrdReads
    <2>1. SteadyStep
        BY <1>1, SteadySteps
    <2> QED BY <1>0, <2>1 DEF SteadyStep, WriterStep, ReaderStep, WriteChunk, NextNameFree,
                      OpenNextForWrite, ReadRecord, ReadPart, ReadNothing, CheckNext,
                      NextNameExists, Drain, UnlinkRead, OpenNextForRead
<1>2. CASE Ask \/ GiveUp
    BY <1>2 DEF Ask, GiveUp, vars, dirVars, readerVars, controlVars
<1>3. CASE FrdRestarts \/ LockAndWrite \/ PcifStarts \/ PcifStops \/ FrdStops \/ FrdIsKilled
           \/ DumpBegins
    BY <1>0, <1>3 DEF FrdRestarts, FrdStarts, OpenAtPosition, FirstFileMissing, LockAndWrite,
                      Receive, PcifStarts, PcifStops, FrdStops, FrdIsKilled, FrdEnds, DumpBegins
<1> QED BY <1>1, <1>2, <1>3 DEF DetectNext, PcifStep, FrdStep

LEMMA DeliveredGrows ==
    ASSUME NEW s \in Seq(Nat), out \in Seq(Nat), out' = out \o s
    PROVE  Delivered \subseteq Delivered'
<1> SUFFICES ASSUME NEW k \in 1..Len(out) PROVE out[k] \in Delivered'
    BY DEF Delivered
<1>1. k \in 1..Len(out') /\ out'[k] = out[k]
    OBVIOUS
<1> QED BY <1>1 DEF Delivered

LEMMA PlaceAfter ==
    ASSUME NEW b \in Nat, NEW p \in Nat
    PROVE  b + p + 1 = b + (p + 1)
OBVIOUS

(* frd_BufferToDBMS with the record after dpos.                            *)
LEMMA DumpHandsOver ==
    ASSUME Chunks = 1, DetectTypes, DumpRecord
    PROVE  /\ dname # 0 /\ dpos' = dpos + 1 /\ dpos < size[dir[dname]]
           /\ base[dir[dname]] + (dpos + 1) \in Nat
           /\ out' = Append(out, base[dir[dname]] + (dpos + 1))
           /\ base[dir[dname]] + (dpos + 1) \in Delivered'
           /\ Delivered \subseteq Delivered'
           /\ UNCHANGED <<dirVars, dname>>
<1> DEFINE f == dir[dname]
<1>1. /\ dname # 0 /\ f \in FileIds /\ size[f] \in Nat /\ base[f] \in Nat
      /\ dpos \in Nat /\ out \in Seq(Nat)
    BY DumpedFile, DetectFacts DEF DumpRecord, DumpInFile, TypeOK
<1>2. /\ size[f] - dpos > 0
      /\ dpos' = dpos + (IF size[f] - dpos < Chunks THEN size[f] - dpos ELSE Chunks)
      /\ out' = Append(out, base[f] * Chunks + dpos
                            + (IF size[f] - dpos < Chunks THEN size[f] - dpos ELSE Chunks))
      /\ UNCHANGED <<dirVars, dname>>
    BY DEF DumpRecord
<1> HIDE DEF f
<1>3. dpos' = dpos + 1 /\ dpos < size[f] /\ base[f] + (dpos + 1) \in Nat
    BY <1>1, <1>2
<1>4. base[f] * Chunks + dpos + (IF size[f] - dpos < Chunks THEN size[f] - dpos ELSE Chunks)
      = base[f] + (dpos + 1)
    <2> DEFINE b == base[f] * Chunks
               g == IF size[f] - dpos < Chunks THEN size[f] - dpos ELSE Chunks
    <2>1. b = base[f]
        BY <1>1
    <2>2. g = 1
        BY <1>1, <1>2
    <2> HIDE DEF b, g
    <2>3. b + dpos + g = base[f] + (dpos + 1)
        BY <1>1, <2>1, <2>2, PlaceAfter
    <2> QED BY <2>3 DEF b, g
<1>5. out' = Append(out, base[f] + (dpos + 1))
    BY <1>2, <1>4
<1> DEFINE r == base[f] + (dpos + 1)
<1>6. r \in Nat /\ out' = Append(out, r)
    BY <1>3, <1>5
<1> HIDE DEF r
<1>7. /\ Len(out) + 1 \in 1..Len(out') /\ out'[Len(out) + 1] = r
      /\ \A k \in 1..Len(out) : k \in 1..Len(out') /\ out'[k] = out[k]
    BY <1>1, <1>6
<1>8. r \in Delivered' /\ Delivered \subseteq Delivered'
    BY <1>7 DEF Delivered
<1> QED BY <1>1, <1>2, <1>3, <1>5, <1>8 DEF r, f

LEMMA DumpInvStep ==
    ASSUME Chunks = 1, DetectTypes, DumpInv, [DetectNext]_detectVars
    PROVE  DumpInv'
<1>1. CASE dumping /\ DetectNext
    <2>1. CASE DumpOpens
        <3>1. dpos' = 0
            BY <2>1 DEF DumpOpens
        <3> QED BY <3>1 DEF DumpInv
    <2>2. CASE DumpRecord
        <3> DEFINE f == dir[dname]
        <3>1. /\ dname # 0 /\ dpos' = dpos + 1 /\ f' = f /\ base' = base /\ dname' = dname
              /\ base[f] + (dpos + 1) \in Delivered' /\ Delivered \subseteq Delivered'
            BY <2>2, DumpHandsOver DEF dirVars
        <3>2. \A k \in 1..dpos : base[f] + k \in Delivered
            BY <3>1 DEF DumpInv
        <3>3. dpos \in Nat
            BY DetectFacts
        <3> HIDE DEF f
        <3>4. \A k \in 1..(dpos + 1) : base[f] + k \in Delivered'
            <4> SUFFICES ASSUME NEW k \in 1..(dpos + 1) PROVE base[f] + k \in Delivered'
                OBVIOUS
            <4>1. k \in 1..dpos \/ k = dpos + 1
                BY <3>3
            <4> QED BY <3>1, <3>2, <4>1
        <3>5. \A k \in 1..dpos' : base'[f'] + k \in Delivered'
            BY <3>1, <3>4
        <3> QED BY <3>5 DEF DumpInv, f
    <2>3. CASE DumpUnlinks \/ DumpSegv \/ DumpStops \/ DumpEnds
        <3>1. dname' = 0
            BY <2>3 DEF DumpUnlinks, DumpSegv, DumpStops, DumpEnds, RemovesDumped
        <3> QED BY <3>1 DEF DumpInv
    <2>4. CASE UNCHANGED <<dir, base, size, out>> /\ UNCHANGED dumpVars
        BY <2>4 DEF DumpInv, Delivered, dumpVars
    <2> QED BY <1>1, <2>1, <2>2, <2>3, <2>4, OnlyDump DEF DumpStep
<1>2. CASE ~dumping /\ DetectNext
    <2>1. dname = 0
        BY <1>2, DetectFacts
    <2>2. dname' = 0
        <3>1. CASE PcifWrites \/ FrdReads
            BY <2>1, <3>1 DEF PcifWrites, FrdReads, controlVars, dumpVars
        <3> QED BY <1>2, <2>1, <3>1
                DEF DetectNext, PcifStep, FrdStep, FrdRestarts, DumpStep, Ask, LockAndWrite,
                    GiveUp, PcifStops, PcifStarts, FrdStarts, OpenAtPosition, FirstFileMissing,
                    FrdStops, FrdIsKilled, FrdEnds, DumpBegins, DumpOpens, DumpRecord,
                    DumpUnlinks, DumpEnds, DumpSegv, DumpStops, DumpInFile, controlVars, dumpVars
    <2> QED BY <2>2 DEF DumpInv
<1>3. CASE UNCHANGED detectVars
    BY <1>3 DEF DumpInv, Delivered, detectVars, vars, dirVars, readerVars, controlVars, dumpVars
<1> QED BY <1>1, <1>2, <1>3, DetectFacts

(* frd_DumpDtLoop unlinks a file when all its records are with the DBMS,   *)
(* in whatever order readdir returns the files and with whatever names,    *)
(* and the SIGSEGV handler loses only what lies behind the last fread.     *)
THEOREM DetectDumpIsComplete == ASSUME Chunks = 1 PROVE DetectSpec => DumpIsComplete
<1>0. DetectInit => DumpInv
    BY DEF DetectInit, DumpInv
<1>1. DetectTypes /\ DumpInv /\ [DetectNext]_detectVars => DumpInv'
    BY DumpInvStep
<1>2. DetectSpec => []DumpInv
    BY <1>0, <1>1, DetectTypesHold, PTL DEF DetectSpec
<1>3. DetectTypes /\ DumpInv /\ [DetectNext]_detectVars
      => [\A i \in Names :
            dumping /\ Exists(i) /\ dir'[i] = NoFile
               => \A k \in 1..size[dir[i]] :
                    \/ base[dir[i]] + k \in Delivered'
                    \/ segvs' # segvs /\ k > dpos]_detectVars
    <2> SUFFICES ASSUME DetectTypes, DumpInv, DetectNext, dumping,
                        NEW i \in Names, Exists(i), dir'[i] = NoFile,
                        NEW k \in 1..size[dir[i]]
                 PROVE  base[dir[i]] + k \in Delivered' \/ (segvs' # segvs /\ k > dpos)
        OBVIOUS
    <2>0. dir \in [Names -> Nat] /\ segvs \in Nat /\ dpos \in Nat
        BY DetectFacts DEF TypeOK
    <2>1. DumpUnlinks \/ DumpSegv
        <3>1. dir' # dir
            BY DEF Exists
        <3>2. ~(DumpOpens \/ DumpRecord \/ DumpEnds \/ DumpStops)
            BY <3>1 DEF DumpOpens, DumpRecord, DumpEnds, DumpStops, vars, dirVars
        <3> QED BY <3>1, <3>2, OnlyDump DEF DumpStep
    <2>2. /\ DumpInFile /\ dir' = [dir EXCEPT ![dname] = NoFile]
          /\ out' = out
        BY <2>1 DEF DumpUnlinks, DumpSegv, RemovesDumped, readerVars
    <2>3. i = dname /\ dname # 0 /\ size[dir[i]] \in Nat
        BY <2>0, <2>2, DumpedFile DEF Exists, DumpInFile
    <2>4. k \in 1..dpos => base[dir[i]] + k \in Delivered'
        BY <2>2, <2>3 DEF DumpInv, Delivered
    <2>5. CASE DumpUnlinks
        <3>1. dpos >= size[dir[i]]
            BY <2>3, <2>5 DEF DumpUnlinks
        <3> QED BY <2>0, <2>3, <2>4, <3>1
    <2>6. CASE DumpSegv
        <3>1. segvs' # segvs
            BY <2>0, <2>6 DEF DumpSegv
        <3>2. k \in 1..dpos \/ k > dpos
            BY <2>0, <2>3
        <3> QED BY <2>4, <3>1, <3>2
    <2> QED BY <2>1, <2>5, <2>6
<1> QED BY DetectTypesHold, <1>2, <1>3, PTL DEF DetectSpec, DumpIsComplete

------------------------------------------------------------------------------
(* The ring of names, as long as the processes are started while the names *)
(* are in order.                                                           *)

Last  == Len(base)    \* the file created last
Empty == \A i \in Names : ~Exists(i)
IsHead(f) == \A i \in Names : Exists(i) => f <= dir[i]

NamesDistinct == \A i, j \in Names : Exists(i) /\ dir[i] = dir[j] => i = j

(* From the oldest file to the newest the names follow each other; a dump, *)
(* which takes them in any order, leaves none.                             *)
NamesFollowOn ==
    ~dumping => /\ \A i \in Names : Exists(i) /\ dir[i] < Last => dir[NextName(i)] = dir[i] + 1
                /\ Empty \/ \E p \in Names : dir[p] = Last

ReaderOnHead ==
    /\ rpc \in ReadingPcs \cup {"open", "start", "down"}
    /\ rpc \in ReadingPcs \cup {"open"} => Exists(ridx) /\ IsHead(dir[ridx])
    /\ rpc \in ReadingPcs => rfp = dir[ridx]
    /\ rpc \in ReadingPcs \cup {"start"} => nidx = NextName(ridx)
    /\ rpc = "open" => ridx = nidx
    /\ rpc = "start" => IF Empty THEN ridx = 1 ELSE Exists(ridx) /\ IsHead(dir[ridx])
    /\ rpc \in {"drain", "unlink"} => Exists(nidx)

WriterOnNewest ==
    /\ wfp # NoFile => wfp = Last
    /\ wpc = "down" => wfp = NoFile
    /\ wpc \in {"recv", "write"} => dir[widx] = Last
    /\ wpc = "wait" => \E p \in Names : dir[p] = Last /\ widx = NextName(p)
    /\ wpc = "open" =>
           IF Empty THEN widx = 1 ELSE \E p \in Names : dir[p] = Last /\ widx = NextName(p)

LayoutInv == DetectTypes /\ NamesDistinct /\ NamesFollowOn /\ ReaderOnHead /\ WriterOnNewest

LEMMA LayoutInit == DetectInit => LayoutInv
<1> SUFFICES ASSUME DetectInit PROVE LayoutInv
    OBVIOUS
<1>1. Empty /\ wpc = "down" /\ rpc = "down" /\ wfp = NoFile /\ base = <<>> /\ Last = 0
    BY DEF DetectInit, Empty, Exists, Last
<1>2. NamesDistinct /\ NamesFollowOn /\ ReaderOnHead /\ WriterOnNewest
    BY <1>1 DEF NamesDistinct, NamesFollowOn, ReaderOnHead, WriterOnNewest, Empty, ReadingPcs
<1> QED BY <1>2, DetectTypesInit DEF LayoutInv

LEMMA LayoutFacts ==
    ASSUME DetectTypes
    PROVE  /\ dir \in [Names -> Nat] /\ Last \in Nat /\ FileIds = 1..Last
           /\ base \in Seq(Nat) /\ size \in Seq(Nat) /\ Len(size) = Last /\ Len(base) = Last
           /\ \A i \in Names : dir[i] \in Nat /\ dir[i] <= Last
           /\ \A i \in Names : Exists(i) <=> dir[i] > 0
           /\ \A i \in Names : Exists(i) => dir[i] \in FileIds
           /\ \A f \in FileIds : base[f] \in Nat /\ size[f] \in Nat
           /\ ridx \in Names /\ nidx \in Names /\ widx \in Names
           /\ rpos \in Nat /\ nrec \in Nat /\ out \in Seq(Nat)
           /\ wpc \in {"recv", "write", "wait"} => wfp # NoFile
           /\ rpc \in ReadingPcs => rfp # NoFile /\ rfp \in FileIds
           /\ wfp \in FileIds \cup {NoFile}
           /\ dumping \in BOOLEAN /\ (dumping => wpc = "down" /\ rpc = "down")
<1>1. TypeOK /\ dumping \in BOOLEAN /\ (dumping => wpc = "down" /\ rpc = "down")
    BY DEF DetectTypes, DetectTypeOK
<1>2. Last \in Nat /\ FileIds = 1..Last /\ Len(base) = Last
    BY <1>1 DEF TypeOK, Last, FileIds
<1>3. \A i \in Names : dir[i] \in FileIds \cup {NoFile}
    BY <1>1 DEF TypeOK
<1>4. \A i \in Names : /\ dir[i] \in Nat /\ dir[i] <= Last /\ (Exists(i) <=> dir[i] > 0)
                       /\ Exists(i) => dir[i] \in FileIds
    BY <1>2, <1>3 DEF Exists, NoFile
<1>5. base \in Seq(Nat) /\ size \in Seq(Nat) /\ Len(size) = Last
    BY <1>1 DEF TypeOK, Last
<1>6. \A f \in FileIds : base[f] \in Nat /\ size[f] \in Nat
    BY <1>2, <1>5
<1> QED BY <1>1, <1>2, <1>4, <1>5, <1>6 DEF TypeOK, ReadingPcs

(* In order, the lowest name is the oldest file's and the highest one the  *)
(* newest's.                                                               *)
LEMMA LowestIsHead ==
    ASSUME LayoutInv, NamesInOrder, ~Empty
    PROVE  Exists(LowestName) /\ IsHead(dir[LowestName])
<1>1. UsedNames # {} /\ \A i \in Names : Exists(i) <=> i \in UsedNames
    BY DEF Empty, UsedNames
<1>2. LowestName \in UsedNames /\ \A j \in UsedNames : LowestName <= j
    BY <1>1, LowestFound
<1>3. UsedNames \in SUBSET Nat /\ UsedNames \in SUBSET Names
    BY UsedIsBounded
<1>4. ASSUME NEW i \in Names, Exists(i) PROVE dir[LowestName] <= dir[i]
    <2>1. i \in UsedNames /\ i \in Nat /\ LowestName \in Nat /\ LowestName <= i
        BY <1>1, <1>2, <1>3, <1>4
    <2>2. dir[LowestName] \in Nat /\ dir[i] \in Nat
        BY <1>2, <1>3, <1>4, LayoutFacts DEF LayoutInv
    <2>3. CASE i = LowestName
        BY <2>2, <2>3
    <2>4. CASE LowestName < i
        BY <1>2, <2>1, <2>2, <2>4 DEF NamesInOrder
    <2> QED BY <2>1, <2>3, <2>4
<1> QED BY <1>1, <1>2, <1>3, <1>4 DEF IsHead

LEMMA HighestIsNewest ==
    ASSUME LayoutInv, NamesInOrder, ~Empty, ~dumping
    PROVE  HighestName \in Names /\ dir[HighestName] = Last
<1>1. UsedNames # {} /\ \A i \in Names : Exists(i) <=> i \in UsedNames
    BY DEF Empty, UsedNames
<1>2. HighestName \in UsedNames /\ \A j \in UsedNames : j <= HighestName
    BY <1>1, HighestFound
<1>3. UsedNames \in SUBSET Nat /\ UsedNames \in SUBSET Names
    BY UsedIsBounded
<1>4. PICK p \in Names : dir[p] = Last
    BY DEF LayoutInv, NamesFollowOn
<1>5. Last \in Nat /\ Last > 0 /\ dir[HighestName] \in Nat /\ dir[HighestName] <= Last
    <2>1. PICK i \in Names : Exists(i)
        BY DEF Empty
    <2> QED BY <1>2, <1>3, <2>1, LayoutFacts DEF LayoutInv
<1>6. p \in UsedNames /\ p \in Nat /\ HighestName \in Nat /\ p <= HighestName
    <2>1. Exists(p)
        BY <1>4, <1>5, LayoutFacts DEF LayoutInv
    <2> QED BY <1>1, <1>2, <1>3, <2>1
<1>7. CASE p = HighestName
    BY <1>3, <1>4, <1>6, <1>7
<1>8. CASE p < HighestName
    BY <1>2, <1>4, <1>5, <1>6, <1>8 DEF NamesInOrder
<1> QED BY <1>6, <1>7, <1>8

(* The next name is seen only when it is the next file's.                  *)
LEMMA HeadHasNext ==
    ASSUME LayoutInv, rpc \in ReadingPcs, Exists(nidx)
    PROVE  /\ nidx # ridx /\ dir[ridx] < Last /\ dir[nidx] = dir[ridx] + 1
           /\ \A i \in Names : Exists(i) /\ i # ridx => dir[nidx] <= dir[i]
<1>1. /\ Exists(ridx) /\ IsHead(dir[ridx]) /\ nidx = NextName(ridx) /\ NamesDistinct
      /\ NamesFollowOn
    BY DEF LayoutInv, ReaderOnHead
<1>2. /\ ridx \in Names /\ nidx \in Names /\ Last \in Nat /\ ~dumping
      /\ \A i \in Names : dir[i] \in Nat /\ dir[i] <= Last
    BY LayoutFacts DEF LayoutInv, ReadingPcs
<1>3. nidx # ridx
    BY <1>1, <1>2, NextNameFacts
<1>4. \A i \in Names : Exists(i) /\ i # ridx => dir[ridx] < dir[i]
    <2> SUFFICES ASSUME NEW i \in Names, Exists(i), i # ridx PROVE dir[ridx] < dir[i]
        OBVIOUS
    <2>1. dir[ridx] <= dir[i] /\ dir[i] # dir[ridx]
        BY <1>1, <1>2 DEF IsHead, NamesDistinct
    <2> QED BY <1>2, <2>1
<1>5. dir[ridx] < Last
    <2>1. dir[ridx] < dir[nidx]
        BY <1>2, <1>3, <1>4
    <2> QED BY <1>2, <2>1
<1>6. dir[nidx] = dir[ridx] + 1
    BY <1>1, <1>2, <1>5 DEF NamesFollowOn
<1>7. \A i \in Names : Exists(i) /\ i # ridx => dir[nidx] <= dir[i]
    BY <1>2, <1>4, <1>6
<1> QED BY <1>3, <1>5, <1>6, <1>7

(* fpcif_FileWriteInit and fpcif_WriteDataFile open a name that is free.   *)
LEMMA DetectOpens ==
    ASSUME LayoutInv, RoomToOpen, OpenNextForWrite
    PROVE  /\ wpc = "open" /\ wpc' = "recv" /\ widx \in Names /\ ~Exists(widx)
           /\ base' = Append(base, nrec) /\ size' = Append(size, 0)
           /\ wfp' = Last + 1 /\ Last' = Last + 1 /\ FileIds' = 1..(Last + 1)
           /\ dir'[widx] = Last + 1 /\ \A i \in Names : i # widx => dir'[i] = dir[i]
           /\ base'[Last + 1] = nrec /\ size'[Last + 1] = 0
           /\ \A f \in FileIds : base'[f] = base[f] /\ size'[f] = size[f]
           /\ UNCHANGED <<nrec, widx, wleft, readerVars>>
<1>1. /\ base \in Seq(Nat) /\ size \in Seq(Nat) /\ Last \in Nat /\ Len(size) = Last
      /\ Len(base) = Last /\ FileIds = 1..Last /\ nrec \in Nat /\ dir \in [Names -> Nat]
      /\ widx \in Names
    BY LayoutFacts DEF LayoutInv
<1>2. /\ wpc = "open" /\ wpc' = "recv" /\ OpenForWrite(widx)
      /\ UNCHANGED <<nrec, widx, wleft, readerVars>>
    BY DEF OpenNextForWrite
<1>3. ~Exists(widx)
    BY DEF RoomToOpen
<1>4. /\ base' = Append(base, nrec) /\ size' = Append(size, 0) /\ wfp' = Last + 1
      /\ dir' = [dir EXCEPT ![widx] = Last + 1]
    BY <1>2, <1>3 DEF OpenForWrite, Last
<1>5. Last' = Last + 1 /\ FileIds' = 1..(Last + 1)
    BY <1>1, <1>4 DEF Last, FileIds
<1>6. /\ base'[Last + 1] = nrec /\ size'[Last + 1] = 0
      /\ \A f \in FileIds : base'[f] = base[f] /\ size'[f] = size[f]
    BY <1>1, <1>4
<1>7. dir'[widx] = Last + 1 /\ \A i \in Names : i # widx => dir'[i] = dir[i]
    BY <1>1, <1>4
<1> QED BY <1>1, <1>2, <1>3, <1>4, <1>5, <1>6, <1>7

(* frd_GetNextFile unlinks the oldest file when there is a next one.       *)
LEMMA DetectUnlinks ==
    ASSUME LayoutInv, UnlinkRead
    PROVE  /\ rpc = "unlink" /\ rpc' = "open" /\ ridx' = nidx /\ nidx' = nidx /\ rfp' = NoFile
           /\ ridx \in Names /\ nidx \in Names /\ Exists(ridx) /\ Exists(nidx)
           /\ nidx # ridx /\ dir[ridx] < Last /\ dir[nidx] = dir[ridx] + 1
           /\ \A i \in Names : Exists(i) /\ i # ridx => dir[nidx] <= dir[i]
           /\ \A i \in Names : Exists(i) => dir[ridx] <= dir[i]
           /\ dir'[ridx] = NoFile /\ \A i \in Names : i # ridx => dir'[i] = dir[i]
           /\ UNCHANGED <<base, size, writerVars, rpos, reof, out>>
           /\ Last' = Last /\ FileIds' = FileIds
<1>1. /\ rpc = "unlink" /\ rpc' = "open" /\ ridx' = nidx /\ nidx' = nidx /\ rfp' = NoFile
      /\ dir' = [dir EXCEPT ![ridx] = NoFile]
      /\ UNCHANGED <<base, size, writerVars, rpos, reof, out>>
    BY DEF UnlinkRead
<1>2. Exists(ridx) /\ Exists(nidx) /\ rpc \in ReadingPcs /\ IsHead(dir[ridx])
    BY <1>1 DEF LayoutInv, ReaderOnHead, ReadingPcs
<1>3. ridx \in Names /\ nidx \in Names /\ dir \in [Names -> Nat]
    BY LayoutFacts DEF LayoutInv
<1>4. dir'[ridx] = NoFile /\ \A i \in Names : i # ridx => dir'[i] = dir[i]
    BY <1>1, <1>3
<1>5. Last' = Last /\ FileIds' = FileIds
    BY <1>1 DEF Last, FileIds
<1>6. \A i \in Names : Exists(i) => dir[ridx] <= dir[i]
    BY <1>2 DEF IsHead
<1> QED BY <1>1, <1>2, <1>3, <1>4, <1>5, <1>6, HeadHasNext

(* What the steps of the dump do.                                          *)
LEMMA DumpSteps ==
    ASSUME DetectTypes, DumpGoesOn
    PROVE  /\ dumping /\ dumping' /\ wpc = "down" /\ rpc = "down" /\ rpc' = "down"
           /\ dumping' = dumping /\ wpc' = "down"
           /\ \A i \in Names : dir'[i] \in {dir[i], NoFile}
           /\ UNCHANGED <<base, size, writerVars, rpc, ridx, nidx, rfp, rpos, saved,
                          countVars, savedIn, closed, inHand>>
<1>0. /\ dumping /\ dumping' /\ wpc = "down" /\ rpc = "down" /\ dumping \in BOOLEAN
      /\ dir \in [Names -> Nat]
    BY DetectFacts DEF DumpGoesOn, TypeOK
<1>1. CASE DumpOpens
    BY <1>0, <1>1 DEF DumpOpens, vars, dirVars, writerVars, readerVars, historyVars
<1>2. CASE DumpRecord
    BY <1>0, <1>2 DEF DumpRecord, dirVars, writerVars, historyVars
<1>3. CASE DumpUnlinks
    <2>1. dumping' = dumping /\ RemovesDumped /\ UNCHANGED <<savedIn, closed, inHand>>
        BY <1>3 DEF DumpUnlinks, historyVars
    <2> QED BY <1>0, <2>1 DEF RemovesDumped, writerVars, readerVars
<1>4. CASE DumpSegv
    <2>1. RemovesDumped /\ UNCHANGED <<savedIn, closed, inHand>> /\ dumping' \in BOOLEAN
        BY <1>4 DEF DumpSegv
    <2> QED BY <1>0, <2>1 DEF RemovesDumped, writerVars, readerVars
<1> QED BY <1>1, <1>2, <1>3, <1>4 DEF DumpGoesOn

LEMMA NeitherOf ==
    ASSUME NEW a, NEW b, NEW c, a = (b \/ c), a = FALSE
    PROVE  ~(b \/ c)
BY Zenon

(* As long as nothing has gone astray.                                     *)
LEMMA StepsAstray ==
    ASSUME DetectTypes, DetectNext, ~Astray'
    PROVE  ~Astray /\ DetectSteps /\ RoomToOpen
<1>0. /\ emptied \in BOOLEAN /\ cut \in BOOLEAN /\ dumping \in BOOLEAN
      /\ cut' = FALSE /\ emptied' = FALSE
    <2>1. DetectTypes'
        BY DetectTypesStep
    <2>2. cut' \in BOOLEAN /\ emptied' \in BOOLEAN
        BY <2>1 DEF DetectTypes, DetectTypeOK
    <2> QED BY <2>2, DetectFacts DEF Astray
<1>1. CASE PcifWrites
    <2>1. emptied' = (emptied \/ (wpc = "open" /\ Exists(widx))) /\ cut' = cut
        BY <1>1 DEF PcifWrites
    <2>2. ~emptied /\ ~cut /\ ~(wpc = "open" /\ Exists(widx))
        <3>1. ~(emptied \/ (wpc = "open" /\ Exists(widx)))
            BY <1>0, <2>1, NeitherOf
        <3>2. ~cut
            BY <1>0, <2>1
        <3> QED BY <3>1, <3>2
    <2> QED BY <1>1, <2>2, SteadySteps DEF RoomToOpen, OpenNextForWrite, Astray, DetectSteps
<1>2. CASE FrdReads
    <2>1. UNCHANGED <<cut, emptied>> /\ ~OpenNextForWrite
        BY <1>2 DEF FrdReads, historyVars, OpenNextForWrite, ReaderStep, ReadRecord, ReadPart,
                    ReadNothing, CheckNext, NextNameExists, Drain, UnlinkRead, OpenNextForRead,
                    writerVars
    <2> QED BY <1>0, <1>2, <2>1, SteadySteps DEF RoomToOpen, Astray, DetectSteps
<1>3. CASE Ask \/ LockAndWrite \/ GiveUp \/ PcifStops \/ PcifStarts \/ FrdRestarts \/ FrdStops
           \/ FrdIsKilled \/ DumpBegins
    <2>1. UNCHANGED <<cut, emptied>>
        BY <1>3 DEF Ask, LockAndWrite, GiveUp, PcifStops, PcifStarts, FrdRestarts, FrdStarts,
                    OpenAtPosition, FirstFileMissing, FrdStops, FrdIsKilled, FrdEnds, DumpBegins,
                    historyVars
    <2>2. ~OpenNextForWrite
        BY <1>3 DEF Ask, LockAndWrite, Receive, GiveUp, PcifStops, PcifStarts, FrdRestarts,
                    FrdStarts, OpenAtPosition, FirstFileMissing, FrdStops, FrdIsKilled, FrdEnds,
                    DumpBegins, OpenNextForWrite, vars, writerVars
    <2> QED BY <1>0, <1>3, <2>1, <2>2 DEF RoomToOpen, Astray, DetectSteps
<1>4. CASE DumpStep
    <2>1. UNCHANGED <<cut, emptied>> /\ ~OpenNextForWrite
        BY <1>4 DEF DumpStep, DumpOpens, DumpRecord, DumpUnlinks, RemovesDumped, DumpEnds,
                    OpenNextForWrite, historyVars, vars, writerVars
    <2>2. DumpEnds \/ DumpGoesOn
        BY <1>0, <1>4 DEF DumpStep, DumpGoesOn, DumpOpens, DumpRecord, DumpUnlinks, DumpInFile
    <2> QED BY <1>0, <2>1, <2>2 DEF RoomToOpen, Astray, DetectSteps
<1>5. CASE DumpSegv
    <2>1. cut' = (cut \/ ~dumping') /\ emptied' = emptied /\ dumping
        BY <1>5 DEF DumpSegv, DumpInFile
    <2>2. ~cut /\ dumping' /\ ~emptied
        <3>1. ~(cut \/ ~dumping')
            BY <1>0, <2>1, NeitherOf
        <3>2. ~emptied
            BY <1>0, <2>1
        <3> QED BY <3>1, <3>2
    <2>3. ~OpenNextForWrite
        BY <1>5 DEF DumpSegv, RemovesDumped, OpenNextForWrite, writerVars
    <2> QED BY <1>5, <2>1, <2>2, <2>3 DEF RoomToOpen, Astray, DetectSteps, DumpGoesOn
<1>6. CASE DumpStops
    <2>1. cut' = TRUE
        BY <1>6 DEF DumpStops
    <2> QED BY <1>0, <2>1
<1> QED BY <1>1, <1>2, <1>3, <1>4, <1>5, <1>6 DEF DetectNext, PcifStep, FrdStep

(* What the steps do to the directory.                                     *)
LEMMA DirSteps ==
    ASSUME LayoutInv, DetectSteps
    PROVE  \/ OpenNextForWrite /\ UNCHANGED others
           \/ UnlinkRead /\ UNCHANGED others
           \/ /\ dumping /\ dumping'
              /\ \A i \in Names : dir'[i] \in {dir[i], NoFile}
              /\ UNCHANGED <<base, size, writerVars, rpc, ridx, nidx, rfp>>
           \/ /\ UNCHANGED <<dir, base>>
              /\ dumping' = dumping \/ dumping' \/ Empty
<1>1. CASE SteadyStep
    BY <1>1 DEF SteadyStep, WriterStep, ReaderStep, WriteChunk, NextNameFree, ReadRecord,
                ReadPart, ReadNothing, CheckNext, NextNameExists, Drain, OpenNextForRead,
                others, controlVars, dumpVars, dirVars
<1>2. CASE DumpGoesOn
    BY <1>2, DumpSteps DEF LayoutInv
<1>3. CASE DumpBegins \/ DumpEnds
    BY <1>3 DEF DumpBegins, DumpEnds, Empty, UsedNames, vars, dirVars
<1> QED BY <1>1, <1>2, <1>3
        DEF DetectSteps, FrdRestarts, Ask, LockAndWrite, Receive, GiveUp,
            PcifStops, PcifStarts, FrdStarts, OpenAtPosition, FirstFileMissing, FrdStops,
            FrdIsKilled, FrdEnds, vars, dirVars, controlVars, dumpVars

LEMMA NamesDistinctStep == ASSUME LayoutInv, DetectSteps, RoomToOpen PROVE NamesDistinct'
<1>0. /\ NamesDistinct /\ Last \in Nat
      /\ \A i \in Names : dir[i] \in Nat /\ dir[i] <= Last
    BY LayoutFacts DEF LayoutInv
<1>1. CASE OpenNextForWrite
    <2>1. /\ dir'[widx] = Last + 1 /\ widx \in Names
          /\ \A i \in Names : i # widx => dir'[i] = dir[i]
        BY <1>1, DetectOpens
    <2> SUFFICES ASSUME NEW i \in Names, NEW j \in Names, dir'[i] # NoFile, dir'[i] = dir'[j]
                 PROVE  i = j
        BY DEF NamesDistinct, Exists
    <2>2. CASE i = widx \/ j = widx
        BY <1>0, <2>1, <2>2
    <2>3. CASE i # widx /\ j # widx
        BY <1>0, <2>1, <2>3 DEF NamesDistinct, Exists
    <2> QED BY <2>2, <2>3
<1>2. CASE \A i \in Names : dir'[i] \in {dir[i], NoFile}
    BY <1>0, <1>2 DEF NamesDistinct, Exists
<1>3. UnlinkRead => \A i \in Names : dir'[i] \in {dir[i], NoFile}
    BY DetectUnlinks
<1> QED BY <1>1, <1>2, <1>3, DirSteps

LEMMA NamesFollowOnStep == ASSUME LayoutInv, DetectSteps, RoomToOpen PROVE NamesFollowOn'
<1>0. /\ Last \in Nat /\ dumping \in BOOLEAN
      /\ \A i \in Names : /\ dir[i] \in Nat /\ dir[i] <= Last /\ (Exists(i) <=> dir[i] > 0)
                          /\ NextName(i) \in Names
    BY LayoutFacts, NextNameFacts DEF LayoutInv
<1>a. NamesDistinct /\ NamesFollowOn
    BY DEF LayoutInv
<1>1. CASE OpenNextForWrite /\ UNCHANGED others
    <2>1. /\ dir'[widx] = Last + 1 /\ widx \in Names /\ ~Exists(widx) /\ Last' = Last + 1
          /\ \A i \in Names : i # widx => dir'[i] = dir[i]
          /\ wpc = "open"
        BY <1>1, DetectOpens
    <2>2. ~dumping
        BY <2>1, LayoutFacts DEF LayoutInv
    <2>3. /\ \A i \in Names : Exists(i) /\ dir[i] < Last => dir[NextName(i)] = dir[i] + 1
          /\ \A i \in Names : Exists(i) /\ dir[i] = Last => widx = NextName(i)
        <3>1. Empty \/ \E p \in Names : dir[p] = Last /\ widx = NextName(p)
            BY <2>1 DEF LayoutInv, WriterOnNewest
        <3>2. \A i \in Names : Exists(i) /\ dir[i] = Last => widx = NextName(i)
            BY <1>a, <3>1 DEF NamesDistinct, Empty, Exists
        <3> QED BY <1>a, <2>2, <3>2 DEF NamesFollowOn
    <2>4. ASSUME NEW i \in Names, dir'[i] # NoFile, dir'[i] < Last'
          PROVE  dir'[NextName(i)] = dir'[i] + 1
        <3>1. i # widx /\ dir'[i] = dir[i] /\ Exists(i) /\ NextName(i) \in Names
            BY <1>0, <2>1, <2>4 DEF Exists
        <3>2. CASE dir[i] = Last
            BY <2>1, <2>3, <3>1, <3>2
        <3>3. CASE dir[i] < Last
            <4>1. dir[NextName(i)] = dir[i] + 1
                BY <2>3, <3>1, <3>3
            <4>2. NextName(i) # widx
                BY <1>0, <2>1, <3>1, <4>1
            <4> QED BY <2>1, <3>1, <4>1, <4>2
        <3> QED BY <1>0, <3>1, <3>2, <3>3
    <2> QED BY <2>1, <2>4 DEF NamesFollowOn, Exists
<1>2. CASE UnlinkRead /\ UNCHANGED others
    <2>1. /\ rpc = "unlink" /\ ridx \in Names /\ Exists(ridx) /\ dir[ridx] < Last /\ Last' = Last
          /\ \A i \in Names : Exists(i) => dir[ridx] <= dir[i]
          /\ dir'[ridx] = NoFile /\ \A i \in Names : i # ridx => dir'[i] = dir[i]
        BY <1>2, DetectUnlinks
    <2>2. ~dumping
        BY <2>1, LayoutFacts DEF LayoutInv
    <2>3. ASSUME NEW i \in Names, dir'[i] # NoFile, dir'[i] < Last'
          PROVE  dir'[NextName(i)] = dir'[i] + 1
        <3>1. i # ridx /\ dir'[i] = dir[i] /\ Exists(i) /\ NextName(i) \in Names
            BY <1>0, <2>1, <2>3 DEF Exists
        <3>2. dir[NextName(i)] = dir[i] + 1
            BY <1>a, <2>1, <2>2, <2>3, <3>1 DEF NamesFollowOn
        <3>3. NextName(i) # ridx
            BY <1>0, <2>1, <3>1, <3>2
        <3> QED BY <2>1, <3>1, <3>2, <3>3
    <2>4. \E p \in Names : dir'[p] = Last'
        <3>1. PICK p \in Names : dir[p] = Last
            BY <1>a, <2>1, <2>2 DEF NamesFollowOn, Empty
        <3>2. p # ridx
            BY <1>0, <2>1, <3>1
        <3> QED BY <2>1, <3>1, <3>2
    <2> QED BY <2>3, <2>4 DEF NamesFollowOn, Exists
<1>3. CASE dumping'
    BY <1>3 DEF NamesFollowOn
<1>4. CASE UNCHANGED <<dir, base, dumping>>
    <2>1. Last' = Last
        BY <1>4 DEF Last
    <2> QED BY <1>4, <1>a, <2>1 DEF NamesFollowOn, Exists, Empty
<1>5. CASE UNCHANGED <<dir, base>> /\ Empty
    BY <1>5 DEF NamesFollowOn, Exists, Empty
<1> QED BY <1>0, <1>1, <1>2, <1>3, <1>4, <1>5, DirSteps

(* Steps that leave the directory and the reader's place alone.            *)
LEMMA ReaderNotMoved ==
    ASSUME ReaderOnHead, UNCHANGED <<dir, rpc, ridx, nidx, rfp>>
    PROVE  ReaderOnHead'
BY DEF ReaderOnHead, Exists, IsHead, Empty

LEMMA ReaderOnHeadStep == ASSUME Ordered, LayoutInv, DetectSteps, RoomToOpen PROVE ReaderOnHead'
<1>0. /\ Last \in Nat /\ ridx \in Names /\ nidx \in Names
      /\ \A i \in Names : /\ dir[i] \in Nat /\ dir[i] <= Last /\ (Exists(i) <=> dir[i] > 0)
                          /\ NextName(i) \in Names
    BY LayoutFacts, NextNameFacts DEF LayoutInv
<1>a. ReaderOnHead
    BY DEF LayoutInv
<1>1. CASE OpenNextForWrite
    <2>1. /\ dir'[widx] = Last + 1 /\ widx \in Names /\ ~Exists(widx)
          /\ \A i \in Names : i # widx => dir'[i] = dir[i]
          /\ UNCHANGED <<rpc, ridx, nidx, rfp>> /\ wpc = "open"
        BY <1>1, DetectOpens DEF readerVars
    <2>2. \A i \in Names : Exists(i) => i # widx /\ Exists(i)' /\ dir'[i] = dir[i]
        BY <2>1 DEF Exists
    <2>3. ASSUME Exists(ridx), IsHead(dir[ridx])
          PROVE  Exists(ridx)' /\ IsHead(dir[ridx])' /\ dir'[ridx] = dir[ridx]
        <3>1. Exists(ridx)' /\ dir'[ridx] = dir[ridx] /\ ridx' = ridx
            BY <1>0, <2>1, <2>2, <2>3 DEF Exists
        <3>2. ASSUME NEW i \in Names, Exists(i)' PROVE dir[ridx] <= dir'[i]
            <4>1. CASE i = widx
                BY <1>0, <2>1, <4>1
            <4>2. CASE i # widx
                BY <2>1, <2>3, <3>2, <4>2 DEF Exists, IsHead
            <4> QED BY <4>1, <4>2
        <3> QED BY <3>1, <3>2 DEF IsHead
    <2>4. rpc = "start" => Exists(ridx)' /\ IsHead(dir[ridx])'
        <3>1. CASE rpc = "start" /\ Empty
            <4>1. ridx = 1 /\ widx = 1
                BY <1>a, <2>1, <3>1 DEF ReaderOnHead, LayoutInv, WriterOnNewest
            <4>2. Exists(ridx)' /\ dir'[ridx] = Last + 1
                BY <1>0, <2>1, <4>1 DEF Exists, NoFile
            <4>3. \A i \in Names : Exists(i)' => i = 1
                BY <2>1, <3>1, <4>1 DEF Empty, Exists
            <4>4. IsHead(dir[ridx])'
                BY <1>0, <2>1, <4>1, <4>2, <4>3 DEF IsHead
            <4> QED BY <4>2, <4>4
        <3>2. CASE ~Empty
            BY <1>a, <2>3, <3>2 DEF ReaderOnHead
        <3> QED BY <3>1, <3>2
    <2>5. ~Empty'
        <3>1. Exists(widx)' 
            BY <1>0, <2>1, <1>1 DEF Exists, NoFile, OpenNextForWrite
        <3>2. widx' = widx
            BY <1>1, DetectOpens
        <3> QED BY <2>1, <3>1, <3>2 DEF Empty
    <2>6. rpc \in {"drain", "unlink"} => Exists(nidx)'
        BY <1>0, <1>a, <2>1, <2>2 DEF ReaderOnHead, Exists
    <2>7. rpc \in ReadingPcs \cup {"open"} =>
             Exists(ridx)' /\ IsHead(dir[ridx])' /\ dir'[ridx] = dir[ridx]
        BY <1>a, <2>3 DEF ReaderOnHead
    <2> QED BY <1>a, <2>1, <2>4, <2>5, <2>6, <2>7 DEF ReaderOnHead
<1>2. CASE UnlinkRead
    <2>1. /\ rpc' = "open" /\ ridx' = nidx /\ nidx' = nidx /\ nidx # ridx /\ Exists(nidx)
          /\ \A i \in Names : Exists(i) /\ i # ridx => dir[nidx] <= dir[i]
          /\ dir'[ridx] = NoFile /\ \A i \in Names : i # ridx => dir'[i] = dir[i]
        BY <1>2, DetectUnlinks
    <2>2. Exists(ridx)' /\ IsHead(dir[ridx])'
        BY <1>0, <2>1 DEF Exists, IsHead
    <2> QED BY <2>1, <2>2 DEF ReaderOnHead, ReadingPcs
<1>3. CASE ReadRecord \/ ReadPart \/ ReadNothing \/ CheckNext \/ Drain
    <2>1. /\ UNCHANGED <<dir, ridx, nidx, rfp>> /\ rpc \in ReadingPcs /\ rpc' \in ReadingPcs
          /\ rpc' \in {"drain", "unlink"} => rpc \in {"drain", "unlink"}
        BY <1>3 DEF ReadRecord, ReadPart, ReadNothing, CheckNext, Drain, dirVars, ReadingPcs
    <2> QED BY <1>a, <2>1 DEF ReaderOnHead, Exists, IsHead, ReadingPcs
<1>4. CASE NextNameExists
    <2>1. /\ UNCHANGED <<dir, ridx, nidx, rfp>> /\ rpc = "wait" /\ rpc' = "drain"
          /\ Exists(nidx)
        BY <1>4 DEF NextNameExists, dirVars
    <2> QED BY <1>a, <2>1 DEF ReaderOnHead, Exists, IsHead, ReadingPcs
<1>5. CASE OpenNextForRead
    <2>1. /\ UNCHANGED <<dir, ridx>> /\ rpc = "open" /\ rpc' = "read" /\ rfp' = dir[ridx]
          /\ nidx' = NextName(nidx)
        BY <1>5 DEF OpenNextForRead, dirVars
    <2> QED BY <1>a, <2>1 DEF ReaderOnHead, Exists, IsHead, ReadingPcs
<1>6. CASE FrdStarts
    <2>1. /\ UNCHANGED <<dir, rfp>> /\ rpc' = "start" /\ ridx' = LowestName
          /\ nidx' = NextName(ridx') /\ NamesInOrder
        BY <1>6 DEF FrdStarts, dirVars
    <2>2. Empty => LowestName = 1
        BY StartNames DEF Empty, UsedNames
    <2>3. ~Empty => Exists(LowestName) /\ IsHead(dir[LowestName])
        BY <2>1, LowestIsHead
    <2> QED BY <2>1, <2>2, <2>3 DEF ReaderOnHead, Exists, IsHead, Empty, ReadingPcs
<1>7. CASE OpenAtPosition
    <2>1. /\ UNCHANGED <<dir, ridx, nidx>> /\ rpc = "start" /\ rpc' = "read"
          /\ rfp' = dir[ridx] /\ Exists(ridx)
        BY <1>7 DEF OpenAtPosition, dirVars
    <2>2. ~Empty
        BY <1>0, <2>1 DEF Empty
    <2> QED BY <1>a, <2>1, <2>2 DEF ReaderOnHead, Exists, IsHead, ReadingPcs
<1>8. CASE FirstFileMissing \/ FrdStops \/ FrdIsKilled
    <2>1. rpc' = "down"
        BY <1>8 DEF FirstFileMissing, FrdStops, FrdIsKilled, FrdEnds
    <2> QED BY <2>1 DEF ReaderOnHead, ReadingPcs
<1>9. CASE DumpBegins \/ DumpGoesOn \/ DumpEnds
    <2>1. rpc' = "down"
        <3>1. CASE DumpGoesOn
            BY <3>1, DumpSteps DEF LayoutInv
        <3> QED BY <1>9, <3>1, LayoutFacts DEF DumpBegins, DumpEnds, LayoutInv, vars, readerVars
    <2> QED BY <2>1 DEF ReaderOnHead, ReadingPcs
<1>10. CASE UNCHANGED <<dir, rpc, ridx, nidx, rfp>>
    BY <1>a, <1>10, ReaderNotMoved
<1>11. CASE WriteChunk \/ NextNameFree \/ LockAndWrite \/ Ask \/ GiveUp \/ PcifStops \/ PcifStarts
    BY <1>10, <1>11 DEF WriteChunk, NextNameFree, LockAndWrite, Receive, Ask, GiveUp, PcifStops,
                 PcifStarts, vars, dirVars, readerVars
<1> QED BY <1>1, <1>2, <1>3, <1>4, <1>5, <1>6, <1>7, <1>8, <1>9, <1>11
        DEF DetectSteps, SteadyStep, WriterStep, ReaderStep, FrdRestarts

LEMMA WriterOnNewestStep == ASSUME Ordered, LayoutInv, DetectSteps, RoomToOpen PROVE WriterOnNewest'
<1>0. /\ Last \in Nat /\ widx \in Names /\ wfp \in FileIds \cup {NoFile}
      /\ wpc \in {"recv", "write", "wait"} => wfp # NoFile
      /\ \A i \in Names : /\ dir[i] \in Nat /\ dir[i] <= Last /\ (Exists(i) <=> dir[i] > 0)
                          /\ NextName(i) \in Names
      /\ dumping \in BOOLEAN /\ (dumping => wpc = "down" /\ rpc = "down")
    BY LayoutFacts, NextNameFacts DEF LayoutInv
<1>a. WriterOnNewest
    BY DEF LayoutInv
<1>1. CASE OpenNextForWrite
    <2>1. /\ wpc' = "recv" /\ wfp' = Last + 1 /\ Last' = Last + 1 /\ widx' = widx
          /\ dir'[widx] = Last + 1
        BY <1>1, DetectOpens
    <2> QED BY <2>1 DEF WriterOnNewest
<1>2. CASE UnlinkRead
    <2>1. /\ ridx \in Names /\ nidx \in Names /\ Exists(ridx) /\ Exists(nidx) /\ nidx # ridx
          /\ dir[ridx] < Last /\ dir'[ridx] = NoFile
          /\ \A i \in Names : i # ridx => dir'[i] = dir[i]
          /\ UNCHANGED <<wpc, widx, wfp>> /\ Last' = Last
        BY <1>2, DetectUnlinks DEF writerVars
    <2>2. ~Empty /\ ~Empty'
        BY <2>1 DEF Empty, Exists
    <2>3. \A p \in Names : dir[p] = Last => dir'[p] = Last
        BY <1>0, <2>1
    <2>5. wpc \in {"recv", "write"} => dir'[widx] = Last
        BY <1>0, <1>a, <2>3 DEF WriterOnNewest
    <2>6. wpc \in {"wait", "open"} => \E p \in Names : dir'[p] = Last /\ widx = NextName(p)
        BY <1>a, <2>2, <2>3 DEF WriterOnNewest
    <2> QED BY <1>a, <2>1, <2>2, <2>5, <2>6 DEF WriterOnNewest
<1>3. CASE WriteChunk
    <2>1. /\ wpc = "write" /\ wpc' \in {"recv", "write", "wait"}
          /\ widx' = (IF wpc' = "wait" THEN NextName(widx) ELSE widx)
          /\ UNCHANGED <<dir, base, wfp>>
        <3>1. wleft \in Nat /\ (wpc = "write" => wleft > 0)
            BY SpoolAssumption DEF LayoutInv, DetectTypes, DetectTypeOK, TypeOK
        <3> QED BY <1>3, <3>1 DEF WriteChunk
    <2>2. dir[widx] = Last /\ wfp = Last /\ Last' = Last
        BY <1>0, <1>a, <2>1 DEF WriterOnNewest, Last
    <2>3. wpc' = "wait" => \E p \in Names : dir'[p] = Last' /\ widx' = NextName(p)
        BY <1>0, <2>1, <2>2
    <2> QED BY <1>a, <2>1, <2>2, <2>3 DEF WriterOnNewest
<1>4. CASE NextNameFree
    <2>1. /\ wpc = "wait" /\ wpc' = "open" /\ ~Exists(widx)
          /\ UNCHANGED <<dir, base, wfp, widx>>
        BY <1>4 DEF NextNameFree, dirVars
    <2>2. Last' = Last /\ wfp = Last /\ Last > 0
        BY <1>0, <1>a, <2>1 DEF WriterOnNewest, Last, NoFile
    <2>3. PICK p \in Names : dir[p] = Last /\ widx = NextName(p)
        BY <1>a, <2>1 DEF WriterOnNewest
    <2>4. ~Empty
        BY <1>0, <2>2, <2>3 DEF Empty
    <2> QED BY <2>1, <2>2, <2>3, <2>4 DEF WriterOnNewest, Exists, Empty
<1>5. CASE LockAndWrite
    <2>1. /\ wpc = "recv" /\ wpc' = "write" /\ UNCHANGED <<dir, base, wfp, widx>>
        BY <1>5 DEF LockAndWrite, Receive, dirVars
    <2> QED BY <1>a, <2>1 DEF WriterOnNewest, Last
<1>6. CASE PcifStops
    <2>1. wpc' = "down" /\ wfp' = NoFile
        BY <1>6 DEF PcifStops
    <2> QED BY <2>1 DEF WriterOnNewest
<1>7. CASE PcifStarts
    <2>1. /\ wpc = "down" /\ ~dumping /\ wpc' = "open" /\ widx' = FirstNameToWrite
          /\ NamesInOrder /\ UNCHANGED <<dir, base, wfp>>
        BY <1>7 DEF PcifStarts, dirVars
    <2>2. wfp' = NoFile /\ Last' = Last
        BY <1>a, <2>1 DEF WriterOnNewest, Last
    <2>3. Empty <=> UsedNames = {}
        BY DEF Empty, UsedNames
    <2>4. CASE Empty
        <3>1. widx' = 1
            BY <2>1, <2>3, <2>4, StartNames
        <3> QED BY <2>1, <2>2, <2>4, <3>1 DEF WriterOnNewest, Exists, Empty
    <2>5. CASE ~Empty
        <3>1. HighestName \in Names /\ dir[HighestName] = Last
            BY <2>1, <2>5, HighestIsNewest
        <3>2. widx' = NextName(HighestName)
            BY <2>1, <2>3, <2>5, StartNames
        <3> QED BY <2>1, <2>2, <2>5, <3>1, <3>2 DEF WriterOnNewest, Exists, Empty
    <2> QED BY <2>4, <2>5
<1>8. CASE DumpBegins \/ DumpGoesOn \/ DumpEnds
    <2>1. wpc = "down" /\ wpc' = "down" /\ wfp' = wfp
        <3>1. CASE DumpGoesOn
            BY <3>1, DumpSteps DEF LayoutInv, writerVars
        <3> QED BY <1>0, <1>8, <3>1 DEF DumpBegins, DumpEnds, vars, writerVars
    <2> QED BY <1>a, <2>1 DEF WriterOnNewest
<1>9. CASE UNCHANGED <<dir, base, wpc, widx, wfp>>
    BY <1>a, <1>9 DEF WriterOnNewest, Exists, Empty, Last
<1>10. CASE Ask \/ GiveUp \/ ReadRecord \/ ReadPart \/ ReadNothing \/ CheckNext \/ NextNameExists
            \/ Drain \/ OpenNextForRead \/ FrdRestarts \/ FrdStops \/ FrdIsKilled
    BY <1>9, <1>10
       DEF Ask, GiveUp, ReadRecord, ReadPart, ReadNothing, CheckNext, NextNameExists, Drain,
           OpenNextForRead, FrdRestarts, FrdStarts, OpenAtPosition, FirstFileMissing, FrdStops,
           FrdIsKilled, FrdEnds, vars, dirVars, writerVars
<1> QED BY <1>1, <1>2, <1>3, <1>4, <1>5, <1>6, <1>7, <1>8, <1>10
        DEF DetectSteps, SteadyStep, WriterStep, ReaderStep

LEMMA LayoutKept == ASSUME Ordered, LayoutInv, DetectTypes', [DetectNext]_detectVars, ~Astray'
                    PROVE  LayoutInv'
<1>1. CASE UNCHANGED detectVars
    <2>1. UNCHANGED <<dir, base, wpc, widx, wfp, rpc, ridx, nidx, rfp, dumping>>
        BY <1>1 DEF detectVars, vars, dirVars, writerVars, readerVars, controlVars, dumpVars
    <2> QED BY <2>1, ReaderNotMoved
            DEF LayoutInv, NamesDistinct, NamesFollowOn, WriterOnNewest, Exists, Empty, Last
<1>2. CASE DetectNext
    <2>1. DetectSteps /\ RoomToOpen
        BY <1>2, StepsAstray DEF LayoutInv
    <2> QED BY <2>1, NamesDistinctStep, NamesFollowOnStep, ReaderOnHeadStep, WriterOnNewestStep
            DEF LayoutInv
<1> QED BY <1>1, <1>2

(* Nothing comes back from astray.                                         *)
LEMMA StaysAstray == DetectTypes /\ [DetectNext]_detectVars /\ ~Astray' => ~Astray
<1>1. UNCHANGED detectVars => Astray' = Astray
    BY DEF detectVars, historyVars, Astray
<1> QED BY <1>1, StepsAstray

LEMMA LayoutInvariant == ASSUME Ordered PROVE DetectSpec => [](Astray \/ LayoutInv)
<1>1. /\ Astray \/ LayoutInv
      /\ DetectTypes /\ DetectTypes' /\ [DetectNext]_detectVars
      => (Astray \/ LayoutInv)'
    BY LayoutKept, StaysAstray
<1> QED BY LayoutInit, DetectTypesHold, <1>1, PTL DEF DetectSpec

------------------------------------------------------------------------------
(* What lies before the reader, and before the position that is saved for  *)
(* it.  A record takes one write(2).                                       *)

(* The first n records of file f were handed over, or in hand at a signal. *)
Passed(f, n) == n <= size[f] /\ \A k \in 1..n : base[f] + k \in Delivered \cup inHand

(* The files hold the records one after the other; one that the writer was *)
(* stopped in is missing.                                                  *)
Written ==
    /\ \A f \in FileIds : base[f] + size[f] <= nrec
    /\ \A f, g \in FileIds : f < g => base[f] + size[f] <= base[g]
    /\ wfp # NoFile => base[wfp] + size[wfp] + wleft = nrec
    /\ wleft = IF wpc = "write" THEN 1 ELSE 0
    /\ dumping => dumps > 0

(* The position in FW_DT_LAST is one in the oldest file.                   *)
SavedAtHead ==
    /\ \E i \in Names : Exists(i) /\ dir[i] = savedIn
    /\ IsHead(savedIn)
    /\ saved \in Nat /\ Passed(savedIn, saved)

NoSkip ==
    kills = 0 =>
        /\ rpc \in ReadingPcs => Passed(rfp, rpos)
        /\ rpc \in {"down", "start"} /\ ~dumping => saved \in {NoPosition, 0} \/ SavedAtHead

(* Handed over in order, and only what lies before the reader's place, or  *)
(* before the place where it will begin.                                   *)
Once ==
    kills = 0 /\ closed = 0 /\ dumps = 0 =>
        /\ InOrder
        /\ rpc \in ReadingPcs => HandedUpTo(base[rfp] + rpos)
        /\ rpc = "open" => HandedUpTo(base[dir[ridx]])
        /\ rpc \in {"down", "start"} =>
               \/ saved = NoPosition /\ out = <<>>
               \/ SavedAtHead /\ HandedUpTo(base[savedIn] + saved)

PlaceInv == LayoutInv /\ Written /\ NoSkip /\ Once

LEMMA PlaceInit == DetectInit => PlaceInv
<1> SUFFICES ASSUME DetectInit PROVE PlaceInv
    OBVIOUS
<1>1. /\ FileIds = {} /\ out = <<>> /\ wfp = NoFile /\ wleft = 0 /\ wpc = "down"
      /\ rpc = "down" /\ saved = NoPosition /\ dumping = FALSE
    BY DEF DetectInit, FileIds
<1>2. Written /\ NoSkip
    BY <1>1 DEF Written, NoSkip, ReadingPcs
<1>3. Once
    BY <1>1 DEF Once, InOrder, ReadingPcs
<1> QED BY <1>2, <1>3, LayoutInit DEF PlaceInv

(* frd_FileRead takes the record at the reader's position.                 *)
LEMMA DetectRecordRead ==
    ASSUME Chunks = 1, DetectTypes, ReadRecord
    PROVE  LET r == base[rfp] + rpos + 1
           IN  /\ rpc = "read" /\ rfp \in FileIds /\ rpos < size[rfp] /\ r \in Nat
               /\ out' = Append(out, r) /\ rpos' = rpos + 1
               /\ UNCHANGED <<dirVars, writerVars, rpc, ridx, nidx, rfp, reof>>
<1>1. rpc = "read" /\ rfp \in FileIds
    BY LayoutFacts DEF ReadRecord, ReadingPcs
<1>2. rpos \in Nat /\ size[rfp] \in Nat /\ base[rfp] \in Nat
    BY <1>1, LayoutFacts
<1>3. rpos < size[rfp]
    BY <1>2 DEF ReadRecord, Available
<1>4. BlockAt(rpos) = base[rfp] + rpos + 1
    BY <1>2 DEF BlockAt
<1> QED BY <1>1, <1>2, <1>3, <1>4 DEF ReadRecord

LEMMA DetectDrains ==
    ASSUME DetectTypes, Drain
    PROVE  rpc = "drain" /\ UNCHANGED <<dirVars, writerVars, ridx, nidx, rfp, rpos, reof, out>>
<1>1. reof
    BY DEF DetectTypes, AtEof, Drain
<1> QED BY <1>1, Zenon DEF Drain

(* A record takes one write(2).                                            *)
LEMMA DetectWrites ==
    ASSUME Chunks = 1, PlaceInv, WriteChunk
    PROVE  /\ wpc = "write" /\ wpc' # "write" /\ wleft = 1 /\ wleft' = 0
           /\ wfp = Last /\ wfp \in FileIds /\ size'[wfp] = size[wfp] + 1
           /\ \A f \in FileIds : f # wfp => size'[f] = size[f]
           /\ FileIds' = FileIds /\ UNCHANGED <<dir, base, nrec, wfp, readerVars>>
<1>1. /\ wpc = "write" /\ UNCHANGED <<dir, base, nrec, wfp, readerVars>>
      /\ size' = [size EXCEPT ![wfp] = size[wfp] + 1] /\ wleft' = wleft - 1
      /\ wpc' = IF wleft > 1 THEN "write" ELSE IF size[wfp] + 1 >= MaxSize THEN "wait" ELSE "recv"
    BY DEF WriteChunk
<1>2. wleft = 1 /\ wfp = Last /\ wfp \in FileIds
    BY <1>1, LayoutFacts DEF PlaceInv, LayoutInv, Written, WriterOnNewest
<1>3. size \in Seq(Nat) /\ FileIds = 1..Len(size) /\ FileIds' = FileIds
    BY <1>1, LayoutFacts DEF PlaceInv, LayoutInv, FileIds
<1>4. size'[wfp] = size[wfp] + 1 /\ \A f \in FileIds : f # wfp => size'[f] = size[f]
    BY <1>1, <1>2, <1>3
<1>5. wleft' = 0 /\ wpc' # "write"
    BY <1>1, <1>2
<1> QED BY <1>1, <1>2, <1>3, <1>4, <1>5

(* What only grows.                                                        *)
LEMMA FilesGrow ==
    ASSUME Chunks = 1, PlaceInv, DetectSteps, RoomToOpen
    PROVE  /\ \A f \in FileIds : /\ f \in FileIds' /\ base'[f] = base[f]
                                 /\ size'[f] \in Nat /\ size'[f] >= size[f]
<1>0. Last \in Nat /\ FileIds = 1..Last /\ \A f \in FileIds : size[f] \in Nat /\ base[f] \in Nat
    BY LayoutFacts DEF PlaceInv, LayoutInv
<1>1. CASE OpenNextForWrite
    <2>1. /\ FileIds' = 1..(Last + 1)
          /\ \A f \in FileIds : base'[f] = base[f] /\ size'[f] = size[f]
        BY <1>1, DetectOpens DEF PlaceInv
    <2> QED BY <1>0, <2>1
<1>2. CASE WriteChunk
    <2>1. /\ FileIds' = FileIds /\ base' = base /\ size'[wfp] = size[wfp] + 1
          /\ \A f \in FileIds : f # wfp => size'[f] = size[f]
        BY <1>2, DetectWrites
    <2> QED BY <1>0, <2>1
<1>3. CASE UNCHANGED <<base, size>>
    BY <1>0, <1>3 DEF FileIds
<1>4. CASE ReaderStep
    BY <1>3, <1>4
       DEF ReaderStep, ReadRecord, ReadPart, ReadNothing, CheckNext, NextNameExists, Drain,
           UnlinkRead, OpenNextForRead, dirVars
<1>5. CASE NextNameFree \/ LockAndWrite \/ Ask \/ GiveUp \/ PcifStops \/ PcifStarts
    BY <1>3, <1>5 DEF NextNameFree, LockAndWrite, Receive, Ask, GiveUp, PcifStops, PcifStarts,
                      vars, dirVars
<1>6. CASE FrdRestarts \/ FrdStops \/ FrdIsKilled \/ DumpBegins \/ DumpEnds
    BY <1>3, <1>6 DEF FrdRestarts, FrdStarts, OpenAtPosition, FirstFileMissing, FrdStops,
                      FrdIsKilled, FrdEnds, DumpBegins, DumpEnds, vars, dirVars
<1>7. CASE DumpGoesOn
    BY <1>3, <1>7, DumpSteps DEF PlaceInv, LayoutInv
<1> QED BY <1>1, <1>2, <1>4, <1>5, <1>6, <1>7 DEF DetectSteps, SteadyStep, WriterStep

(* Only frd_FileRead and the dump hand records over.                       *)
LEMMA OutSteps ==
    ASSUME Chunks = 1, DetectTypes, DetectSteps
    PROVE  \/ ReadRecord /\ UNCHANGED others
           \/ dumping /\ DumpRecord
           \/ out' = out
<1>1. CASE SteadyStep
    <2>1. ~ReadPart
        BY DEF ReadPart
    <2> QED BY <1>1, <2>1, DetectDrains
            DEF SteadyStep, WriterStep, ReaderStep, WriteChunk, NextNameFree, OpenNextForWrite,
                ReadNothing, CheckNext, NextNameExists, UnlinkRead, OpenNextForRead, readerVars,
                others
<1>2. CASE DumpGoesOn
    BY <1>2 DEF DumpGoesOn, DumpOpens, DumpUnlinks, DumpSegv, RemovesDumped, vars, readerVars
<1> QED BY <1>1, <1>2
        DEF DetectSteps, FrdRestarts, Ask, LockAndWrite, Receive, GiveUp, PcifStops,
            PcifStarts, FrdStarts, OpenAtPosition, FirstFileMissing, FrdStops, FrdIsKilled,
            FrdEnds, DumpBegins, DumpEnds, vars, readerVars

LEMMA HistoryGrows ==
    ASSUME Chunks = 1, DetectTypes, DetectSteps
    PROVE  Delivered \cup inHand \subseteq (Delivered \cup inHand)'
<1>0. out \in Seq(Nat)
    BY LayoutFacts
<1>1. Delivered \subseteq Delivered'
    <2>1. CASE ReadRecord
        <3> DEFINE r == base[rfp] + rpos + 1
        <3>1. out' = Append(out, r) /\ r \in Nat
            BY <2>1, DetectRecordRead
        <3> HIDE DEF r
        <3>0. out \in Seq(Nat)
            BY <1>0
        <3>2. \A k \in 1..Len(out) : k \in 1..Len(out') /\ out'[k] = out[k]
            BY <3>0, <3>1
        <3> QED BY <3>2 DEF Delivered
    <2>2. CASE DumpRecord
        BY <2>2, DumpHandsOver
    <2>3. CASE out' = out
        BY <2>3 DEF Delivered
    <2> QED BY <2>1, <2>2, <2>3, OutSteps
<1>2. inHand \subseteq inHand'
    <2>1. CASE DumpGoesOn
        BY <2>1, DumpSteps
    <2> QED BY <2>1
        DEF DetectSteps, SteadyStep, FrdRestarts, Ask, LockAndWrite, GiveUp, PcifStops,
            PcifStarts, FrdStarts, OpenAtPosition, FirstFileMissing, FrdStops, FrdIsKilled,
            SavePosition, SavePositionBehindRecord, SaveNothing, DumpBegins, DumpEnds,
            historyVars, others
<1> QED BY <1>1, <1>2

LEMMA WrittenStep == ASSUME Chunks = 1, PlaceInv, DetectSteps, RoomToOpen PROVE Written'
<1>0. /\ Last \in Nat /\ FileIds = 1..Last /\ nrec \in Nat
      /\ \A f \in FileIds : base[f] \in Nat /\ size[f] \in Nat
      /\ wfp \in FileIds \cup {NoFile} /\ dumping \in BOOLEAN
    BY LayoutFacts DEF PlaceInv, LayoutInv
<1>a. LayoutInv /\ Written /\ dumps \in Nat
    BY DetectAssumption DEF PlaceInv, LayoutInv, DetectTypes, DetectTypeOK
<1>b. ASSUME UNCHANGED <<base, size, nrec, wpc, wfp, wleft>>, dumping' => dumps' > 0
      PROVE  Written'
    BY <1>a, <1>b DEF Written, FileIds
<1>c. ASSUME UNCHANGED <<dumping, dumps>> PROVE dumping' => dumps' > 0
    BY <1>a, <1>c DEF Written
<1>1. CASE OpenNextForWrite /\ UNCHANGED others
    <2>1. /\ wpc = "open" /\ wpc' = "recv" /\ wfp' = Last + 1 /\ FileIds' = 1..(Last + 1)
          /\ base'[Last + 1] = nrec /\ size'[Last + 1] = 0
          /\ \A f \in FileIds : base'[f] = base[f] /\ size'[f] = size[f]
          /\ nrec' = nrec /\ wleft' = wleft
        BY <1>1, <1>a, DetectOpens
    <2>2. wleft' = 0 /\ (dumping' => dumps' > 0)
        BY <1>1, <1>a, <1>c, <2>1 DEF Written, others, controlVars, dumpVars, countVars
    <2>3. ASSUME NEW f \in FileIds' PROVE base'[f] + size'[f] <= nrec'
        BY <1>0, <1>a, <2>1, <2>3 DEF Written
    <2>4. ASSUME NEW f \in FileIds', NEW g \in FileIds', f < g
          PROVE  base'[f] + size'[f] <= base'[g]
        <3>1. f \in FileIds
            BY <1>0, <2>1, <2>4
        <3>2. CASE g = Last + 1
            BY <1>0, <1>a, <2>1, <3>1, <3>2 DEF Written
        <3>3. CASE g \in FileIds
            BY <1>0, <1>a, <2>1, <2>4, <3>1, <3>3 DEF Written
        <3> QED BY <1>0, <2>1, <3>2, <3>3
    <2>5. base'[wfp'] + size'[wfp'] + wleft' = nrec'
        BY <1>0, <2>1, <2>2
    <2> QED BY <2>1, <2>2, <2>3, <2>4, <2>5 DEF Written
<1>2. CASE WriteChunk /\ UNCHANGED others
    <2>1. /\ wpc = "write" /\ wpc' # "write" /\ wleft = 1 /\ wleft' = 0
          /\ wfp = Last /\ wfp \in FileIds /\ size'[wfp] = size[wfp] + 1
          /\ \A f \in FileIds : f # wfp => size'[f] = size[f]
          /\ FileIds' = FileIds /\ UNCHANGED <<base, nrec, wfp>>
        BY <1>2, DetectWrites
    <2>2. dumping' => dumps' > 0
        BY <1>2, <1>c DEF others, controlVars, dumpVars, countVars
    <2>3. base[wfp] + size[wfp] + 1 = nrec
        BY <1>0, <1>a, <2>1 DEF Written, NoFile
    <2>4. ASSUME NEW f \in FileIds PROVE base[f] + size'[f] <= nrec
        <3>1. CASE f = wfp
            BY <1>0, <2>1, <2>3, <3>1
        <3>2. CASE f # wfp
            BY <1>0, <1>a, <2>1, <3>2 DEF Written
        <3> QED BY <3>1, <3>2
    <2>5. ASSUME NEW f \in FileIds, NEW g \in FileIds, f < g PROVE base[f] + size'[f] <= base[g]
        <3>1. f # wfp
            BY <1>0, <2>1, <2>5
        <3> QED BY <1>a, <2>1, <2>5, <3>1 DEF Written
    <2>6. base[wfp] + size'[wfp] + wleft' = nrec
        <3>1. wfp \in FileIds /\ size'[wfp] = size[wfp] + 1 /\ wleft' = 0
            BY <2>1
        <3>2. base[wfp] \in Nat /\ size[wfp] \in Nat
            BY <1>0, <3>1
        <3> QED BY <1>0, <2>3, <3>1, <3>2
    <2>7. \A f \in FileIds' : base'[f] + size'[f] <= nrec'
        BY <2>1, <2>4
    <2>8. \A f, g \in FileIds' : f < g => base'[f] + size'[f] <= base'[g]
        BY <2>1, <2>5
    <2>9. base'[wfp'] + size'[wfp'] + wleft' = nrec'
        BY <2>1, <2>6
    <2> QED BY <2>1, <2>2, <2>7, <2>8, <2>9 DEF Written
<1>3. CASE LockAndWrite
    <2>1. /\ wpc = "recv" /\ wpc' = "write" /\ wleft' = 1 /\ nrec' = nrec + 1
          /\ UNCHANGED <<base, size, wfp, dumping, dumps>>
        BY <1>3 DEF LockAndWrite, Receive, dirVars, controlVars, dumpVars, countVars
    <2>2. wfp \in FileIds /\ wleft = 0 /\ FileIds' = FileIds
        BY <1>0, <1>a, <2>1, LayoutFacts DEF Written, LayoutInv, FileIds
    <2>3. base[wfp] + size[wfp] = nrec
        BY <1>0, <1>a, <2>2 DEF Written, NoFile
    <2>4. \A f \in FileIds : base[f] + size[f] <= nrec'
        BY <1>0, <1>a, <2>1 DEF Written
    <2>5. base[wfp] + size[wfp] + wleft' = nrec'
        BY <1>0, <2>1, <2>2, <2>3
    <2> QED BY <1>a, <1>c, <2>1, <2>2, <2>4, <2>5 DEF Written
<1>4. CASE PcifStops
    <2>1. /\ wpc' = "down" /\ wfp' = NoFile /\ wleft' = 0
          /\ UNCHANGED <<base, size, nrec, dumping, dumps>>
        BY <1>4 DEF PcifStops, dirVars, controlVars, dumpVars
    <2>2. dumping' => dumps' > 0
        BY <1>c, <2>1
    <2> QED BY <1>a, <2>1, <2>2 DEF Written, FileIds
<1>5. CASE NextNameFree /\ UNCHANGED others
    <2>1. /\ wpc = "wait" /\ wpc' = "open"
          /\ UNCHANGED <<base, size, nrec, wfp, wleft, dumping, dumps>>
        BY <1>5 DEF NextNameFree, dirVars, others, controlVars, dumpVars, countVars
    <2> QED BY <1>a, <1>c, <2>1 DEF Written, FileIds
<1>6. CASE PcifStarts
    <2>1. /\ wpc = "down" /\ wpc' = "open"
          /\ UNCHANGED <<base, size, nrec, wfp, wleft, dumping, dumps>>
        BY <1>6 DEF PcifStarts, dirVars, controlVars, dumpVars, countVars
    <2> QED BY <1>a, <1>c, <2>1 DEF Written, FileIds
<1>7. CASE DumpBegins
    <2>1. /\ UNCHANGED <<base, size, nrec, wpc, wfp, wleft>> /\ dumps' = dumps + 1
        BY <1>7 DEF DumpBegins, vars, dirVars, writerVars
    <2> QED BY <1>a, <1>b, <2>1
<1>8. CASE DumpEnds
    <2>1. UNCHANGED <<base, size, nrec, wpc, wfp, wleft>> /\ dumping' = FALSE
        BY <1>8 DEF DumpEnds, vars, dirVars, writerVars
    <2> QED BY <1>b, <2>1
<1>9. CASE UNCHANGED <<base, size, nrec, wpc, wfp, wleft, dumping, dumps>>
    BY <1>b, <1>c, <1>9
<1>10. CASE ReaderStep /\ UNCHANGED others
    <2>1. UNCHANGED <<base, size, nrec, wpc, wfp, wleft>>
        BY <1>10 DEF ReaderStep, ReadRecord, ReadPart, ReadNothing, CheckNext, NextNameExists,
                     Drain, UnlinkRead, OpenNextForRead, dirVars, writerVars
    <2> QED BY <1>9, <1>10, <2>1 DEF others, controlVars, dumpVars, countVars
<1>11. CASE Ask \/ GiveUp \/ FrdRestarts \/ FrdStops \/ FrdIsKilled
    BY <1>9, <1>11 DEF Ask, GiveUp, FrdRestarts, FrdStarts, OpenAtPosition, FirstFileMissing,
                       FrdStops, FrdIsKilled, FrdEnds, vars, dirVars, writerVars,
                       controlVars, dumpVars, countVars
<1>12. CASE DumpGoesOn
    <2>1. /\ UNCHANGED <<base, size, writerVars, countVars>> /\ dumping' = dumping
        BY <1>12, DumpSteps DEF PlaceInv, LayoutInv
    <2> QED BY <1>9, <2>1 DEF writerVars, countVars
<1> QED BY <1>1, <1>2, <1>3, <1>4, <1>5, <1>6, <1>7, <1>8, <1>10, <1>11, <1>12
        DEF DetectSteps, SteadyStep, WriterStep, others

(* What the reader has passed of a file it has passed for good.            *)
LEMMA PassedKept ==
    ASSUME Chunks = 1, PlaceInv, DetectSteps, RoomToOpen,
           NEW f \in FileIds, NEW n \in Nat, Passed(f, n)
    PROVE  n <= size'[f] /\ \A k \in 1..n : base'[f] + k \in (Delivered \cup inHand)'
<1>1. base'[f] = base[f] /\ size'[f] \in Nat /\ size'[f] >= size[f]
    BY FilesGrow
<1>2. n <= size[f] /\ size[f] \in Nat
    BY LayoutFacts DEF Passed, PlaceInv, LayoutInv
<1>3. Delivered \cup inHand \subseteq (Delivered \cup inHand)'
    BY HistoryGrows DEF PlaceInv, LayoutInv
<1>4. \A k \in 1..n : base'[f] + k \in (Delivered \cup inHand)'
    BY <1>1, <1>3 DEF Passed
<1> QED BY <1>1, <1>2, <1>4

(* The saved position stays one in the oldest file while nothing removes   *)
(* a file.                                                                 *)
LEMMA SavedKept ==
    ASSUME Chunks = 1, PlaceInv, DetectSteps, RoomToOpen, SavedAtHead, UNCHANGED <<saved, savedIn>>,
           (dir' = dir \/ OpenNextForWrite)
    PROVE  SavedAtHead' /\ savedIn \in FileIds /\ base'[savedIn] = base[savedIn]
<1>1. PICK i \in Names : Exists(i) /\ dir[i] = savedIn
    BY DEF SavedAtHead
<1>2. savedIn \in FileIds /\ saved \in Nat /\ IsHead(savedIn) /\ Passed(savedIn, saved)
    BY <1>1, LayoutFacts DEF PlaceInv, LayoutInv, SavedAtHead
<1>3. base'[savedIn] = base[savedIn]
    BY <1>2, FilesGrow
<1>4. Passed(savedIn, saved)'
    BY <1>2, PassedKept DEF Passed
<1>5. Exists(i)' /\ dir'[i] = savedIn /\ IsHead(savedIn)'
    <2>1. CASE dir' = dir
        BY <1>1, <1>2, <2>1 DEF Exists, IsHead
    <2>2. CASE OpenNextForWrite
        <3>1. /\ widx \in Names /\ ~Exists(widx) /\ dir'[widx] = Last + 1
              /\ \A j \in Names : j # widx => dir'[j] = dir[j]
            BY <2>2, DetectOpens DEF PlaceInv
        <3>2. Last \in Nat /\ FileIds = 1..Last
            BY LayoutFacts DEF PlaceInv, LayoutInv
        <3>3. Exists(i)' /\ dir'[i] = savedIn
            BY <1>1, <3>1 DEF Exists
        <3>4. \A j \in Names : Exists(j)' => savedIn <= dir'[j]
            BY <1>2, <3>1, <3>2 DEF Exists, IsHead
        <3> QED BY <3>3, <3>4 DEF IsHead
    <2> QED BY <2>1, <2>2
<1> QED BY <1>2, <1>3, <1>4, <1>5 DEF SavedAtHead

(* The signal handler saves a position in the file that the reader has     *)
(* open, which is the oldest one, or finds no stream.                      *)
LEMMA PlaceSaved ==
    ASSUME Chunks = 1, PlaceInv, DetectSteps, RoomToOpen, FrdStops, kills = 0
    PROVE  /\ dumping' = dumping /\ kills' = kills /\ dumps' = dumps /\ out' = out
           /\ rpc' = "down"
           /\ \/ saved' = 0 /\ closed' = closed + 1
              \/ /\ SavedAtHead' /\ savedIn' = rfp /\ rpc \in ReadingPcs /\ rfp \in FileIds
                 /\ base' = base /\ saved' \in Nat /\ saved' >= rpos /\ closed' = closed
<1>1. /\ UNCHANGED <<dir, base, size, out, dumping, kills, dumps>> /\ rpc' = "down"
      /\ SavePosition \/ SavePositionBehindRecord \/ SaveNothing
    BY DEF FrdStops, FrdEnds, dirVars, dumpVars
<1>2. CASE SaveNothing
    BY <1>1, <1>2 DEF SaveNothing
<1>3. CASE SavePosition \/ SavePositionBehindRecord
    <2>1. rpc \in ReadingPcs
        BY <1>3 DEF SavePosition, SavePositionBehindRecord, StreamOpen, ReadingPcs
    <2>2. /\ rfp = dir[ridx] /\ Exists(ridx) /\ IsHead(rfp) /\ Passed(rfp, rpos)
          /\ ridx \in Names /\ rfp \in FileIds
          /\ rpos \in Nat /\ base[rfp] \in Nat /\ size[rfp] \in Nat
        BY <2>1, LayoutFacts DEF PlaceInv, LayoutInv, ReaderOnHead, NoSkip
    <2>3. (\E i \in Names : Exists(i) /\ dir[i] = savedIn)' /\ IsHead(savedIn)'
        <3>1. savedIn' = rfp
            BY <1>3 DEF SavePosition, SavePositionBehindRecord
        <3> QED BY <1>1, <2>2, <3>1 DEF Exists, IsHead
    <2>4. CASE SavePosition
        <3>1. saved' = rpos /\ savedIn' = rfp /\ closed' = closed /\ inHand' = inHand
            BY <2>4 DEF SavePosition
        <3>2. Passed(savedIn, saved)'
            BY <1>1, <2>2, <3>1 DEF Passed, Delivered
        <3> QED BY <1>1, <2>1, <2>2, <2>3, <3>1, <3>2 DEF SavedAtHead
    <2>5. CASE SavePositionBehindRecord
        <3>1. /\ saved' = rpos + 1 /\ savedIn' = rfp /\ closed' = closed
              /\ inHand' = inHand \cup {BlockAt(rpos)} /\ Available >= 1
            BY <2>5 DEF SavePositionBehindRecord
        <3>2. BlockAt(rpos) = base[rfp] + (rpos + 1)
            BY <2>2 DEF BlockAt
        <3>3. rpos + 1 <= size[rfp]
            BY <2>2, <3>1 DEF Available
        <3>4. ASSUME NEW k \in 1..(rpos + 1)
              PROVE  base[rfp] + k \in Delivered \cup inHand \cup {BlockAt(rpos)}
            <4>1. CASE k \in 1..rpos
                BY <2>2, <4>1 DEF Passed
            <4>2. CASE k = rpos + 1
                BY <3>2, <4>2
            <4> QED BY <2>2, <4>1, <4>2
        <3>5. (Delivered \cup inHand)' = Delivered \cup inHand \cup {BlockAt(rpos)}
            BY <1>1, <3>1 DEF Delivered
        <3>6. Passed(savedIn, saved)'
            BY <1>1, <3>1, <3>3, <3>4, <3>5 DEF Passed
        <3> QED BY <1>1, <2>1, <2>2, <2>3, <3>1, <3>6 DEF SavedAtHead
    <2> QED BY <1>3, <2>4, <2>5
<1> QED BY <1>1, <1>2, <1>3

(* Where the reader begins: at the start of the oldest file, or at the     *)
(* position that was saved in it.                                          *)
LEMMA PlaceFound ==
    ASSUME PlaceInv, OpenAtPosition
    PROVE  /\ rpc = "start" /\ rpc' = "read" /\ ~dumping /\ Exists(ridx) /\ rfp' = dir[ridx]
           /\ rfp' \in FileIds /\ rpos' = (IF saved = NoPosition THEN 0 ELSE saved)
           /\ SavedAtHead => rfp' = savedIn /\ rpos' = saved
           /\ UNCHANGED <<dirVars, out, saved, controlVars, countVars, historyVars>>
<1>1. /\ rpc = "start" /\ rpc' = "read" /\ Exists(ridx) /\ rfp' = dir[ridx]
      /\ rpos' = (IF saved = NoPosition THEN 0 ELSE saved)
      /\ UNCHANGED <<dirVars, out, saved, controlVars, countVars, historyVars>>
    BY DEF OpenAtPosition
<1>2. /\ ridx \in Names /\ dir[ridx] \in FileIds /\ ~dumping
      /\ \A i \in Names : dir[i] \in Nat
    BY <1>1, LayoutFacts DEF PlaceInv, LayoutInv
<1>3. IsHead(dir[ridx])
    BY <1>1, <1>2 DEF PlaceInv, LayoutInv, ReaderOnHead, Empty
<1>4. ASSUME SavedAtHead PROVE dir[ridx] = savedIn /\ saved # NoPosition
    <2>1. PICK i \in Names : Exists(i) /\ dir[i] = savedIn
        BY <1>4 DEF SavedAtHead
    <2>2. dir[ridx] <= dir[i] /\ dir[i] <= dir[ridx]
        BY <1>1, <1>2, <1>3, <1>4, <2>1 DEF SavedAtHead, IsHead
    <2> QED BY <1>2, <1>4, <2>1, <2>2 DEF SavedAtHead, NoPosition
<1> QED BY <1>1, <1>2, <1>4

LEMMA NoSkipStep == ASSUME Ordered, Chunks = 1, PlaceInv, DetectSteps, RoomToOpen PROVE NoSkip'
<1>0. /\ kills \in Nat /\ NoSkip /\ LayoutInv /\ dumping \in BOOLEAN /\ rpos \in Nat
      /\ (dumping => rpc = "down") /\ (rpc \in ReadingPcs => rfp \in FileIds)
  <2>1. NoSkip /\ LayoutInv /\ DetectTypeOK
      BY DEF PlaceInv, LayoutInv, DetectTypes
  <2>2. kills \in Nat /\ dumping \in BOOLEAN /\ (dumping => rpc = "down")
      BY <2>1, DetectAssumption DEF DetectTypeOK
  <2>3. rpos \in Nat /\ (rpc \in ReadingPcs => rfp \in FileIds)
      BY <2>1, LayoutFacts DEF LayoutInv
  <2> QED BY <2>1, <2>2, <2>3
<1>a. ASSUME kills = 0, rpc \in ReadingPcs, rpc' \in ReadingPcs, UNCHANGED <<rfp, rpos>>
      PROVE  NoSkip'
    <2>1. Passed(rfp, rpos)'
        BY <1>0, <1>a, PassedKept DEF NoSkip, Passed
    <2> QED BY <1>a, <2>1 DEF NoSkip, ReadingPcs
<1>b. ASSUME kills = 0, rpc' \in {"down", "start"}, rpc \in {"down", "start"}, ~dumping,
             UNCHANGED <<saved, savedIn>>, dir' = dir \/ OpenNextForWrite
      PROVE  NoSkip'
    <2>1. saved \in {NoPosition, 0} \/ SavedAtHead
        BY <1>0, <1>b DEF NoSkip
    <2>2. saved' \in {NoPosition, 0} \/ SavedAtHead'
        BY <1>b, <2>1, SavedKept
    <2> QED BY <1>b, <2>2 DEF NoSkip, ReadingPcs
<1>c. ASSUME UNCHANGED <<rpc, rfp, rpos, saved, savedIn, dumping, kills>>,
             dir' = dir \/ OpenNextForWrite
      PROVE  NoSkip'
    <2>1. CASE kills = 0 /\ rpc \in ReadingPcs
        BY <1>a, <1>c, <2>1
    <2>2. CASE kills = 0 /\ rpc \in {"down", "start"} /\ ~dumping
        BY <1>b, <1>c, <2>2
    <2> QED BY <1>c, <2>1, <2>2 DEF NoSkip
<1>1. CASE ReadRecord /\ UNCHANGED others
    <2> DEFINE r == base[rfp] + rpos + 1
    <2>1. /\ rpc = "read" /\ rfp \in FileIds /\ rpos < size[rfp] /\ r \in Nat
          /\ out' = Append(out, r) /\ rpos' = rpos + 1
          /\ UNCHANGED <<base, size, rpc, rfp>>
        BY <1>1, DetectRecordRead DEF PlaceInv, LayoutInv, dirVars
    <2>2. kills' = kills
        BY <1>1 DEF others, countVars
    <2>3. out \in Seq(Nat) /\ base[rfp] \in Nat /\ size[rfp] \in Nat
        BY <2>1, LayoutFacts DEF PlaceInv, LayoutInv
    <2>4. r \in Delivered'
        <3> HIDE DEF r
        <3>1. Len(out') \in 1..Len(out') /\ out'[Len(out')] = r
            BY <2>1, <2>3
        <3> QED BY <3>1 DEF Delivered
    <2>5. ASSUME kills = 0 PROVE Passed(rfp, rpos)'
        <3>1. Passed(rfp, rpos) /\ rpc \in ReadingPcs
            BY <1>0, <2>1, <2>5 DEF NoSkip, ReadingPcs
        <3>2. \A k \in 1..rpos : base'[rfp] + k \in (Delivered \cup inHand)'
            BY <1>0, <2>1, <3>1, PassedKept
        <3>3. base[rfp] + (rpos + 1) = r
            <4>1. rpos \in Nat
                BY <1>0
            <4>2. base[rfp] \in Nat
                BY <2>3
            <4>3. \A a, b \in Nat : a + (b + 1) = a + b + 1
                OBVIOUS
            <4> QED BY <4>1, <4>2, <4>3, Zenon
        <3>4. \A k \in 1..(rpos + 1) : base[rfp] + k \in (Delivered \cup inHand)'
            <4> SUFFICES ASSUME NEW k \in 1..(rpos + 1)
                         PROVE  base[rfp] + k \in (Delivered \cup inHand)'
                OBVIOUS
            <4> HIDE DEF r
            <4>1. CASE k \in 1..rpos
                BY <2>1, <3>2, <4>1
            <4>2. CASE k = rpos + 1
                BY <2>4, <3>3, <4>2
            <4> QED BY <1>0, <4>1, <4>2
        <3>5. rpos + 1 <= size[rfp]
            BY <1>0, <2>1, <2>3
        <3> QED BY <2>1, <3>4, <3>5 DEF Passed
    <2> QED BY <2>1, <2>2, <2>5 DEF NoSkip, ReadingPcs
<1>2. CASE (ReadPart \/ ReadNothing \/ CheckNext \/ NextNameExists \/ Drain) /\ UNCHANGED others
    <2>1. rpc \in ReadingPcs /\ rpc' \in ReadingPcs /\ UNCHANGED <<rfp, rpos>>
        <3>1. ~ReadPart
            BY DEF ReadPart
        <3> QED BY <1>2, <3>1, DetectDrains
                DEF ReadNothing, CheckNext, NextNameExists, Drain, ReadingPcs, PlaceInv, LayoutInv
    <2>2. kills' = kills
        BY <1>2 DEF others, countVars
    <2> QED BY <1>a, <2>1, <2>2 DEF NoSkip
<1>3. CASE UnlinkRead
    <2>1. rpc' = "open"
        BY <1>3 DEF UnlinkRead
    <2> QED BY <2>1 DEF NoSkip, ReadingPcs
<1>4. CASE OpenNextForRead
    <2>1. /\ rpc' = "read" /\ rpos' = 0 /\ rfp' = dir[ridx] /\ Exists(ridx)
          /\ UNCHANGED <<base, size>>
        BY <1>4 DEF OpenNextForRead, dirVars
    <2>2. rfp' \in FileIds /\ size[rfp'] \in Nat
        BY <2>1, LayoutFacts DEF PlaceInv, LayoutInv
    <2>3. Passed(rfp, rpos)'
        BY <2>1, <2>2 DEF Passed
    <2> QED BY <2>1, <2>3 DEF NoSkip
<1>5. CASE OpenAtPosition
    <2>1. /\ rpc = "start" /\ rpc' = "read" /\ ~dumping /\ rfp' \in FileIds
          /\ rpos' = (IF saved = NoPosition THEN 0 ELSE saved)
          /\ SavedAtHead => rfp' = savedIn /\ rpos' = saved
          /\ UNCHANGED <<base, size, out, saved, kills, inHand>>
        BY <1>5, PlaceFound DEF countVars, historyVars, dirVars
    <2>2. base[rfp'] \in Nat /\ size[rfp'] \in Nat
        BY <2>1, LayoutFacts DEF PlaceInv, LayoutInv
    <2>3. ASSUME kills = 0 PROVE Passed(rfp, rpos)'
        <3>1. saved \in {NoPosition, 0} \/ SavedAtHead
            BY <1>0, <2>1, <2>3 DEF NoSkip
        <3>2. CASE saved \in {NoPosition, 0}
            BY <2>1, <2>2, <3>2 DEF Passed
        <3>3. CASE SavedAtHead
            BY <2>1, <2>2, <3>3 DEF Passed, SavedAtHead, Delivered
        <3> QED BY <3>1, <3>2, <3>3
    <2> QED BY <2>1, <2>3 DEF NoSkip
<1>6. CASE FrdStops
    <2>1. CASE kills = 0
        <3>1. rpc' = "down" /\ (saved' = 0 \/ SavedAtHead')
            BY <1>6, <2>1, PlaceSaved
        <3> QED BY <3>1 DEF NoSkip, ReadingPcs
    <2>2. CASE kills # 0
        <3>1. kills' = kills
            BY <1>6 DEF FrdStops
        <3> QED BY <2>2, <3>1 DEF NoSkip
    <2> QED BY <2>1, <2>2
<1>7. CASE FrdIsKilled
    <2>1. kills' = kills + 1
        BY <1>7 DEF FrdIsKilled
    <2> QED BY <1>0, <2>1 DEF NoSkip
<1>8. CASE FrdStarts \/ FirstFileMissing
    <2>1. /\ rpc \in {"down", "start"} /\ rpc' \in {"down", "start"} /\ ~dumping
          /\ UNCHANGED <<dir, saved, savedIn, kills>>
        BY <1>0, <1>8 DEF FrdStarts, FirstFileMissing, dirVars, countVars, historyVars
    <2>2. CASE kills = 0
        BY <1>b, <2>1, <2>2
    <2>3. CASE kills # 0
        BY <2>1, <2>3 DEF NoSkip
    <2> QED BY <2>2, <2>3
<1>9. CASE DumpBegins \/ DumpGoesOn
    <2>1. dumping' /\ rpc' = "down"
        <3>1. CASE DumpGoesOn
            BY <3>1, DumpSteps DEF PlaceInv, LayoutInv
        <3> QED BY <1>0, <1>9, <3>1 DEF DumpBegins, vars, readerVars
    <2> QED BY <2>1 DEF NoSkip, ReadingPcs
<1>10. CASE DumpEnds
    <2>1. saved' = NoPosition /\ rpc' = "down"
        BY <1>0, <1>10 DEF DumpEnds, vars, readerVars
    <2> QED BY <2>1 DEF NoSkip, ReadingPcs
<1>11. CASE (WriteChunk \/ NextNameFree \/ OpenNextForWrite) /\ UNCHANGED others
    <2>1. UNCHANGED <<rpc, rfp, rpos, saved, savedIn, dumping, kills>>
        BY <1>11 DEF WriteChunk, NextNameFree, OpenNextForWrite, readerVars, others,
                     controlVars, dumpVars, countVars, historyVars
    <2>2. dir' = dir \/ OpenNextForWrite
        BY <1>11 DEF WriteChunk, NextNameFree, dirVars
    <2> QED BY <1>c, <2>1, <2>2
<1>12. CASE LockAndWrite \/ Ask \/ GiveUp \/ PcifStops \/ PcifStarts
    <2>1. UNCHANGED <<dir, rpc, rfp, rpos, saved, savedIn, dumping, kills>>
        BY <1>12 DEF LockAndWrite, Receive, Ask, GiveUp, PcifStops, PcifStarts, vars, dirVars,
                     readerVars, controlVars, dumpVars, countVars, historyVars
    <2> QED BY <1>c, <2>1
<1> QED BY <1>1, <1>2, <1>3, <1>4, <1>5, <1>6, <1>7, <1>8, <1>9, <1>10, <1>11, <1>12
        DEF DetectSteps, SteadyStep, WriterStep, ReaderStep, FrdRestarts, others

LEMMA CountsGrow ==
    ASSUME PlaceInv, DetectSteps, RoomToOpen, kills' = 0, closed' = 0, dumps' = 0
    PROVE  kills = 0 /\ closed = 0 /\ dumps = 0 /\ ~dumping
<1>1. kills \in Nat /\ closed \in Nat /\ dumps \in Nat
    BY DetectAssumption DEF PlaceInv, LayoutInv, DetectTypes, DetectTypeOK
<1>2. /\ kills' \in {kills, kills + 1} /\ closed' \in {closed, closed + 1}
      /\ dumps' \in {dumps, dumps + 1}
    <2>1. CASE DumpGoesOn
        BY <2>1, DumpSteps DEF PlaceInv, LayoutInv, countVars
    <2> QED BY <2>1
        DEF DetectSteps, SteadyStep, FrdRestarts, Ask, LockAndWrite, GiveUp, PcifStops,
            PcifStarts, FrdStarts, OpenAtPosition, FirstFileMissing, FrdStops, FrdIsKilled, FrdEnds,
            SavePosition, SavePositionBehindRecord, SaveNothing, DumpBegins, DumpEnds,
            countVars, historyVars, others
<1>3. kills = 0 /\ closed = 0 /\ dumps = 0
    BY <1>1, <1>2
<1> QED BY <1>3 DEF PlaceInv, Written

LEMMA HandedMore ==
    ASSUME out \in Seq(Nat), NEW m \in Nat, NEW n \in Nat, m <= n, HandedUpTo(m)
    PROVE  HandedUpTo(n)
<1> SUFFICES ASSUME NEW k \in 1..Len(out) PROVE out[k] <= n
    BY DEF HandedUpTo
<1>1. out[k] \in Nat /\ out[k] <= m
    BY DEF HandedUpTo
<1> QED BY <1>1

LEMMA OnceStep == ASSUME Ordered, Chunks = 1, PlaceInv, DetectSteps, RoomToOpen PROVE Once'
<1> SUFFICES ASSUME kills' = 0, closed' = 0, dumps' = 0 PROVE Once'
    BY DEF Once
<1>0. /\ kills = 0 /\ closed = 0 /\ dumps = 0 /\ ~dumping
      /\ Once /\ NoSkip /\ Written /\ LayoutInv
    BY CountsGrow DEF PlaceInv
<1>1. /\ InOrder
      /\ rpc \in ReadingPcs => HandedUpTo(base[rfp] + rpos)
      /\ rpc = "open" => HandedUpTo(base[dir[ridx]])
      /\ rpc \in {"down", "start"} =>
             \/ saved = NoPosition /\ out = <<>>
             \/ SavedAtHead /\ HandedUpTo(base[savedIn] + saved)
    BY <1>0 DEF Once
<1>2. /\ out \in Seq(Nat) /\ rpos \in Nat /\ (rpc \in ReadingPcs => rfp \in FileIds)
      /\ \A f \in FileIds : base[f] \in Nat /\ size[f] \in Nat
      /\ \A i \in Names : Exists(i) => dir[i] \in FileIds
      /\ ridx \in Names /\ nidx \in Names
    BY <1>0, LayoutFacts DEF LayoutInv
<1>a. ASSUME out' = out PROVE InOrder' /\ \A n : HandedUpTo(n)' <=> HandedUpTo(n)
    BY <1>1, <1>a DEF InOrder, HandedUpTo
<1>b. ASSUME out' = out, rpc \in ReadingPcs, rpc' \in ReadingPcs, UNCHANGED <<rfp, rpos>>
      PROVE  Once'
    <2>1. base'[rfp] = base[rfp]
        BY <1>2, <1>b, FilesGrow
    <2>2. HandedUpTo(base[rfp] + rpos)'
        BY <1>1, <1>a, <1>b, <2>1 DEF HandedUpTo
    <2> QED BY <1>a, <1>b, <2>2 DEF Once, ReadingPcs
<1>c. ASSUME out' = out, rpc \in {"down", "start"}, rpc' \in {"down", "start"},
             UNCHANGED <<saved, savedIn>>, dir' = dir \/ OpenNextForWrite
      PROVE  Once'
    <2>1. CASE saved = NoPosition /\ out = <<>>
        BY <1>a, <1>c, <2>1 DEF Once, ReadingPcs
    <2>2. CASE SavedAtHead /\ HandedUpTo(base[savedIn] + saved)
        <3>1. SavedAtHead' /\ base'[savedIn] = base[savedIn]
            BY <1>c, <2>2, SavedKept
        <3>2. HandedUpTo(base[savedIn] + saved)'
            BY <1>c, <2>2, <3>1 DEF HandedUpTo
        <3> QED BY <1>a, <1>c, <3>1, <3>2 DEF Once, ReadingPcs
    <2> QED BY <1>1, <1>c, <2>1, <2>2
<1>d. ASSUME UNCHANGED <<out, rpc, ridx, rfp, rpos, saved, savedIn>>, dir' = dir \/ OpenNextForWrite
      PROVE  Once'
    <2>1. CASE rpc \in ReadingPcs
        BY <1>b, <1>d, <2>1
    <2>2. CASE rpc = "open"
        <3>1. Exists(ridx) /\ dir[ridx] \in FileIds
            BY <1>0, <1>2, <2>2 DEF LayoutInv, ReaderOnHead
        <3>2. dir'[ridx] = dir[ridx]
            BY <1>0, <1>2, <1>d, <3>1, DetectOpens
        <3>3. base'[dir[ridx]] = base[dir[ridx]]
            BY <3>1, FilesGrow
        <3>4. HandedUpTo(base[dir[ridx]])'
            BY <1>1, <1>d, <2>2, <3>2, <3>3 DEF HandedUpTo
        <3> QED BY <1>a, <1>d, <2>2, <3>4 DEF Once, ReadingPcs
    <2>3. CASE rpc \in {"down", "start"}
        BY <1>c, <1>d, <2>3
    <2> QED BY <1>0, <2>1, <2>2, <2>3 DEF LayoutInv, ReaderOnHead
<1>3. CASE ReadRecord /\ UNCHANGED others
    <2> DEFINE r == base[rfp] + rpos + 1
    <2>1. /\ rpc = "read" /\ rfp \in FileIds /\ r \in Nat
          /\ out' = Append(out, r) /\ rpos' = rpos + 1
          /\ UNCHANGED <<base, rpc, rfp>>
        BY <1>3, <1>0, DetectRecordRead DEF LayoutInv, dirVars
    <2>2. HandedUpTo(base[rfp] + rpos) /\ base[rfp] \in Nat
        BY <1>1, <1>2, <2>1 DEF ReadingPcs
    <2>3. \A k \in 1..Len(out) : out[k] \in Nat /\ out[k] < r
        BY <1>2, <2>2 DEF HandedUpTo
    <2>4. r = base'[rfp'] + rpos'
        BY <1>2, <2>1, <2>2
    <2> HIDE DEF r
    <2>5. /\ Len(out') = Len(out) + 1 /\ Len(out) \in Nat /\ out'[Len(out) + 1] = r
          /\ \A k \in 1..Len(out) : out'[k] = out[k]
        BY <1>2, <2>1
    <2>6. InOrder'
        <3>0. \A n \in 1..Len(out) : out[n] \in Nat
            BY <1>2
        <3> SUFFICES ASSUME NEW j \in 1..Len(out'), NEW k \in 1..Len(out'), j < k
                     PROVE  out'[j] + 1 <= out'[k]
            BY DEF InOrder
        <3>1. j \in 1..Len(out)
            BY <2>5
        <3>2. CASE k = Len(out) + 1
            BY <2>1, <2>3, <2>5, <3>1, <3>2 DEF r
        <3>3. CASE k \in 1..Len(out)
            BY <1>1, <2>5, <3>1, <3>3 DEF InOrder
        <3> QED BY <2>5, <3>2, <3>3
    <2>7. HandedUpTo(base[rfp] + rpos)'
        <3>1. \A k \in 1..Len(out') : out'[k] <= r
            BY <2>1, <2>3, <2>5
        <3> QED BY <2>4, <3>1 DEF HandedUpTo
    <2> QED BY <2>1, <2>4, <2>6, <2>7 DEF Once, ReadingPcs
<1>4. CASE (ReadPart \/ ReadNothing \/ CheckNext \/ NextNameExists \/ Drain) /\ UNCHANGED others
    <2>1. rpc \in ReadingPcs /\ rpc' \in ReadingPcs /\ UNCHANGED <<rfp, rpos, out>>
        <3>1. ~ReadPart
            BY DEF ReadPart
        <3> QED BY <1>0, <1>4, <3>1, DetectDrains
                DEF ReadNothing, CheckNext, NextNameExists, Drain, ReadingPcs, LayoutInv
    <2> QED BY <1>b, <2>1
<1>5. CASE UnlinkRead
    <2>1. /\ rpc = "unlink" /\ rpc' = "open" /\ ridx' = nidx /\ Exists(ridx) /\ Exists(nidx)
          /\ dir[ridx] < Last /\ dir[nidx] = dir[ridx] + 1 /\ dir'[nidx] = dir[nidx]
          /\ UNCHANGED <<base, out>>
        BY <1>0, <1>5, DetectUnlinks
    <2>2. /\ rfp = dir[ridx] /\ rfp \in FileIds /\ dir[nidx] \in FileIds
          /\ HandedUpTo(base[rfp] + rpos) /\ Passed(rfp, rpos)
        BY <1>0, <1>1, <1>2, <2>1 DEF LayoutInv, ReaderOnHead, NoSkip, ReadingPcs
    <2>3. base[rfp] + size[rfp] <= base[dir[nidx]]
        <3>1. rfp < dir[nidx]
            BY <2>1, <2>2 DEF FileIds
        <3> QED BY <1>0, <2>2, <3>1 DEF Written
    <2>4. base[rfp] + rpos <= base[dir[nidx]]
        BY <1>2, <2>2, <2>3 DEF Passed
    <2>5. HandedUpTo(base[dir[nidx]])
        BY <1>2, <2>2, <2>4, HandedMore
    <2>6. HandedUpTo(base[dir[ridx]])'
        BY <2>1, <2>5 DEF HandedUpTo
    <2> QED BY <1>a, <2>1, <2>6 DEF Once, ReadingPcs
<1>6. CASE OpenNextForRead
    <2>1. /\ rpc = "open" /\ rpc' = "read" /\ rpos' = 0 /\ rfp' = dir[ridx] /\ Exists(ridx)
          /\ UNCHANGED <<base, out>>
        BY <1>6 DEF OpenNextForRead, dirVars
    <2>2. base'[rfp'] + rpos' = base[dir[ridx]]
        BY <1>2, <2>1
    <2>3. HandedUpTo(base[rfp] + rpos)'
        BY <1>1, <2>1, <2>2 DEF HandedUpTo
    <2> QED BY <1>a, <2>1, <2>3 DEF Once
<1>7. CASE OpenAtPosition
    <2>1. /\ rpc = "start" /\ rpc' = "read" /\ rfp' \in FileIds
          /\ SavedAtHead => rfp' = savedIn /\ rpos' = saved
          /\ UNCHANGED <<base, out>>
        BY <1>7, PlaceFound DEF PlaceInv, dirVars
    <2>2. CASE out = <<>>
        BY <1>a, <2>1, <2>2 DEF Once, HandedUpTo
    <2>3. CASE SavedAtHead /\ HandedUpTo(base[savedIn] + saved)
        <3>1. HandedUpTo(base[rfp] + rpos)'
            BY <2>1, <2>3 DEF HandedUpTo
        <3> QED BY <1>a, <2>1, <3>1 DEF Once
    <2> QED BY <1>1, <2>1, <2>2, <2>3
<1>8. CASE FrdStops
    <2>1. /\ rpc' = "down" /\ out' = out /\ SavedAtHead' /\ savedIn' = rfp
          /\ rpc \in ReadingPcs /\ rfp \in FileIds /\ base' = base
          /\ saved' \in Nat /\ saved' >= rpos
        BY <1>0, <1>8, PlaceSaved
    <2>2. HandedUpTo(base[rfp] + saved')
        <3>1. base[rfp] + rpos <= base[rfp] + saved' /\ HandedUpTo(base[rfp] + rpos)
            BY <1>1, <1>2, <2>1
        <3> HIDE DEF HandedUpTo
        <3> QED BY <1>2, <2>1, <3>1, HandedMore
    <2>3. HandedUpTo(base[savedIn] + saved)'
        BY <2>1, <2>2 DEF HandedUpTo
    <2> QED BY <1>a, <2>1, <2>3 DEF Once, ReadingPcs
<1>9. CASE FrdIsKilled
    BY <1>0, <1>9 DEF FrdIsKilled
<1>10. CASE FrdStarts \/ FirstFileMissing
    <2>1. /\ rpc \in {"down", "start"} /\ rpc' \in {"down", "start"}
          /\ UNCHANGED <<dir, saved, savedIn, out>>
        BY <1>10 DEF FrdStarts, FirstFileMissing, dirVars, historyVars
    <2> QED BY <1>c, <2>1
<1>11. CASE DumpBegins \/ DumpGoesOn \/ DumpEnds
    BY <1>0, <1>11 DEF DumpBegins, DumpGoesOn, DumpEnds
<1>12. CASE (WriteChunk \/ NextNameFree \/ OpenNextForWrite) /\ UNCHANGED others
    <2>1. UNCHANGED <<out, rpc, ridx, rfp, rpos, saved, savedIn>>
        BY <1>12 DEF WriteChunk, NextNameFree, OpenNextForWrite, readerVars, others, historyVars
    <2>2. dir' = dir \/ OpenNextForWrite
        BY <1>12 DEF WriteChunk, NextNameFree, dirVars
    <2> QED BY <1>d, <2>1, <2>2
<1>13. CASE LockAndWrite \/ Ask \/ GiveUp \/ PcifStops \/ PcifStarts
    <2>1. UNCHANGED <<dir, out, rpc, ridx, rfp, rpos, saved, savedIn>>
        BY <1>13 DEF LockAndWrite, Receive, Ask, GiveUp, PcifStops, PcifStarts, vars, dirVars,
                     readerVars, historyVars
    <2> QED BY <1>d, <2>1
<1> QED BY <1>3, <1>4, <1>5, <1>6, <1>7, <1>8, <1>9, <1>10, <1>11, <1>12, <1>13
        DEF DetectSteps, SteadyStep, WriterStep, ReaderStep, FrdRestarts, others

LEMMA PlaceKept ==
    ASSUME Ordered, Chunks = 1, PlaceInv, LayoutInv', [DetectNext]_detectVars, ~Astray'
    PROVE  PlaceInv'
<1>1. CASE UNCHANGED detectVars
    BY <1>1 DEF PlaceInv, Written, NoSkip, Once, SavedAtHead, Passed, HandedUpTo, InOrder,
                Delivered, IsHead, Exists, FileIds, detectVars, vars, dirVars, writerVars,
                readerVars, controlVars, dumpVars, countVars, historyVars
<1>2. CASE DetectNext
    <2>1. DetectSteps /\ RoomToOpen
        BY <1>2, StepsAstray DEF PlaceInv, LayoutInv
    <2> QED BY <2>1, WrittenStep, NoSkipStep, OnceStep DEF PlaceInv
<1> QED BY <1>1, <1>2

LEMMA PlaceInvariant ==
    ASSUME Ordered, Chunks = 1 PROVE DetectSpec => [](Astray \/ PlaceInv)
<1>1. /\ Astray \/ PlaceInv
      /\ DetectTypes /\ (Astray \/ LayoutInv)' /\ [DetectNext]_detectVars
      => (Astray \/ PlaceInv)'
    BY PlaceKept, StaysAstray
<1> QED BY PlaceInit, LayoutInvariant, DetectTypesHold, <1>1, PTL DEF DetectSpec

(* frd_SetLastPosition and frd_GetLastPosition: the reader begins where    *)
(* all that lies before was handed over or in hand when the signal came,   *)
(* unless a start emptied a file or a dump was cut short.                  *)
THEOREM DetectNothingSkipped == ASSUME Ordered, Chunks = 1 PROVE DetectSpec => []NothingSkipped
<1>1. Astray \/ PlaceInv => NothingSkipped
    BY DEF PlaceInv, NoSkip, Passed, NothingSkipped, ReadingPcs, Astray
<1> QED BY PlaceInvariant, <1>1, PTL

(* A dump that was cut short is one that was begun.                        *)
CutCounted == dumping \/ cut => dumps > 0

LEMMA CutCountedStep ==
    ASSUME DetectTypes, CutCounted, [DetectNext]_detectVars
    PROVE  CutCounted'
<1>0. dumps \in Nat /\ dumping \in BOOLEAN /\ cut \in BOOLEAN
    BY DetectFacts
<1>1. CASE UNCHANGED <<dumping, cut, dumps>>
    BY <1>1 DEF CutCounted
<1>2. CASE PcifWrites \/ FrdReads
    <2>1. UNCHANGED <<dumping, cut, dumps>>
        BY <1>2, SteadySteps DEF SteadyStep, others, controlVars, dumpVars, countVars
    <2> QED BY <1>1, <2>1
<1>3. CASE Ask \/ LockAndWrite \/ GiveUp \/ PcifStops \/ PcifStarts \/ FrdRestarts \/ FrdStops
           \/ FrdIsKilled
    <2>1. UNCHANGED <<dumping, cut, dumps>>
        BY <1>3 DEF Ask, LockAndWrite, GiveUp, PcifStops, PcifStarts, FrdRestarts, FrdStarts,
                    OpenAtPosition, FirstFileMissing, FrdStops, FrdIsKilled, FrdEnds,
                    controlVars, dumpVars, countVars, historyVars
    <2> QED BY <1>1, <2>1
<1>4. CASE DumpBegins
    <2>1. dumps' = dumps + 1
        BY <1>4 DEF DumpBegins
    <2> QED BY <1>0, <2>1 DEF CutCounted
<1>5. CASE DumpStep \/ DumpSegv \/ DumpStops
    <2>1. dumping /\ dumps' = dumps
        BY <1>5 DEF DumpStep, DumpOpens, DumpRecord, DumpUnlinks, DumpSegv, DumpStops, DumpEnds,
                    RemovesDumped, DumpInFile, countVars
    <2> QED BY <2>1 DEF CutCounted
<1>6. CASE UNCHANGED detectVars
    BY <1>1, <1>6 DEF detectVars, controlVars, dumpVars, countVars, historyVars
<1> QED BY <1>2, <1>3, <1>4, <1>5, <1>6 DEF DetectNext, PcifStep, FrdStep

(* ... and as long as each signal found a stream and nothing was dumped,   *)
(* no record is handed over a second time.                                 *)
THEOREM DetectNothingDoubled == ASSUME Ordered, Chunks = 1 PROVE DetectSpec => []NothingDoubled
<1>1. DetectInit => CutCounted
    BY DEF DetectInit, CutCounted
<1>2. DetectTypes /\ CutCounted /\ [DetectNext]_detectVars => CutCounted'
    BY CutCountedStep
<1>3. DetectSpec => []CutCounted
    BY <1>1, <1>2, DetectTypesHold, PTL DEF DetectSpec
<1>4. (Astray \/ PlaceInv) /\ CutCounted => NothingDoubled
    BY DEF PlaceInv, Once, NothingDoubled, Astray, CutCounted
<1> QED BY PlaceInvariant, <1>3, <1>4, PTL
==============================================================================
