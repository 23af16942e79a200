-------------------------- MODULE PolicySpool_proofs --------------------------
(***************************************************************************)
(* What the spool of policy and service data promises while its writer and *)
(* its reader stop at any step and start again.  It promises it as long as *)
(* the names have not started over: taking the highest name for the last   *)
(* file (fw_GetLastFileIndex, frd_GetLastFileIndex) is right only then.    *)
(***************************************************************************)
EXTENDS PolicySpool, SpoolRing_proofs

(* Every record that fills a file and every start of the writer may take a *)
(* name; one is left, for the reader on the last would look for the first. *)
FewFiles == MaxRec + MaxWriterStarts + 1 < MaxIndex

Last == Len(base)    \* the file created last

(* A file has its own number for a name, and the newest one keeps it.      *)
OwnNames ==
    /\ \A i \in Names : dir[i] \in {NoFile, i}
    /\ Last > 0 => dir[Last] = Last
    /\ nrec <= MaxRec
    /\ Last <= nrec + wstops + (IF wpc = "recv" THEN 1 ELSE 0)

WriterAtEnd ==
    /\ wfp # NoFile => wfp = Last
    /\ wpc \in {"recv", "write"} => widx = Last
    /\ wpc \in {"wait", "open"} => widx = Last + 1
    /\ wpc = "down" => wfp = NoFile

(* The files hold the records one after the other; one that the writer was *)
(* stopped in is missing.                                                  *)
Written ==
    /\ \A f \in FileIds : base[f] + size[f] <= nrec
    /\ \A f, g \in FileIds : f < g => base[f] + size[f] <= base[g]
    /\ wfp # NoFile => base[wfp] + size[wfp] + wleft = nrec
    /\ wleft = IF wpc = "write" THEN 1 ELSE 0
    /\ since + wleft <= nrec
    /\ \A f \in FileIds : size[f] <= MaxSize
    /\ wpc \in {"recv", "write"} => size[wfp] < MaxSize

ReaderOnFile ==
    /\ rpc \in ReadingPcs =>
           /\ rfp = ridx /\ nidx = ridx + 1 /\ dir[ridx] = ridx
           /\ rpos <= size[rfp]
    /\ rpc = "open" => ridx = nidx /\ dir[ridx] = ridx
    /\ rpc \in {"clear", "start"} => ridx = 1 \/ ridx \in FileIds
    /\ rpc = "start" => nidx = ridx + 1
    /\ rpc \in {"drain", "unlink"} => dir[nidx] = nidx
    /\ rpc \in {"check", "wait", "drain"} => reof

(* What lies before the reader's start is behind where it reads, unless it *)
(* is at the end of a file that nobody writes any more.                    *)
BehindStart ==
    /\ rpc \in ReadingPcs =>
           base[rfp] + rpos >= since \/ (rpos = size[rfp] /\ rfp # wfp)
    /\ rpc \in ReadingPcs \cup {"start"} => \A f \in FileIds : f > ridx => base[f] >= since
    /\ rpc = "open" => \A f \in FileIds : f >= ridx => base[f] >= since

(* What was handed over last lies before where the reader is, or before    *)
(* the end of the newest file, where it starts.                            *)
HandedBefore ==
    /\ rpc \in ReadingPcs => Fifo!Newest <= base[rfp] + rpos
    /\ rpc = "open" => Fifo!Newest <= base[ridx]
    /\ rpc = "start" /\ ridx \in FileIds => Fifo!Newest <= base[ridx] + size[ridx]
    /\ IF Last = 0 THEN Fifo!Newest = 0 ELSE Fifo!Newest <= base[Last] + size[Last]

PolicyInv ==
    /\ PolicyTypeOK /\ OwnNames /\ WriterAtEnd /\ Written
    /\ ReaderOnFile /\ BehindStart /\ HandedBefore

(* The steps of either side.                                               *)
WriterSide ==
    \/ (Receive \/ WriterStep) /\ UNCHANGED <<stops, since>>
    \/ WriterStops \/ WriterStarts

ReaderSide ==
    \/ ReaderStep /\ UNCHANGED <<stops, since>>
    \/ ReaderStops \/ RestartReader

------------------------------------------------------------------------------
(* Types, with the names started over or not.                              *)

LEMMA LastNameTypes ==
    ASSUME TypeOK
    PROVE  LastName \in Nat /\ LastName <= MaxIndex /\ LastNameForRead \in Names
<1> DEFINE Used == {i \in Names : Exists(i)}
           Highest(i) == i \in Used /\ \A j \in Used : j <= i
<1>1. MaxIndex \in Nat /\ MaxIndex >= 2 /\ Names = 1..MaxIndex /\ Used \in SUBSET (0..MaxIndex)
    BY SpoolAssumption DEF Names
<1>2. CASE Used = {}
    BY <1>1, <1>2 DEF LastName, LastNameForRead
<1>3. CASE Used # {}
    <2> HIDE DEF Used
    <2>1. PICK x \in Used : \A j \in Used : j <= x
        BY <1>1, <1>3, GreatestOf
    <2> USE DEF Used
    <2> DEFINE last == CHOOSE i \in Names : Exists(i) /\ \A j \in Names : Exists(j) => j <= i
    <2>2. \E i \in Names : Exists(i) /\ \A j \in Names : Exists(j) => j <= i
        BY <2>1
    <2>3. last \in Names
        BY <2>2
    <2>4. LastName = last
        BY <1>3 DEF LastName
    <2> HIDE DEF last
    <2> QED BY <1>1, <2>3, <2>4 DEF LastNameForRead
<1> QED BY <1>2, <1>3

PolicyTypes == PolicyTypeOK /\ AtEof /\ (wpc = "write" => nrec > 0)

LEMMA PolicyTypesInit == PolicyInit => PolicyTypes
<1> SUFFICES ASSUME PolicyInit PROVE PolicyTypes
    OBVIOUS
<1>1. 1 \in Names /\ MaxIndex \in Nat
    BY SpoolAssumption DEF Names
<1>2. base \in Seq(Nat) /\ size \in Seq(Nat) /\ Len(size) = Len(base) /\ out \in Seq(Nat)
    BY DEF PolicyInit
<1>3. dir \in [Names -> Nat] /\ \A i \in Names : dir[i] \in FileIds \cup {NoFile}
    BY DEF PolicyInit, NoFile
<1>4. /\ nrec = 0 /\ wpc = "down" /\ widx = 1 /\ wfp = NoFile /\ wleft = 0
      /\ rpc = "down" /\ ridx = 1 /\ nidx = 1 /\ rfp = NoFile /\ rpos = 0
      /\ reof \in BOOLEAN
    BY DEF PolicyInit
<1>5. TypeOK
    BY <1>1, <1>2, <1>3, <1>4, SpoolAssumption DEF TypeOK, WriterPcs, ReaderPcs
<1> QED BY <1>4, <1>5, PolicyAssumption DEF PolicyInit, PolicyTypes, PolicyTypeOK, AtEof

LEMMA PolicyTypesStep == PolicyTypes /\ [PolicyNext]_policyVars => PolicyTypes'
<1> SUFFICES ASSUME PolicyTypes, [PolicyNext]_policyVars PROVE PolicyTypes'
    OBVIOUS
<1>0. /\ TypeOK /\ AtEof /\ nrec \in Nat /\ (wpc = "write" => nrec > 0)
      /\ wstops \in 0..MaxWriterStarts /\ rstops \in 0..MaxReaderStarts /\ since \in 0..nrec
      /\ MaxWriterStarts \in Nat /\ MaxReaderStarts \in Nat
    BY PolicyAssumption DEF PolicyTypes, PolicyTypeOK, TypeOK
<1>1. CASE Next /\ UNCHANGED <<stops, since>>
    <2>1. TypeOK' /\ AtEof'
        BY <1>0, <1>1, TypeStep, AtEofStep DEF SpoolTypes
    <2>2. nrec' \in {nrec, nrec + 1} /\ (wpc' = "write" => nrec' > 0)
        BY <1>0, <1>1 DEF Next, Receive, WriterStep, WriteChunk, NextNameFree, OpenNextForWrite,
                          ReaderStep, ReadRecord, ReadPart, ReadNothing, CheckNext,
                          NextNameExists, Drain, UnlinkRead, OpenNextForRead, writerVars
    <2>3. since' \in 0..nrec' /\ UNCHANGED <<wstops, rstops>>
        BY <1>0, <1>1, <2>2 DEF stops
    <2> QED BY <1>0, <2>1, <2>2, <2>3 DEF PolicyTypes, PolicyTypeOK
<1>2. CASE WriterStops
    <2>1. wstops' \in 0..MaxWriterStarts /\ wleft' \in 0..Chunks
        BY <1>0, <1>2, SpoolAssumption DEF WriterStops
    <2> QED BY <1>0, <1>2, <2>1
            DEF WriterStops, PolicyTypes, PolicyTypeOK, TypeOK, AtEof, WriterPcs, FileIds,
                dirVars, readerVars
<1>3. CASE WriterStarts
    <2>1. widx' \in Names
        BY <1>0, <1>3, LastNameTypes, SpoolAssumption DEF WriterStarts, Names
    <2> QED BY <1>0, <1>3, <2>1
            DEF WriterStarts, PolicyTypes, PolicyTypeOK, TypeOK, AtEof, WriterPcs, FileIds,
                dirVars, readerVars, stops
<1>4. CASE ReaderStops
    <2>1. rstops' \in 0..MaxReaderStarts
        BY <1>0, <1>4 DEF ReaderStops
    <2> QED BY <1>0, <1>4, <2>1
            DEF ReaderStops, PolicyTypes, PolicyTypeOK, TypeOK, AtEof, ReaderPcs, FileIds,
                dirVars, writerVars
<1>5. CASE ReaderStarts
    <2>1. ridx' \in Names /\ since' \in 0..nrec
        BY <1>0, <1>5, LastNameTypes DEF ReaderStarts
    <2> QED BY <1>0, <1>5, <2>1
            DEF ReaderStarts, PolicyTypes, PolicyTypeOK, TypeOK, AtEof, ReaderPcs, FileIds,
                dirVars, writerVars, stops
<1>6. CASE ClearOldFiles
    <2>1. dir' \in [Names -> Nat] /\ \A i \in Names : dir'[i] \in FileIds \cup {NoFile}
        BY <1>0, <1>6 DEF ClearOldFiles, TypeOK, NoFile
    <2> QED BY <1>0, <1>6, <2>1
            DEF ClearOldFiles, PolicyTypes, PolicyTypeOK, TypeOK, AtEof, ReaderPcs, FileIds,
                writerVars, stops
<1>7. CASE NameFile
    <2>1. ridx' \in Names /\ nidx' \in Names
        BY <1>0, <1>7, LastNameTypes, NextNameFacts DEF NameFile
    <2> QED BY <1>0, <1>7, <2>1
            DEF NameFile, PolicyTypes, PolicyTypeOK, TypeOK, AtEof, ReaderPcs, FileIds,
                dirVars, writerVars, stops
<1>8. CASE OpenAtEnd
    <2>1. rfp' \in FileIds /\ rfp' # NoFile /\ rpos' \in Nat
        <3>1. /\ dir[ridx] \in FileIds /\ dir[ridx] # NoFile
              /\ rfp' = dir[ridx] /\ rpos' = size[dir[ridx]]
            BY <1>0, <1>8 DEF OpenAtEnd, Exists, TypeOK
        <3>2. size \in Seq(Nat) /\ FileIds = 1..Len(size)
            BY <1>0 DEF TypeOK, FileIds
        <3>3. size[dir[ridx]] \in Nat
            BY <3>1, <3>2
        <3> QED BY <3>1, <3>3
    <2> QED BY <1>0, <1>8, <2>1
            DEF OpenAtEnd, PolicyTypes, PolicyTypeOK, TypeOK, AtEof, ReaderPcs, FileIds,
                dirVars, writerVars, stops
<1>9. CASE OpenFails
    BY <1>0, <1>9 DEF OpenFails, PolicyTypes, PolicyTypeOK, TypeOK, AtEof, ReaderPcs, FileIds,
                      dirVars, writerVars, stops
<1>10. CASE UNCHANGED policyVars
    BY <1>0, <1>10
       DEF policyVars, vars, dirVars, writerVars, readerVars, stops, PolicyTypes,
           PolicyTypeOK, TypeOK, AtEof, FileIds
<1> QED BY <1>1, <1>2, <1>3, <1>4, <1>5, <1>6, <1>7, <1>8, <1>9, <1>10
        DEF PolicyNext, RestartReader

LEMMA PolicyTypesHold == PolicySpec => []PolicyTypes
BY PolicyTypesInit, PolicyTypesStep, PTL DEF PolicySpec

(* The two processes, stopped and started at any step, keep their indices  *)
(* among the names, their files among those there are, and the history of  *)
(* the reader's start within what was received.                            *)
THEOREM PolicyTypeCorrect == PolicySpec => []PolicyTypeOK
<1>1. PolicyTypes => PolicyTypeOK
    BY DEF PolicyTypes
<1> QED BY PolicyTypesHold, <1>1, PTL

------------------------------------------------------------------------------
LEMMA PolicyInitInv == PolicyInit => PolicyInv
<1> SUFFICES ASSUME PolicyInit PROVE PolicyInv
    OBVIOUS
<1>1. /\ base = <<>> /\ size = <<>> /\ Last = 0 /\ FileIds = {} /\ out = <<>>
      /\ dir = [i \in Names |-> NoFile]
    BY DEF PolicyInit, FileIds, Last
<1>4. PolicyTypeOK
    BY PolicyTypesInit DEF PolicyTypes
<1>5. OwnNames /\ WriterAtEnd
    BY <1>1, SpoolAssumption, PolicyAssumption DEF PolicyInit, OwnNames, WriterAtEnd, NoFile
<1>6. Written
    BY <1>1, SpoolAssumption DEF PolicyInit, Written
<1>7. ReaderOnFile /\ BehindStart
    BY DEF PolicyInit, ReaderOnFile, BehindStart, ReadingPcs
<1>8. HandedBefore
    BY <1>1 DEF PolicyInit, HandedBefore, ReadingPcs, Fifo!Newest
<1> QED BY <1>4, <1>5, <1>6, <1>7, <1>8 DEF PolicyInv

(* What the steps below use of the types and places.                       *)
LEMMA PolicyFacts ==
    ASSUME FewFiles, PolicyInv
    PROVE  /\ Chunks = 1 /\ MaxIndex \in Nat /\ MaxSize \in Nat \ {0}
           /\ base \in Seq(Nat) /\ size \in Seq(Nat) /\ out \in Seq(Nat)
           /\ Last \in Nat /\ Len(base) = Last /\ Len(size) = Last
           /\ Last < MaxIndex /\ (wpc # "recv" => Last + 1 < MaxIndex)
           /\ FileIds = 1..Last /\ Names = 1..MaxIndex
           /\ dir \in [Names -> Nat] /\ ridx \in Names /\ nidx \in Names
           /\ \A f \in FileIds : base[f] \in Nat /\ size[f] \in Nat
           /\ nrec \in Nat /\ since \in Nat /\ rpos \in Nat /\ wleft \in {0, 1}
           /\ Fifo!Newest \in Nat
           /\ wfp # NoFile => wfp = Last /\ wfp \in FileIds
           /\ wpc \in {"recv", "write", "wait"} => wfp # NoFile
           /\ rpc \in ReadingPcs => rfp = ridx /\ rfp \in FileIds
           /\ rpc = "open" => ridx \in FileIds
<1>1. TypeOK /\ wstops \in 0..MaxWriterStarts /\ since \in 0..nrec
    BY DEF PolicyInv, PolicyTypeOK
<1>2. /\ base \in Seq(Nat) /\ size \in Seq(Nat) /\ out \in Seq(Nat) /\ Len(size) = Len(base)
      /\ dir \in [Names -> Nat] /\ ridx \in Names /\ nidx \in Names /\ nrec \in Nat
      /\ rpos \in Nat
      /\ wfp \in FileIds \cup {NoFile} /\ (wpc \in {"recv", "write", "wait"} => wfp # NoFile)
      /\ \A i \in Names : dir[i] \in FileIds \cup {NoFile}
    BY <1>1 DEF TypeOK
<1>3. Last \in Nat /\ FileIds = 1..Last /\ Len(size) = Last /\ Len(base) = Last
    BY <1>2 DEF Last, FileIds
<1>4. \A f \in FileIds : base[f] \in Nat /\ size[f] \in Nat
    BY <1>2, <1>3
<1>5. Last < MaxIndex /\ (wpc # "recv" => Last + 1 < MaxIndex)
    <2>1. /\ nrec <= MaxRec /\ wstops \in Nat /\ wstops <= MaxWriterStarts
          /\ Last <= nrec + wstops + (IF wpc = "recv" THEN 1 ELSE 0)
        BY <1>1, PolicyAssumption DEF PolicyInv, OwnNames
    <2> QED BY <1>2, <1>3, <2>1, SpoolAssumption, PolicyAssumption DEF FewFiles
<1>6. Fifo!Newest \in Nat
    BY <1>2 DEF Fifo!Newest
<1>7. wleft \in {0, 1} /\ since \in Nat
    BY <1>1, <1>2 DEF PolicyInv, Written
<1>8. wfp # NoFile => wfp = Last /\ wfp \in FileIds
    BY <1>2 DEF PolicyInv, WriterAtEnd
<1>9. ASSUME rpc \in ReadingPcs \cup {"open"} PROVE ridx \in FileIds
    <2>1. dir[ridx] = ridx /\ ridx # NoFile
        BY <1>2, <1>9 DEF PolicyInv, ReaderOnFile, Names, NoFile
    <2> QED BY <1>2, <2>1
<1>10. rpc \in ReadingPcs => rfp = ridx /\ rfp \in FileIds
    BY <1>9 DEF PolicyInv, ReaderOnFile
<1> QED BY <1>2, <1>3, <1>4, <1>5, <1>6, <1>7, <1>8, <1>9, <1>10,
           SpoolAssumption, PolicyAssumption DEF Names

(* The highest name in use is the newest file's.                           *)
LEMMA LastNameIsNewest ==
    ASSUME FewFiles, PolicyInv
    PROVE  /\ LastName = Last
           /\ LastNameForRead = IF Last = 0 THEN 1 ELSE Last
           /\ \A i \in Names : Exists(i) => i \in FileIds /\ i <= Last
           /\ Last > 0 => Last \in Names /\ Exists(Last)
<1>1. /\ Last \in Nat /\ Last < MaxIndex /\ FileIds = 1..Last /\ Names = 1..MaxIndex
      /\ MaxIndex \in Nat
    BY PolicyFacts
<1>2. \A i \in Names : Exists(i) => i \in FileIds
    BY DEF PolicyInv, PolicyTypeOK, TypeOK, OwnNames, Exists
<1>3. Last > 0 => Last \in Names /\ Exists(Last)
    BY <1>1 DEF PolicyInv, OwnNames, Exists, NoFile
<1>4. CASE Last = 0
    <2>1. ~ \E i \in Names : Exists(i)
        BY <1>1, <1>2, <1>4
    <2> QED BY <1>1, <1>2, <1>4, <2>1 DEF LastName, LastNameForRead
<1>5. CASE Last # 0
    <2> DEFINE Highest(i) == Exists(i) /\ \A j \in Names : Exists(j) => j <= i
    <2>1. Last \in Names /\ Highest(Last)
        BY <1>1, <1>2, <1>3, <1>5
    <2>2. \A i \in Names : Highest(i) => i = Last
        BY <1>1, <1>2, <2>1
    <2> HIDE DEF Highest
    <2>3. (CHOOSE i \in Names : Highest(i)) = Last
        BY <2>1, <2>2
    <2>4. \E i \in Names : Exists(i)
        BY <1>1, <1>3, <1>5
    <2>5. LastName = Last
        BY <2>3, <2>4 DEF LastName, Highest
    <2> QED BY <1>1, <1>2, <1>3, <1>5, <2>5 DEF LastNameForRead
<1> QED BY <1>4, <1>5

(* fopen "wb" of the writer finds no file of the name.                     *)
LEMMA PolicyOpenAppends ==
    ASSUME FewFiles, PolicyInv, OpenNextForWrite
    PROVE  /\ wpc = "open" /\ wpc' = "recv" /\ wleft = 0
           /\ widx = Last + 1 /\ widx \in Names /\ ~Exists(widx)
           /\ base' = Append(base, nrec) /\ size' = Append(size, 0)
           /\ dir' = [dir EXCEPT ![Last + 1] = Last + 1]
           /\ wfp' = Last + 1 /\ Last' = Last + 1
           /\ base'[Last + 1] = nrec /\ size'[Last + 1] = 0
           /\ \A f \in FileIds : base'[f] = base[f] /\ size'[f] = size[f]
           /\ \A i \in Names : i # Last + 1 => dir'[i] = dir[i]
           /\ dir'[Last + 1] = Last + 1
           /\ FileIds' = 1..(Last + 1)
           /\ UNCHANGED <<nrec, widx, wleft, readerVars>>
<1>1. /\ base \in Seq(Nat) /\ size \in Seq(Nat) /\ Last \in Nat /\ Len(size) = Last
      /\ FileIds = 1..Last /\ Names = 1..MaxIndex /\ MaxIndex \in Nat
      /\ nrec \in Nat /\ dir \in [Names -> Nat] /\ Len(base) = Last
    BY PolicyFacts
<1>2. wpc = "open" /\ wpc' = "recv" /\ UNCHANGED <<nrec, widx, wleft, readerVars>>
    BY DEF OpenNextForWrite
<1>3. wleft = 0 /\ widx = Last + 1 /\ Last + 1 < MaxIndex
    BY <1>2, PolicyFacts DEF PolicyInv, Written, WriterAtEnd
<1>4. widx \in Names /\ ~Exists(widx)
    BY <1>1, <1>3, LastNameIsNewest
<1>5. /\ base' = Append(base, nrec) /\ size' = Append(size, 0) /\ wfp' = Last + 1
      /\ dir' = [dir EXCEPT ![Last + 1] = Last + 1]
    BY <1>3, <1>4 DEF OpenNextForWrite, OpenForWrite, Last
<1>6. Last' = Last + 1 /\ FileIds' = 1..(Last + 1)
    BY <1>1, <1>5 DEF Last, FileIds
<1>7. /\ base'[Last + 1] = nrec /\ size'[Last + 1] = 0
      /\ \A f \in FileIds : base'[f] = base[f] /\ size'[f] = size[f]
    BY <1>1, <1>5
<1>8. dir'[Last + 1] = Last + 1 /\ \A i \in Names : i # Last + 1 => dir'[i] = dir[i]
    BY <1>1, <1>3, <1>4, <1>5
<1> QED BY <1>2, <1>3, <1>4, <1>5, <1>6, <1>7, <1>8

(* A record takes one write(2).                                            *)
LEMMA PolicyWrites ==
    ASSUME FewFiles, PolicyInv, WriteChunk
    PROVE  /\ wpc = "write" /\ wleft = 1 /\ wleft' = 0 /\ wfp = Last /\ wfp \in FileIds
           /\ wpc' = IF size[wfp] + 1 >= MaxSize THEN "wait" ELSE "recv"
           /\ widx' = IF size[wfp] + 1 >= MaxSize THEN Last + 1 ELSE Last
           /\ size' = [size EXCEPT ![wfp] = size[wfp] + 1]
           /\ size'[wfp] = size[wfp] + 1 /\ size[wfp] < MaxSize
           /\ \A f \in FileIds : f # wfp => size'[f] = size[f]
           /\ FileIds' = FileIds /\ Last' = Last
           /\ UNCHANGED <<dir, base, nrec, wfp, readerVars>>
<1>1. wpc = "write" /\ UNCHANGED <<dir, base, nrec, wfp, readerVars>>
      /\ size' = [size EXCEPT ![wfp] = size[wfp] + 1] /\ wleft' = wleft - 1
    BY DEF WriteChunk
<1>2. wleft = 1 /\ wfp = Last /\ wfp \in FileIds /\ widx = Last /\ size[wfp] < MaxSize
    BY <1>1, PolicyFacts DEF PolicyInv, Written, WriterAtEnd
<1>3. NextName(Last) = Last + 1
    BY <1>1, PolicyFacts DEF NextName
<1>4. /\ wpc' = IF size[wfp] + 1 >= MaxSize THEN "wait" ELSE "recv"
      /\ widx' = IF size[wfp] + 1 >= MaxSize THEN Last + 1 ELSE Last
    BY <1>2, <1>3 DEF WriteChunk
<1>5. size'[wfp] = size[wfp] + 1 /\ \A f \in FileIds : f # wfp => size'[f] = size[f]
    BY <1>1, <1>2, PolicyFacts
<1>6. FileIds' = FileIds /\ Last' = Last
    BY <1>1 DEF FileIds, Last
<1> QED BY <1>1, <1>2, <1>4, <1>5, <1>6

(* What a step of the writer's side leaves to the reader.                  *)
LEMMA WriterFrame ==
    ASSUME FewFiles, PolicyInv, WriterSide
    PROVE  /\ UNCHANGED <<readerVars, since, rstops>>
           /\ Last' \in {Last, Last + 1} /\ FileIds' = 1..Last'
           /\ \A f \in FileIds : /\ base'[f] = base[f]
                                 /\ size'[f] >= size[f] /\ size'[f] \in Nat
                                 /\ f # wfp => size'[f] = size[f]
           /\ Last' = Last + 1 => /\ base'[Last + 1] = nrec /\ size'[Last + 1] = 0
                                  /\ wfp' = Last + 1
           /\ \A i \in Names : dir[i] = i => dir'[i] = i
           /\ wfp' = wfp \/ wfp' = NoFile \/ wfp' = Last + 1
<1>1. /\ Last \in Nat /\ FileIds = 1..Last
      /\ \A f \in FileIds : base[f] \in Nat /\ size[f] \in Nat
    BY PolicyFacts
<1>2. CASE WriteChunk /\ UNCHANGED <<stops, since>>
    BY <1>1, <1>2, PolicyWrites DEF stops
<1>3. CASE OpenNextForWrite /\ UNCHANGED <<stops, since>>
    <2>1. \A i \in Names : dir[i] = i => dir'[i] = i
        BY <1>3, PolicyOpenAppends
    <2> QED BY <1>1, <1>3, <2>1, PolicyOpenAppends DEF stops
<1>4. CASE (Receive \/ NextNameFree) /\ UNCHANGED <<stops, since>>
    <2>1. UNCHANGED <<dir, base, size, wfp, readerVars, since, rstops>>
        BY <1>4 DEF Receive, NextNameFree, dirVars, stops
    <2> QED BY <1>1, <2>1 DEF Last, FileIds
<1>5. CASE WriterStops \/ WriterStarts
    <2>1. /\ UNCHANGED <<dir, base, size, readerVars, since, rstops>>
          /\ wfp' = wfp \/ wfp' = NoFile
        BY <1>5 DEF WriterStops, WriterStarts, dirVars, stops
    <2> QED BY <1>1, <2>1 DEF Last, FileIds
<1> QED BY <1>2, <1>3, <1>4, <1>5 DEF WriterSide, WriterStep

LEMMA ReaderFrame ==
    ASSUME ReaderSide
    PROVE  /\ UNCHANGED <<base, size, writerVars, wstops>>
           /\ FileIds' = FileIds /\ Last' = Last
<1>1. UNCHANGED <<base, size, writerVars, wstops>>
    BY DEF ReaderSide, ReaderStep, RestartReader, ReadRecord, ReadPart, ReadNothing,
           CheckNext, NextNameExists, Drain, UnlinkRead, OpenNextForRead, ReaderStops,
           ReaderStarts, ClearOldFiles, NameFile, OpenAtEnd, OpenFails, dirVars, stops
<1> QED BY <1>1 DEF FileIds, Last

------------------------------------------------------------------------------
(* What frd_FileRead takes for a record is one.                            *)
LEMMA PolicyRecordRead ==
    ASSUME FewFiles, PolicyInv, ReadRecord
    PROVE  LET r == base[rfp] + rpos + 1
           IN  /\ rpc = "read" /\ rfp = ridx /\ rfp \in FileIds
               /\ out' = Append(out, r) /\ r \in Nat /\ rpos' = rpos + 1
               /\ rpos < size[rfp] /\ r > since /\ r > Fifo!Newest /\ r <= nrec
               /\ UNCHANGED <<dirVars, writerVars, rpc, ridx, nidx, rfp, reof>>
<1>1. rpc = "read" /\ rfp = ridx /\ rfp \in FileIds
    BY PolicyFacts DEF ReadRecord, ReadingPcs
<1>2. /\ rpos \in Nat /\ size[rfp] \in Nat /\ base[rfp] \in Nat /\ Chunks = 1
      /\ since \in Nat /\ nrec \in Nat /\ Fifo!Newest \in Nat
    BY <1>1, PolicyFacts
<1>3. rpos < size[rfp]
    BY <1>2 DEF ReadRecord, Available
<1>4. BlockAt(rpos) = base[rfp] + rpos + 1
    BY <1>2 DEF BlockAt
<1>5. base[rfp] + rpos >= since
    BY <1>1, <1>2, <1>3 DEF PolicyInv, BehindStart, ReadingPcs
<1>6. Fifo!Newest <= base[rfp] + rpos
    BY <1>1 DEF PolicyInv, HandedBefore, ReadingPcs
<1>7. base[rfp] + size[rfp] <= nrec
    BY <1>1 DEF PolicyInv, Written
<1>8. /\ base[rfp] + rpos + 1 \in Nat /\ base[rfp] + rpos + 1 > since
      /\ base[rfp] + rpos + 1 > Fifo!Newest /\ base[rfp] + rpos + 1 <= nrec
    BY <1>2, <1>3, <1>5, <1>6, <1>7
<1> QED BY <1>1, <1>2, <1>3, <1>4, <1>8 DEF ReadRecord

LEMMA NoPartIsRead == PolicyInv => ~ReadPart
BY PolicyAssumption DEF ReadPart

LEMMA PolicyDrains ==
    ASSUME PolicyInv, Drain
    PROVE  /\ rpc = "drain" /\ rpc' = "unlink"
           /\ UNCHANGED <<dirVars, writerVars, ridx, nidx, rfp, rpos, reof, out>>
<1>1. reof
    BY DEF PolicyInv, ReaderOnFile, Drain
<1> QED BY <1>1, Zenon DEF Drain

------------------------------------------------------------------------------
(* The writer's side.                                                      *)

LEMMA WriterKeepsNames ==
    ASSUME FewFiles, PolicyInv, WriterSide
    PROVE  OwnNames' /\ WriterAtEnd'
<1>0. /\ Last \in Nat /\ nrec \in Nat /\ Names = 1..MaxIndex /\ Last < MaxIndex
      /\ wstops \in Nat /\ nrec <= MaxRec
      /\ Last <= nrec + wstops + (IF wpc = "recv" THEN 1 ELSE 0)
      /\ \A i \in Names : dir[i] \in {NoFile, i}
      /\ Last > 0 => dir[Last] = Last
    BY PolicyFacts, PolicyAssumption DEF PolicyInv, PolicyTypeOK, OwnNames
<1>1. CASE WriteChunk /\ UNCHANGED <<stops, since>>
    <2>1. /\ wpc = "write" /\ wfp = Last
          /\ wpc' = (IF size[wfp] + 1 >= MaxSize THEN "wait" ELSE "recv")
          /\ widx' = (IF size[wfp] + 1 >= MaxSize THEN Last + 1 ELSE Last)
          /\ Last' = Last /\ UNCHANGED <<dir, nrec, wfp>> /\ wstops' = wstops
        BY <1>1, PolicyWrites DEF stops
    <2>2. OwnNames'
        BY <1>0, <2>1 DEF OwnNames
    <2> QED BY <2>1, <2>2 DEF WriterAtEnd
<1>2. CASE OpenNextForWrite /\ UNCHANGED <<stops, since>>
    <2>1. /\ wpc = "open" /\ wpc' = "recv" /\ widx = Last + 1
          /\ wfp' = Last + 1 /\ Last' = Last + 1 /\ dir'[Last + 1] = Last + 1
          /\ \A i \in Names : i # Last + 1 => dir'[i] = dir[i]
          /\ UNCHANGED <<nrec, widx>> /\ wstops' = wstops
        BY <1>2, PolicyOpenAppends DEF stops
    <2>2. \A i \in Names : dir'[i] \in {NoFile, i}
        BY <1>0, <2>1
    <2>3. OwnNames'
        BY <1>0, <2>1, <2>2 DEF OwnNames
    <2> QED BY <2>1, <2>3 DEF WriterAtEnd
<1>3. CASE Receive /\ UNCHANGED <<stops, since>>
    <2>1. /\ wpc = "recv" /\ wpc' = "write" /\ nrec' = nrec + 1 /\ nrec < MaxRec
          /\ UNCHANGED <<dir, widx, wfp, wstops>> /\ Last' = Last
        BY <1>3 DEF Receive, dirVars, stops, Last
    <2>2. OwnNames'
        BY <1>0, <2>1, SpoolAssumption DEF OwnNames
    <2> QED BY <2>1, <2>2 DEF PolicyInv, WriterAtEnd
<1>4. CASE NextNameFree /\ UNCHANGED <<stops, since>>
    <2>1. /\ wpc = "wait" /\ wpc' = "open" /\ Last' = Last
          /\ UNCHANGED <<dir, nrec, widx, wfp, wstops>>
        BY <1>4 DEF NextNameFree, dirVars, stops, Last
    <2>2. OwnNames'
        BY <1>0, <2>1 DEF OwnNames
    <2> QED BY <2>1, <2>2 DEF PolicyInv, WriterAtEnd
<1>5. CASE WriterStops
    <2>1. /\ wpc' = "down" /\ wfp' = NoFile /\ wstops' = wstops + 1 /\ Last' = Last
          /\ UNCHANGED <<dir, nrec>>
        BY <1>5 DEF WriterStops, dirVars, Last
    <2>2. OwnNames'
        BY <1>0, <2>1 DEF OwnNames
    <2> QED BY <2>1, <2>2 DEF WriterAtEnd
<1>6. CASE WriterStarts
    <2>1. /\ wpc = "down" /\ wpc' = "open" /\ Last' = Last
          /\ UNCHANGED <<dir, nrec, wfp, wstops>>
        BY <1>6 DEF WriterStarts, dirVars, stops, Last
    <2>2. Last + 1 < MaxIndex /\ MaxIndex \in Nat
        BY <2>1, PolicyFacts
    <2>3. widx' = Last + 1
        <3>1. widx' = (IF Last + 1 > MaxIndex THEN 1 ELSE Last + 1)
            BY <1>6, LastNameIsNewest DEF WriterStarts
        <3> QED BY <1>0, <2>2, <3>1
    <2>4. OwnNames'
        BY <1>0, <2>1 DEF OwnNames
    <2> QED BY <2>1, <2>3, <2>4 DEF PolicyInv, WriterAtEnd
<1> QED BY <1>1, <1>2, <1>3, <1>4, <1>5, <1>6 DEF WriterSide, WriterStep

LEMMA WriterKeepsWritten ==
    ASSUME FewFiles, PolicyInv, WriterSide
    PROVE  Written'
<1>0. /\ Last \in Nat /\ nrec \in Nat /\ since \in Nat /\ FileIds = 1..Last
      /\ MaxSize \in Nat \ {0} /\ Chunks = 1 /\ wleft \in {0, 1}
      /\ \A f \in FileIds : base[f] \in Nat /\ size[f] \in Nat
    BY PolicyFacts
<1>w. /\ \A f \in FileIds : base[f] + size[f] <= nrec
      /\ \A f, g \in FileIds : f < g => base[f] + size[f] <= base[g]
      /\ wfp # NoFile => base[wfp] + size[wfp] + wleft = nrec
      /\ wleft = IF wpc = "write" THEN 1 ELSE 0
      /\ since + wleft <= nrec
      /\ \A f \in FileIds : size[f] <= MaxSize
      /\ wpc \in {"recv", "write"} => size[wfp] < MaxSize
    BY DEF PolicyInv, Written
<1>1. CASE WriteChunk /\ UNCHANGED <<stops, since>>
    <2>1. /\ wpc = "write" /\ wleft = 1 /\ wleft' = 0 /\ wfp = Last /\ wfp \in FileIds
          /\ wpc' = (IF size[wfp] + 1 >= MaxSize THEN "wait" ELSE "recv")
          /\ size'[wfp] = size[wfp] + 1 /\ size[wfp] < MaxSize
          /\ \A f \in FileIds : f # wfp => size'[f] = size[f]
          /\ FileIds' = FileIds /\ UNCHANGED <<base, nrec, wfp, since>>
        BY <1>1, PolicyWrites
    <2>2. wfp # NoFile /\ base[wfp] + size[wfp] + 1 = nrec
        BY <1>0, <1>w, <2>1 DEF NoFile
    <2>3. \A f \in FileIds : base[f] + size'[f] <= nrec /\ size'[f] <= MaxSize
        <3>1. base[wfp] + size'[wfp] <= nrec
            BY <1>0, <2>1, <2>2
        <3>2. size'[wfp] <= MaxSize
            BY <1>0, <2>1
        <3> QED BY <1>w, <2>1, <3>1, <3>2
    <2>4. ASSUME NEW f \in FileIds, NEW g \in FileIds, f < g
          PROVE  base[f] + size'[f] <= base[g]
        <3>1. f # wfp
            BY <1>0, <2>1, <2>4
        <3> QED BY <1>w, <2>1, <2>4, <3>1
    <2>5. wpc' \in {"recv", "write"} => size'[wfp] < MaxSize
        BY <1>0, <2>1
    <2>6. base[wfp] + size'[wfp] + 0 = nrec /\ since + 0 <= nrec
        BY <1>0, <1>w, <2>1, <2>2
    <2>7. wpc' # "write"
        BY <2>1
    <2> QED BY <2>1, <2>3, <2>4, <2>5, <2>6, <2>7 DEF Written
<1>2. CASE OpenNextForWrite /\ UNCHANGED <<stops, since>>
    <2> DEFINE new == Last + 1
    <2>1. /\ wpc' = "recv" /\ wleft = 0 /\ wfp' = new
          /\ base'[new] = nrec /\ size'[new] = 0
          /\ \A f \in FileIds : base'[f] = base[f] /\ size'[f] = size[f]
          /\ FileIds' = 1..new /\ UNCHANGED <<nrec, wleft, since>>
        BY <1>2, PolicyOpenAppends
    <2>2. FileIds' = FileIds \cup {new} /\ (\A f \in FileIds : f < new) /\ new \in Nat
        BY <1>0, <2>1
    <2> HIDE DEF new
    <2>3. ASSUME NEW f \in FileIds'
          PROVE  base'[f] + size'[f] <= nrec /\ size'[f] <= MaxSize
        <3>1. CASE f = new
            <4>1. base'[f] = nrec /\ size'[f] = 0
                BY <2>1, <3>1
            <4> QED BY <1>0, <4>1
        <3>2. CASE f # new
            BY <1>w, <2>1, <2>2, <3>2
        <3> QED BY <3>1, <3>2
    <2>4. ASSUME NEW f \in FileIds', NEW g \in FileIds', f < g
          PROVE  base'[f] + size'[f] <= base'[g]
        <3>1. f \in FileIds
            BY <1>0, <2>2, <2>4
        <3>2. CASE g = new
            BY <1>w, <2>1, <3>1, <3>2
        <3>3. CASE g # new
            BY <1>w, <2>1, <2>2, <2>4, <3>1, <3>3
        <3> QED BY <3>2, <3>3
    <2>5. base'[wfp'] + size'[wfp'] + wleft' = nrec /\ size'[wfp'] < MaxSize
        <3>1. base'[wfp'] = nrec /\ size'[wfp'] = 0 /\ wleft' = 0
            BY <2>1, Zenon
        <3> QED BY <1>0, <3>1
    <2> QED BY <1>w, <2>1, <2>3, <2>4, <2>5 DEF Written
<1>3. CASE Receive /\ UNCHANGED <<stops, since>>
    <2>1. /\ wpc = "recv" /\ wpc' = "write" /\ nrec' = nrec + 1 /\ wleft' = 1
          /\ UNCHANGED <<base, size, wfp, since>> /\ FileIds' = FileIds
        BY <1>0, <1>3 DEF Receive, dirVars, FileIds
    <2>2. wleft = 0 /\ wfp # NoFile /\ wfp \in FileIds
        BY <1>w, <2>1, PolicyFacts
    <2>3. base[wfp] + size[wfp] + 1 = nrec + 1 /\ since + 1 <= nrec + 1
        BY <1>0, <1>w, <2>2
    <2>4. \A f \in FileIds : base[f] + size[f] <= nrec + 1
        BY <1>0, <1>w
    <2> QED BY <1>w, <2>1, <2>3, <2>4 DEF Written
<1>4. CASE NextNameFree /\ UNCHANGED <<stops, since>>
    <2>1. /\ wpc = "wait" /\ wpc' = "open"
          /\ UNCHANGED <<base, size, nrec, wfp, wleft, since>> /\ FileIds' = FileIds
        BY <1>4 DEF NextNameFree, dirVars, FileIds
    <2> QED BY <1>w, <2>1 DEF Written
<1>5. CASE WriterStops
    <2>1. /\ wpc' = "down" /\ wfp' = NoFile /\ wleft' = 0
          /\ UNCHANGED <<base, size, nrec, since>> /\ FileIds' = FileIds
        BY <1>5 DEF WriterStops, dirVars, FileIds
    <2>2. since + 0 <= nrec
        BY <1>0, <1>w
    <2> QED BY <1>w, <2>1, <2>2 DEF Written
<1>6. CASE WriterStarts
    <2>1. /\ wpc = "down" /\ wpc' = "open"
          /\ UNCHANGED <<base, size, nrec, wfp, wleft, since>> /\ FileIds' = FileIds
        BY <1>6 DEF WriterStarts, dirVars, FileIds
    <2> QED BY <1>w, <2>1 DEF Written
<1> QED BY <1>1, <1>2, <1>3, <1>4, <1>5, <1>6 DEF WriterSide, WriterStep

LEMMA WriterKeepsReader ==
    ASSUME FewFiles, PolicyInv, WriterSide
    PROVE  ReaderOnFile' /\ BehindStart' /\ HandedBefore'
<1>0. /\ Last \in Nat /\ nrec \in Nat /\ since \in Nat /\ rpos \in Nat /\ Fifo!Newest \in Nat
      /\ FileIds = 1..Last /\ nidx \in Names /\ ridx \in Names
      /\ \A f \in FileIds : base[f] \in Nat /\ size[f] \in Nat
      /\ rpc \in ReadingPcs => rfp = ridx /\ rfp \in FileIds
      /\ rpc = "open" => ridx \in FileIds
    BY PolicyFacts DEF PolicyInv, PolicyTypeOK
<1>s. since <= nrec
    BY <1>0 DEF PolicyInv, PolicyTypeOK
<1>1. /\ UNCHANGED <<rpc, ridx, nidx, rfp, rpos, reof, out, since>>
      /\ Last' \in {Last, Last + 1} /\ FileIds' = 1..Last'
      /\ \A f \in FileIds : /\ base'[f] = base[f]
                            /\ size'[f] >= size[f] /\ size'[f] \in Nat
                            /\ f # wfp => size'[f] = size[f]
      /\ Last' = Last + 1 => base'[Last + 1] = nrec /\ size'[Last + 1] = 0
      /\ \A i \in Names : dir[i] = i => dir'[i] = i
      /\ wfp' = wfp \/ wfp' = NoFile \/ wfp' = Last + 1
    BY WriterFrame DEF readerVars
<1>2. \A f \in FileIds' : f \in FileIds \/ (f = Last + 1 /\ base'[f] = nrec)
    BY <1>0, <1>1
<1>3. \A f \in FileIds : f \in FileIds'
    BY <1>0, <1>1
<1>4. ReaderOnFile'
    <2>1. rpc \in ReadingPcs => rpos <= size'[rfp]
        BY <1>0, <1>1 DEF PolicyInv, ReaderOnFile
    <2> QED BY <1>0, <1>1, <1>3, <2>1 DEF PolicyInv, ReaderOnFile
<1>5. BehindStart'
    <2>1. ASSUME rpc \in ReadingPcs
          PROVE  base'[rfp] + rpos >= since \/ (rpos = size'[rfp] /\ rfp # wfp')
        <3>1. base[rfp] + rpos >= since \/ (rpos = size[rfp] /\ rfp # wfp)
            BY <2>1 DEF PolicyInv, BehindStart
        <3>2. rfp \in FileIds /\ rfp # NoFile /\ rfp # Last + 1
            BY <1>0, <2>1 DEF NoFile
        <3> QED BY <1>1, <3>1, <3>2
    <2>2. ASSUME rpc \in ReadingPcs \cup {"start"}
          PROVE  \A f \in FileIds' : f > ridx => base'[f] >= since
        BY <1>0, <1>s, <1>1, <1>2, <2>2 DEF PolicyInv, BehindStart
    <2>3. ASSUME rpc = "open"
          PROVE  \A f \in FileIds' : f >= ridx => base'[f] >= since
        BY <1>0, <1>s, <1>1, <1>2, <2>3 DEF PolicyInv, BehindStart
    <2> QED BY <1>1, <2>1, <2>2, <2>3 DEF BehindStart
<1>6. HandedBefore'
    <2>0. Fifo!Newest' = Fifo!Newest
        BY <1>1 DEF Fifo!Newest
    <2>1. rpc \in ReadingPcs => Fifo!Newest <= base'[rfp] + rpos
        BY <1>0, <1>1 DEF PolicyInv, HandedBefore
    <2>2. rpc = "open" => Fifo!Newest <= base'[ridx]
        BY <1>0, <1>1 DEF PolicyInv, HandedBefore
    <2>3. CASE Last' = Last
        <3>1. rpc = "start" /\ ridx \in FileIds => Fifo!Newest <= base'[ridx] + size'[ridx]
            BY <1>0, <1>1 DEF PolicyInv, HandedBefore
        <3>2. IF Last = 0 THEN Fifo!Newest = 0 ELSE Fifo!Newest <= base'[Last] + size'[Last]
            <4>1. CASE Last # 0
                <5>1. Last \in FileIds /\ Fifo!Newest <= base[Last] + size[Last]
                    BY <1>0, <4>1 DEF PolicyInv, HandedBefore
                <5>2. base[Last] \in Nat /\ size[Last] \in Nat /\ size'[Last] \in Nat
                      /\ size'[Last] >= size[Last] /\ base'[Last] = base[Last]
                    BY <1>0, <1>1, <5>1
                <5> QED BY <1>0, <4>1, <5>1, <5>2
            <4> QED BY <4>1 DEF PolicyInv, HandedBefore
        <3> QED BY <1>0, <1>1, <2>0, <2>1, <2>2, <2>3, <3>1, <3>2 DEF HandedBefore
    <2>4. CASE Last' = Last + 1
        <3>1. Fifo!Newest <= nrec
            <4>1. CASE Last = 0
                BY <1>0, <4>1 DEF PolicyInv, HandedBefore
            <4>2. CASE Last # 0
                <5>1. Last \in FileIds /\ Fifo!Newest <= base[Last] + size[Last]
                    BY <1>0, <4>2 DEF PolicyInv, HandedBefore
                <5>2. base[Last] + size[Last] <= nrec
                    BY <5>1 DEF PolicyInv, Written
                <5> QED BY <1>0, <5>1, <5>2
            <4> QED BY <4>1, <4>2
        <3>2. Fifo!Newest <= base'[Last'] + size'[Last'] /\ Last' # 0
            BY <1>0, <1>1, <2>4, <3>1
        <3>3. rpc = "start" /\ ridx \in FileIds' => Fifo!Newest <= base'[ridx] + size'[ridx]
            <4>1. CASE ridx \in FileIds
                BY <1>0, <1>1, <4>1 DEF PolicyInv, HandedBefore
            <4>2. CASE ridx \notin FileIds
                BY <1>2, <2>4, <3>2, <4>2
            <4> QED BY <4>1, <4>2
        <3> QED BY <1>1, <2>0, <2>1, <2>2, <3>2, <3>3 DEF HandedBefore
    <2> QED BY <1>1, <2>3, <2>4
<1> QED BY <1>4, <1>5, <1>6

------------------------------------------------------------------------------
(* The reader's side.                                                      *)

(* The reader unlinks no name but those before the newest file's.          *)
LEMMA ReaderDir ==
    ASSUME FewFiles, PolicyInv, ReaderSide
    PROVE  /\ \A i \in Names : dir'[i] \in {dir[i], NoFile}
           /\ Last > 0 => dir'[Last] = dir[Last]
<1>0. /\ Last \in Nat /\ Last < MaxIndex /\ FileIds = 1..Last /\ Names = 1..MaxIndex
      /\ MaxIndex \in Nat /\ dir \in [Names -> Nat] /\ ridx \in Names /\ nidx \in Names
    BY PolicyFacts
<1>1. CASE UnlinkRead
    <2>1. rpc = "unlink" /\ dir' = [dir EXCEPT ![ridx] = NoFile]
        BY <1>1 DEF UnlinkRead
    <2>2. nidx = ridx + 1 /\ dir[nidx] = nidx
        BY <2>1 DEF PolicyInv, ReaderOnFile, ReadingPcs
    <2>3. nidx \in FileIds
        <3>1. dir[nidx] \in FileIds \cup {NoFile}
            BY <1>0 DEF PolicyInv, PolicyTypeOK, TypeOK
        <3> QED BY <1>0, <2>2, <3>1 DEF NoFile
    <2>4. ridx < Last
        BY <1>0, <2>2, <2>3
    <2> QED BY <1>0, <2>1, <2>4
<1>2. CASE ClearOldFiles
    <2>1. /\ rpc = "clear"
          /\ dir' = [i \in Names |-> IF i < ridx THEN NoFile ELSE dir[i]]
        BY <1>2 DEF ClearOldFiles
    <2>2. ridx = 1 \/ ridx \in FileIds
        BY <2>1 DEF PolicyInv, ReaderOnFile
    <2>3. Last > 0 => ~(Last < ridx)
        BY <1>0, <2>2
    <2> QED BY <1>0, <2>1, <2>3
<1>3. CASE dir' = dir
    BY <1>3
<1> QED BY <1>1, <1>2, <1>3
        DEF ReaderSide, ReaderStep, RestartReader, ReadRecord, ReadPart, ReadNothing,
            CheckNext, NextNameExists, Drain, OpenNextForRead, ReaderStops,
            ReaderStarts, NameFile, OpenAtEnd, OpenFails, dirVars

LEMMA ReaderKeepsWriter ==
    ASSUME FewFiles, PolicyInv, ReaderSide
    PROVE  OwnNames' /\ WriterAtEnd' /\ Written'
<1>0. /\ UNCHANGED <<base, size, nrec, wpc, widx, wfp, wleft, wstops>>
      /\ FileIds' = FileIds /\ Last' = Last
    BY ReaderFrame DEF writerVars
<1>1. OwnNames'
    <2>1. \A i \in Names : dir'[i] \in {NoFile, i}
        BY ReaderDir DEF PolicyInv, OwnNames
    <2> QED BY <1>0, <2>1, ReaderDir DEF PolicyInv, OwnNames
<1>2. WriterAtEnd'
    BY <1>0 DEF PolicyInv, WriterAtEnd
<1>3. since' + wleft <= nrec
    <2>1. /\ wleft = IF wpc = "write" THEN 1 ELSE 0
          /\ since + wleft <= nrec /\ nrec \in Nat
        BY PolicyFacts DEF PolicyInv, Written
    <2>2. since' = since \/ since' = IF wpc = "write" THEN nrec - 1 ELSE nrec
        BY DEF ReaderSide, RestartReader, ReaderStops, ReaderStarts, ClearOldFiles,
               NameFile, OpenAtEnd, OpenFails
    <2> QED BY <2>1, <2>2
<1>4. Written'
    BY <1>0, <1>3 DEF PolicyInv, Written
<1> QED BY <1>1, <1>2, <1>4

(* A start takes the last name, the one after it, and is on the file of    *)
(* that name.                                                              *)
LEMMA PolicyNamesLast ==
    ASSUME FewFiles, PolicyInv
    PROVE  /\ LastNameForRead \in Names
           /\ NextName(LastNameForRead) = LastNameForRead + 1
           /\ LastNameForRead = 1 \/ LastNameForRead \in FileIds
           /\ LastNameForRead \in FileIds => LastNameForRead = Last
           /\ \A f \in FileIds : ~(f > LastNameForRead)
<1>1. /\ Last \in Nat /\ Last < MaxIndex /\ MaxIndex \in Nat /\ 1 < MaxIndex
      /\ FileIds = 1..Last /\ Names = 1..MaxIndex
    BY PolicyFacts, SpoolAssumption, PolicyAssumption DEF FewFiles
<1>2. LastNameForRead = IF Last = 0 THEN 1 ELSE Last
    BY LastNameIsNewest
<1> QED BY <1>1, <1>2 DEF NextName

LEMMA PolicyOpensForRead ==
    ASSUME FewFiles, PolicyInv, Exists(ridx)
    PROVE  dir[ridx] = ridx /\ ridx \in FileIds
<1>1. dir[ridx] # NoFile /\ ridx \in Names
    BY PolicyFacts DEF Exists
<1>2. dir[ridx] = ridx
    BY <1>1 DEF PolicyInv, OwnNames
<1> QED BY <1>1, <1>2 DEF PolicyInv, PolicyTypeOK, TypeOK

LEMMA ReaderKeepsFile ==
    ASSUME FewFiles, PolicyInv, ReaderSide
    PROVE  ReaderOnFile'
<1>0. /\ UNCHANGED <<base, size>> /\ FileIds' = FileIds
      /\ Last \in Nat /\ Last < MaxIndex /\ MaxIndex \in Nat
      /\ FileIds = 1..Last /\ Names = 1..MaxIndex
      /\ dir \in [Names -> Nat] /\ ridx \in Names /\ nidx \in Names /\ rpos \in Nat
      /\ \A f \in FileIds : size[f] \in Nat
      /\ \A i \in Names : dir[i] \in {NoFile, i}
    BY ReaderFrame, PolicyFacts DEF PolicyInv, OwnNames
<1>1. CASE ReadRecord /\ UNCHANGED <<stops, since>>
    <2>1. /\ rpc = "read" /\ rfp = ridx /\ rfp \in FileIds
          /\ rpos' = rpos + 1 /\ rpos < size[rfp]
          /\ UNCHANGED <<dir, rpc, ridx, nidx, rfp, reof>>
        BY <1>1, PolicyRecordRead DEF dirVars
    <2>2. rpos' <= size[rfp]
        BY <1>0, <2>1
    <2> QED BY <1>0, <2>1, <2>2 DEF PolicyInv, ReaderOnFile, ReadingPcs
<1>2. CASE ReadNothing /\ UNCHANGED <<stops, since>>
    <2>1. /\ rpc = "read" /\ rpc' = "check" /\ reof' = TRUE
          /\ UNCHANGED <<dir, ridx, nidx, rfp, rpos>>
        BY <1>2 DEF ReadNothing, dirVars
    <2> QED BY <1>0, <2>1 DEF PolicyInv, ReaderOnFile, ReadingPcs
<1>3. CASE CheckNext /\ UNCHANGED <<stops, since>>
    <2>1. /\ rpc = "check" /\ rpc' \in {"wait", "read"}
          /\ UNCHANGED <<dir, ridx, nidx, rfp, rpos, reof>>
        BY <1>3 DEF CheckNext, dirVars
    <2> QED BY <1>0, <2>1 DEF PolicyInv, ReaderOnFile, ReadingPcs
<1>4. CASE NextNameExists /\ UNCHANGED <<stops, since>>
    <2>1. /\ rpc = "wait" /\ rpc' = "drain" /\ dir[nidx] # NoFile
          /\ UNCHANGED <<dir, ridx, nidx, rfp, rpos, reof>>
        BY <1>4 DEF NextNameExists, Exists, dirVars
    <2>2. dir[nidx] = nidx
        BY <1>0, <2>1
    <2> QED BY <1>0, <2>1, <2>2 DEF PolicyInv, ReaderOnFile, ReadingPcs
<1>5. CASE Drain /\ UNCHANGED <<stops, since>>
    <2>1. /\ rpc = "drain" /\ rpc' = "unlink"
          /\ UNCHANGED <<dir, ridx, nidx, rfp, rpos, reof>>
        BY <1>5, PolicyDrains DEF dirVars
    <2> QED BY <1>0, <2>1 DEF PolicyInv, ReaderOnFile, ReadingPcs
<1>6. CASE UnlinkRead /\ UNCHANGED <<stops, since>>
    <2>1. /\ rpc = "unlink" /\ rpc' = "open" /\ ridx' = nidx /\ nidx' = nidx
          /\ dir' = [dir EXCEPT ![ridx] = NoFile]
        BY <1>6 DEF UnlinkRead
    <2>2. dir[nidx] = nidx /\ nidx = ridx + 1
        BY <2>1 DEF PolicyInv, ReaderOnFile, ReadingPcs
    <2>3. dir'[nidx] = nidx
        BY <1>0, <2>1, <2>2
    <2> QED BY <2>1, <2>3 DEF ReaderOnFile, ReadingPcs
<1>7. CASE OpenNextForRead /\ UNCHANGED <<stops, since>>
    <2>1. /\ rpc = "open" /\ rpc' = "read" /\ rfp' = dir[ridx] /\ rpos' = 0 /\ Exists(ridx)
          /\ nidx' = NextName(nidx) /\ UNCHANGED <<dir, ridx>>
        BY <1>7 DEF OpenNextForRead, dirVars
    <2>2. ridx = nidx /\ dir[ridx] = ridx /\ ridx \in FileIds
        BY <2>1, PolicyOpensForRead DEF PolicyInv, ReaderOnFile
    <2>3. NextName(nidx) = ridx + 1
        BY <1>0, <2>2 DEF NextName
    <2>4. 0 <= size[ridx]
        BY <1>0, <2>2
    <2> QED BY <1>0, <2>1, <2>2, <2>3, <2>4 DEF ReaderOnFile, ReadingPcs
<1>8. CASE ReaderStops \/ ClearOldFiles \/ OpenFails
    <2>1. rpc' \in {"down", "name"}
        BY <1>8 DEF ReaderStops, ClearOldFiles, OpenFails
    <2> QED BY <2>1 DEF ReaderOnFile, ReadingPcs
<1>9. CASE ReaderStarts
    <2>1. rpc' = "clear" /\ ridx' = LastNameForRead
        BY <1>9 DEF ReaderStarts
    <2> QED BY <1>0, <2>1, PolicyNamesLast DEF ReaderOnFile, ReadingPcs
<1>10. CASE NameFile
    <2>1. rpc' = "start" /\ ridx' = LastNameForRead /\ nidx' = NextName(ridx')
        BY <1>10 DEF NameFile
    <2>2. nidx' = ridx' + 1 /\ (ridx' = 1 \/ ridx' \in FileIds)
        BY <2>1, PolicyNamesLast
    <2> QED BY <1>0, <2>1, <2>2 DEF ReaderOnFile, ReadingPcs
<1>11. CASE OpenAtEnd
    <2>1. /\ rpc = "start" /\ rpc' = "read" /\ rfp' = dir[ridx] /\ rpos' = size[dir[ridx]]
          /\ Exists(ridx) /\ UNCHANGED <<dir, ridx, nidx>>
        BY <1>11 DEF OpenAtEnd, dirVars
    <2>2. nidx = ridx + 1 /\ dir[ridx] = ridx /\ ridx \in FileIds
        BY <2>1, PolicyOpensForRead DEF PolicyInv, ReaderOnFile
    <2>3. size[ridx] <= size[ridx]
        BY <1>0, <2>2
    <2> QED BY <1>0, <2>1, <2>2, <2>3 DEF ReaderOnFile, ReadingPcs
<1> QED BY <1>1, <1>2, <1>3, <1>4, <1>5, <1>6, <1>7, <1>8, <1>9, <1>10, <1>11, NoPartIsRead
        DEF ReaderSide, ReaderStep, RestartReader

LEMMA ReaderKeepsStart ==
    ASSUME FewFiles, PolicyInv, ReaderSide
    PROVE  BehindStart'
<1>0. /\ UNCHANGED <<base, size, nrec, wpc, wfp, wleft>> /\ FileIds' = FileIds
      /\ Last \in Nat /\ FileIds = 1..Last /\ ridx \in Names /\ rpos \in Nat
      /\ since \in Nat /\ nrec \in Nat /\ wleft \in {0, 1} /\ since + wleft <= nrec
      /\ \A f \in FileIds : base[f] \in Nat /\ size[f] \in Nat
    BY ReaderFrame, PolicyFacts DEF writerVars, PolicyInv, Written
<1>1. CASE ReadRecord /\ UNCHANGED <<stops, since>>
    <2> DEFINE r == base[rfp] + rpos + 1
    <2>1. /\ rpc = "read" /\ rfp = ridx /\ rfp \in FileIds /\ rpos' = rpos + 1 /\ r > since
          /\ UNCHANGED <<rpc, ridx, rfp>>
        BY <1>1, PolicyRecordRead
    <2>2. base[rfp] + rpos' >= since
        BY <1>0, <2>1
    <2> HIDE DEF r
    <2> QED BY <1>0, <1>1, <2>1, <2>2 DEF PolicyInv, BehindStart, ReadingPcs
<1>2. CASE (ReadNothing \/ CheckNext \/ NextNameExists \/ Drain) /\ UNCHANGED <<stops, since>>
    <2>1. /\ rpc \in ReadingPcs /\ rpc' \in ReadingPcs
          /\ UNCHANGED <<ridx, rfp, rpos, since>>
        BY <1>2, PolicyDrains DEF ReadNothing, CheckNext, NextNameExists, ReadingPcs
    <2> QED BY <1>0, <2>1 DEF PolicyInv, BehindStart, ReadingPcs
<1>3. CASE UnlinkRead /\ UNCHANGED <<stops, since>>
    <2>1. rpc = "unlink" /\ rpc' = "open" /\ ridx' = nidx /\ since' = since
        BY <1>3 DEF UnlinkRead
    <2>2. nidx = ridx + 1 /\ \A f \in FileIds : f > ridx => base[f] >= since
        BY <2>1 DEF PolicyInv, ReaderOnFile, BehindStart, ReadingPcs
    <2>3. \A f \in FileIds : f >= ridx' => base[f] >= since
        BY <1>0, <2>1, <2>2 DEF Names
    <2> QED BY <1>0, <2>1, <2>3 DEF BehindStart, ReadingPcs
<1>4. CASE OpenNextForRead /\ UNCHANGED <<stops, since>>
    <2>1. /\ rpc = "open" /\ rpc' = "read" /\ rfp' = dir[ridx] /\ rpos' = 0 /\ Exists(ridx)
          /\ UNCHANGED <<ridx, since>>
        BY <1>4 DEF OpenNextForRead
    <2>2. rfp' = ridx /\ ridx \in FileIds
        BY <2>1, PolicyOpensForRead
    <2>3. \A f \in FileIds : f >= ridx => base[f] >= since
        BY <2>1 DEF PolicyInv, BehindStart
    <2>4. base[ridx] + 0 >= since
        BY <1>0, <2>2, <2>3
    <2>5. \A f \in FileIds : f > ridx => base[f] >= since
        BY <1>0, <2>2, <2>3
    <2> QED BY <1>0, <2>1, <2>2, <2>4, <2>5 DEF BehindStart, ReadingPcs
<1>5. CASE ReaderStops \/ ReaderStarts \/ ClearOldFiles \/ OpenFails
    <2>1. rpc' \in {"down", "clear", "name"}
        BY <1>5 DEF ReaderStops, ReaderStarts, ClearOldFiles, OpenFails
    <2> QED BY <2>1 DEF BehindStart, ReadingPcs
<1>6. CASE NameFile
    <2>1. rpc' = "start" /\ ridx' = LastNameForRead /\ since' = since
        BY <1>6 DEF NameFile, stops
    <2>2. \A f \in FileIds : ~(f > ridx')
        BY <2>1, PolicyNamesLast
    <2> QED BY <1>0, <2>1, <2>2 DEF BehindStart, ReadingPcs
<1>7. CASE OpenAtEnd
    <2>1. /\ rpc = "start" /\ rpc' = "read" /\ rfp' = dir[ridx] /\ rpos' = size[dir[ridx]]
          /\ Exists(ridx) /\ UNCHANGED <<ridx, since>>
        BY <1>7 DEF OpenAtEnd, stops
    <2>2. rfp' = ridx /\ rpos' = size[ridx] /\ ridx \in FileIds
        BY <2>1, PolicyOpensForRead
    <2>3. ridx = wfp => base[ridx] + size[ridx] >= since
        <3> SUFFICES ASSUME ridx = wfp PROVE base[ridx] + size[ridx] >= since
            OBVIOUS
        <3>1. wfp # NoFile
            BY <1>0, <2>2 DEF NoFile
        <3>2. base[wfp] + size[wfp] + wleft = nrec
            BY <3>1 DEF PolicyInv, Written
        <3> QED BY <1>0, <2>2, <3>2
    <2>4. base'[rfp'] + rpos' >= since' \/ (rpos' = size'[rfp'] /\ rfp' # wfp')
        BY <1>0, <2>1, <2>2, <2>3
    <2>5. \A f \in FileIds : f > ridx => base[f] >= since
        BY <2>1 DEF PolicyInv, BehindStart
    <2> QED BY <1>0, <2>1, <2>4, <2>5 DEF BehindStart, ReadingPcs
<1> QED BY <1>1, <1>2, <1>3, <1>4, <1>5, <1>6, <1>7, NoPartIsRead
        DEF ReaderSide, ReaderStep, RestartReader

LEMMA ReaderKeepsHanded ==
    ASSUME FewFiles, PolicyInv, ReaderSide
    PROVE  HandedBefore'
<1>0. /\ UNCHANGED <<base, size>> /\ FileIds' = FileIds /\ Last' = Last
      /\ Last \in Nat /\ FileIds = 1..Last /\ ridx \in Names /\ rpos \in Nat
      /\ out \in Seq(Nat) /\ Fifo!Newest \in Nat
      /\ \A f \in FileIds : base[f] \in Nat /\ size[f] \in Nat
    BY ReaderFrame, PolicyFacts
<1>l. IF Last = 0 THEN Fifo!Newest = 0 ELSE Fifo!Newest <= base[Last] + size[Last]
    BY DEF PolicyInv, HandedBefore
<1>b. \A f, g \in FileIds : f < g => base[f] + size[f] <= base[g]
    BY DEF PolicyInv, Written
<1>1. CASE ReadRecord /\ UNCHANGED <<stops, since>>
    <2> DEFINE r == base[rfp] + rpos + 1
    <2>1. /\ rpc = "read" /\ rfp \in FileIds /\ rpos' = rpos + 1 /\ rpos < size[rfp]
          /\ out' = Append(out, r) /\ r \in Nat /\ UNCHANGED <<rpc, rfp>>
        BY <1>1, PolicyRecordRead
    <2>2. Fifo!Newest' = r
        <3> HIDE DEF r
        <3> QED BY <1>0, <2>1 DEF Fifo!Newest
    <2>3. r <= base[rfp] + rpos'
        BY <1>0, <2>1
    <2>4. Last \in FileIds /\ Last # 0
        BY <1>0, <2>1
    <2>5. base[rfp] + size[rfp] <= base[Last] + size[Last]
        <3>1. CASE rfp = Last
            BY <1>0, <2>4, <3>1
        <3>2. CASE rfp # Last
            <4>0. rfp \in FileIds /\ rfp < Last
                BY <1>0, <2>1, <3>2
            <4>1. base[rfp] + size[rfp] <= base[Last]
                BY <1>b, <2>4, <4>0
            <4>2. /\ base[rfp] \in Nat /\ size[rfp] \in Nat
                  /\ base[Last] \in Nat /\ size[Last] \in Nat
                BY <1>0, <2>4, <4>0
            <4> QED BY <4>1, <4>2
        <3> QED BY <3>1, <3>2
    <2>6. r <= base[Last] + size[Last]
        <3>1. /\ base[rfp] \in Nat /\ size[rfp] \in Nat /\ rpos \in Nat
              /\ base[Last] \in Nat /\ size[Last] \in Nat
            BY <1>0, <2>1, <2>4
        <3>2. r <= base[rfp] + size[rfp]
            BY <2>1, <3>1
        <3>3. r \in Nat
            BY <3>1
        <3> HIDE DEF r
        <3> QED BY <2>5, <3>1, <3>2, <3>3
    <2> HIDE DEF r
    <2> QED BY <1>0, <2>1, <2>2, <2>3, <2>4, <2>6 DEF HandedBefore, ReadingPcs
<1>2. CASE out' = out
    <2>0. Fifo!Newest' = Fifo!Newest
        BY <1>2 DEF Fifo!Newest
    <2>1. CASE /\ rpc \in ReadingPcs /\ rpc' \in ReadingPcs /\ UNCHANGED <<rfp, rpos>>
        BY <1>0, <2>0, <2>1 DEF PolicyInv, HandedBefore, ReadingPcs
    <2>2. CASE UnlinkRead
        <3>1. rpc = "unlink" /\ rpc' = "open" /\ ridx' = nidx
            BY <2>2 DEF UnlinkRead
        <3>2. /\ nidx = ridx + 1 /\ dir[nidx] = nidx /\ rpos <= size[rfp]
              /\ Fifo!Newest <= base[rfp] + rpos
            BY <3>1 DEF PolicyInv, ReaderOnFile, HandedBefore, ReadingPcs
        <3>3. rfp = ridx /\ rfp \in FileIds /\ nidx \in Names
            BY <3>1, PolicyFacts DEF ReadingPcs
        <3>4. nidx \in FileIds
            <4>1. dir[nidx] \in FileIds \cup {NoFile}
                BY <3>3 DEF PolicyInv, PolicyTypeOK, TypeOK
            <4> QED BY <1>0, <3>2, <3>3, <4>1 DEF NoFile, Names
        <3>5. base[ridx] + size[ridx] <= base[nidx]
            BY <1>0, <1>b, <3>2, <3>3, <3>4
        <3>6. Fifo!Newest <= base[nidx]
            BY <1>0, <3>2, <3>3, <3>4, <3>5
        <3> QED BY <1>0, <1>l, <2>0, <3>1, <3>6 DEF HandedBefore, ReadingPcs
    <2>3. CASE OpenNextForRead
        <3>1. /\ rpc = "open" /\ rpc' = "read" /\ rfp' = dir[ridx] /\ rpos' = 0 /\ Exists(ridx)
            BY <2>3 DEF OpenNextForRead
        <3>2. rfp' = ridx /\ ridx \in FileIds
            BY <3>1, PolicyOpensForRead
        <3>3. Fifo!Newest <= base[ridx] + 0
            BY <1>0, <3>1, <3>2 DEF PolicyInv, HandedBefore
        <3> QED BY <1>0, <1>l, <2>0, <3>1, <3>2, <3>3 DEF HandedBefore, ReadingPcs
    <2>4. CASE ReaderStops \/ ReaderStarts \/ ClearOldFiles \/ OpenFails
        <3>1. rpc' \in {"down", "clear", "name"}
            BY <2>4 DEF ReaderStops, ReaderStarts, ClearOldFiles, OpenFails
        <3> QED BY <1>0, <1>l, <2>0, <3>1 DEF HandedBefore, ReadingPcs
    <2>5. CASE NameFile
        <3>1. rpc' = "start" /\ ridx' = LastNameForRead
            BY <2>5 DEF NameFile
        <3>2. ridx' \in FileIds => Fifo!Newest <= base[ridx'] + size[ridx']
            BY <1>0, <1>l, <3>1, PolicyNamesLast
        <3> QED BY <1>0, <1>l, <2>0, <3>1, <3>2 DEF HandedBefore, ReadingPcs
    <2>6. CASE OpenAtEnd
        <3>1. /\ rpc = "start" /\ rpc' = "read" /\ rfp' = dir[ridx] /\ rpos' = size[dir[ridx]]
              /\ Exists(ridx)
            BY <2>6 DEF OpenAtEnd
        <3>2. rfp' = ridx /\ rpos' = size[ridx] /\ ridx \in FileIds
            BY <3>1, PolicyOpensForRead
        <3>3. Fifo!Newest <= base[ridx] + size[ridx]
            BY <3>1, <3>2 DEF PolicyInv, HandedBefore
        <3> QED BY <1>0, <1>l, <2>0, <3>1, <3>2, <3>3 DEF HandedBefore, ReadingPcs
    <2>7. CASE ReadNothing \/ CheckNext \/ NextNameExists \/ Drain
        <3>1. rpc \in ReadingPcs /\ rpc' \in ReadingPcs /\ UNCHANGED <<rfp, rpos>>
            BY <2>7, PolicyDrains DEF ReadNothing, CheckNext, NextNameExists, ReadingPcs
        <3> QED BY <2>1, <3>1
    <2>8. CASE ReadRecord
        BY <1>0, <1>2, <2>8, PolicyRecordRead
    <2> QED BY <2>2, <2>3, <2>4, <2>5, <2>6, <2>7, <2>8, NoPartIsRead
            DEF ReaderSide, ReaderStep, RestartReader
<1>3. ReadRecord \/ out' = out
    BY NoPartIsRead, PolicyDrains
       DEF ReaderSide, ReaderStep, RestartReader, ReadNothing, CheckNext, NextNameExists,
           UnlinkRead, OpenNextForRead, ReaderStops, ReaderStarts, ClearOldFiles,
           NameFile, OpenAtEnd, OpenFails
<1>4. ReadRecord => UNCHANGED <<stops, since>>
    <2>1. ASSUME ReadRecord PROVE ~(ReaderStops \/ RestartReader)
        BY <2>1 DEF ReadRecord, ReaderStops, RestartReader, ReaderStarts, ClearOldFiles,
                    NameFile, OpenAtEnd, OpenFails
    <2> QED BY <2>1 DEF ReaderSide
<1> QED BY <1>1, <1>2, <1>3, <1>4

------------------------------------------------------------------------------
LEMMA PolicyInvariant == ASSUME FewFiles PROVE PolicySpec => []PolicyInv
<1>1. PolicyInv /\ PolicyTypes' /\ [PolicyNext]_policyVars => PolicyInv'
    <2> SUFFICES ASSUME PolicyInv, PolicyTypes', [PolicyNext]_policyVars PROVE PolicyInv'
        OBVIOUS
    <2>0. PolicyTypeOK'
        BY DEF PolicyTypes
    <2>1. CASE WriterSide
        BY <2>0, <2>1, WriterKeepsNames, WriterKeepsWritten, WriterKeepsReader
           DEF PolicyInv
    <2>2. CASE ReaderSide
        BY <2>0, <2>2, ReaderKeepsWriter, ReaderKeepsFile, ReaderKeepsStart,
           ReaderKeepsHanded DEF PolicyInv
    <2>3. CASE UNCHANGED policyVars
        BY <2>3 DEF policyVars, vars, dirVars, writerVars, readerVars, stops, PolicyInv,
                    PolicyTypeOK, TypeOK, OwnNames, WriterAtEnd, Written, ReaderOnFile,
                    BehindStart, HandedBefore, FileIds, Last, Fifo!Newest
    <2> QED BY <2>1, <2>2, <2>3 DEF PolicyNext, Next, WriterSide, ReaderSide
<1> QED BY PolicyInitInv, PolicyTypesHold, <1>1, PTL DEF PolicySpec

(* frd_GetNextFile leaves a file that it has read up to the full size only *)
(* when fw_WriteDataFile has nothing more to write to it, also after       *)
(* either of the two has stopped and started again.                        *)
THEOREM PolicyFullFileIsRead == ASSUME FewFiles PROVE PolicySpec => []FullFileIsRead
<1>1. PolicyInv => FullFileIsRead
    <2> SUFFICES ASSUME PolicyInv, rpc \in {"wait", "drain", "unlink"}, rpos >= MaxSize
                 PROVE  rpos >= size[rfp]
        BY DEF FullFileIsRead
    <2>1. rfp \in FileIds /\ size[rfp] \in Nat /\ rpos \in Nat /\ MaxSize \in Nat
        BY PolicyFacts DEF ReadingPcs
    <2>2. size[rfp] <= MaxSize
        BY <2>1 DEF PolicyInv, Written
    <2> QED BY <2>1, <2>2
<1> QED BY PolicyInvariant, <1>1, PTL

(* The highest index in use, which frd_GetLastFileIndex looks up, names    *)
(* the newest file.                                                        *)
THEOREM PolicyNamesNewestFile == ASSUME FewFiles PROVE PolicySpec => NamesNewestFile
<1>1. PolicyInv /\ [PolicyNext]_policyVars
      => [rpc = "name" /\ rpc' = "start"
            => \A i \in Names : Exists(i) => base[dir[i]] <= base[dir[ridx']]]_policyVars
    <2> SUFFICES ASSUME PolicyInv, PolicyNext, rpc = "name", rpc' = "start",
                        NEW i \in Names, Exists(i)
                 PROVE  base[dir[i]] <= base[dir[ridx']]
        OBVIOUS
    <2>1. NameFile
        <3>1. CASE WriterSide
            BY <3>1, WriterFrame DEF readerVars
        <3>2. CASE ReaderSide
            BY <3>2 DEF ReaderSide, ReaderStep, RestartReader, ReadRecord, ReadPart,
                        ReadNothing, CheckNext, NextNameExists, Drain, UnlinkRead,
                        OpenNextForRead, ReaderStops, ReaderStarts, ClearOldFiles,
                        OpenAtEnd, OpenFails
        <3> QED BY <3>1, <3>2 DEF PolicyNext, Next, WriterSide, ReaderSide
    <2>2. i \in FileIds /\ dir[i] = i /\ Last > 0 /\ dir[Last] = Last
        <3>1. i \in FileIds /\ Last \in Nat /\ FileIds = 1..Last
            BY LastNameIsNewest, PolicyFacts
        <3>2. dir[i] = i
            BY DEF PolicyInv, OwnNames, Exists
        <3> QED BY <3>1, <3>2 DEF PolicyInv, OwnNames
    <2>3. ridx' = Last
        BY <2>1, <2>2, LastNameIsNewest DEF NameFile
    <2>4. /\ Last \in FileIds /\ base[i] \in Nat /\ base[Last] \in Nat /\ size[i] \in Nat
          /\ i <= Last /\ i \in Nat /\ Last \in Nat
        <3>1. /\ FileIds = 1..Last /\ Last \in Nat
              /\ \A f \in FileIds : base[f] \in Nat /\ size[f] \in Nat
            BY PolicyFacts
        <3> QED BY <2>2, <3>1
    <2>5. base[i] <= base[Last]
        <3>1. CASE i = Last
            BY <2>4, <3>1
        <3>2. CASE i # Last
            <4>1. base[i] + size[i] <= base[Last]
                BY <2>2, <2>4, <3>2 DEF PolicyInv, Written
            <4> QED BY <2>4, <4>1
        <3> QED BY <3>1, <3>2
    <2> QED BY <2>2, <2>3, <2>5
<1> QED BY PolicyInvariant, <1>1, PTL DEF PolicySpec, NamesNewestFile

(* A step that hands a record over is one of frd_FileRead.                 *)
LEMMA OnlyReadHandsOver ==
    ASSUME FewFiles, PolicyInv, PolicyNext, out' # out
    PROVE  ReadRecord /\ UNCHANGED since
<1>1. CASE WriterSide
    BY <1>1, WriterFrame DEF readerVars
<1>2. CASE ReaderSide
    BY <1>2, NoPartIsRead, PolicyDrains
       DEF ReaderSide, ReaderStep, RestartReader, ReadNothing, CheckNext, NextNameExists,
           UnlinkRead, OpenNextForRead, ReaderStops, ReaderStarts, ClearOldFiles,
           NameFile, OpenAtEnd, OpenFails
<1> QED BY <1>1, <1>2 DEF PolicyNext, Next, WriterSide, ReaderSide

(* From frd_ForkWork on, which opens the last file at its end, frd_FileRead *)
(* hands over no record written before the start.                          *)
THEOREM PolicyOnlyFromNowOn == ASSUME FewFiles PROVE PolicySpec => OnlyFromNowOn
<1>1. PolicyInv /\ [PolicyNext]_policyVars
      => [rpc # "down" /\ Len(out') > Len(out) => out'[Len(out')] > since]_policyVars
    <2> SUFFICES ASSUME PolicyInv, PolicyNext, Len(out') > Len(out)
                 PROVE  out'[Len(out')] > since
        OBVIOUS
    <2> DEFINE r == base[rfp] + rpos + 1
    <2>1. out \in Seq(Nat)
        BY PolicyFacts
    <2>2. out' # out
        BY <2>1
    <2>3. out' = Append(out, r) /\ r \in Nat /\ r > since
        BY <2>2, OnlyReadHandsOver, PolicyRecordRead
    <2> HIDE DEF r
    <2>4. out'[Len(out')] = r
        BY <2>1, <2>3
    <2> QED BY <2>3, <2>4
<1> QED BY PolicyInvariant, <1>1, PTL DEF PolicySpec, OnlyFromNowOn

(* fopen "wb" of fw_GetNextFileName finds no file of the name: none that   *)
(* has taken a record is emptied.                                          *)
THEOREM PolicyNothingUnreadEmptied ==
    ASSUME FewFiles PROVE PolicySpec => NothingUnreadEmptied
<1>1. PolicyInv /\ [PolicyNext]_policyVars
      => [\A f \in FileIds : base'[f] # base[f]
            => (rfp = f /\ rpos >= size[f]) \/ size[f] = 0]_policyVars
    <2> SUFFICES ASSUME PolicyInv, PolicyNext, NEW f \in FileIds PROVE base'[f] = base[f]
        OBVIOUS
    <2>1. CASE WriterSide
        BY <2>1, WriterFrame
    <2>2. CASE ReaderSide
        BY <2>2, ReaderFrame
    <2> QED BY <2>1, <2>2 DEF PolicyNext, Next, WriterSide, ReaderSide
<1> QED BY PolicyInvariant, <1>1, PTL DEF PolicySpec, NothingUnreadEmptied

(* Records of the writer that reach frd_BufferToDBMS do so once each and   *)
(* in the order they were sent, however often either process stops.        *)
THEOREM PolicyImplementsFifo == ASSUME FewFiles PROVE PolicySpec => ImplementsFifo
<1>1. PolicyInit => Fifo!Init
    BY DEF PolicyInit, Fifo!Init
<1>2. PolicyInv /\ [PolicyNext]_policyVars => [Fifo!Next]_<<nrec, out>>
    <2> SUFFICES ASSUME PolicyInv, PolicyNext PROVE Fifo!Next \/ UNCHANGED <<nrec, out>>
        BY DEF policyVars, vars, writerVars, readerVars
    <2>1. CASE out' # out
        <3> DEFINE r == base[rfp] + rpos + 1
        <3>1. /\ out' = Append(out, r) /\ r \in Nat /\ r > Fifo!Newest /\ r <= nrec
              /\ UNCHANGED writerVars
            BY <2>1, OnlyReadHandsOver, PolicyRecordRead
        <3>2. Fifo!Newest \in Nat /\ nrec \in Nat
            BY PolicyFacts
        <3> HIDE DEF r
        <3>3. r \in (Fifo!Newest + 1)..nrec
            BY <3>1, <3>2
        <3> QED BY <3>1, <3>3 DEF Fifo!Next, Fifo!Arrive, writerVars
    <2>2. CASE out' = out
        <3>1. nrec' = nrec \/ nrec' = nrec + 1
            BY ReaderFrame
               DEF PolicyNext, Next, WriterStep, Receive, WriteChunk, NextNameFree,
                   OpenNextForWrite, WriterStops, WriterStarts, ReaderSide, writerVars
        <3> QED BY <2>2, <3>1 DEF Fifo!Next, Fifo!Send
    <2> QED BY <2>1, <2>2
<1> QED BY PolicyInvariant, <1>1, <1>2, PTL DEF PolicySpec, ImplementsFifo, Fifo!Spec
==============================================================================
