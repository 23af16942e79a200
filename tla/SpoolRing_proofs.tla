--------------------------- MODULE SpoolRing_proofs ---------------------------
(***************************************************************************)
(* What SpoolRing promises, for every number of names, file size, record   *)
(* length and number of records.                                           *)
(***************************************************************************)
EXTENDS SpoolRing, WellFoundedInduction, TLAPS

ReadingPcs == {"read", "check", "wait", "drain", "unlink"}

(* The files that have a name, from the reader's to the writer's, follow   *)
(* each other round the ring.  Being in the ring at dir[ridx] while the    *)
(* reader is between two files is what "open" adds.                        *)
ReaderPlace ==
    /\ rpc \in ReadingPcs \cup {"open"}
    /\ rpc \in ReadingPcs => rfp = dir[ridx] /\ nidx = NextName(ridx)
    /\ rpc = "open" => rfp = NoFile /\ nidx = ridx
    /\ dir[ridx] # NoFile

WriterPlace ==
    /\ wpc # "down"
    /\ wfp = Len(base)
    /\ wpc \in {"recv", "write"} => dir[widx] = wfp
    /\ wpc \in {"wait", "open"} =>
           \E p \in Names : dir[p] = wfp /\ widx = NextName(p)
    /\ wpc = "open" => dir[widx] = NoFile

Ring ==
    /\ \A i \in Names : dir[i] # NoFile => dir[i] >= dir[ridx]
    /\ \A i, j \in Names : dir[i] # NoFile /\ dir[i] = dir[j] => i = j
    /\ \A i \in Names : dir[i] # NoFile /\ dir[i] < wfp
                           => dir[NextName(i)] = dir[i] + 1

(* Between the check for the next name and the unlink that name stays.     *)
NextSeen == rpc \in {"drain", "unlink"} => dir[nidx] # NoFile

(* frd_GetNextFile is reached with the end-of-file flag up.                *)
AtEof == rpc \in {"check", "wait", "drain"} => reof

SpoolTypes == TypeOK /\ AtEof

RingInv == TypeOK /\ ReaderPlace /\ WriterPlace /\ Ring /\ NextSeen /\ AtEof

(* Names follow each other one to one, and none follows itself.            *)
LEMMA NextNameFacts ==
    /\ \A i \in Names : NextName(i) \in Names /\ NextName(i) # i
    /\ \A i, j \in Names : NextName(i) = NextName(j) => i = j
BY SpoolAssumption DEF NextName, Names

LEMMA DivFact == \A n \in Nat : n \div Chunks \in Nat
BY SpoolAssumption

LEMMA SeqExcept ==
    ASSUME NEW s \in Seq(Nat), NEW i \in 1..Len(s), NEW v \in Nat
    PROVE  /\ [s EXCEPT ![i] = v] \in Seq(Nat)
           /\ Len([s EXCEPT ![i] = v]) = Len(s)
           /\ s[i] \in Nat
OBVIOUS

(* A set of numbers has a least one, and a bounded one a greatest.         *)
LEMMA LeastOf ==
    ASSUME NEW S \in SUBSET Nat, S # {}
    PROVE  \E x \in S : \A y \in S : x <= y
<1> DEFINE R == OpToRel(<, Nat)
<1>1. IsWellFoundedOn(R, Nat)
    BY NatLessThanWellFounded
<1>2. \A x, y \in Nat : y < x => <<y, x>> \in R
    BY DEF OpToRel
<1> HIDE DEF R
<1>3. PICK x \in S : \A y \in S : ~(<<y, x>> \in R)
    BY <1>1, WFMin
<1>4. ASSUME NEW y \in S PROVE x <= y
    <2>1. x \in Nat /\ y \in Nat /\ ~(y < x)
        BY <1>2, <1>3
    <2> QED BY <2>1
<1> QED BY <1>3, <1>4

LEMMA GreatestOf ==
    ASSUME NEW n \in Nat, NEW S \in SUBSET (0..n), S # {}
    PROVE  \E x \in S : \A y \in S : y <= x
<1> DEFINE T == {n - i : i \in S}
<1>1. T \in SUBSET Nat /\ T # {}
    <2>1. \A i \in S : i \in 0..n /\ n - i \in Nat
        OBVIOUS
    <2>2. T \in SUBSET Nat
        BY <2>1
    <2> QED BY <2>2
<1>2. PICK t \in T : \A u \in T : t <= u
    <2> HIDE DEF T
    <2> QED BY <1>1, LeastOf
<1>3. PICK x \in S : t = n - x
    OBVIOUS
<1>4. \A y \in S : y <= x
    BY <1>2, <1>3
<1> QED BY <1>3, <1>4

LEMMA InitRing == Init => RingInv
<1> SUFFICES ASSUME Init PROVE RingInv
    OBVIOUS
<1> USE SpoolAssumption DEF Init, NoFile, Names
<1>1. TypeOK
    <2>1. base \in Seq(Nat) /\ size \in Seq(Nat) /\ Len(base) = 1 /\ Len(size) = 1
        OBVIOUS
    <2>2. dir \in [Names -> Nat] /\ \A i \in Names : dir[i] \in 0..1
        OBVIOUS
    <2>3. FileIds = 1..1
        BY <2>1 DEF FileIds
    <2>4. \A i \in Names : dir[i] \in FileIds \cup {NoFile}
        BY <2>2, <2>3
    <2>5. /\ nrec = 0 /\ wpc = "recv" /\ widx = 1 /\ wfp = 1 /\ wleft = 0
          /\ rpc = "read" /\ ridx = 1 /\ nidx = 2 /\ rfp = 1 /\ rpos = 0
          /\ out \in Seq(Nat)
        OBVIOUS
    <2>6. reof \in BOOLEAN
        OBVIOUS
    <2> HIDE DEF Init
    <2> QED BY <2>1, <2>2, <2>3, <2>4, <2>5, <2>6 DEF TypeOK, WriterPcs, ReaderPcs
<1>2. ReaderPlace /\ NextSeen /\ AtEof
    BY DEF ReaderPlace, NextSeen, AtEof, ReadingPcs, NextName
<1>3. WriterPlace
    <2>1. Len(base) = 1
        OBVIOUS
    <2> QED BY <2>1 DEF WriterPlace
<1>4. Ring
    BY DEF Ring
<1> QED BY <1>1, <1>2, <1>3, <1>4 DEF RingInv

------------------------------------------------------------------------------
(* Types.  They need of the steps before them only that Drain is reached   *)
(* at the end of the file.                                                 *)
LEMMA TypeStep == SpoolTypes /\ [Next]_vars => TypeOK'
<1> SUFFICES ASSUME SpoolTypes, [Next]_vars PROVE TypeOK'
    OBVIOUS
<1> USE SpoolAssumption DEF SpoolTypes, TypeOK, NoFile
<1>1. CASE Receive
    BY <1>1 DEF Receive, dirVars, readerVars, WriterPcs, FileIds
<1>2. CASE WriteChunk
    <2>1. wfp \in FileIds /\ wleft \in Nat \ {0} /\ size[wfp] \in Nat
        <3>1. wpc = "write" /\ size \in Seq(Nat)
            BY <1>2 DEF WriteChunk
        <3>2. wfp \in FileIds /\ wfp \in 1..Len(size)
            BY <3>1 DEF FileIds
        <3>3. wleft \in Nat \ {0}
            BY <3>1
        <3> HIDE DEF SpoolTypes
        <3> QED BY <3>1, <3>2, <3>3, SeqExcept
    <2>2. size' \in Seq(Nat) /\ Len(size') = Len(size) /\ base' = base
        <3> HIDE DEF SpoolTypes
        <3>1. size \in Seq(Nat) /\ wfp \in 1..Len(size)
            BY <2>1 DEF FileIds, SpoolTypes
        <3>2. base' = base /\ size' = [size EXCEPT ![wfp] = size[wfp] + 1]
            BY <1>2 DEF WriteChunk
        <3> QED BY <2>1, <3>1, <3>2, SeqExcept
    <2>3. wleft' \in 0..Chunks /\ (wpc' = "write" => wleft' > 0)
        BY <1>2, <2>1 DEF WriteChunk
    <2>4. widx' \in Names /\ wpc' \in WriterPcs
        BY <1>2, NextNameFacts DEF WriteChunk, WriterPcs
    <2>5. FileIds' = FileIds
        BY <2>2 DEF FileIds
    <2>6. wpc' \in {"recv", "write", "wait"} /\ wfp' = wfp /\ wfp # NoFile
        BY <1>2 DEF WriteChunk
    <2>7. UNCHANGED <<dir, base, nrec, readerVars>>
        BY <1>2 DEF WriteChunk
    <2> QED BY <2>1, <2>2, <2>3, <2>4, <2>5, <2>6, <2>7 DEF readerVars
<1>3. CASE NextNameFree
    BY <1>3 DEF NextNameFree, dirVars, readerVars, WriterPcs, FileIds
<1>4. CASE OpenNextForWrite
    <2>0. /\ wpc' = "recv" /\ OpenForWrite(widx) /\ widx \in Names
          /\ UNCHANGED <<nrec, widx, wleft, readerVars>>
        BY <1>4 DEF OpenNextForWrite
    <2>1. CASE Exists(widx)
        <3>1. /\ base' = [base EXCEPT ![dir[widx]] = nrec]
              /\ size' = [size EXCEPT ![dir[widx]] = 0]
              /\ wfp' = dir[widx] /\ dir' = dir
            BY <2>0, <2>1 DEF OpenForWrite
        <3>2. /\ base \in Seq(Nat) /\ size \in Seq(Nat) /\ nrec \in Nat
              /\ dir[widx] \in 1..Len(base) /\ dir[widx] \in 1..Len(size)
            BY <2>0, <2>1 DEF Exists, FileIds
        <3>3. /\ base' \in Seq(Nat) /\ size' \in Seq(Nat)
              /\ Len(base') = Len(base) /\ Len(size') = Len(size)
            <4> HIDE DEF SpoolTypes
            <4> QED BY <3>1, <3>2, SeqExcept
        <3>4. FileIds' = FileIds /\ wfp' \in FileIds
            BY <3>1, <3>2, <3>3 DEF FileIds
        <3> QED BY <2>0, <2>1, <3>1, <3>3, <3>4 DEF readerVars, WriterPcs, Exists
    <2>2. CASE ~Exists(widx)
        <3>1. /\ base' = Append(base, nrec) /\ size' = Append(size, 0)
              /\ wfp' = Len(base) + 1
              /\ dir' = [dir EXCEPT ![widx] = Len(base) + 1]
            BY <2>0, <2>2 DEF OpenForWrite
        <3>2. /\ base' \in Seq(Nat) /\ Len(base') = Len(base) + 1
              /\ size' \in Seq(Nat) /\ Len(size') = Len(size) + 1
            BY <3>1
        <3>3. \A i \in Names : dir'[i] \in FileIds' \cup {NoFile}
            BY <3>1, <3>2 DEF FileIds
        <3>4. dir' \in [Names -> Nat] /\ wfp' \in FileIds' /\ wfp' # NoFile
            <4>1. dir \in [Names -> Nat] /\ Len(base) + 1 \in Nat
                OBVIOUS
            <4> HIDE DEF SpoolTypes
            <4>2. wfp' \in FileIds' /\ wfp' # NoFile
                BY <3>1, <3>2, <4>1 DEF FileIds
            <4> QED BY <2>0, <3>1, <4>1, <4>2
        <3>5. rfp' \in FileIds' \cup {NoFile}
            BY <2>0, <3>2 DEF readerVars, FileIds
        <3> HIDE DEF NoFile
        <3> QED BY <2>0, <3>2, <3>3, <3>4, <3>5 DEF readerVars, WriterPcs, NoFile
    <2> QED BY <2>1, <2>2
<1>5. CASE ReaderStep
    <2>1. CASE ReadRecord
        <3>1. rpos \in Nat /\ base[rfp] \in Nat
            <4>1. rpos \in Nat /\ base \in Seq(Nat) /\ rfp \in 1..Len(base)
                BY <2>1 DEF ReadRecord, FileIds
            <4> HIDE DEF SpoolTypes
            <4> QED BY <4>1, SeqExcept
        <3>2. BlockAt(rpos) \in Nat
            <4>1. base[rfp] * Chunks \in Nat
                BY <3>1, SpoolAssumption
            <4> HIDE DEF SpoolTypes
            <4> QED BY <3>1, <4>1, SpoolAssumption DEF BlockAt
        <3>3. out' \in Seq(Nat)
            BY <2>1, <3>2 DEF ReadRecord
        <3>4. rpos' \in Nat
            BY <2>1 DEF ReadRecord
        <3>5. UNCHANGED <<dirVars, writerVars, rpc, ridx, nidx, rfp, reof>>
            BY <2>1 DEF ReadRecord
        <3> QED BY <3>3, <3>4, <3>5 DEF dirVars, writerVars, FileIds
    <2>2. CASE ReadPart
        <3>1. Available \in Nat
            BY <2>2 DEF ReadPart
        <3>2. rpos' \in Nat
            BY <2>2, <3>1 DEF ReadPart
        <3>4. reof' \in BOOLEAN
            BY <2>2 DEF ReadPart
        <3>3. UNCHANGED <<dirVars, writerVars, rpc, ridx, nidx, rfp, out>>
            BY <2>2 DEF ReadPart
        <3> QED BY <3>2, <3>3, <3>4 DEF dirVars, writerVars, FileIds
    <2>3. CASE ReadNothing
        BY <2>3 DEF ReadNothing, dirVars, writerVars, FileIds, ReaderPcs
    <2>4. CASE CheckNext
        BY <2>4 DEF CheckNext, dirVars, writerVars, FileIds, ReaderPcs
    <2>5. CASE NextNameExists
        BY <2>5 DEF NextNameExists, dirVars, writerVars, FileIds, ReaderPcs
    <2>6. CASE Drain
        <3>1. out' = out /\ rpos' = rpos
            BY <2>6 DEF Drain, AtEof
        <3> QED BY <2>6, <3>1 DEF Drain, dirVars, writerVars, FileIds, ReaderPcs
    <2>7. CASE UnlinkRead
        BY <2>7 DEF UnlinkRead, writerVars, FileIds, ReaderPcs
    <2>8. CASE OpenNextForRead
        BY <2>8, NextNameFacts DEF OpenNextForRead, Exists, dirVars, writerVars, FileIds, ReaderPcs
    <2> QED BY <1>5, <2>1, <2>2, <2>3, <2>4, <2>5, <2>6, <2>7, <2>8 DEF ReaderStep
<1>6. CASE UNCHANGED vars
    BY <1>6 DEF vars, dirVars, writerVars, readerVars, FileIds
<1> QED BY <1>1, <1>2, <1>3, <1>4, <1>5, <1>6 DEF Next, WriterStep

LEMMA AtEofStep == AtEof /\ [Next]_vars => AtEof'
<1> SUFFICES ASSUME AtEof, [Next]_vars PROVE AtEof'
    OBVIOUS
<1>1. CASE Receive \/ WriterStep
    BY <1>1 DEF Receive, WriterStep, WriteChunk, NextNameFree, OpenNextForWrite,
                readerVars, AtEof
<1>2. CASE ReadRecord \/ ReadPart \/ UnlinkRead \/ OpenNextForRead
    BY <1>2 DEF ReadRecord, ReadPart, UnlinkRead, OpenNextForRead, AtEof
<1>3. CASE ReadNothing
    BY <1>3 DEF ReadNothing, AtEof
<1>4. CASE CheckNext
    BY <1>4 DEF CheckNext, AtEof
<1>5. CASE NextNameExists \/ Drain
    BY <1>5 DEF NextNameExists, Drain, AtEof
<1>6. CASE UNCHANGED vars
    BY <1>6 DEF vars, readerVars, AtEof
<1> QED BY <1>1, <1>2, <1>3, <1>4, <1>5, <1>6 DEF Next, ReaderStep

------------------------------------------------------------------------------
(* The unlink of the file that was read takes neither the writer's file    *)
(* nor the next one: these follow it in the ring.                          *)
LEMMA HeadIsBehind ==
    ASSUME RingInv, rpc \in {"drain", "unlink"}
    PROVE  /\ dir[ridx] < wfp
           /\ dir[nidx] = dir[ridx] + 1
           /\ nidx # ridx
<1>1. rfp = dir[ridx] /\ nidx = NextName(ridx) /\ dir[nidx] # NoFile
    BY DEF RingInv, ReaderPlace, ReadingPcs, NextSeen
<1>2. ridx \in Names /\ nidx \in Names /\ nidx # ridx
    BY <1>1, NextNameFacts DEF RingInv, TypeOK
<1>3. dir[ridx] \in Nat /\ dir[nidx] \in Nat /\ wfp \in Nat
    BY <1>2 DEF RingInv, TypeOK, FileIds, NoFile
<1>4. dir[nidx] >= dir[ridx] /\ dir[nidx] # dir[ridx]
    BY <1>1, <1>2 DEF RingInv, Ring
<1>5. dir[nidx] <= wfp
    BY <1>1, <1>2 DEF RingInv, TypeOK, WriterPlace, FileIds, NoFile
<1>6. dir[ridx] < wfp
    BY <1>3, <1>4, <1>5
<1>7. dir[ridx] # NoFile
    BY DEF RingInv, ReaderPlace
<1> QED BY <1>1, <1>2, <1>6, <1>7 DEF RingInv, Ring

(* What fopen "wb" of a free name does.                                    *)
LEMMA OpenAppends ==
    ASSUME RingInv, OpenNextForWrite
    PROVE  /\ dir[widx] = NoFile
           /\ base' = Append(base, nrec) /\ size' = Append(size, 0)
           /\ wfp' = Len(base) + 1 /\ wfp = Len(base) /\ wpc' = "recv"
           /\ dir' = [dir EXCEPT ![widx] = Len(base) + 1]
           /\ Len(base') = Len(base) + 1
           /\ Len(base) \in Nat
           /\ UNCHANGED <<nrec, widx, wleft, readerVars>>
<1>1. dir[widx] = NoFile /\ wfp = Len(base)
    BY DEF OpenNextForWrite, RingInv, WriterPlace
<1>2. base \in Seq(Nat) /\ nrec \in Nat
    BY DEF RingInv, TypeOK
<1> QED BY <1>1, <1>2 DEF OpenNextForWrite, OpenForWrite, Exists

LEMMA ReaderPlaceStep == RingInv /\ [Next]_vars => ReaderPlace'
<1> SUFFICES ASSUME RingInv, [Next]_vars PROVE ReaderPlace'
    OBVIOUS
<1>1. CASE OpenNextForWrite
    <2>1. ridx # widx
        BY <1>1, OpenAppends DEF RingInv, ReaderPlace
    <2>2. dir'[ridx] = dir[ridx]
        BY <1>1, <2>1, OpenAppends DEF RingInv, TypeOK
    <2> QED BY <1>1, <2>2, OpenAppends DEF RingInv, ReaderPlace, readerVars
<1>2. CASE UnlinkRead
    <2>1. rpc = "unlink" /\ rpc' = "open" /\ rfp' = NoFile /\ ridx' = nidx /\ nidx' = nidx
        BY <1>2 DEF UnlinkRead
    <2>2. dir'[nidx] = dir[nidx] /\ dir[nidx] # NoFile
        BY <1>2, <2>1, HeadIsBehind DEF UnlinkRead, RingInv, TypeOK, NextSeen
    <2> QED BY <2>1, <2>2 DEF ReaderPlace, ReadingPcs
<1>3. CASE OpenNextForRead
    BY <1>3 DEF OpenNextForRead, RingInv, ReaderPlace, ReadingPcs, dirVars, Exists
<1>4. CASE Receive \/ WriteChunk \/ NextNameFree
    BY <1>4 DEF Receive, WriteChunk, NextNameFree, RingInv, ReaderPlace, dirVars, readerVars
<1>5. CASE ReadRecord \/ ReadPart \/ ReadNothing
    BY <1>5 DEF ReadRecord, ReadPart, ReadNothing, RingInv, ReaderPlace, ReadingPcs, dirVars
<1>6. CASE CheckNext \/ NextNameExists \/ Drain
    BY <1>6 DEF CheckNext, NextNameExists, Drain, RingInv, ReaderPlace, ReadingPcs, dirVars
<1>7. CASE UNCHANGED vars
    BY <1>7 DEF vars, dirVars, readerVars, RingInv, ReaderPlace
<1> QED BY <1>1, <1>2, <1>3, <1>4, <1>5, <1>6, <1>7 DEF Next, WriterStep, ReaderStep

LEMMA WriterPlaceStep == RingInv /\ [Next]_vars => WriterPlace'
<1> SUFFICES ASSUME RingInv, [Next]_vars PROVE WriterPlace'
    OBVIOUS
<1>1. CASE WriteChunk
    <2>1. wpc = "write" /\ dir[widx] = wfp /\ widx \in Names /\ wfp = Len(base)
        BY <1>1 DEF WriteChunk, RingInv, TypeOK, WriterPlace
    <2>2. UNCHANGED <<dir, base, wfp>>
        BY <1>1 DEF WriteChunk
    <2>3. CASE wpc' = "wait"
        <3>1. widx' = NextName(widx)
            BY <1>1, <2>3, SpoolAssumption DEF WriteChunk, RingInv, TypeOK
        <3> QED BY <2>1, <2>2, <2>3, <3>1 DEF WriterPlace
    <2>4. CASE wpc' # "wait"
        <3>1. wpc' \in {"write", "recv"} /\ widx' = widx
            BY <1>1, <2>4, SpoolAssumption DEF WriteChunk, RingInv, TypeOK
        <3> QED BY <2>1, <2>2, <3>1 DEF WriterPlace
    <2> QED BY <2>3, <2>4
<1>2. CASE OpenNextForWrite
    <2>1. widx \in Names /\ dir \in [Names -> Nat]
        BY DEF RingInv, TypeOK
    <2> QED BY <1>2, <2>1, OpenAppends DEF WriterPlace
<1>3. CASE UnlinkRead
    <2>1. rpc = "unlink" /\ dir' = [dir EXCEPT ![ridx] = NoFile]
        BY <1>3 DEF UnlinkRead
    <2>2. dir[ridx] < wfp /\ wfp \in Nat
        BY <2>1, HeadIsBehind DEF RingInv, TypeOK, FileIds, NoFile
    <2>3. \A i \in Names : dir[i] = wfp => dir'[i] = wfp
        BY <2>1, <2>2 DEF RingInv, TypeOK
    <2>4. \A i \in Names : dir[i] = NoFile => dir'[i] = NoFile
        BY <2>1 DEF RingInv, TypeOK
    <2>5. UNCHANGED <<base, wpc, widx, wfp>>
        BY <1>3 DEF UnlinkRead, writerVars
    <2>6. widx \in Names
        BY DEF RingInv, TypeOK
    <2> QED BY <2>3, <2>4, <2>5, <2>6 DEF RingInv, WriterPlace
<1>4. CASE Receive \/ NextNameFree
    BY <1>4 DEF Receive, NextNameFree, Exists, RingInv, WriterPlace, dirVars
<1>5. CASE ReadRecord \/ ReadPart \/ ReadNothing
    BY <1>5 DEF ReadRecord, ReadPart, ReadNothing, RingInv, WriterPlace, dirVars, writerVars
<1>6. CASE CheckNext \/ NextNameExists \/ Drain \/ OpenNextForRead
    BY <1>6 DEF CheckNext, NextNameExists, Drain, OpenNextForRead,
                RingInv, WriterPlace, dirVars, writerVars
<1>7. CASE UNCHANGED vars
    BY <1>7 DEF vars, dirVars, writerVars, RingInv, WriterPlace
<1> QED BY <1>1, <1>2, <1>3, <1>4, <1>5, <1>6, <1>7 DEF Next, WriterStep, ReaderStep

LEMMA RingStep == RingInv /\ [Next]_vars => Ring'
<1> SUFFICES ASSUME RingInv, [Next]_vars PROVE Ring'
    OBVIOUS
<1>1. CASE OpenNextForWrite
    <2> DEFINE new == Len(base) + 1
    <2>1. /\ dir[widx] = NoFile /\ wfp' = new /\ wfp = Len(base) /\ Len(base) \in Nat
          /\ dir' = [dir EXCEPT ![widx] = new] /\ ridx' = ridx
        BY <1>1, OpenAppends DEF readerVars
    <2>2. dir \in [Names -> Nat] /\ widx \in Names /\ ridx \in Names
        BY DEF RingInv, TypeOK
    <2>3. \A i \in Names : dir[i] <= Len(base)
        BY <2>1, <2>2 DEF RingInv, TypeOK, FileIds, NoFile
    <2>4. dir'[widx] = new /\ \A i \in Names : i # widx => dir'[i] = dir[i]
        BY <2>1, <2>2
    <2>5. dir'[ridx] = dir[ridx] /\ dir[ridx] # NoFile
        BY <2>1, <2>4, <2>2 DEF RingInv, ReaderPlace
    <2>6. \A i \in Names : dir'[i] # NoFile => dir'[i] >= dir'[ridx]
        BY <2>1, <2>2, <2>3, <2>4, <2>5 DEF RingInv, Ring
    <2>7. \A i, j \in Names : dir'[i] # NoFile /\ dir'[i] = dir'[j] => i = j
        BY <2>1, <2>2, <2>3, <2>4 DEF RingInv, Ring
    <2>8. ASSUME NEW i \in Names, dir'[i] # NoFile, dir'[i] < new
          PROVE  dir'[NextName(i)] = dir'[i] + 1
        <3>1. i # widx /\ dir'[i] = dir[i] /\ dir[i] \in Nat /\ dir[i] <= wfp
            BY <2>1, <2>2, <2>3, <2>4, <2>8
        <3>2. CASE dir[i] < wfp
            <4>1. dir[NextName(i)] = dir[i] + 1
                BY <2>8, <3>1, <3>2 DEF RingInv, Ring
            <4>2. NextName(i) # widx
                BY <4>1, <3>1, <2>1 DEF NoFile
            <4> QED BY <3>1, <4>1, <4>2, <2>4, NextNameFacts
        <3>3. CASE dir[i] = wfp
            <4>1. PICK p \in Names : dir[p] = wfp /\ widx = NextName(p)
                BY <1>1 DEF OpenNextForWrite, RingInv, WriterPlace
            <4>2. p = i
                BY <2>8, <3>1, <3>3, <4>1 DEF RingInv, Ring
            <4> QED BY <2>1, <2>4, <3>1, <3>3, <4>1, <4>2
        <3> QED BY <3>1, <3>2, <3>3, <2>1
    <2> QED BY <2>1, <2>6, <2>7, <2>8 DEF Ring
<1>2. CASE UnlinkRead
    <2>1. rpc = "unlink" /\ dir' = [dir EXCEPT ![ridx] = NoFile] /\ ridx' = nidx /\ wfp' = wfp
        BY <1>2 DEF UnlinkRead, writerVars
    <2>2. dir[nidx] = dir[ridx] + 1 /\ nidx # ridx
        BY <2>1, HeadIsBehind
    <2>3. dir \in [Names -> Nat] /\ ridx \in Names /\ nidx \in Names
        BY DEF RingInv, TypeOK
    <2>4. dir'[ridx] = NoFile /\ \A i \in Names : i # ridx => dir'[i] = dir[i]
        BY <2>1, <2>3
    <2>5. \A i \in Names : dir'[i] # NoFile => i # ridx /\ dir'[i] = dir[i]
        BY <2>4
    <2>6. \A i \in Names : dir'[i] # NoFile => dir'[i] > dir[ridx]
        BY <2>3, <2>5 DEF RingInv, Ring
    <2>7. \A i \in Names : dir'[i] # NoFile => dir'[i] >= dir'[nidx]
        BY <2>2, <2>3, <2>4, <2>5, <2>6
    <2>8. \A i, j \in Names : dir'[i] # NoFile /\ dir'[i] = dir'[j] => i = j
        BY <2>5 DEF RingInv, Ring
    <2>9. ASSUME NEW i \in Names, dir'[i] # NoFile, dir'[i] < wfp
          PROVE  dir'[NextName(i)] = dir'[i] + 1
        <3>1. dir[NextName(i)] = dir[i] + 1
            BY <2>5, <2>9 DEF RingInv, Ring
        <3>2. NextName(i) # ridx
            BY <2>3, <2>5, <2>6, <2>9, <3>1
        <3> QED BY <2>4, <2>5, <2>9, <3>1, <3>2, NextNameFacts
    <2> QED BY <2>1, <2>7, <2>8, <2>9 DEF Ring
<1>3. CASE Receive \/ WriteChunk \/ NextNameFree
    BY <1>3 DEF Receive, WriteChunk, NextNameFree, RingInv, Ring, dirVars, readerVars
<1>4. CASE ReadRecord \/ ReadPart \/ ReadNothing
    BY <1>4 DEF ReadRecord, ReadPart, ReadNothing, RingInv, Ring, dirVars, writerVars
<1>5. CASE CheckNext \/ NextNameExists \/ Drain \/ OpenNextForRead
    BY <1>5 DEF CheckNext, NextNameExists, Drain, OpenNextForRead,
                RingInv, Ring, dirVars, writerVars
<1>6. CASE UNCHANGED vars
    BY <1>6 DEF vars, dirVars, writerVars, readerVars, RingInv, Ring
<1> QED BY <1>1, <1>2, <1>3, <1>4, <1>5, <1>6 DEF Next, WriterStep, ReaderStep

LEMMA NextSeenStep == RingInv /\ [Next]_vars => NextSeen'
<1> SUFFICES ASSUME RingInv, [Next]_vars PROVE NextSeen'
    OBVIOUS
<1>1. CASE OpenNextForWrite
    <2>1. \A i \in Names : dir[i] # NoFile => dir'[i] = dir[i]
        BY <1>1, OpenAppends DEF RingInv, TypeOK
    <2>2. nidx \in Names /\ nidx' = nidx /\ rpc' = rpc
        BY <1>1, OpenAppends DEF RingInv, TypeOK, readerVars
    <2> QED BY <2>1, <2>2 DEF RingInv, NextSeen
<1>2. CASE Receive \/ WriteChunk \/ NextNameFree
    BY <1>2 DEF Receive, WriteChunk, NextNameFree, RingInv, NextSeen, dirVars, readerVars
<1>3. CASE ReadRecord \/ ReadPart \/ ReadNothing \/ CheckNext
    BY <1>3 DEF ReadRecord, ReadPart, ReadNothing, CheckNext, RingInv, NextSeen, dirVars
<1>4. CASE NextNameExists \/ Drain
    BY <1>4 DEF NextNameExists, Exists, Drain, RingInv, NextSeen, dirVars
<1>5. CASE UnlinkRead \/ OpenNextForRead
    BY <1>5 DEF UnlinkRead, OpenNextForRead, NextSeen
<1>6. CASE UNCHANGED vars
    BY <1>6 DEF vars, dirVars, readerVars, RingInv, NextSeen
<1> QED BY <1>1, <1>2, <1>3, <1>4, <1>5, <1>6 DEF Next, WriterStep, ReaderStep

LEMMA RingInvariant == Spec => []RingInv
<1>1. RingInv /\ [Next]_vars => RingInv'
    BY TypeStep, ReaderPlaceStep, WriterPlaceStep, RingStep, NextSeenStep, AtEofStep
       DEF RingInv, SpoolTypes
<1> QED BY InitRing, <1>1, PTL DEF Spec

------------------------------------------------------------------------------
(* Every variable keeps to its type, for every size of the spool.          *)
THEOREM SpoolTypeCorrect == Spec => []TypeOK
<1>1. RingInv => TypeOK
    BY DEF RingInv
<1> QED BY RingInvariant, <1>1, PTL

(* The busy-wait loops of fw_GetNextFileSize and frd_GetNextFile never     *)
(* wait for each other.                                                    *)
THEOREM SpoolNoMutualWait == Spec => []NoMutualWait
<1>1. RingInv => NoMutualWait
    <2> SUFFICES ASSUME RingInv, wpc = "wait", Exists(widx), rpc = "wait", ~Exists(nidx)
                 PROVE  FALSE
        BY DEF NoMutualWait
    <2>1. PICK p \in Names : dir[p] = wfp /\ widx = NextName(p)
        BY DEF RingInv, WriterPlace
    <2>2. /\ ridx \in Names /\ dir[ridx] # NoFile /\ nidx = NextName(ridx)
          /\ dir[ridx] \in Nat /\ wfp \in Nat /\ dir[ridx] <= wfp
        BY DEF RingInv, TypeOK, ReaderPlace, ReadingPcs, WriterPlace, FileIds, NoFile
    <2>3. dir[nidx] = NoFile
        BY DEF Exists
    <2>4. CASE dir[ridx] < wfp
        <3>1. dir[nidx] = dir[ridx] + 1
            BY <2>2, <2>4 DEF RingInv, Ring
        <3> QED BY <2>2, <2>3, <3>1 DEF NoFile
    <2>5. CASE dir[ridx] = wfp
        <3>1. p = ridx
            BY <2>1, <2>2, <2>5 DEF RingInv, Ring
        <3> QED BY <2>1, <2>2, <2>3, <3>1 DEF Exists
    <2> QED BY <2>2, <2>4, <2>5
<1> QED BY RingInvariant, <1>1, PTL

(* frd_GetNextFile closes and unlinks no file that is still written.       *)
THEOREM SpoolWriterHasLeft == Spec => []WriterHasLeft
<1>1. RingInv => WriterHasLeft
    <2> SUFFICES ASSUME RingInv, rpc \in {"drain", "unlink"} PROVE rfp # wfp
        BY DEF WriterHasLeft
    <2>1. rfp = dir[ridx] /\ rfp \in Nat /\ wfp \in Nat
        BY DEF RingInv, ReaderPlace, ReadingPcs, TypeOK, FileIds, NoFile
    <2> QED BY <2>1, HeadIsBehind
<1> QED BY RingInvariant, <1>1, PTL

(* No fopen "wb" meets a file that has the name.                           *)
THEOREM SpoolNeverTruncates == Spec => NeverTruncates
<1>1. RingInv /\ [Next]_vars =>
        [\A f \in FileIds : base'[f] = base[f] /\ size'[f] >= size[f]]_vars
    <2> SUFFICES ASSUME RingInv, Next
                 PROVE  \A f \in FileIds : base'[f] = base[f] /\ size'[f] >= size[f]
        OBVIOUS
    <2>0. /\ base \in Seq(Nat) /\ size \in Seq(Nat) /\ Len(size) = Len(base)
          /\ nrec \in Nat /\ FileIds = 1..Len(base)
        BY DEF RingInv, TypeOK, FileIds
    <2>1. CASE WriteChunk
        <3>1. base' = base /\ size' = [size EXCEPT ![wfp] = size[wfp] + 1]
            BY <2>1 DEF WriteChunk
        <3> QED BY <2>0, <3>1
    <2>2. CASE OpenNextForWrite
        <3>1. base' = Append(base, nrec) /\ size' = Append(size, 0)
            BY <2>2, OpenAppends
        <3> QED BY <2>0, <3>1
    <2>3. CASE Receive \/ NextNameFree \/ ReaderStep
        <3>1. base' = base /\ size' = size
            BY <2>3 DEF Receive, NextNameFree, ReaderStep, ReadRecord, ReadPart,
                        ReadNothing, CheckNext, NextNameExists, Drain, UnlinkRead,
                        OpenNextForRead, dirVars
        <3> QED BY <2>0, <3>1
    <2> QED BY <2>1, <2>2, <2>3 DEF Next, WriterStep
<1> QED BY RingInvariant, <1>1, PTL DEF Spec, NeverTruncates

(* The reader opens the oldest file that is left.                          *)
THEOREM SpoolFilesInOrder == Spec => FilesInOrder
<1>1. RingInv /\ [Next]_vars =>
        [\A f \in FileIds :
            rpc = "open" /\ rfp' = f /\ rfp # f
               => \A i \in Names : dir[i] = NoFile \/ dir[i] >= f]_vars
    <2> SUFFICES ASSUME RingInv, Next, NEW f \in FileIds,
                        rpc = "open", rfp' = f, rfp # f
                 PROVE  \A i \in Names : dir[i] = NoFile \/ dir[i] >= f
        OBVIOUS
    <2>1. OpenNextForRead
        BY DEF Next, Receive, WriterStep, WriteChunk, NextNameFree, OpenNextForWrite,
               ReaderStep, ReadRecord, ReadPart, ReadNothing, CheckNext,
               NextNameExists, Drain, UnlinkRead, readerVars
    <2> QED BY <2>1 DEF OpenNextForRead, RingInv, Ring
<1> QED BY RingInvariant, <1>1, PTL DEF Spec, FilesInOrder

------------------------------------------------------------------------------
(* How many names after the reader's name i comes in the ring.             *)
Offset(i) == IF i >= ridx THEN i - ridx ELSE i - ridx + MaxIndex

(* The names in use are those from the reader's to the writer's and no     *)
(* other, and name their files in this order.                              *)
NamesFollow ==
    \A i \in Names : /\ Exists(i) <=> Offset(i) <= wfp - dir[ridx]
                     /\ Exists(i) => dir[i] = dir[ridx] + Offset(i)

LEMMA OffsetFacts ==
    ASSUME ridx \in Names
    PROVE  /\ Offset(ridx) = 0
           /\ \A i \in Names : Offset(i) \in 0..(MaxIndex - 1)
           /\ \A i, j \in Names : Offset(i) = Offset(j) => i = j
           /\ \A i \in Names : Offset(NextName(i)) =
                  IF Offset(i) = MaxIndex - 1 THEN 0 ELSE Offset(i) + 1
BY SpoolAssumption DEF Offset, Names, NextName

(* When the reader moves on one name all others are one nearer to it.      *)
LEMMA OffsetMoves ==
    ASSUME ridx \in Names, ridx' = NextName(ridx)
    PROVE  \A i \in Names : Offset(i)' =
               IF i = ridx THEN MaxIndex - 1 ELSE Offset(i) - 1
BY SpoolAssumption DEF Offset, Names, NextName

(* What the types say of names and files.                                  *)
LEMMA RingTypes ==
    ASSUME RingInv
    PROVE  /\ dir \in [Names -> Nat] /\ ridx \in Names /\ widx \in Names
           /\ wfp \in Nat /\ dir[ridx] \in Nat \ {0}
           /\ \A i \in Names : dir[i] <= wfp
           /\ \E p \in Names : dir[p] = wfp
<1>1. dir \in [Names -> Nat] /\ ridx \in Names /\ widx \in Names /\ dir[ridx] # NoFile
    BY DEF RingInv, TypeOK, ReaderPlace
<1>2. wfp \in Nat /\ \A i \in Names : dir[i] <= wfp
    BY DEF RingInv, TypeOK, WriterPlace, FileIds, NoFile
<1>3. \E p \in Names : dir[p] = wfp
    BY <1>1 DEF RingInv, TypeOK, WriterPlace, WriterPcs
<1> QED BY <1>1, <1>2, <1>3 DEF NoFile

LEMMA NamesFollowInit == Init => NamesFollow
<1> SUFFICES ASSUME Init, NEW i \in Names
             PROVE  /\ Exists(i) <=> Offset(i) <= wfp - dir[ridx]
                    /\ Exists(i) => dir[i] = dir[ridx] + Offset(i)
    BY DEF NamesFollow
<1>1. ridx = 1 /\ wfp = 1 /\ dir[1] = 1 /\ dir[i] = (IF i = 1 THEN 1 ELSE 0)
    BY SpoolAssumption DEF Init, Names, NoFile
<1>2. Offset(i) = i - 1
    BY <1>1 DEF Offset, Names
<1> QED BY <1>1, <1>2 DEF Names, Exists, NoFile

LEMMA NamesFollowStep == RingInv /\ NamesFollow /\ [Next]_vars => NamesFollow'
<1> SUFFICES ASSUME RingInv, NamesFollow, [Next]_vars PROVE NamesFollow'
    OBVIOUS
<1> DEFINE head == dir[ridx]
<1>0. /\ dir \in [Names -> Nat] /\ ridx \in Names /\ widx \in Names
      /\ wfp \in Nat /\ head \in Nat \ {0}
      /\ \A i \in Names : dir[i] <= wfp
    BY RingTypes
<1>a. \A i \in Names : Offset(i) \in 0..(MaxIndex - 1)
    BY <1>0, OffsetFacts
<1>1. CASE OpenNextForWrite
    <2>1. /\ dir[widx] = NoFile /\ wfp' = wfp + 1 /\ wpc = "open"
          /\ dir' = [dir EXCEPT ![widx] = wfp + 1] /\ ridx' = ridx
        BY <1>1, OpenAppends DEF readerVars, OpenNextForWrite
    <2>2. PICK p \in Names : dir[p] = wfp /\ widx = NextName(p)
        BY <2>1 DEF RingInv, WriterPlace
    <2>3. wfp = head + Offset(p) /\ Exists(p)
        BY <1>0, <2>2 DEF NamesFollow, Exists, NoFile
    <2>4. Offset(widx) > wfp - head
        BY <1>0, <1>a, <2>1 DEF NamesFollow, Exists
    <2>5. Offset(widx) = wfp + 1 - head
        BY <1>0, <1>a, <2>2, <2>3, <2>4, OffsetFacts
    <2>6. ridx # widx /\ dir'[ridx] = head
        BY <1>0, <2>1 DEF NoFile
    <2>7. \A i \in Names : Offset(i)' = Offset(i)
        BY <2>1 DEF Offset
    <2>8. ASSUME NEW i \in Names
          PROVE  /\ dir'[i] # 0 <=> Offset(i) <= wfp + 1 - head
                 /\ dir'[i] # 0 => dir'[i] = head + Offset(i)
        <3>1. CASE i = widx
            BY <1>0, <2>1, <2>5, <3>1
        <3>2. CASE i # widx
            <4>1. dir'[i] = dir[i] /\ Offset(i) # wfp + 1 - head
                BY <1>0, <2>1, <2>5, <3>2, OffsetFacts
            <4>2. /\ dir[i] # 0 <=> Offset(i) <= wfp - head
                  /\ dir[i] # 0 => dir[i] = head + Offset(i)
                BY DEF NamesFollow, Exists, NoFile
            <4> QED BY <1>0, <1>a, <4>1, <4>2
        <3> QED BY <3>1, <3>2
    <2>9. \A i \in Names : /\ dir'[i] # 0 <=> Offset(i)' <= wfp + 1 - head
                           /\ dir'[i] # 0 => dir'[i] = head + Offset(i)'
        BY <2>7, <2>8
    <2> QED BY <1>0, <2>1, <2>6, <2>9 DEF NamesFollow, Exists, NoFile
<1>2. CASE UnlinkRead
    <2>1. /\ rpc = "unlink" /\ dir' = [dir EXCEPT ![ridx] = NoFile]
          /\ ridx' = nidx /\ wfp' = wfp /\ nidx = NextName(ridx) /\ nidx \in Names
        BY <1>2 DEF UnlinkRead, writerVars, RingInv, ReaderPlace, ReadingPcs, TypeOK
    <2>2. dir[nidx] = head + 1 /\ nidx # ridx
        BY <2>1, HeadIsBehind
    <2>3. dir'[nidx] = head + 1
        BY <1>0, <2>1, <2>2
    <2>4. \A i \in Names : Offset(i)' = IF i = ridx THEN MaxIndex - 1 ELSE Offset(i) - 1
        BY <1>0, <2>1, OffsetMoves
    <2>5. wfp - head <= MaxIndex - 1
        <3>1. PICK p \in Names : dir[p] = wfp
            BY RingTypes
        <3>2. wfp = head + Offset(p)
            BY <1>0, <3>1 DEF NamesFollow, Exists, NoFile
        <3> QED BY <1>0, <1>a, <3>2
    <2>6. ASSUME NEW i \in Names
          PROVE  /\ dir'[i] # 0 <=> Offset(i)' <= wfp - (head + 1)
                 /\ dir'[i] # 0 => dir'[i] = head + 1 + Offset(i)'
        <3>1. CASE i = ridx
            <4>1. dir'[i] = 0 /\ Offset(i)' = MaxIndex - 1
                BY <1>0, <2>1, <2>4, <3>1 DEF NoFile
            <4> QED BY <1>0, <2>5, <4>1, SpoolAssumption
        <3>2. CASE i # ridx
            <4>1. dir'[i] = dir[i] /\ Offset(i)' = Offset(i) - 1
                BY <1>0, <2>1, <2>4, <3>2
            <4>2. /\ dir[i] # 0 <=> Offset(i) <= wfp - head
                  /\ dir[i] # 0 => dir[i] = head + Offset(i)
                BY DEF NamesFollow, Exists, NoFile
            <4> QED BY <1>0, <1>a, <4>1, <4>2
        <3> QED BY <3>1, <3>2
    <2> QED BY <2>1, <2>3, <2>6 DEF NamesFollow, Exists, NoFile
<1>3. CASE Receive \/ WriteChunk \/ NextNameFree
    BY <1>3 DEF Receive, WriteChunk, NextNameFree, NamesFollow, Offset, Exists,
                dirVars, readerVars
<1>4. CASE ReadRecord \/ ReadPart \/ ReadNothing
    BY <1>4 DEF ReadRecord, ReadPart, ReadNothing, NamesFollow, Offset, Exists,
                dirVars, writerVars
<1>5. CASE CheckNext \/ NextNameExists \/ Drain \/ OpenNextForRead
    <2>1. UNCHANGED <<dir, ridx, wfp>>
        BY <1>5 DEF CheckNext, NextNameExists, Drain, OpenNextForRead, dirVars, writerVars
    <2> QED BY <2>1 DEF NamesFollow, Offset, Exists
<1>6. CASE UNCHANGED vars
    BY <1>6 DEF vars, dirVars, writerVars, readerVars, NamesFollow, Offset, Exists
<1> QED BY <1>1, <1>2, <1>3, <1>4, <1>5, <1>6 DEF Next, WriterStep, ReaderStep

(* The writer of fw_GetNextFileSize sleeps on a name that is in use only   *)
(* when every name from 00001 to nCfgMaxFileIndex is.                      *)
THEOREM SpoolBlocksOnlyWhenFull == Spec => []BlocksOnlyWhenFull
<1>1. RingInv /\ NamesFollow /\ [Next]_vars => NamesFollow'
    BY NamesFollowStep
<1>2. RingInv /\ NamesFollow => BlocksOnlyWhenFull
    <2> SUFFICES ASSUME RingInv, NamesFollow, wpc = "wait", Exists(widx), NEW i \in Names
                 PROVE  Exists(i)
        BY DEF BlocksOnlyWhenFull
    <2>1. /\ ridx \in Names /\ widx \in Names /\ wfp \in Nat /\ dir[ridx] \in Nat \ {0}
        BY RingTypes
    <2>2. \A j \in Names : Offset(j) \in 0..(MaxIndex - 1)
        BY <2>1, OffsetFacts
    <2>3. PICK p \in Names : dir[p] = wfp /\ widx = NextName(p)
        BY DEF RingInv, WriterPlace
    <2>4. wfp = dir[ridx] + Offset(p)
        <3>1. dir[ridx] <= wfp
            BY <2>1, RingTypes
        <3> QED BY <2>1, <2>3, <3>1 DEF NamesFollow, Exists, NoFile
    <2>5. Offset(widx) <= wfp - dir[ridx]
        BY <2>1 DEF NamesFollow
    <2>6. Offset(p) = MaxIndex - 1
        BY <2>1, <2>2, <2>3, <2>4, <2>5, OffsetFacts
    <2> QED BY <2>1, <2>2, <2>4, <2>6 DEF NamesFollow
<1> QED BY RingInvariant, NamesFollowInit, <1>1, <1>2, PTL DEF Spec

------------------------------------------------------------------------------
(* What the records of the spool come to: no chunk of one is handed over   *)
(* twice or late.  Written in one piece each they reach the DBMS as        *)
(* LossyFifo says.                                                         *)

(* Records that a file holds to their last chunk.                          *)
Complete(f) == size[f] \div Chunks

(* The files hold the records one after the other, and each but the        *)
(* writer's ends with a complete one.                                      *)
Contents ==
    /\ \A f \in FileIds : f # wfp => size[f] % Chunks = 0
    /\ \A f, g \in FileIds : f < g => base[f] + Complete(f) <= base[g]
    /\ (size[wfp] + wleft) % Chunks = 0
    /\ base[wfp] + ((size[wfp] + wleft) \div Chunks) = nrec
    /\ wpc # "write" => wleft = 0

(* Records that divide MaxSize grow a file to it and no further.           *)
Bounded ==
    MaxSize % Chunks = 0 =>
        /\ \A f \in FileIds : size[f] <= MaxSize
        /\ wpc = "recv" => size[wfp] < MaxSize
        /\ wpc = "write" => size[wfp] + wleft <= MaxSize

HandedUpTo(n) == \A k \in 1..Len(out) : out[k] <= n

(* Chunks in the files before f.                                           *)
Origin(f) == base[f] * Chunks

(* What the reader handed over lies before where it reads.                 *)
ReadUpTo ==
    /\ rpc \in ReadingPcs => rpos <= size[rfp] /\ HandedUpTo(Origin(rfp) + rpos)
    /\ rpc = "open" => HandedUpTo(Origin(dir[ridx]))

FifoInv == RingInv /\ Contents /\ Bounded /\ ReadUpTo /\ InOrder

------------------------------------------------------------------------------
(* Chunks and records.                                                     *)

LEMMA DivMod ==
    ASSUME NEW n \in Nat
    PROVE  /\ n \div Chunks \in Nat /\ n % Chunks \in 0..(Chunks - 1)
           /\ n = Chunks * (n \div Chunks) + (n % Chunks)
BY SpoolAssumption

LEMMA DivModUnique ==
    ASSUME NEW n \in Nat, NEW q \in Nat, NEW r \in 0..(Chunks - 1), n = Chunks * q + r
    PROVE  n \div Chunks = q /\ n % Chunks = r
BY SpoolAssumption

(* One more record.                                                        *)
LEMMA DivNext ==
    ASSUME NEW n \in Nat
    PROVE  /\ (n + Chunks) \div Chunks = (n \div Chunks) + 1
           /\ (n + Chunks) % Chunks = n % Chunks
<1> DEFINE q == n \div Chunks
           r == n % Chunks
<1>1. q \in Nat /\ r \in 0..(Chunks - 1) /\ n = Chunks * q + r
    BY DivMod
<1> HIDE DEF q, r
<1>2. n + Chunks = Chunks * (q + 1) + r /\ q + 1 \in Nat /\ n + Chunks \in Nat
    BY <1>1, SpoolAssumption
<1>3. (n + Chunks) \div Chunks = q + 1 /\ (n + Chunks) % Chunks = r
    BY <1>1, <1>2, DivModUnique
<1> QED BY <1>3 DEF q, r

(* A record that lacks some chunks.                                        *)
LEMMA DivPartial ==
    ASSUME NEW n \in Nat, NEW w \in 1..Chunks, (n + w) % Chunks = 0
    PROVE  (n + w) \div Chunks = (n \div Chunks) + 1
BY SpoolAssumption

(* Between two multiples lies a whole record at least.                     *)
LEMMA DivBelow ==
    ASSUME NEW m \in Nat, NEW n \in Nat, m % Chunks = 0, n % Chunks = 0, m < n
    PROVE  m + Chunks <= n
<1> DEFINE p == m \div Chunks
           q == n \div Chunks
<1>1. p \in Nat /\ m = Chunks * p + (m % Chunks)
    BY DivMod
<1>2. q \in Nat /\ n = Chunks * q + (n % Chunks)
    BY DivMod
<1> HIDE DEF p, q
<1>3. m = Chunks * p /\ n = Chunks * q
    BY <1>1, <1>2, SpoolAssumption
<1>4. p + 1 <= q
    <2>1. CASE q <= p
        <3>1. Chunks * q <= Chunks * p
            BY <1>1, <1>2, <2>1, SpoolAssumption
        <3> QED BY <1>3, <3>1
    <2> QED BY <1>1, <1>2, <2>1
<1>5. Chunks * (p + 1) <= Chunks * q
    BY <1>1, <1>2, <1>4, SpoolAssumption
<1>6. Chunks * (p + 1) = m + Chunks
    BY <1>1, <1>3, SpoolAssumption
<1> QED BY <1>3, <1>5, <1>6

LEMMA DivZero == 0 \div Chunks = 0 /\ 0 % Chunks = 0
BY SpoolAssumption

LEMMA WholeRecords ==
    ASSUME Chunks = 1, NEW n \in Nat
    PROVE  n % Chunks = 0 /\ n \div Chunks = n
OBVIOUS

(* A file of n records that b records come before.                         *)
LEMMA ChunksBefore ==
    ASSUME NEW b \in Nat, NEW n \in Nat, NEW c \in Nat, b + n <= c
    PROVE  b * Chunks + Chunks * n <= c * Chunks /\ b * Chunks \in Nat /\ c * Chunks \in Nat
<1>1. b * Chunks \in Nat /\ c * Chunks \in Nat
    BY SpoolAssumption
<1>2. PICK d \in Nat : c = b + n + d
    <2>1. c - (b + n) \in Nat /\ c = b + n + (c - (b + n))
        OBVIOUS
    <2> QED BY <2>1
<1>3. c * Chunks = b * Chunks + Chunks * n + Chunks * d
    BY <1>2, SpoolAssumption
<1>4. Chunks * d \in Nat /\ Chunks * n \in Nat
    BY SpoolAssumption
<1> QED BY <1>1, <1>3, <1>4

------------------------------------------------------------------------------
LEMMA FifoInit == Init => FifoInv
<1> SUFFICES ASSUME Init PROVE FifoInv
    OBVIOUS
<1>1. RingInv
    BY InitRing
<1>2. /\ base = <<0>> /\ size = <<0>> /\ wfp = 1 /\ nrec = 0 /\ wleft = 0 /\ wpc = "recv"
      /\ rpc = "read" /\ rpos = 0 /\ rfp = 1 /\ out = <<>>
    BY DEF Init
<1>3. FileIds = {1} /\ base[1] = 0 /\ size[1] = 0 /\ Len(out) = 0
    BY <1>2 DEF FileIds
<1>4. Contents
    BY <1>2, <1>3, DivZero DEF Contents
<1>5. Bounded
    BY <1>2, <1>3, SpoolAssumption DEF Bounded
<1>6. ReadUpTo /\ InOrder
    BY <1>2, <1>3 DEF ReadUpTo, HandedUpTo, InOrder
<1> QED BY <1>1, <1>4, <1>5, <1>6 DEF FifoInv

(* What the steps below use of the types.                                  *)
LEMMA Facts ==
    ASSUME FifoInv
    PROVE  /\ base \in Seq(Nat) /\ size \in Seq(Nat) /\ Len(size) = Len(base)
           /\ FileIds = 1..Len(base) /\ Len(base) \in Nat /\ nrec \in Nat
           /\ wfp = Len(base) /\ wleft \in 0..Chunks /\ (wpc = "write" => wleft > 0)
           /\ \A f \in FileIds : base[f] \in Nat /\ size[f] \in Nat /\ Complete(f) \in Nat
           /\ rpos \in Nat /\ out \in Seq(Nat)
           /\ wfp \in FileIds
           /\ rpc \in ReadingPcs => rfp \in FileIds
           /\ \A i \in Names : dir[i] # NoFile => dir[i] \in FileIds
           /\ ridx \in Names
<1>1. /\ base \in Seq(Nat) /\ size \in Seq(Nat) /\ Len(size) = Len(base)
      /\ nrec \in Nat /\ wleft \in 0..Chunks /\ rpos \in Nat /\ out \in Seq(Nat)
      /\ ridx \in Names /\ (wpc = "write" => wleft > 0)
    BY DEF FifoInv, RingInv, TypeOK
<1>2. FileIds = 1..Len(base) /\ Len(base) \in Nat /\ wfp = Len(base)
    BY <1>1 DEF FifoInv, RingInv, WriterPlace, FileIds
<1>3. \A f \in FileIds : base[f] \in Nat /\ size[f] \in Nat
    BY <1>1, <1>2
<1>4. \A f \in FileIds : Complete(f) \in Nat
    BY <1>3, DivMod DEF Complete
<1>6. rpc \in ReadingPcs => rfp \in FileIds
    BY DEF FifoInv, RingInv, TypeOK, ReadingPcs
<1>7. \A i \in Names : dir[i] # NoFile => dir[i] \in FileIds
    BY DEF FifoInv, RingInv, TypeOK
<1>8. wfp \in FileIds
    <2>1. dir[ridx] # NoFile
        BY DEF FifoInv, RingInv, ReaderPlace
    <2> QED BY <1>1, <1>2, <1>7, <2>1
<1> QED BY <1>1, <1>2, <1>3, <1>4, <1>6, <1>7, <1>8

(* No file holds a complete record that the writer is not done with.       *)
LEMMA CompleteIsWritten ==
    ASSUME FifoInv, NEW f \in FileIds
    PROVE  LET last == base[f] + Complete(f)
           IN  last < nrec \/ (last = nrec /\ wleft = 0)
<1> DEFINE last == base[f] + Complete(f)
           s == size[wfp]
<1>0. /\ base[f] \in Nat /\ Complete(f) \in Nat
      /\ wleft \in 0..Chunks /\ nrec \in Nat /\ wfp \in FileIds
      /\ wfp = Len(base) /\ FileIds = 1..Len(base) /\ Len(base) \in Nat
    BY Facts
<1>1. /\ last \in Nat /\ s \in Nat /\ base[wfp] \in Nat /\ Complete(wfp) \in Nat
      /\ wleft \in 0..Chunks /\ nrec \in Nat /\ wfp \in FileIds
      /\ wfp = Len(base) /\ FileIds = 1..Len(base) /\ Len(base) \in Nat
  <2>1. last \in Nat
      BY <1>0
  <2>2. s \in Nat /\ base[wfp] \in Nat /\ Complete(wfp) \in Nat
      BY <1>0, Facts
  <2> QED BY <1>0, <2>1, <2>2
<1>2. last <= base[wfp] + Complete(wfp)
    <2>1. CASE f = wfp
        BY <1>1, <2>1
    <2>2. CASE f # wfp
        <3>1. f < wfp
            BY <1>1, <2>2
        <3>2. last <= base[wfp]
            BY <1>1, <3>1 DEF FifoInv, Contents
        <3> QED BY <1>1, <3>2
    <2> QED BY <2>1, <2>2
<1>3. CASE wleft = 0
    <2>1. base[wfp] + Complete(wfp) = nrec
        BY <1>1, <1>3 DEF FifoInv, Contents, Complete
    <2> QED BY <1>1, <1>2, <1>3, <2>1
<1>4. CASE wleft # 0
    <2>1. (s + wleft) \div Chunks = Complete(wfp) + 1
        <3>1. wleft \in 1..Chunks /\ (s + wleft) % Chunks = 0
            BY <1>1, <1>4, SpoolAssumption DEF FifoInv, Contents
        <3> HIDE DEF s
        <3>2. (s + wleft) \div Chunks = (s \div Chunks) + 1
            BY <1>1, <3>1, DivPartial
        <3> QED BY <3>2 DEF s, Complete
    <2>2. base[wfp] + Complete(wfp) + 1 = nrec
        BY <1>1, <2>1 DEF FifoInv, Contents
    <2> QED BY <1>1, <1>2, <2>2
<1> QED BY <1>3, <1>4

(* A step that leaves the files and the writer alone keeps what is said of *)
(* them; one that leaves the records handed over alone their order.        *)
LEMMA FilesKept ==
    ASSUME FifoInv, UNCHANGED <<base, size, writerVars>>
    PROVE  Contents' /\ Bounded'
<1>1. UNCHANGED <<base, size, nrec, wpc, wfp, wleft>>
    BY DEF writerVars
<1>2. FileIds' = FileIds
    BY <1>1 DEF FileIds
<1> QED BY <1>1, <1>2 DEF FifoInv, Contents, Bounded, Complete

LEMMA OrderKept == InOrder /\ out' = out => InOrder'
BY DEF InOrder

(* A block follows what was handed over before.                            *)
LEMMA RecordRead ==
    ASSUME FifoInv, ReadRecord
    PROVE  LET r == BlockAt(rpos)
           IN  /\ rfp \in FileIds /\ rpc = "read" /\ rpos' = rpos + Chunks
               /\ out' = Append(out, r) /\ r \in Nat
               /\ rpos + Chunks <= size[rfp]
               /\ Origin(rfp) \in Nat /\ HandedUpTo(Origin(rfp) + rpos)
               /\ r = Origin(rfp) + rpos + Chunks
               /\ UNCHANGED <<dirVars, writerVars, rpc, rfp, ridx>>
<1> DEFINE r == BlockAt(rpos)
<1>1. rpc = "read" /\ rfp \in FileIds
    BY Facts DEF ReadRecord, ReadingPcs
<1>2. rpos \in Nat /\ size[rfp] \in Nat /\ base[rfp] \in Nat
    BY <1>1, Facts
<1>3. rpos + Chunks <= size[rfp]
    BY <1>2, SpoolAssumption DEF ReadRecord, Available
<1>4. Origin(rfp) \in Nat
    BY <1>2, SpoolAssumption DEF Origin
<1>5. r = Origin(rfp) + rpos + Chunks
    BY DEF BlockAt, Origin
<1>6. r \in Nat
    <2> HIDE DEF r
    <2> QED BY <1>2, <1>4, <1>5, SpoolAssumption
<1>7. HandedUpTo(Origin(rfp) + rpos)
    BY <1>1 DEF FifoInv, ReadUpTo, ReadingPcs
<1>8. out' = Append(out, r) /\ rpos' = rpos + Chunks
      /\ UNCHANGED <<dirVars, writerVars, rpc, rfp, ridx>>
    BY DEF ReadRecord
<1> HIDE DEF r
<1> QED BY <1>1, <1>3, <1>4, <1>5, <1>6, <1>7, <1>8 DEF r

------------------------------------------------------------------------------
LEMMA ContentsStep == FifoInv /\ [Next]_vars => Contents' /\ Bounded'
<1> SUFFICES ASSUME FifoInv, [Next]_vars PROVE Contents' /\ Bounded'
    OBVIOUS
<1>0. /\ nrec \in Nat /\ wfp \in FileIds /\ FileIds = 1..Len(base) /\ wfp = Len(base)
      /\ Len(base) \in Nat /\ base[wfp] \in Nat /\ size[wfp] \in Nat
      /\ wleft \in 0..Chunks /\ (wpc = "write" => wleft > 0)
      /\ \A f \in FileIds : base[f] \in Nat /\ size[f] \in Nat /\ Complete(f) \in Nat
    BY Facts
<1>1. CASE Receive
    <2>1. /\ wpc = "recv" /\ wpc' = "write" /\ nrec' = nrec + 1 /\ wleft' = Chunks
          /\ UNCHANGED <<base, size, wfp>>
        BY <1>1 DEF Receive, dirVars
    <2>2. FileIds' = FileIds
        BY <2>1 DEF FileIds
    <2>3. size[wfp] % Chunks = 0 /\ base[wfp] + (size[wfp] \div Chunks) = nrec
        <3>1. wleft = 0
            BY <2>1 DEF FifoInv, Contents
        <3>2. size[wfp] + wleft = size[wfp]
            BY <1>0, <3>1
        <3> QED BY <3>2 DEF FifoInv, Contents
    <2>4. /\ (size[wfp] + Chunks) % Chunks = 0
          /\ base[wfp] + ((size[wfp] + Chunks) \div Chunks) = nrec + 1
        <3>1. /\ (size[wfp] + Chunks) % Chunks = size[wfp] % Chunks
              /\ (size[wfp] + Chunks) \div Chunks = (size[wfp] \div Chunks) + 1
            BY <1>0, DivNext
        <3> DEFINE q == size[wfp] \div Chunks
        <3>2. q \in Nat
            BY <1>0, DivMod
        <3>3. (size[wfp] + Chunks) \div Chunks = q + 1 /\ base[wfp] + q = nrec
            BY <2>3, <3>1
        <3>4. (size[wfp] + Chunks) % Chunks = 0
            BY <2>3, <3>1
        <3> HIDE DEF q
        <3>5. base[wfp] + (q + 1) = nrec + 1
            BY <1>0, <3>2, <3>3
        <3> QED BY <3>3, <3>4, <3>5
    <2>5. Contents'
        BY <2>1, <2>2, <2>4 DEF FifoInv, Contents, Complete
    <2>6. Bounded'
        <3>1. ASSUME MaxSize % Chunks = 0 PROVE size[wfp] + Chunks <= MaxSize
            <4>1. size[wfp] < MaxSize
                BY <2>1, <3>1 DEF FifoInv, Bounded
            <4> QED BY <1>0, <2>3, <3>1, <4>1, DivBelow, SpoolAssumption
        <3> QED BY <2>1, <2>2, <3>1 DEF FifoInv, Bounded
    <2> QED BY <2>5, <2>6
<1>2. CASE WriteChunk
    <2>1. /\ wpc = "write" /\ wleft' = wleft - 1
          /\ size' = [size EXCEPT ![wfp] = size[wfp] + 1]
          /\ UNCHANGED <<base, nrec, wfp>>
        BY <1>2 DEF WriteChunk
    <2>2. wpc' = (IF wleft > 1 THEN "write"
                  ELSE IF size[wfp] + 1 >= MaxSize THEN "wait" ELSE "recv")
        BY <1>2 DEF WriteChunk
    <2>3. FileIds' = FileIds
        BY <2>1 DEF FileIds
    <2>4. size'[wfp] = size[wfp] + 1 /\ \A f \in FileIds : f # wfp => size'[f] = size[f]
        BY <2>1, Facts
    <2>5. size'[wfp] + wleft' = size[wfp] + wleft
        BY <1>0, <2>1, <2>4
    <2>6. Contents'
        <3>1. \A f \in FileIds : f # wfp => size'[f] % Chunks = 0
            BY <2>4 DEF FifoInv, Contents
        <3>2. ASSUME NEW f \in FileIds, NEW g \in FileIds, f < g
              PROVE  base[f] + (size'[f] \div Chunks) <= base[g]
            <4>1. f # wfp
                BY <1>0, <3>2
            <4>2. base[f] + (size[f] \div Chunks) <= base[g]
                BY <3>2 DEF FifoInv, Contents, Complete
            <4> QED BY <2>4, <4>1, <4>2
        <3>3. wpc' # "write" => wleft' = 0
            BY <1>0, <2>1, <2>2
        <3>4. /\ (size[wfp] + wleft) % Chunks = 0
              /\ base[wfp] + ((size[wfp] + wleft) \div Chunks) = nrec
            BY DEF FifoInv, Contents
        <3>5. /\ (size'[wfp'] + wleft') % Chunks = 0
              /\ base'[wfp'] + ((size'[wfp'] + wleft') \div Chunks) = nrec'
            BY <2>1, <2>5, <3>4
        <3> QED BY <2>1, <2>3, <3>1, <3>2, <3>3, <3>5 DEF Contents, Complete
    <2>7. Bounded'
        <3> SUFFICES ASSUME MaxSize % Chunks = 0
                     PROVE  /\ \A f \in FileIds : size'[f] <= MaxSize
                            /\ wpc' = "recv" => size'[wfp] < MaxSize
                            /\ wpc' = "write" => size'[wfp] + wleft' <= MaxSize
            BY <2>1, <2>3 DEF Bounded
        <3>1. size[wfp] + wleft <= MaxSize /\ wleft >= 1
            BY <1>0, <2>1 DEF FifoInv, Bounded
        <3>2. \A f \in FileIds : size'[f] <= MaxSize
            <4>1. size[wfp] + 1 <= MaxSize
                BY <1>0, <3>1, SpoolAssumption
            <4>2. \A f \in FileIds : size[f] <= MaxSize
                BY DEF FifoInv, Bounded
            <4> QED BY <2>4, <4>1, <4>2
        <3>3. wpc' = "recv" => size'[wfp] < MaxSize
            BY <1>0, <2>2, <2>4, <3>1, SpoolAssumption
        <3>4. size'[wfp] + wleft' <= MaxSize
            BY <2>1, <2>5, <3>1
        <3> QED BY <3>2, <3>3, <3>4
    <2> QED BY <2>6, <2>7
<1>3. CASE NextNameFree
    <2>1. /\ wpc = "wait" /\ wpc' = "open"
          /\ UNCHANGED <<base, size, nrec, wfp, wleft>>
        BY <1>3 DEF NextNameFree, dirVars
    <2>2. FileIds' = FileIds
        BY <2>1 DEF FileIds
    <2> QED BY <2>1, <2>2 DEF FifoInv, Contents, Bounded, Complete
<1>4. CASE OpenNextForWrite
    <2> DEFINE new == Len(base) + 1
    <2>0. RingInv
        BY DEF FifoInv
    <2>1. /\ base' = Append(base, nrec) /\ size' = Append(size, 0)
          /\ wfp' = new /\ wpc' = "recv" /\ UNCHANGED <<nrec, wleft>>
        BY <2>0, <1>4, OpenAppends
    <2>2. wleft = 0
        BY <1>4 DEF OpenNextForWrite, FifoInv, Contents
    <2>3. /\ base'[new] = nrec /\ size'[new] = 0
          /\ \A f \in FileIds : base'[f] = base[f] /\ size'[f] = size[f]
        BY <2>1, Facts
    <2>4. FileIds' = FileIds \cup {new} /\ (\A f \in FileIds : f < new) /\ new \in Nat
        <3>1. FileIds = 1..Len(base) /\ Len(base) \in Nat
            BY <1>0
        <3>2. FileIds' = 1..(Len(base) + 1)
            <4>1. Len(base') = Len(base) + 1
                BY <2>0, <1>4, OpenAppends
            <4> QED BY <4>1 DEF FileIds
        <3> QED BY <3>1, <3>2
    <2> HIDE DEF new
    <2>5. Contents'
        <3>1. ASSUME NEW f \in FileIds', f # wfp' PROVE size'[f] % Chunks = 0
            <4>1. f \in FileIds /\ size'[f] = size[f]
                BY <2>1, <2>3, <2>4, <3>1
            <4>2. CASE f = wfp
                <5>1. size[f] + wleft = size[f]
                    BY <1>0, <2>2, <4>1
                <5> QED BY <4>1, <4>2, <5>1 DEF FifoInv, Contents
            <4>3. CASE f # wfp
                BY <4>1, <4>3 DEF FifoInv, Contents
            <4> QED BY <4>2, <4>3
        <3>2. ASSUME NEW f \in FileIds', NEW g \in FileIds', f < g
              PROVE  base'[f] + (size'[f] \div Chunks) <= base'[g]
            <4>1. f \in FileIds
                BY <1>0, <2>4, <3>2
            <4>2. base'[f] = base[f] /\ size'[f] = size[f]
                BY <2>3, <4>1
            <4>3. CASE g = new
                <5>1. base[f] + Complete(f) <= nrec
                    <6> DEFINE last == base[f] + Complete(f)
                    <6>1. last < nrec \/ (last = nrec /\ wleft = 0)
                        BY <4>1, CompleteIsWritten
                    <6>2. last \in Nat
                        BY <1>0, <4>1
                    <6> HIDE DEF last
                    <6>3. last <= nrec
                        BY <1>0, <6>1, <6>2
                    <6> QED BY <6>3 DEF last
                <5> QED BY <2>3, <4>2, <4>3, <5>1 DEF Complete
            <4>4. CASE g # new
                <5>1. g \in FileIds
                    BY <2>4, <4>4
                <5>2. base[f] + Complete(f) <= base[g]
                    BY <3>2, <4>1, <5>1 DEF FifoInv, Contents
                <5> QED BY <2>3, <4>2, <5>1, <5>2 DEF Complete
            <4> QED BY <4>3, <4>4
        <3>3. /\ (size'[wfp'] + wleft') % Chunks = 0
              /\ base'[wfp'] + ((size'[wfp'] + wleft') \div Chunks) = nrec'
            <4>1. size'[wfp'] = 0 /\ wleft' = 0 /\ base'[wfp'] = nrec /\ nrec' = nrec
                BY <2>1, <2>2, <2>3, Zenon
            <4> QED BY <1>0, <4>1, DivZero
        <3> QED BY <2>1, <2>2, <3>1, <3>2, <3>3 DEF Contents, Complete
    <2>6. Bounded'
        <3>1. 0 < MaxSize /\ 0 <= MaxSize
            BY SpoolAssumption
        <3> QED BY <2>1, <2>3, <2>4, <3>1 DEF FifoInv, Bounded
    <2> QED BY <2>5, <2>6
<1>5. CASE ReaderStep
    BY <1>5, FilesKept DEF ReaderStep, ReadRecord, ReadPart, ReadNothing, CheckNext,
                           NextNameExists, Drain, UnlinkRead, OpenNextForRead, dirVars
<1>6. CASE UNCHANGED vars
    BY <1>6, FilesKept DEF vars, dirVars
<1> QED BY <1>1, <1>2, <1>3, <1>4, <1>5, <1>6 DEF Next, WriterStep

LEMMA ReadUpToStep == FifoInv /\ [Next]_vars => ReadUpTo'
<1> SUFFICES ASSUME FifoInv, [Next]_vars PROVE ReadUpTo'
    OBVIOUS
<1>0. /\ rpos \in Nat /\ (rpc \in ReadingPcs => rfp \in FileIds)
      /\ \A f \in FileIds : base[f] \in Nat /\ size[f] \in Nat /\ Complete(f) \in Nat
    BY Facts
<1>1. CASE Receive \/ NextNameFree
    BY <1>1 DEF Receive, NextNameFree, FifoInv, ReadUpTo, HandedUpTo, Origin,
                dirVars, readerVars
<1>2. CASE WriteChunk
    <2>1. /\ size' = [size EXCEPT ![wfp] = size[wfp] + 1] /\ UNCHANGED <<base, dir>>
          /\ UNCHANGED <<rpc, ridx, rfp, rpos, out>>
        BY <1>2 DEF WriteChunk, readerVars
    <2>2. size'[wfp] = size[wfp] + 1 /\ \A f \in FileIds : f # wfp => size'[f] = size[f]
        BY <2>1, Facts
    <2>3. rpc \in ReadingPcs => rpos <= size'[rfp]
        <3> SUFFICES ASSUME rpc \in ReadingPcs PROVE rpos <= size'[rfp]
            OBVIOUS
        <3>1. rpos <= size[rfp] /\ rfp \in FileIds /\ size[rfp] \in Nat
            BY <1>0 DEF FifoInv, ReadUpTo
        <3>2. CASE rfp = wfp
            BY <1>0, <2>2, <3>1, <3>2
        <3>3. CASE rfp # wfp
            BY <2>2, <3>1, <3>3
        <3> QED BY <3>2, <3>3
    <2> QED BY <2>1, <2>3 DEF FifoInv, ReadUpTo, HandedUpTo, Origin
<1>3. CASE OpenNextForWrite
    <2>0. RingInv
        BY DEF FifoInv
    <2>1. /\ base' = Append(base, nrec) /\ size' = Append(size, 0)
          /\ dir' = [dir EXCEPT ![widx] = Len(base) + 1]
          /\ UNCHANGED <<rpc, ridx, rfp, rpos, out>> /\ dir[widx] = NoFile
        BY <2>0, <1>3, OpenAppends DEF readerVars
    <2>2. \A f \in FileIds : base'[f] = base[f] /\ size'[f] = size[f]
        BY <2>1, Facts
    <2>3. dir'[ridx] = dir[ridx] /\ dir[ridx] \in FileIds
        BY <2>0, <2>1, Facts DEF RingInv, TypeOK, ReaderPlace
    <2> QED BY <1>0, <2>1, <2>2, <2>3 DEF FifoInv, ReadUpTo, HandedUpTo, Origin
<1>4. CASE ReadRecord
    <2> DEFINE r == BlockAt(rpos)
               o == Origin(rfp) + rpos
    <2>1. /\ rfp \in FileIds /\ rpc = "read" /\ rpos' = rpos + Chunks
          /\ out' = Append(out, r) /\ r \in Nat
          /\ rpos + Chunks <= size[rfp] /\ Origin(rfp) \in Nat
          /\ HandedUpTo(o) /\ r = o + Chunks
          /\ UNCHANGED <<dirVars, writerVars, rpc, rfp, ridx>>
        BY <1>4, RecordRead
    <2>0. out \in Seq(Nat)
        BY Facts
    <2>2. o \in Nat /\ out \in Seq(Nat) /\ Origin(rfp) + rpos' = o + Chunks
        <3> HIDE DEF r
        <3>1. Origin(rfp) \in Nat /\ rpos' = rpos + Chunks
            BY <2>1
        <3> QED BY <1>0, <2>0, <3>1, SpoolAssumption
    <2>3. Origin(rfp)' = Origin(rfp)
        BY <2>1 DEF Origin, dirVars
    <2> HIDE DEF r, o
    <2>4. \A k \in 1..Len(out') : out'[k] <= o + Chunks
        <3>1. \A k \in 1..Len(out) : out[k] \in Nat /\ out[k] <= o
            BY <2>1, <2>2 DEF HandedUpTo
        <3>2. Len(out') = Len(out) + 1 /\ out'[Len(out) + 1] = r /\ Len(out) \in Nat
            BY <2>1, <2>2
        <3>3. \A k \in 1..Len(out) : out'[k] = out[k]
            BY <2>1, <2>2
        <3>4. \A k \in 1..Len(out) : out[k] <= o + Chunks
            BY <2>2, <3>1, SpoolAssumption
        <3> QED BY <2>1, <2>2, <3>2, <3>3, <3>4, SpoolAssumption
    <2>5. HandedUpTo(Origin(rfp) + rpos)'
        BY <2>1, <2>2, <2>3, <2>4 DEF HandedUpTo
    <2> QED BY <2>1, <2>5 DEF ReadUpTo, dirVars
<1>5. CASE ReadPart
    <2>1. /\ rpc = "read" /\ rpos' = rpos + Available /\ Available \in 1..(Chunks - 1)
          /\ UNCHANGED <<dirVars, rpc, rfp, ridx, out>>
        BY <1>5 DEF ReadPart
    <2>2. rfp \in FileIds /\ rpos <= size[rfp]
          /\ HandedUpTo(Origin(rfp) + rpos) /\ out \in Seq(Nat)
        BY <1>0, <2>1, Facts DEF FifoInv, ReadUpTo, ReadingPcs
    <2>3. rpos' <= size[rfp] /\ rpos <= rpos' /\ rpos' \in Nat
        BY <1>0, <2>1, <2>2 DEF Available
    <2>4. Origin(rfp) \in Nat /\ Origin(rfp)' = Origin(rfp)
        <3>1. base[rfp] \in Nat
            BY <1>0, <2>2
        <3> QED BY <2>1, <3>1, SpoolAssumption DEF Origin, dirVars
    <2>5. \A k \in 1..Len(out) : out[k] <= Origin(rfp) + rpos'
        BY <1>0, <2>2, <2>3, <2>4 DEF HandedUpTo
    <2> QED BY <2>1, <2>3, <2>4, <2>5 DEF ReadUpTo, HandedUpTo, dirVars
<1>6. CASE ReadNothing \/ CheckNext \/ NextNameExists
    <2>1. UNCHANGED <<dirVars, ridx, rfp, rpos, out>>
        BY <1>6 DEF ReadNothing, CheckNext, NextNameExists
    <2>2. rpc \in ReadingPcs /\ rpc' # "open"
        BY <1>6 DEF ReadNothing, CheckNext, NextNameExists, ReadingPcs
    <2> QED BY <2>1, <2>2 DEF FifoInv, ReadUpTo, HandedUpTo, Origin, dirVars
<1>7. CASE Drain
    <2>1. rpos' = rpos /\ out' = out
        BY <1>7, Zenon DEF Drain, FifoInv, RingInv, AtEof
    <2>2. rpc \in ReadingPcs /\ rpc' # "open" /\ UNCHANGED <<dirVars, ridx, rfp>>
        BY <1>7 DEF Drain, ReadingPcs
    <2> QED BY <2>1, <2>2 DEF FifoInv, ReadUpTo, HandedUpTo, Origin, dirVars
<1>8. CASE UnlinkRead
    <2>0. RingInv
        BY DEF FifoInv
    <2>1. /\ rpc = "unlink" /\ rpc' = "open" /\ ridx' = nidx
          /\ dir' = [dir EXCEPT ![ridx] = NoFile] /\ UNCHANGED <<base, size, out>>
        BY <1>8 DEF UnlinkRead
    <2>2. /\ dir[nidx] = dir[ridx] + 1 /\ nidx # ridx /\ rfp = dir[ridx]
          /\ nidx \in Names /\ ridx \in Names /\ dir \in [Names -> Nat]
        BY <2>0, <2>1, HeadIsBehind DEF RingInv, ReaderPlace, ReadingPcs, TypeOK
    <2>3. rfp \in FileIds /\ dir'[nidx] = dir[nidx] /\ dir[nidx] \in FileIds /\ rfp < dir[nidx]
        <3>1. rfp \in FileIds
            BY <1>0, <2>1 DEF ReadingPcs
        <3>2. rfp \in Nat /\ dir[nidx] # NoFile
            BY <2>2, <3>1, Facts DEF NoFile
        <3> QED BY <2>1, <2>2, <3>1, <3>2, Facts
    <2>4. rfp # wfp
        BY <2>3, Facts
    <2>5. base[rfp] + Complete(rfp) <= base[dir[nidx]] /\ size[rfp] % Chunks = 0
        BY <2>3, <2>4 DEF FifoInv, Contents
    <2>6. size[rfp] = Chunks * Complete(rfp)
        <3>1. size[rfp] \in Nat
            BY <1>0, <2>3
        <3>2. size[rfp] = Chunks * Complete(rfp) + (size[rfp] % Chunks)
            BY <3>1, DivMod DEF Complete
        <3>3. Complete(rfp) \in Nat
            BY <1>0, <2>3
        <3>4. Chunks * Complete(rfp) \in Nat
            BY <3>3, SpoolAssumption
        <3> QED BY <2>5, <3>2, <3>4
    <2>7. Origin(rfp) + size[rfp] <= Origin(dir[nidx])
          /\ Origin(rfp) \in Nat /\ Origin(dir[nidx]) \in Nat
        <3>1. base[rfp] \in Nat /\ Complete(rfp) \in Nat /\ base[dir[nidx]] \in Nat
            BY <1>0, <2>3
        <3>2. /\ base[rfp] * Chunks + Chunks * Complete(rfp) <= base[dir[nidx]] * Chunks
              /\ base[rfp] * Chunks \in Nat /\ base[dir[nidx]] * Chunks \in Nat
            BY <2>5, <3>1, ChunksBefore
        <3> QED BY <2>6, <3>2 DEF Origin
    <2>8. rpos <= size[rfp] /\ HandedUpTo(Origin(rfp) + rpos) /\ out \in Seq(Nat)
        BY <2>1, Facts DEF FifoInv, ReadUpTo, ReadingPcs
    <2>9. \A k \in 1..Len(out) : out[k] <= Origin(dir[nidx])
        <3>1. \A k \in 1..Len(out) : out[k] \in Nat /\ out[k] <= Origin(rfp) + rpos
            BY <2>8 DEF HandedUpTo
        <3>2. size[rfp] \in Nat
            BY <1>0, <2>3
        <3>3. Origin(rfp) + rpos <= Origin(dir[nidx])
            BY <1>0, <2>7, <2>8, <3>2
        <3> QED BY <1>0, <2>7, <3>1, <3>3
    <2>10. Origin(dir[ridx])' = Origin(dir[nidx])
        BY <2>1, <2>3 DEF Origin
    <2>11. HandedUpTo(Origin(dir[ridx]))'
        BY <2>1, <2>9, <2>10 DEF HandedUpTo
    <2> QED BY <2>1, <2>11 DEF ReadUpTo, ReadingPcs
<1>9. CASE OpenNextForRead
    <2>1. /\ rpc = "open" /\ rpc' = "read" /\ rfp' = dir[ridx] /\ rpos' = 0
          /\ UNCHANGED <<dirVars, out>>
        BY <1>9 DEF OpenNextForRead
    <2>2. dir[ridx] \in FileIds /\ HandedUpTo(Origin(dir[ridx]))
        BY <2>1, Facts DEF FifoInv, RingInv, ReaderPlace, ReadUpTo
    <2>3. Origin(dir[ridx]) + rpos' = Origin(dir[ridx]) /\ 0 <= size[dir[ridx]]
        <3>1. base[dir[ridx]] \in Nat /\ size[dir[ridx]] \in Nat
            BY <1>0, <2>2
        <3>2. Origin(dir[ridx]) \in Nat
            BY <3>1, SpoolAssumption DEF Origin
        <3> QED BY <2>1, <3>1, <3>2
    <2>4. Origin(rfp)' = Origin(dir[ridx])
        BY <2>1 DEF Origin, dirVars
    <2> QED BY <2>1, <2>2, <2>3, <2>4 DEF ReadUpTo, HandedUpTo, dirVars
<1>10. CASE UNCHANGED vars
    BY <1>10 DEF vars, dirVars, readerVars, FifoInv, ReadUpTo, HandedUpTo, Origin
<1> QED BY <1>1, <1>2, <1>3, <1>4, <1>5, <1>6, <1>7, <1>8, <1>9, <1>10
        DEF Next, WriterStep, ReaderStep

LEMMA OrderStep == FifoInv /\ [Next]_vars => InOrder'
<1> SUFFICES ASSUME FifoInv, [Next]_vars PROVE InOrder'
    OBVIOUS
<1>0. InOrder /\ out \in Seq(Nat)
    BY Facts DEF FifoInv
<1>1. CASE ReadRecord
    <2> DEFINE r == BlockAt(rpos)
               o == Origin(rfp) + rpos
    <2>1. /\ rfp \in FileIds /\ out' = Append(out, r) /\ r \in Nat
          /\ Origin(rfp) \in Nat /\ HandedUpTo(o) /\ r = o + Chunks
        BY <1>1, RecordRead
    <2>2. o \in Nat
        <3> HIDE DEF r
        <3>1. rpos \in Nat
            BY Facts
        <3>2. Origin(rfp) \in Nat
            BY <2>1
        <3> QED BY <3>1, <3>2
    <2> HIDE DEF r, o
    <2>3. Len(out') = Len(out) + 1 /\ out'[Len(out) + 1] = r /\ Len(out) \in Nat
        BY <1>0, <2>1
    <2>4. \A k \in 1..Len(out) : out'[k] = out[k] /\ out[k] \in Nat
        BY <1>0, <2>1
    <2>5. ASSUME NEW j \in 1..Len(out'), NEW k \in 1..Len(out'), j < k
          PROVE  out'[j] + Chunks <= out'[k]
        <3>1. j \in 1..Len(out)
            BY <2>3, <2>5
        <3>2. CASE k = Len(out) + 1
            <4>1. out'[k] = o + Chunks
                BY <2>1, <2>3, <3>2
            <4>2. out'[j] = out[j] /\ out[j] \in Nat /\ out[j] <= o
                BY <2>1, <2>4, <3>1 DEF HandedUpTo
            <4> QED BY <2>2, <4>1, <4>2, SpoolAssumption
        <3>3. CASE k # Len(out) + 1
            <4>1. k \in 1..Len(out)
                BY <2>3, <2>5, <3>3
            <4> QED BY <1>0, <2>4, <2>5, <3>1, <4>1 DEF InOrder
        <3> QED BY <3>2, <3>3
    <2> QED BY <2>5 DEF InOrder
<1>2. CASE Drain
    <2>1. out' = out
        BY <1>2, Zenon DEF Drain, FifoInv, RingInv, AtEof
    <2> QED BY <1>0, <2>1, OrderKept
<1>3. CASE Receive \/ WriterStep
    BY <1>0, <1>3, OrderKept DEF Receive, WriterStep, WriteChunk, NextNameFree,
                                 OpenNextForWrite, readerVars
<1>4. CASE ReadPart \/ ReadNothing \/ CheckNext
    BY <1>0, <1>4, OrderKept DEF ReadPart, ReadNothing, CheckNext
<1>5. CASE NextNameExists \/ UnlinkRead \/ OpenNextForRead
    BY <1>0, <1>5, OrderKept DEF NextNameExists, UnlinkRead, OpenNextForRead
<1>6. CASE UNCHANGED vars
    BY <1>0, <1>6, OrderKept DEF vars, readerVars
<1> QED BY <1>1, <1>2, <1>3, <1>4, <1>5, <1>6 DEF Next, ReaderStep

LEMMA FifoInvariant == Spec => []FifoInv
<1>1. FifoInv /\ [Next]_vars /\ RingInv' => FifoInv'
    BY ContentsStep, ReadUpToStep, OrderStep DEF FifoInv
<1> QED BY FifoInit, <1>1, RingInvariant, PTL DEF Spec

------------------------------------------------------------------------------
(* frd_FileRead and frd_BufferToDBMS hand over what fw_WriteDataFile wrote *)
(* in its order and no part of it twice, also when a record takes several  *)
(* write(2), the reader comes between them and its blocks get out of step. *)
THEOREM SpoolInOrder == Spec => []InOrder
<1>1. FifoInv => InOrder
    BY DEF FifoInv
<1> QED BY FifoInvariant, <1>1, PTL

(* A file that was read up to the full size is read to its end: the size   *)
(* the reader compares with is one the writer never goes beyond.           *)
THEOREM SpoolFullFileIsRead == ASSUME MaxSize % Chunks = 0 PROVE Spec => []FullFileIsRead
<1>1. FifoInv => FullFileIsRead
    <2> SUFFICES ASSUME FifoInv, rpc \in {"wait", "drain", "unlink"}, rpos >= MaxSize
                 PROVE  rpos >= size[rfp]
        BY DEF FullFileIsRead
    <2>1. rfp \in FileIds /\ size[rfp] \in Nat /\ rpos \in Nat
        BY Facts DEF ReadingPcs
    <2>2. size[rfp] <= MaxSize
        BY <2>1 DEF FifoInv, Bounded
    <2> QED BY <2>1, <2>2, SpoolAssumption
<1> QED BY FifoInvariant, <1>1, PTL

(* Datagrams that fw_ForkWork appends reach frd_BufferToDBMS once each and *)
(* in the order of their arrival, if they reach it.                        *)
THEOREM SpoolImplementsFifo == ASSUME Chunks = 1 PROVE Spec => ImplementsFifo
<1>1. Init => Fifo!Init
    BY DEF Init, Fifo!Init
<1>2. FifoInv /\ [Next]_vars => [Fifo!Next]_<<nrec, out>>
    <2> SUFFICES ASSUME FifoInv, Next PROVE Fifo!Next \/ UNCHANGED <<nrec, out>>
        BY DEF vars, writerVars, readerVars
    <2>1. CASE Receive
        BY <2>1 DEF Receive, readerVars, Fifo!Next, Fifo!Send
    <2>2. CASE ReadRecord
        <3> DEFINE r == BlockAt(rpos)
                   last == base[rfp] + Complete(rfp)
        <3>1. /\ rfp \in FileIds /\ out' = Append(out, r) /\ r \in Nat
              /\ rpos + Chunks <= size[rfp] /\ Origin(rfp) \in Nat
              /\ HandedUpTo(Origin(rfp) + rpos) /\ r = Origin(rfp) + rpos + Chunks
              /\ UNCHANGED writerVars
            BY <2>2, RecordRead
        <3>2. /\ rpos \in Nat /\ base[rfp] \in Nat /\ size[rfp] \in Nat
              /\ nrec \in Nat /\ out \in Seq(Nat)
            BY <3>1, Facts
        <3>3. Origin(rfp) = base[rfp] /\ last = base[rfp] + size[rfp]
            BY <3>2, WholeRecords DEF Origin, Complete
        <3>4. last <= nrec
            <4>1. last < nrec \/ last = nrec
                BY <3>1, CompleteIsWritten
            <4>2. last \in Nat
                BY <3>2, <3>3
            <4> HIDE DEF last
            <4> QED BY <3>2, <4>1, <4>2
        <3>5. Fifo!Newest <= base[rfp] + rpos /\ Fifo!Newest \in Nat
            BY <3>1, <3>2, <3>3 DEF HandedUpTo, Fifo!Newest
        <3> HIDE DEF r, last
        <3>6. r \in (Fifo!Newest + 1)..nrec
            <4>1. r = base[rfp] + rpos + 1 /\ base[rfp] + rpos + 1 <= base[rfp] + size[rfp]
                BY <3>1, <3>2, <3>3
            <4>2. base[rfp] + size[rfp] <= nrec
                BY <3>3, <3>4
            <4> QED BY <3>2, <3>5, <4>1, <4>2
        <3>7. nrec' = nrec
            BY <3>1 DEF writerVars
        <3> QED BY <3>1, <3>6, <3>7 DEF Fifo!Next, Fifo!Arrive
    <2>3. CASE Drain
        <3>1. out' = out
            BY <2>3, Zenon DEF Drain, FifoInv, RingInv, AtEof
        <3> QED BY <2>3, <3>1 DEF Drain, writerVars
    <2>4. CASE WriterStep
        BY <2>4 DEF WriterStep, WriteChunk, NextNameFree, OpenNextForWrite, readerVars
    <2>5. CASE ReadPart \/ ReadNothing \/ CheckNext \/ NextNameExists
        BY <2>5 DEF ReadPart, ReadNothing, CheckNext, NextNameExists, writerVars
    <2>6. CASE UnlinkRead \/ OpenNextForRead
        BY <2>6 DEF UnlinkRead, OpenNextForRead, writerVars
    <2> QED BY <2>1, <2>2, <2>3, <2>4, <2>5, <2>6 DEF Next, ReaderStep
<1> QED BY FifoInvariant, <1>1, <1>2, PTL DEF Spec, ImplementsFifo, Fifo!Spec
==============================================================================
