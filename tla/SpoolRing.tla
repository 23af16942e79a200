------------------------------ MODULE SpoolRing ------------------------------
(***************************************************************************)
(* A spool: the directory of index-named files through which a writer      *)
(* process (dap_policy_fw, or a fork of dap_pcif) hands records to one     *)
(* reader process (a fork of dap_frd).  Names run from 00001 to            *)
(* nCfgMaxFileIndex and then start over.  The writer appends to its file,  *)
(* and when it is full waits until the next name is gone and creates it;   *)
(* the reader at the end of its file checks for the next name, unlinks its *)
(* file and opens the next.                                                *)
(*                                                                         *)
(* Nothing but the directory synchronises the two processes.  The model    *)
(* keeps names (dir) apart from the files they name, because an            *)
(* open stream outlives its name and fopen "wb" empties a file others have *)
(* open.  This module holds the steady state; PolicySpool adds how the     *)
(* reader and the writer of policy and service data stop and start again.  *)
(***************************************************************************)
EXTENDS Integers, Sequences, FiniteSets

CONSTANTS
    MaxIndex,   \* nCfgMaxFileIndex: names are 1..MaxIndex
    MaxSize,    \* nCfgMaxFileSize, counted in chunks: a file this long is full
    Chunks,     \* write(2) calls that the fwrite and fflush of a record take
    MaxRec      \* bound: records that reach the writer

ASSUME SpoolAssumption ==
    /\ MaxIndex \in Nat /\ MaxIndex >= 2
    /\ MaxSize \in Nat \ {0}
    /\ Chunks \in Nat \ {0}
    /\ MaxRec \in Nat

VARIABLES
    dir,     \* name -> number of the file it names, NoFile when there is none
    base,    \* every file created so far: records begun before it,
    size,    \* and the chunks in it
    nrec,    \* records the writer has begun to write
    wpc, widx, wfp, wleft,          \* the writer: nLastFileIdx, Fp, chunks left
    rpc, ridx, nidx, rfp, rpos,     \* the reader: its name, next name, Fp, ftell
    reof,    \* the end-of-file flag of the reader's stream
    out      \* history: blocks handed to the DBMS, each by its last chunk

dirVars    == <<dir, base, size>>
writerVars == <<nrec, wpc, widx, wfp, wleft>>
readerVars == <<rpc, ridx, nidx, rfp, rpos, reof, out>>
vars       == <<dirVars, writerVars, readerVars>>

NoFile  == 0
Names   == 1..MaxIndex
FileIds == 1..Len(base)

WriterPcs == {"down", "recv", "write", "wait", "open"}
ReaderPcs == {"down", "clear", "name", "start",
              "read", "check", "wait", "drain", "unlink", "open"}

(* nLastFileIdx++ and nNextIdx++, both starting over after the last name.  *)
NextName(i) == IF i + 1 > MaxIndex THEN 1 ELSE i + 1

(* fcom_fileCheckStatus.                                                   *)
Exists(i) == dir[i] # NoFile

(* fopen(path, "wb"): empties the file that has the name, for every stream *)
(* on it, or creates one.                                                  *)
OpenForWrite(i) ==
    IF Exists(i)
    THEN /\ base' = [base EXCEPT ![dir[i]] = nrec]
         /\ size' = [size EXCEPT ![dir[i]] = 0]
         /\ wfp' = dir[i]
         /\ UNCHANGED dir
    ELSE /\ base' = Append(base, nrec)
         /\ size' = Append(size, 0)
         /\ wfp' = Len(base) + 1
         /\ dir' = [dir EXCEPT ![i] = Len(base) + 1]

------------------------------------------------------------------------------
(* The writer.                                                             *)

(* A datagram arrives from fipc_FQGetData and fw_WriteDataFile begins.     *)
Receive ==
    /\ wpc = "recv"
    /\ nrec < MaxRec
    /\ nrec' = nrec + 1
    /\ wleft' = Chunks
    /\ wpc' = "write"
    /\ UNCHANGED <<dirVars, widx, wfp, readerVars>>

(* Mutant: nLastFileIdx++ for every record, full file or not.              *)
WriteChunkSkipsNames ==
    LET full == size[wfp] + 1 >= MaxSize
    IN  /\ wpc = "write"
        /\ size' = [size EXCEPT ![wfp] = @ + 1]
        /\ wleft' = wleft - 1
        /\ wpc' = IF wleft > 1 THEN "write" ELSE IF full THEN "wait" ELSE "recv"
        /\ widx' = IF wleft = 1 THEN NextName(widx) ELSE widx
        /\ UNCHANGED <<dir, base, nrec, wfp, readerVars>>

(* Mutant: > for >= where the size of the file is compared.                *)
WriteChunkOverfills ==
    LET full == size[wfp] + 1 > MaxSize
    IN  /\ wpc = "write"
        /\ size' = [size EXCEPT ![wfp] = @ + 1]
        /\ wleft' = wleft - 1
        /\ wpc' = IF wleft > 1 THEN "write" ELSE IF full THEN "wait" ELSE "recv"
        /\ widx' = IF wleft = 1 /\ full THEN NextName(widx) ELSE widx
        /\ UNCHANGED <<dir, base, nrec, wfp, readerVars>>

(* One write(2) of fwrite and fflush.  After the last one ftell decides    *)
(* whether GetNextFileSize advances nLastFileIdx.                          *)
WriteChunk ==
    LET full == size[wfp] + 1 >= MaxSize
    IN  /\ wpc = "write"
        /\ size' = [size EXCEPT ![wfp] = @ + 1]
        /\ wleft' = wleft - 1
        /\ wpc' = IF wleft > 1 THEN "write" ELSE IF full THEN "wait" ELSE "recv"
        /\ widx' = IF wleft = 1 /\ full THEN NextName(widx) ELSE widx
        /\ UNCHANGED <<dir, base, nrec, wfp, readerVars>>

(* Mutant: the next name is taken without waiting for it.                  *)
NextNameNotAwaited ==
    /\ wpc = "wait"
    /\ wpc' = "open"
    /\ UNCHANGED <<dirVars, nrec, widx, wfp, wleft, readerVars>>

(* The loop that waits until the next name is gone.                        *)
NextNameFree ==
    /\ wpc = "wait"
    /\ ~Exists(widx)
    /\ wpc' = "open"
    /\ UNCHANGED <<dirVars, nrec, widx, wfp, wleft, readerVars>>

(* fclose of the full file, fopen "wb" of the next name.                   *)
OpenNextForWrite ==
    /\ wpc = "open"
    /\ OpenForWrite(widx)
    /\ wpc' = "recv"
    /\ UNCHANGED <<nrec, widx, wleft, readerVars>>

------------------------------------------------------------------------------
(* The reader.                                                             *)

(* Chunks that an fread at the reader's position finds.                    *)
Available == IF size[rfp] > rpos THEN size[rfp] - rpos ELSE 0

(* The block of one record's length at position p of the file, named by    *)
(* the number of its last chunk: a record only where p is a multiple of    *)
(* Chunks.                                                                 *)
BlockAt(p) == base[rfp] * Chunks + p + Chunks

(* Mutant: the length of what fread returned is not compared.              *)
ReadRecordUnchecked ==
    /\ rpc = "read"
    /\ Available >= 1
    /\ rpos' = rpos + (IF Available < Chunks THEN Available ELSE Chunks)
    /\ out' = Append(out, BlockAt(rpos))
    /\ UNCHANGED <<dirVars, writerVars, rpc, ridx, nidx, rfp, reof>>

(* frd_FileRead gets a whole block: frd_BufferToDBMS follows.              *)
ReadRecord ==
    /\ rpc = "read"
    /\ Available >= Chunks
    /\ rpos' = rpos + Chunks
    /\ out' = Append(out, BlockAt(rpos))
    /\ UNCHANGED <<dirVars, writerVars, rpc, ridx, nidx, rfp, reof>>

(* frd_FileRead gets part of one: "Data Read Error", the part is skipped,  *)
(* and the block read next begins in the middle of a record.               *)
ReadPart ==
    /\ rpc = "read"
    /\ Available \in 1..(Chunks - 1)
    /\ rpos' = rpos + Available
    /\ reof' = TRUE
    /\ UNCHANGED <<dirVars, writerVars, rpc, ridx, nidx, rfp, out>>

(* frd_FileRead gets nothing.                                              *)
ReadNothing ==
    /\ rpc = "read"
    /\ Available = 0
    /\ reof' = TRUE
    /\ rpc' = "check"
    /\ UNCHANGED <<dirVars, writerVars, ridx, nidx, rfp, rpos, out>>

(* Is this file full, or is there a next one?                              *)
CheckNext ==
    /\ rpc = "check"
    /\ rpc' = IF rpos >= MaxSize \/ Exists(nidx) THEN "wait" ELSE "read"
    /\ UNCHANGED <<dirVars, writerVars, ridx, nidx, rfp, rpos, reof, out>>

(* Mutant: the reader goes on without waiting for the next name.           *)
NextFileNotAwaited ==
    /\ rpc = "wait"
    /\ rpc' = "drain"
    /\ UNCHANGED <<dirVars, writerVars, ridx, nidx, rfp, rpos, reof, out>>

(* frd_GetNextFile: the loop that waits for the next name.                 *)
NextNameExists ==
    /\ rpc = "wait"
    /\ Exists(nidx)
    /\ rpc' = "drain"
    /\ UNCHANGED <<dirVars, writerVars, ridx, nidx, rfp, rpos, reof, out>>

(* frd_CheckEofFile reads on unless the end-of-file flag is up, then the   *)
(* stream is closed.                                                       *)
Remaining == [k \in 1..(Available \div Chunks) |-> BlockAt(rpos + (k - 1) * Chunks)]

Drain ==
    /\ rpc = "drain"
    /\ out' = IF reof THEN out ELSE out \o Remaining
    /\ rpos' = IF reof THEN rpos ELSE rpos + Available
    /\ rpc' = "unlink"
    /\ UNCHANGED <<dirVars, writerVars, ridx, nidx, rfp, reof>>

(* unlink(szFileFullPath): the name goes, whatever file it names now.      *)
UnlinkRead ==
    /\ rpc = "unlink"
    /\ dir' = [dir EXCEPT ![ridx] = NoFile]
    /\ ridx' = nidx
    /\ rfp' = NoFile
    /\ rpc' = "open"
    /\ UNCHANGED <<base, size, writerVars, nidx, rpos, reof, out>>

(* Mutant: >= for > where nNextIdx starts over.                            *)
OpenNextForReadWrapsEarly ==
    /\ rpc = "open"
    /\ Exists(ridx)
    /\ rfp' = dir[ridx]
    /\ rpos' = 0
    /\ reof' = FALSE
    /\ nidx' = IF nidx + 1 >= MaxIndex THEN 1 ELSE nidx + 1
    /\ rpc' = "read"
    /\ UNCHANGED <<dirVars, writerVars, ridx, out>>

(* fopen(path, "rb") of the next name.                                     *)
OpenNextForRead ==
    /\ rpc = "open"
    /\ Exists(ridx)
    /\ rfp' = dir[ridx]
    /\ rpos' = 0
    /\ reof' = FALSE
    /\ nidx' = NextName(nidx)
    /\ rpc' = "read"
    /\ UNCHANGED <<dirVars, writerVars, ridx, out>>

------------------------------------------------------------------------------
WriterStep == WriteChunk \/ NextNameFree \/ OpenNextForWrite

ReaderStep ==
    \/ ReadRecord \/ ReadPart \/ ReadNothing \/ CheckNext
    \/ NextNameExists \/ Drain \/ UnlinkRead \/ OpenNextForRead

(* Both processes run, the reader at the start of the writer's first file. *)
Init ==
    /\ dir = [i \in Names |-> IF i = 1 THEN 1 ELSE NoFile]
    /\ base = <<0>> /\ size = <<0>>
    /\ nrec = 0
    /\ wpc = "recv" /\ widx = 1 /\ wfp = 1 /\ wleft = 0
    /\ rpc = "read" /\ ridx = 1 /\ nidx = 2 /\ rfp = 1 /\ rpos = 0
    /\ reof = FALSE
    /\ out = <<>>

Next == Receive \/ WriterStep \/ ReaderStep

(* Every loop of the two processes sleeps a fixed time and tries again, so *)
(* a process that can step does.  Nothing makes a datagram arrive.         *)
Fairness == WF_vars(WriterStep) /\ WF_vars(ReaderStep)

Spec == Init /\ [][Next]_vars
FairSpec == Spec /\ Fairness

------------------------------------------------------------------------------
TypeOK ==
    /\ dir \in [Names -> Nat]
    /\ base \in Seq(Nat) /\ size \in Seq(Nat) /\ Len(size) = Len(base)
    /\ \A i \in Names : dir[i] \in FileIds \cup {NoFile}
    /\ nrec \in Nat
    /\ wpc \in WriterPcs /\ widx \in Names /\ wfp \in FileIds \cup {NoFile}
    /\ wpc \in {"recv", "write", "wait"} => wfp # NoFile
    /\ wleft \in 0..Chunks
    /\ wpc = "write" => wleft > 0
    /\ rpc \in ReaderPcs /\ ridx \in Names /\ nidx \in Names
    /\ rfp \in FileIds \cup {NoFile} /\ rpos \in Nat
    /\ rpc \in {"read", "check", "wait", "drain", "unlink"} => rfp # NoFile
    /\ reof \in BOOLEAN
    /\ out \in Seq(Nat)

(* The two busy-wait loops, the writer's for the next name to go and the   *)
(* reader's for its next name to come, never wait for each other.          *)
NoMutualWait ==
    ~ /\ wpc = "wait" /\ Exists(widx)
      /\ rpc = "wait" /\ ~Exists(nidx)

(* The reader closes and unlinks a file only after the writer has left it: *)
(* that the next name exists is all it has to go by.                       *)
WriterHasLeft == rpc \in {"drain", "unlink"} => rfp # wfp

(* While the writer waits for a name that is in use every name is: it      *)
(* blocks only on a full ring.                                             *)
BlocksOnlyWhenFull ==
    wpc = "wait" /\ Exists(widx) => \A i \in Names : Exists(i)

(* Where the reader reached the full size of its file it has all of it.    *)
FullFileIsRead ==
    rpc \in {"wait", "drain", "unlink"} /\ rpos >= MaxSize
        => rpos >= size[rfp]

(* No chunk reaches the DBMS twice or after a later one: blocks keep their *)
(* order and do not overlap, also those a cut record has thrown out of     *)
(* step, and across files and names that start over.                       *)
InOrder ==
    \A j, k \in 1..Len(out) : j < k => out[j] + Chunks <= out[k]

(* fopen "wb" never empties a file that already had the name.              *)
NeverTruncates ==
    [][\A f \in FileIds : base'[f] = base[f]
                          /\ size'[f] >= size[f]]_vars

(* The reader opens the files in the order the writer created them and     *)
(* leaves none out.                                                        *)
FilesInOrder ==
    [][\A f \in FileIds :
         rpc = "open" /\ rfp' = f /\ rfp # f
            => \A i \in Names : dir[i] = NoFile \/ dir[i] >= f]_vars

(* Written in one chunk each, the records that reach the DBMS are what a   *)
(* first-in-first-out channel that may lose some delivers.                 *)
Fifo == INSTANCE LossyFifo WITH sent <- nrec, got <- out
ImplementsFifo == Fifo!Spec

(* frd_file.c:658 says of the end of a file: "check whether it is the EOF  *)
(* of the file, if not read the rest and process it to the DB".            *)
NothingLeftBehind == rpc = "unlink" => rpos >= size[rfp]

(* A writer that waits for a name gets it.                                 *)
WriterGoesOn == wpc = "wait" ~> wpc = "recv"

(* The reader comes to the file the writer is in, again and again as long  *)
(* as the writer moves on, and so to every file the writer has filled.     *)
ReaderFollows == []<>(rfp = wfp)
==============================================================================
