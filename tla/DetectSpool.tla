----------------------------- MODULE DetectSpool -----------------------------
(***************************************************************************)
(* One FW_DT spool: the threads of a child of dap_pcif write the detect    *)
(* data of agents, a child of dap_frd reads it.  Detect data must not be   *)
(* lost and not be doubled, so a reader that starts again takes the first  *)
(* file there is and the position it saved when a signal stopped it.       *)
(*                                                                         *)
(* The threads share the stream under mutexFile.  The one that fills the   *)
(* file keeps the lock while it waits for the next name; the others give   *)
(* up after 500 tries and answer their agents with a failure.  Every night *)
(* dap_master kills both processes and has dap_frd dump what lies in the   *)
(* directory before they are started again.  A dump that raises SIGSEGV    *)
(* removes the file it is in and is run again; another signal ends it.     *)
(*                                                                         *)
(* Taking the lowest name for the first file and the highest for the last  *)
(* one is right only while the names have not wrapped.  Ordered says that  *)
(* the processes are started at such times only; without it the model      *)
(* shows what else happens.  It does not make room: on a ring that is full *)
(* the writer starts with a file that holds records and empties it, which  *)
(* emptied remembers.                                                      *)
(***************************************************************************)
EXTENDS SpoolRing

CONSTANTS
    Ordered,      \* TRUE: processes start while the names are in order
    MaxThreads,   \* cfgThreadCnt: threads of the child of dap_pcif
    MaxCheckCnt,  \* times a dump that raised SIGSEGV is run again
    MaxStarts,    \* bound: times each process may be stopped by a signal
    MaxKills,     \* bound: times the reader may be killed by SIGKILL
    MaxDumps      \* bound: dumps

ASSUME DetectAssumption ==
    /\ Ordered \in BOOLEAN
    /\ MaxThreads \in Nat \ {0}
    /\ MaxCheckCnt \in Nat
    /\ MaxStarts \in Nat /\ MaxKills \in Nat /\ MaxDumps \in Nat

VARIABLES
    asked,     \* records agents have sent
    waiting,   \* threads in fpcif_FileMutexLock
    saved,     \* FW_DT_LAST_<n>: the position in it, NoPosition without it
    dumping,   \* "dap_frd dump" runs, or is about to be run again
    dname,     \* the name it reads, 0 between two files
    dpos,      \* ... and ftell in that file
    segvs,     \* runs of this dump that SIGSEGV has ended
    gone,      \* the parent is dead too: nobody forks the reader again
    wstops, rstops, kills, dumps,    \* times each has happened
    savedIn,   \* history: the file the saved position was reached in
    closed,    \* history: times a signal found no stream to ask for it
    inHand,    \* history: records read but not handed over when a signal came
    cut,       \* history: a dump has ended before it had removed all
    emptied    \* history: dap_pcif has started with a name in use

agentVars  == <<asked, waiting>>
countVars  == <<wstops, rstops, kills, dumps>>
historyVars == <<savedIn, closed, inHand, cut, emptied>>
dumpVars == <<dumping, dname, dpos, segvs>>
controlVars == <<dumpVars, gone>>
detectVars == <<vars, agentVars, saved, controlVars, countVars, historyVars>>

NoPosition == -1

UsedNames == {i \in Names : Exists(i)}

(* fpcif_GetLastFileIndex: the highest name in use, 0 when there is none.  *)
HighestName ==
    IF UsedNames = {} THEN 0
    ELSE CHOOSE i \in UsedNames : \A j \in UsedNames : j <= i

(* Mutant: the search of the policy reader.                                *)
LastNameForRead == IF UsedNames = {} THEN 1 ELSE HighestName

(* frd_GetFirstFileIndex: the lowest name in use, 1 when there is none.    *)
LowestName ==
    IF UsedNames = {} THEN 1
    ELSE CHOOSE i \in UsedNames : \A j \in UsedNames : i <= j

(* A file with a higher name is the later one.                             *)
NamesInOrder == \A i, j \in UsedNames : i < j => dir[i] < dir[j]

------------------------------------------------------------------------------
(* The child of dap_pcif.                                                  *)

(* A thread has the lock: it is in fpcif_WriteDataFile, and its agent gets *)
(* the answer when that has returned.                                      *)
Writing == wfp # NoFile /\ wpc \in {"write", "wait", "open"}

(* A thread has detect data of its agent and tries to lock mutexFile.  The *)
(* first file is opened before the first connection is accepted.           *)
Ask ==
    /\ wfp # NoFile
    /\ asked < MaxRec
    /\ waiting + (IF Writing THEN 1 ELSE 0) < MaxThreads
    /\ asked' = asked + 1
    /\ waiting' = waiting + 1
    /\ UNCHANGED <<vars, saved, controlVars, countVars, historyVars>>

(* pthread_mutex_trylock succeeds: fpcif_WriteDataFile begins.             *)
LockAndWrite ==
    /\ waiting > 0
    /\ Receive
    /\ waiting' = waiting - 1
    /\ UNCHANGED <<asked, saved, controlVars, countVars, historyVars>>

(* Mutant: the tries are not counted.                                      *)
GiveUpNever == FALSE /\ UNCHANGED detectVars

(* The last of 500 tries fails: "Mutex loop break", DATACODE_RTN_FAIL.     *)
GiveUp ==
    /\ waiting > 0
    /\ Writing
    /\ waiting' = waiting - 1
    /\ UNCHANGED <<vars, asked, saved, controlVars, countVars, historyVars>>

(* The child exits: a signal, no free thread slot, a thread that hangs.    *)
PcifStops ==
    /\ wpc # "down"
    /\ wstops < MaxStarts
    /\ wstops' = wstops + 1
    /\ wpc' = "down"
    /\ wfp' = NoFile
    /\ wleft' = 0
    /\ waiting' = 0
    /\ UNCHANGED <<dirVars, nrec, widx, readerVars, asked, saved, controlVars,
                   rstops, kills, dumps, historyVars>>

(* Mutant: + 1 forgotten.                                                  *)
FirstNameToWriteIsLast == IF HighestName = 0 THEN 1 ELSE HighestName

(* fpcif_GetLastFileName.                                                  *)
FirstNameToWrite == IF HighestName + 1 > MaxIndex THEN 1 ELSE HighestName + 1

(* fpcif_FileWriteInit: the name after the last one is opened, whether a   *)
(* file has it or not.                                                     *)
PcifStarts ==
    /\ wpc = "down"
    /\ ~dumping
    /\ Ordered => NamesInOrder
    /\ widx' = FirstNameToWrite
    /\ wpc' = "open"
    /\ UNCHANGED <<dirVars, nrec, wfp, wleft, readerVars, agentVars, saved,
                   controlVars, countVars, historyVars>>

(* fpcif_WriteDataFile of the thread that has the lock, and the fopen "wb" *)
(* of a start, which empties the file that has the name.                   *)
PcifWrites ==
    /\ WriterStep
    /\ emptied' = (emptied \/ (wpc = "open" /\ Exists(widx)))
    /\ UNCHANGED <<agentVars, saved, controlVars, countVars, savedIn, closed,
                   inHand, cut>>

------------------------------------------------------------------------------
(* The child of dap_frd.                                                   *)

StreamOpen == rpc \in {"read", "check", "wait", "drain"}

Delivered == {out[k] : k \in 1..Len(out)}

(* frd_GetFileName: the first name, and the next after it.                 *)
FrdStarts ==
    /\ rpc = "down"
    /\ ~gone /\ ~dumping
    /\ Ordered => NamesInOrder
    /\ ridx' = LowestName
    /\ nidx' = NextName(ridx')
    /\ rpc' = "start"
    /\ UNCHANGED <<dirVars, writerVars, rfp, rpos, reof, out, agentVars,
                   saved, controlVars, countVars, historyVars>>

(* Mutant: frd_GetLastPosition without the fseek.                          *)
OpenAtFirstByte ==
    /\ rpc = "start"
    /\ Exists(ridx)
    /\ rfp' = dir[ridx]
    /\ rpos' = 0
    /\ reof' = FALSE
    /\ rpc' = "read"
    /\ UNCHANGED <<dirVars, writerVars, ridx, nidx, out, agentVars,
                   saved, controlVars, countVars, historyVars>>

(* fopen, frd_GetLastPosition and fseek: the number in FW_DT_LAST is used  *)
(* for whatever file is the first.                                         *)
OpenAtPosition ==
    /\ rpc = "start"
    /\ Exists(ridx)
    /\ rfp' = dir[ridx]
    /\ rpos' = IF saved = NoPosition THEN 0 ELSE saved
    /\ reof' = FALSE
    /\ rpc' = "read"
    /\ UNCHANGED <<dirVars, writerVars, ridx, nidx, out, agentVars,
                   saved, controlVars, countVars, historyVars>>

(* With no such file the child ends, and its parent forks it again.        *)
FirstFileMissing ==
    /\ rpc = "start"
    /\ ~Exists(ridx)
    /\ rpc' = "down"
    /\ UNCHANGED <<dirVars, writerVars, ridx, nidx, rfp, rpos, reof, out,
                   agentVars, saved, controlVars, countVars, historyVars>>

FrdRestarts == FrdStarts \/ OpenAtPosition \/ FirstFileMissing

FrdReads ==
    /\ ReaderStep
    /\ UNCHANGED <<agentVars, saved, controlVars, countVars, historyVars>>

FrdEnds ==
    /\ rpc # "down"
    /\ rpc' = "down"
    /\ rfp' = NoFile
    /\ UNCHANGED <<dirVars, writerVars, ridx, nidx, rpos, reof, out,
                   agentVars, dumpVars, wstops, dumps, cut, emptied>>

(* frd_SetLastPosition writes ftell(Fp) into FW_DT_LAST.                   *)
SavePosition ==
    /\ StreamOpen
    /\ saved' = rpos
    /\ savedIn' = rfp
    /\ UNCHANGED <<closed, inHand>>

(* The signal comes after fread and before the record is in the DBMS.      *)
SavePositionBehindRecord ==
    /\ rpc = "read"
    /\ Available >= Chunks
    /\ saved' = rpos + Chunks
    /\ savedIn' = rfp
    /\ inHand' = inHand \cup {BlockAt(rpos)}
    /\ UNCHANGED closed

(* Fp is NULL before the first fopen and between two files: fopen "w" has  *)
(* emptied FW_DT_LAST when ftell(NULL) raises SIGSEGV, twice.              *)
SaveNothing ==
    /\ ~StreamOpen
    /\ saved' = 0
    /\ savedIn' = NoFile
    /\ closed' = closed + 1
    /\ UNCHANGED inHand

(* frd_HandleSignal in a child: SIGTERM, or SIGSEGV of its own.            *)
FrdStops ==
    /\ rstops < MaxStarts
    /\ FrdEnds
    /\ SavePosition \/ SavePositionBehindRecord \/ SaveNothing
    /\ rstops' = rstops + 1
    /\ UNCHANGED <<kills, gone>>

(* SIGKILL, of the child alone or of every dap_frd: no handler, FW_DT_LAST *)
(* stays as it is, and so does the pid file that keeps dap_frd from being  *)
(* started again before the next dump.                                     *)
FrdIsKilled ==
    /\ kills < MaxKills
    /\ FrdEnds
    /\ kills' = kills + 1
    /\ gone' \in BOOLEAN
    /\ UNCHANGED <<saved, rstops, savedIn, closed, inHand>>

------------------------------------------------------------------------------
(* dap_frd dump, which fmaster_RestartProcess runs after it has killed     *)
(* dap_pcif and dap_frd and before it starts them.                         *)

DumpBegins ==
    /\ wpc = "down" /\ rpc = "down"
    /\ ~dumping
    /\ dumps < MaxDumps
    /\ dumps' = dumps + 1
    /\ dumping' = TRUE
    /\ segvs' = 0
    /\ UNCHANGED <<vars, agentVars, saved, dname, dpos, gone,
                   wstops, rstops, kills, historyVars>>

DumpInFile == dumping /\ dname # 0

(* frd_DumpDtLoop: readdir returns the names in any order.                 *)
DumpOpens ==
    /\ dumping
    /\ dname = 0
    /\ dname' \in UsedNames
    /\ dpos' = 0
    /\ UNCHANGED <<vars, agentVars, saved, dumping, segvs, gone, countVars,
                   historyVars>>

(* fread, and frd_BufferToDBMS with whatever it has got.                   *)
DumpRecord ==
    LET left == size[dir[dname]] - dpos
        got  == IF left < Chunks THEN left ELSE Chunks
    IN  /\ DumpInFile
        /\ left > 0
        /\ dpos' = dpos + got
        /\ out' = Append(out, base[dir[dname]] * Chunks + dpos + got)
        /\ UNCHANGED <<dirVars, writerVars, rpc, ridx, nidx, rfp, rpos, reof,
                       agentVars, saved, dumping, dname, segvs, gone,
                       countVars, historyVars>>

RemovesDumped ==
    /\ dir' = [dir EXCEPT ![dname] = NoFile]
    /\ dname' = 0
    /\ dpos' = 0
    /\ UNCHANGED <<base, size, writerVars, readerVars, agentVars, saved, countVars>>

(* Mutant: the last block is taken for the end of the file.                *)
DumpUnlinksEarly ==
    /\ DumpInFile
    /\ dpos + Chunks >= size[dir[dname]]
    /\ RemovesDumped
    /\ UNCHANGED <<dumping, segvs, gone, historyVars>>

(* fread gets nothing: the name goes.                                      *)
DumpUnlinks ==
    /\ DumpInFile
    /\ dpos >= size[dir[dname]]
    /\ RemovesDumped
    /\ UNCHANGED <<dumping, segvs, gone, historyVars>>

(* SIGSEGV: the handler removes the file g_ExecFileName, with the records  *)
(* not handed over yet, and leaves DumpFlag, for which fmaster_FrdDumpExec *)
(* runs the dump again, MaxCheckCnt times.                                 *)
DumpSegv ==
    /\ DumpInFile
    /\ RemovesDumped
    /\ segvs' = segvs + 1
    /\ dumping' = (segvs' <= MaxCheckCnt)
    /\ cut' = (cut \/ ~dumping')
    /\ gone' = (gone /\ dumping')
    /\ UNCHANGED <<savedIn, closed, inHand, emptied>>

(* Another signal, whose handler removes DumpFlag, or no DBMS to connect   *)
(* to: dap_master starts the two over the files left, and FW_DT_LAST.      *)
DumpStops ==
    /\ dumping
    /\ dumping' = FALSE
    /\ dname' = 0 /\ dpos' = 0
    /\ cut' = TRUE
    /\ gone' = FALSE
    /\ UNCHANGED <<vars, agentVars, saved, segvs, countVars, savedIn, closed,
                   inHand, emptied>>

(* Mutant: frd_DumpDeleteDtLast is forgotten.                              *)
DumpEndsKeepsLast ==
    /\ dumping
    /\ dname = 0 /\ UsedNames = {}
    /\ dumping' = FALSE
    /\ gone' = FALSE
    /\ UNCHANGED <<vars, agentVars, saved, dname, dpos, segvs, countVars,
                   historyVars>>

(* frd_DumpDeleteDtLast, and dap_master starts the two again.              *)
DumpEnds ==
    /\ dumping
    /\ dname = 0 /\ UsedNames = {}
    /\ saved' = NoPosition
    /\ savedIn' = NoFile
    /\ dumping' = FALSE
    /\ gone' = FALSE
    /\ UNCHANGED <<vars, agentVars, dname, dpos, segvs, countVars, closed, inHand,
                   cut, emptied>>

------------------------------------------------------------------------------
DetectInit ==
    /\ dir = [i \in Names |-> NoFile]
    /\ base = <<>> /\ size = <<>>
    /\ nrec = 0
    /\ wpc = "down" /\ widx = 1 /\ wfp = NoFile /\ wleft = 0
    /\ rpc = "down" /\ ridx = 1 /\ nidx = 1 /\ rfp = NoFile /\ rpos = 0
    /\ reof = FALSE
    /\ out = <<>>
    /\ asked = 0 /\ waiting = 0
    /\ saved = NoPosition /\ savedIn = NoFile
    /\ dumping = FALSE /\ dname = 0 /\ dpos = 0 /\ segvs = 0 /\ gone = FALSE
    /\ wstops = 0 /\ rstops = 0 /\ kills = 0 /\ dumps = 0
    /\ closed = 0 /\ inHand = {} /\ cut = FALSE /\ emptied = FALSE

PcifStep == PcifWrites \/ LockAndWrite \/ PcifStarts
FrdStep  == FrdReads \/ FrdRestarts
DumpStep == DumpOpens \/ DumpRecord \/ DumpUnlinks \/ DumpEnds

DetectNext ==
    \/ PcifStep \/ Ask \/ GiveUp \/ PcifStops
    \/ FrdStep \/ FrdStops \/ FrdIsKilled
    \/ DumpBegins \/ DumpStep \/ DumpSegv \/ DumpStops

(* Both parents fork a child that died again while they live, dap_master   *)
(* starts both after a dump, and a thread that cannot lock has 500 tries.  *)
DetectFairness ==
    /\ WF_detectVars(PcifStep)
    /\ WF_detectVars(FrdStep)
    /\ WF_detectVars(DumpStep)
    /\ WF_detectVars(GiveUp)

DetectSpec == DetectInit /\ [][DetectNext]_detectVars
FairDetectSpec == DetectSpec /\ DetectFairness

------------------------------------------------------------------------------
DetectTypeOK ==
    /\ TypeOK
    /\ asked \in 0..MaxRec /\ waiting \in 0..MaxThreads
    /\ saved \in Nat \cup {NoPosition}
    /\ savedIn \in FileIds \cup {NoFile}
    /\ dumping \in BOOLEAN /\ gone \in BOOLEAN
    /\ dumping => wpc = "down" /\ rpc = "down" /\ segvs <= MaxCheckCnt
    /\ dname \in Names \cup {0} /\ dpos \in Nat /\ segvs \in 0..(MaxCheckCnt + 1)
    /\ dname # 0 => dumping /\ Exists(dname)
    /\ wstops \in 0..MaxStarts /\ rstops \in 0..MaxStarts
    /\ kills \in 0..MaxKills /\ dumps \in 0..MaxDumps
    /\ closed \in Nat /\ inHand \subseteq Nat
    /\ cut \in BOOLEAN /\ emptied \in BOOLEAN

(* frd_fork.c:188 says that the reader, "to prevent double processing,     *)
(* fetches the position of the file pointer it was reading before": where  *)
(* it begins behind the start of a file, it has been there in that file.   *)
PositionOfItsFile ==
    [][rpc = "start" /\ rpc' = "read" /\ rpos' > 0 => rfp' = savedIn]_detectVars

(* A reader that was stopped by signals only, never by SIGKILL, has handed *)
(* over whatever lies before its position, or held it when a signal came,  *)
(* as long as no dump was cut short and no start has emptied a file: a     *)
(* dump that does not come to its end leaves FW_DT_LAST for other files.   *)
NothingSkipped ==
    /\ kills = 0 /\ ~cut /\ ~emptied
    /\ rpc \in {"read", "check", "wait", "drain", "unlink"}
    => \A k \in 1..rpos : base[rfp] + k \in Delivered \cup inHand

(* ... and as long as each signal found the stream open, and nothing was   *)
(* dumped, no record is handed over twice, and all in their order.         *)
NothingDoubled == kills = 0 /\ closed = 0 /\ dumps = 0 /\ ~emptied => InOrder

(* A file that the dump removes has been handed over to its last record,   *)
(* unless the dump died in it: then up to the record that it died of.      *)
DumpIsComplete ==
    [][\A i \in Names :
         dumping /\ Exists(i) /\ dir'[i] = NoFile
            => \A k \in 1..size[dir[i]] :
                 \/ base[dir[i]] + k \in Delivered'
                 \/ segvs' # segvs /\ k > dpos]_detectVars

(* No file with records the reader has not passed is emptied: what would   *)
(* hold if the ring were never full at a start of dap_pcif.                *)
NothingUnreadEmptied ==
    [][\A f \in FileIds : base'[f] # base[f]
          => size[f] = 0 \/ (rfp = f /\ rpos >= size[f])]_detectVars

(* Whatever stops, is killed or dumped, the reader comes to read the file  *)
(* that is being written, unless its parent is dead, or a process is down  *)
(* and kept from starting because the names are out of order, or a start   *)
(* on a full ring has put the newest file before the oldest, or a dump cut *)
(* short has left a gap in the names.                                      *)
DetectCatchesUp ==
    []<>( \/ rfp # NoFile /\ rfp = wfp
          \/ gone \/ emptied \/ cut
          \/ "down" \in {wpc, rpc} /\ ~NamesInOrder)

(* Every agent whose thread waits for the lock gets an answer, also when   *)
(* the ring is full and no reader ever comes to empty it.                  *)
AgentsAreAnswered == waiting > 0 ~> waiting = 0

(* The agent whose thread has the lock waits as long as that thread waits  *)
(* for a name: it is answered while there is a reader, or one comes again. *)
WritersAgentIsAnswered ==
    Writing ~> \/ ~Writing
               \/ gone \/ emptied \/ cut
               \/ rpc = "down" /\ ~NamesInOrder
==============================================================================
