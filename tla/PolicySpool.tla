----------------------------- MODULE PolicySpool -----------------------------
(***************************************************************************)
(* The FW_POLICY (or FW_SERVICE) spool with its two processes stopping at  *)
(* any step, killed or crashed, and started again: a child of              *)
(* dap_policy_fw writes, a child of dap_frd reads.  The writer starts in   *)
(* the name after the last one.  The reader starts at the end of the last  *)
(* file and removes the files before it: policy changes that waited while  *)
(* it was down are given up by design.                                     *)
(*                                                                         *)
(* A record is about 300 bytes, one write(2): Chunks is 1 here.            *)
(***************************************************************************)
EXTENDS SpoolRing

CONSTANTS
    MaxWriterStarts,   \* bound: times the writer may stop
    MaxReaderStarts    \* bound: times the reader may stop

ASSUME PolicyAssumption ==
    /\ Chunks = 1
    /\ MaxWriterStarts \in Nat
    /\ MaxReaderStarts \in Nat

VARIABLES
    wstops, rstops,   \* times each has stopped
    since             \* history: records written when the reader last started

stops      == <<wstops, rstops>>
policyVars == <<vars, stops, since>>

(* fw_GetLastFileIndex: the highest name in use, 0 when there is none.     *)
LastName ==
    IF \E i \in Names : Exists(i)
    THEN CHOOSE i \in Names : Exists(i) /\ \A j \in Names : Exists(j) => j <= i
    ELSE 0

(* frd_GetLastFileIndex: the same, 1 when there is none.                   *)
LastNameForRead == IF LastName = 0 THEN 1 ELSE LastName

------------------------------------------------------------------------------
WriterStops ==
    /\ wpc # "down"
    /\ wstops < MaxWriterStarts
    /\ wstops' = wstops + 1
    /\ wpc' = "down"
    /\ wfp' = NoFile
    /\ wleft' = 0
    /\ UNCHANGED <<dirVars, nrec, widx, readerVars, rstops, since>>

(* Mutant: the index is not carried over from the files there are.         *)
WriterStartsOver ==
    /\ wpc = "down"
    /\ widx' = 1
    /\ wpc' = "open"
    /\ UNCHANGED <<dirVars, nrec, wfp, wleft, readerVars, stops, since>>

(* Mutant: + 1 forgotten, the writer starts in the last file.              *)
WriterStartsInLast ==
    /\ wpc = "down"
    /\ widx' = LastNameForRead
    /\ wpc' = "open"
    /\ UNCHANGED <<dirVars, nrec, wfp, wleft, readerVars, stops, since>>

(* fw_ForkWork again: fw_GetLastFileName, and next the same fopen "wb".    *)
WriterStarts ==
    /\ wpc = "down"
    /\ widx' = IF LastName + 1 > MaxIndex THEN 1 ELSE LastName + 1
    /\ wpc' = "open"
    /\ UNCHANGED <<dirVars, nrec, wfp, wleft, readerVars, stops, since>>

ReaderStops ==
    /\ rpc # "down"
    /\ rstops < MaxReaderStarts
    /\ rstops' = rstops + 1
    /\ rpc' = "down"
    /\ rfp' = NoFile
    /\ UNCHANGED <<dirVars, writerVars, ridx, nidx, rpos, reof, out, wstops, since>>

(* frd_ForkWork again: frd_InitClearFile looks up the last name,           *)
ReaderStarts ==
    /\ rpc = "down"
    /\ ridx' = LastNameForRead
    /\ since' = IF wpc = "write" THEN nrec - 1 ELSE nrec
    /\ rpc' = "clear"
    /\ UNCHANGED <<dirVars, writerVars, nidx, rfp, rpos, reof, out, stops>>

(* and frd_ClearPolicyFile unlinks every name before it;                   *)
ClearOldFiles ==
    /\ rpc = "clear"
    /\ dir' = [i \in Names |-> IF i < ridx THEN NoFile ELSE dir[i]]
    /\ rpc' = "name"
    /\ UNCHANGED <<base, size, writerVars, ridx, nidx, rfp, rpos, reof, out, stops, since>>

(* Mutant: the first name in use instead of the last.                      *)
NameFirstFile ==
    /\ rpc = "name"
    /\ ridx' = IF LastName = 0 THEN 1
               ELSE CHOOSE i \in Names : Exists(i) /\ \A j \in Names : Exists(j) => i <= j
    /\ nidx' = NextName(ridx')
    /\ rpc' = "start"
    /\ UNCHANGED <<dirVars, writerVars, rfp, rpos, reof, out, stops, since>>

(* frd_GetFileName looks the last name up again, the next name follows it; *)
NameFile ==
    /\ rpc = "name"
    /\ ridx' = LastNameForRead
    /\ nidx' = NextName(ridx')
    /\ rpc' = "start"
    /\ UNCHANGED <<dirVars, writerVars, rfp, rpos, reof, out, stops, since>>

(* Mutant: no fseek.                                                       *)
OpenAtStart ==
    /\ rpc = "start"
    /\ Exists(ridx)
    /\ rfp' = dir[ridx]
    /\ rpos' = 0
    /\ reof' = FALSE
    /\ rpc' = "read"
    /\ UNCHANGED <<dirVars, writerVars, ridx, nidx, out, stops, since>>

(* fopen and fseek to the end;                                             *)
OpenAtEnd ==
    /\ rpc = "start"
    /\ Exists(ridx)
    /\ rfp' = dir[ridx]
    /\ rpos' = size[dir[ridx]]
    /\ reof' = FALSE
    /\ rpc' = "read"
    /\ UNCHANGED <<dirVars, writerVars, ridx, nidx, out, stops, since>>

(* with no such file frd_ForkWork returns, and its parent forks it again.  *)
OpenFails ==
    /\ rpc = "start"
    /\ ~Exists(ridx)
    /\ rpc' = "down"
    /\ UNCHANGED <<dirVars, writerVars, ridx, nidx, rfp, rpos, reof, out, stops, since>>

RestartReader == ReaderStarts \/ ClearOldFiles \/ NameFile \/ OpenAtEnd \/ OpenFails

(* A new installation: no file, and neither process runs.                  *)
PolicyInit ==
    /\ dir = [i \in Names |-> NoFile]
    /\ base = <<>> /\ size = <<>>
    /\ nrec = 0
    /\ wpc = "down" /\ widx = 1 /\ wfp = NoFile /\ wleft = 0
    /\ rpc = "down" /\ ridx = 1 /\ nidx = 1 /\ rfp = NoFile /\ rpos = 0
    /\ reof = FALSE
    /\ out = <<>>
    /\ wstops = 0 /\ rstops = 0 /\ since = 0

PolicyNext ==
    \/ Next /\ UNCHANGED <<stops, since>>
    \/ WriterStops \/ WriterStarts
    \/ ReaderStops \/ RestartReader

(* The parents fork a dead child again, so one that is down starts.        *)
PolicyFairness ==
    /\ WF_policyVars((WriterStep /\ UNCHANGED <<stops, since>>) \/ WriterStarts)
    /\ WF_policyVars((ReaderStep /\ UNCHANGED <<stops, since>>) \/ RestartReader)

PolicySpec == PolicyInit /\ [][PolicyNext]_policyVars
FairPolicySpec == PolicySpec /\ PolicyFairness

------------------------------------------------------------------------------
PolicyTypeOK ==
    /\ TypeOK
    /\ wstops \in 0..MaxWriterStarts
    /\ rstops \in 0..MaxReaderStarts
    /\ since \in 0..nrec

(* frd_fork.c:58 says "all files but the last are removed, and the DB is    *)
(* updated from the last, as of now": a reader that has started again      *)
(* hands over no record written before it started.                         *)
OnlyFromNowOn ==
    [][rpc # "down" /\ Len(out') > Len(out) => out'[Len(out')] > since]_policyVars

(* frd_fork.c:70 says "policy takes the name of the newest file": no file  *)
(* in the directory holds later records than the one a reader names.       *)
NamesNewestFile ==
    [][rpc = "name" /\ rpc' = "start"
          => \A i \in Names : Exists(i) => base[dir[i]] <= base[dir[ridx']]]_policyVars

(* A writer's file, once it has taken a record, is emptied by nobody until *)
(* the reader has gone past it.                                            *)
NothingUnreadEmptied ==
    [][\A f \in FileIds : base'[f] # base[f]
          => (rfp = f /\ rpos >= size[f]) \/ size[f] = 0]_policyVars

(* However often the two stop, the reader comes to read the file that is   *)
(* being written.                                                          *)
ReaderCatchesUp == []<>(rfp # NoFile /\ rfp = wfp)
==============================================================================
