-------------------------------- MODULE DbLog --------------------------------
(***************************************************************************)
(* dap_dblog: the log records of all daemons go through the ring of SQueue *)
(* into the database.  The main thread takes a record from the ring and    *)
(* inserts it; one that the database refuses it puts into the ring again,  *)
(* so that the ring then has two producers.  A signal stops the process in *)
(* its main thread wherever that is: it saves the ring to a file, which    *)
(* the next start loads and empties.  SIGKILL saves nothing, and leaves    *)
(* the pid file, which keeps the process from starting until somebody      *)
(* removes it: dap_master does not.                                        *)
(***************************************************************************)
EXTENDS SQueue

CONSTANTS
    MaxRefused,     \* bound: inserts that the database refuses
    MaxStops,       \* bound: signals that are handled
    MaxCrashes,     \* bound: signals that are not, and starts without a database
    MaxFile         \* bound: records that fit on the disk

VARIABLES
    db,             \* the records rows were inserted for, in their order
    retryCnt,       \* retryCnt of fstFromQToDBMS
    stopFlag,       \* g_pthreadStopFlag
    file,           \* szSaveDblogQueueHome
    cfront, crear,  \* g_nCfront, g_nCrear; cfront counts what SQLoadQ has read
    owed,           \* history: how many records had been put when the save began
    pidfile,        \* does the pid file of dap_dblog exist?
    stops, crashes, refused

saveVars == <<file, cfront, crear, owed>>
faults   == <<stops, crashes, refused>>
logVars  == <<db, retryCnt, stopFlag, saveVars, pidfile, faults>>
dbVars   == <<vars, logVars>>

HandlerPcs == {"stop", "save", "exit"}
MainPcs    == GetPcs \cup PutPcs

------------------------------------------------------------------------------
(* The receiver thread.                                                    *)

ReceiveUnlessStopped == ~stopFlag /\ Receive /\ UNCHANGED logVars

ReceiverPuts == ReceiverStep /\ UNCHANGED logVars

ReceiverQuits ==
    /\ pc["recv"] = "recv" /\ stopFlag
    /\ Goto("recv", "off")
    /\ UNCHANGED <<ring, rec, val, tmp, receiver, history, logVars>>

------------------------------------------------------------------------------
(* The main thread, fstFromQToDBMS.                                        *)

MainGets == Get /\ UNCHANGED logVars

(* A row for the record.  What the row says is left out: of an agent's log *)
(* nothing, for its branch inserts the cleared structure of the other one. *)
Insert ==
    /\ pc["main"] = "got" /\ rec["main"] # Zeroed
    /\ db' = Append(db, rec["main"])
    /\ Goto("main", "get")
    /\ UNCHANGED <<ring, rec, val, tmp, receiver, history,
                   retryCnt, stopFlag, saveVars, pidfile, faults>>

(* The insert fails: put the record again, unless retryCnt, which is never *)
(* reset, has reached its limit.                                           *)
InsertFails ==
    /\ refused < MaxRefused
    /\ pc["main"] = "got" /\ rec["main"] # Zeroed
    /\ refused' = refused + 1
    /\ Goto("main", IF retryCnt < Retry THEN "put" ELSE "get")
    /\ UNCHANGED <<ring, rec, val, tmp, receiver, history,
                   db, retryCnt, stopFlag, saveVars, pidfile, stops, crashes>>

(* A slot no put has filled has no packtype: "Unknown errorlog type".      *)
UnknownType ==
    /\ pc["main"] = "got" /\ rec["main"] = Zeroed
    /\ Goto("main", "get")
    /\ UNCHANGED <<ring, rec, val, tmp, receiver, history, logVars>>

MainPuts == Put("main") /\ UNCHANGED logVars

(* Mutant: retryCnt++ is forgotten.                                        *)
MainFindsFullUncounted ==
    /\ pc["main"] = "put" /\ IsFull
    /\ UNCHANGED dbVars

MainFindsFull ==
    /\ pc["main"] = "put" /\ IsFull
    /\ retryCnt' = retryCnt + 1
    /\ Goto("main", IF retryCnt + 1 < Retry THEN "put" ELSE "get")
    /\ UNCHANGED <<ring, rec, val, tmp, receiver, history,
                   db, stopFlag, saveVars, pidfile, faults>>

MainStep ==
    \/ MainGets \/ Insert \/ InsertFails \/ UnknownType
    \/ MainPuts \/ MainFindsFull

------------------------------------------------------------------------------
(* fstHandleSignal, in the main thread, which does not go on after it.     *)

Signal ==
    /\ stops < MaxStops
    /\ pc["main"] \in MainPcs \cup {"loadq", "wrapq"}
    /\ stops' = stops + 1
    /\ stopFlag' = TRUE
    /\ Goto("main", "stop")
    /\ UNCHANGED <<ring, rec, val, tmp, receiver, history,
                   db, retryCnt, saveVars, pidfile, crashes, refused>>

(* Mutant: the slots are saved from the first of the array on.             *)
SaveBeginsAtZero ==
    /\ pc["main"] = "stop"
    /\ cfront' = 0 /\ crear' = rear
    /\ misled' = (misled \/ Qnum \in {front, rear})
    /\ file' = <<>> /\ owed' = Len(kept)
    /\ Goto("main", "save")
    /\ UNCHANGED <<ring, rec, val, tmp, receiver, kept, out,
                   db, retryCnt, stopFlag, pidfile, faults>>

(* fipc_SQSaveQ: SQCrReset, which copies the indexes as they are, and      *)
(* fopen "wb".                                                             *)
SaveBegins ==
    /\ pc["main"] = "stop"
    /\ cfront' = front /\ crear' = rear
    /\ misled' = (misled \/ Qnum \in {front, rear})
    /\ file' = <<>> /\ owed' = Len(kept)
    /\ Goto("main", "save")
    /\ UNCHANGED <<ring, rec, val, tmp, receiver, kept, out,
                   db, retryCnt, stopFlag, pidfile, faults>>

(* SQRead and fwrite, as far as the data reached the file.  The loop never *)
(* meets a g_nCrear that was copied unwrapped.                             *)
SaveOne ==
    /\ pc["main"] = "save" /\ cfront # crear
    /\ Len(file) < MaxFile
    /\ file' = Append(file, data[cfront])
    /\ cfront' = (cfront + 1) % Qnum
    /\ UNCHANGED <<ring, pc, rec, val, tmp, receiver, history,
                   db, retryCnt, stopFlag, crear, owed, pidfile, faults>>

SaveEnds ==
    /\ pc["main"] = "save" /\ cfront = crear
    /\ Goto("main", "exit")
    /\ UNCHANGED <<ring, rec, val, tmp, receiver, history, logVars>>

(* The process is gone with all its memory.                                *)
Gone ==
    /\ pc' = [t \in Threads |-> IF t = "main" THEN "down" ELSE "off"]
    /\ data' = [c \in Cells |-> Zeroed]
    /\ rear' = 0 /\ front' = 0 /\ tmp' = 0 /\ tries' = 0
    /\ rec' = [t \in Threads |-> Zeroed] /\ val' = [t \in Threads |-> 0]
    /\ kept' = <<>> /\ out' = <<>>
    /\ cfront' = 0 /\ crear' = 0 /\ owed' = 0 /\ retryCnt' = 0 /\ stopFlag' = FALSE
    /\ UNCHANGED <<nrec, db, misled>>

(* fipc_SQClear, fFile_cleanupMasterPid and exit.                          *)
Exit ==
    /\ pc["main"] = "exit"
    /\ Gone
    /\ pidfile' = FALSE
    /\ UNCHANGED <<file, faults>>

Crash ==
    /\ crashes < MaxCrashes
    /\ pc["main"] # "down"
    /\ crashes' = crashes + 1
    /\ Gone
    /\ UNCHANGED <<file, pidfile, stops, refused>>

------------------------------------------------------------------------------
(* The next start, fstMainTask, which returns at once when the pid file is *)
(* there.                                                                  *)

Start ==
    /\ pc["main"] = "down" /\ ~pidfile
    /\ pidfile' = TRUE
    /\ Goto("main", "loadq")
    /\ UNCHANGED <<ring, rec, val, tmp, receiver, history,
                   db, retryCnt, stopFlag, saveVars, faults>>

(* fdb_ConnectDB fails after the pid file was made: exit(0) leaves it.     *)
StartWithoutDb ==
    /\ crashes < MaxCrashes
    /\ pc["main"] = "down" /\ ~pidfile
    /\ crashes' = crashes + 1
    /\ pidfile' = TRUE
    /\ UNCHANGED <<vars, db, retryCnt, stopFlag, saveVars, stops, refused>>

(* Somebody removes the pid file of a process that is gone.                *)
PidFileRemoved ==
    /\ pc["main"] = "down" /\ pidfile
    /\ pidfile' = FALSE
    /\ UNCHANGED <<vars, db, retryCnt, stopFlag, saveVars, faults>>

(* fipc_SQLoadQ: SQPut of each record of the file, while no other thread   *)
(* runs yet, up to the first store of g_nRear.                             *)
LoadOne ==
    /\ pc["main"] = "loadq" /\ cfront < Len(file)
    /\ cfront' = cfront + 1
    /\ IF IsFull
       THEN UNCHANGED <<data, rear, kept, pc>>
       ELSE /\ data' = [data EXCEPT ![rear] = file[cfront + 1]]
            /\ rear' = rear + 1
            /\ kept' = Append(kept, file[cfront + 1])
            /\ Goto("main", "wrapq")
    /\ UNCHANGED <<front, rec, val, tmp, receiver, out, misled,
                   db, retryCnt, stopFlag, file, crear, owed, pidfile, faults>>

LoadWraps ==
    /\ pc["main"] = "wrapq"
    /\ rear' = rear % Qnum
    /\ Goto("main", "loadq")
    /\ UNCHANGED <<data, front, rec, val, tmp, receiver, history, logVars>>

(* Mutant: the threads start with the file still there.                    *)
RemoveFileForgotten ==
    /\ pc["main"] = "loadq" /\ cfront = Len(file)
    /\ pc' = [t \in Threads |-> IF t = "main" THEN "get" ELSE "recv"]
    /\ cfront' = 0
    /\ UNCHANGED <<ring, rec, val, tmp, receiver, history,
                   db, retryCnt, stopFlag, file, crear, owed, pidfile, faults>>

(* Mutant: the file is emptied before all of it is loaded.                 *)
RemoveFileEarly ==
    /\ pc["main"] = "loadq"
    /\ file' = <<>>
    /\ pc' = [t \in Threads |-> IF t = "main" THEN "get" ELSE "recv"]
    /\ cfront' = 0
    /\ UNCHANGED <<ring, rec, val, tmp, receiver, history,
                   db, retryCnt, stopFlag, crear, owed, pidfile, faults>>

(* fipc_SQRemove empties the file, and the receiver thread is created.     *)
RemoveFile ==
    /\ pc["main"] = "loadq" /\ cfront = Len(file)
    /\ file' = <<>>
    /\ pc' = [t \in Threads |-> IF t = "main" THEN "get" ELSE "recv"]
    /\ cfront' = 0
    /\ UNCHANGED <<ring, rec, val, tmp, receiver, history,
                   db, retryCnt, stopFlag, crear, owed, pidfile, faults>>

Handler == SaveBegins \/ SaveOne \/ SaveEnds \/ Exit
Starting == Start \/ LoadOne \/ LoadWraps \/ RemoveFile

------------------------------------------------------------------------------
DbLogInit ==
    /\ Init
    /\ db = <<>> /\ retryCnt = 0 /\ stopFlag = FALSE
    /\ file = <<>> /\ cfront = 0 /\ crear = 0 /\ owed = 0 /\ pidfile = TRUE
    /\ stops = 0 /\ crashes = 0 /\ refused = 0

DbLogNext ==
    \/ ReceiveUnlessStopped \/ ReceiverPuts \/ ReceiverQuits
    \/ MainStep
    \/ Signal \/ Handler \/ Crash
    \/ Starting \/ StartWithoutDb \/ PidFileRemoved

(* The threads only ever sleep for fixed times, and dap_master starts the  *)
(* process again and again while it is not there.  Nobody need ever remove *)
(* a pid file that was left.                                               *)
DbLogFairness ==
    /\ WF_dbVars(ReceiverPuts \/ ReceiverQuits)
    /\ WF_dbVars(MainStep \/ Handler \/ Starting)

DbLogSpec == DbLogInit /\ [][DbLogNext]_dbVars
DbLogFairSpec == DbLogSpec /\ DbLogFairness

------------------------------------------------------------------------------
(* With a database that takes every row, rows appear in the order their    *)
(* records were received and none twice, through any stops and crashes, as *)
(* long as nobody took an index between its stores.                        *)
Rows == INSTANCE LossyFifo WITH sent <- nrec, got <- db
ImplementsRows == Rows!Init /\ [][~misled' => Rows!Next]_<<nrec, db>>

(* What a stop saves is what waited in the ring when the save began, all   *)
(* of it, from the oldest record on.                                       *)
SavedFromOldest ==
    pc["main"] = "exit" /\ ~misled =>
        \E k \in {Len(out), Len(out) + 1} :
            /\ k + Len(file) = owed
            /\ \A j \in 1..Len(file) : file[j] = kept[k + j]

(* A saved record that no further signal interferes with reaches the       *)
(* database, unless a pid file that was left keeps the process down.       *)
Undisturbed == stops = MaxStops /\ crashes = MaxCrashes
KeptDown    == pc["main"] = "down" /\ pidfile

SavedIsInserted ==
    \A r \in 1..MaxRec :
        (Undisturbed /\ \E k \in 1..Len(file) : file[k] = r)
            ~> (\E k \in 1..Len(db) : db[k] = r) \/ KeptDown \/ misled

(* The main thread, the only one that empties the ring, does not wait for  *)
(* ever to put into it.                                                    *)
MainGoesOn == pc["main"] = "put" ~> pc["main"] = "get"

(* dblog_main.c:302 says of a refused record "Retry put queue": at least   *)
(* one put of it is tried.                                                 *)
RefusedIsRetried ==
    [][pc["main"] = "got" /\ rec["main"] # Zeroed /\ pc'["main"] = "get"
           => db' # db]_dbVars

(* A record whose put, or put again (dblog_main.c:302 "Retry put queue"),  *)
(* has returned 0 is in the ring until it is got.                          *)
PutIsKept ==
    pc["main"] \in {"get", "got"} /\ pc["recv"] = "recv"
        => Len(kept) = Len(out) + ((rear - front) % Qnum)
==============================================================================
