------------------------------- MODULE Master -------------------------------
(***************************************************************************)
(* dap_master and dap_frd, one of the daemons it starts again every night  *)
(* (dap_policy_fw, dap_proxy and dap_pcif are treated alike; an orphan of  *)
(* dap_pcif ends by itself).                                               *)
(*                                                                         *)
(* Two threads of dap_master start the daemon.  The main loop looks every  *)
(* 10 s into /proc and starts what is not there.  The restart thread kills *)
(* the daemon at 04:00 with SIGKILL, runs "dap_frd dump", removes the pid  *)
(* file and starts it.  RestartFlag, a plain char, tells the main loop to  *)
(* keep off; the main loop reads it twice a round and acts later.          *)
(*                                                                         *)
(* A daemon that finds its pid file exits at once, one that does not makes *)
(* it, and one that ends by a signal it can handle removes it by name, once*)
(* it has told its children to stop and has waited for one of them.        *)
(***************************************************************************)
EXTENDS Integers, FiniteSets

CONSTANTS
    MaxProcs,     \* processes of the daemon at one time, dead ones not counted
    MaxNights,    \* bound: restarts at 04:00
    MaxCrashes,   \* bound: signals the daemon handles and nobody here sends
    MaxKills,     \* bound: times the daemon's parent process gets SIGKILL
    MaxStops      \* bound: times dap_master gets SIGTERM

ASSUME MasterAssumption ==
    /\ MaxProcs \in Nat \ {0}
    /\ MaxNights \in Nat /\ MaxCrashes \in Nat /\ MaxKills \in Nat
    /\ MaxStops \in Nat

VARIABLES
    proc,       \* what each process of the daemon is doing
    pidfile,    \* <daemon>.pid is there
    mpc,        \* dap_master, main thread: where it is
    mpidfile,   \* dap_master.pid is there
    status, pid,           \* g_stProcessInfo of the daemon, as last looked up
    tpc,        \* the restart thread: where it is
    RestartFlag,
    nights, crashes, kills, stops,   \* times each has happened
    crossed     \* history: a night began between the main loop's last look at
                \* RestartFlag and its start of the daemon, or it started one
                \* while another was starting

daemonVars == <<proc, pidfile>>
masterVars == <<mpc, mpidfile, status, pid>>
threadVars == <<tpc, RestartFlag>>
countVars  == <<nights, crashes, kills, stops>>
vars == <<daemonVars, masterVars, threadVars, countVars, crossed>>

Procs == 1..MaxProcs
NoPid == 0

(* none: there is no such process.  start: before it looks for the pid     *)
(* file; make: it found none; made: it has made it, and not yet noted its  *)
(* own number; run: it serves; exit: in its handler.  With the parent gone,*)
(* children are orphan, or told when they have SIGTERM.                    *)
ProcStates   == {"none", "start", "make", "made", "run", "exit", "orphan", "told"}
MasterPcs    == {"off", "dump", "first", "look1", "scan", "look2", "start",
                 "rescan", "told"}
ThreadPcs    == {"off", "idle", "kill", "dump", "clean", "start", "done"}

Alive  == {i \in Procs : proc[i] # "none"}
Active == {i \in Procs : proc[i] \in {"run", "exit", "orphan"}}

------------------------------------------------------------------------------
(* The daemon.                                                             *)

(* fFile_CheckMasterPid: "Already Exist Pid File", or go on.               *)
CheckPidFile(i) ==
    /\ proc[i] = "start"
    /\ proc' = [proc EXCEPT ![i] = IF pidfile THEN "none" ELSE "make"]
    /\ UNCHANGED <<pidfile, masterVars, threadVars, countVars, crossed>>

(* fFile_MakeMasterPid: fopen "w", whoever may have made the file.         *)
MakePidFile(i) ==
    /\ proc[i] = "make"
    /\ proc' = [proc EXCEPT ![i] = "made"]
    /\ pidfile' = TRUE
    /\ UNCHANGED <<masterVars, threadVars, countVars, crossed>>

(* parentPid = getpid(), and the children are forked.                      *)
NoteParentPid(i) ==
    /\ proc[i] = "made"
    /\ proc' = [proc EXCEPT ![i] = "run"]
    /\ UNCHANGED <<pidfile, masterVars, threadVars, countVars, crossed>>

(* frd_HandleSignal: the parent tells its children; a process that has not *)
(* noted its number takes itself for a child and ends, with its pid file   *)
(* left behind.  Of several children one gets the signal.                  *)
AfterSignal(s) ==
    CASE s \in {"run", "exit"}    -> {"exit"}
      [] s \in {"orphan", "told"} -> {s, "none"}
      [] OTHER                    -> {"none"}

(* What SIGTERM to the process that was number i when it was looked up can *)
(* make of the processes f.                                                *)
Terminated(f, i) ==
    IF i = NoPid THEN {f} ELSE {[f EXCEPT ![i] = s] : s \in AfterSignal(f[i])}

(* SIGSEGV and the like, or a SIGTERM by hand, once it serves.             *)
Crash(i) ==
    /\ proc[i] = "run"
    /\ crashes < MaxCrashes
    /\ crashes' = crashes + 1
    /\ proc' \in Terminated(proc, i)
    /\ UNCHANGED <<pidfile, masterVars, threadVars, nights, kills, stops, crossed>>

(* SIGKILL of the parent: its children, of whom nobody knows, go on.       *)
Kill(i) ==
    /\ proc[i] \in {"run", "exit"}
    /\ kills < MaxKills
    /\ kills' = kills + 1
    /\ \E s \in {"none", "orphan"} : proc' = [proc EXCEPT ![i] = s]
    /\ UNCHANGED <<pidfile, masterVars, threadVars, nights, crashes, stops, crossed>>

(* frd_ParentExit: wait() returned for one child, the others may live on.  *)
ParentExit(i) ==
    /\ proc[i] = "exit"
    /\ \E s \in {"none", "told"} : proc' = [proc EXCEPT ![i] = s]
    /\ pidfile' = FALSE
    /\ UNCHANGED <<masterVars, threadVars, countVars, crossed>>

(* The last child that was told to stop does.                              *)
ChildrenEnd(i) ==
    /\ proc[i] = "told"
    /\ proc' = [proc EXCEPT ![i] = "none"]
    /\ UNCHANGED <<pidfile, masterVars, threadVars, countVars, crossed>>

DaemonStep ==
    \E i \in Procs : \/ CheckPidFile(i) \/ MakePidFile(i) \/ NoteParentPid(i)
                     \/ ParentExit(i) \/ ChildrenEnd(i)

------------------------------------------------------------------------------
(* Starting it.                                                            *)

(* system("<daemon> <args> &").  A number is not used again while          *)
(* g_stProcessInfo has it.                                                 *)
Started(f) ==
    LET free == {i \in Procs : f[i] = "none" /\ i # pid}
    IN  [f EXCEPT ![CHOOSE i \in free : \A j \in free : i <= j] = "start"]

(* A process that was started has neither made its pid file nor ended.     *)
Starting(f) == \E i \in Procs : f[i] \in {"start", "make"}

(* fmaster_GetProcessInfo: a process of that name whose parent is init, as *)
(* the daemon is once its shell has ended, and an orphan of it; the number *)
(* of one that is not there is kept.                                       *)
LookUp ==
    IF Alive = {}
    THEN /\ status' = "K"
         /\ UNCHANGED pid
    ELSE /\ status' = "S"
         /\ pid' \in Alive

------------------------------------------------------------------------------
(* The main thread of dap_master.                                          *)

(* Its own pid file, then the dump.                                        *)
MasterStarts ==
    /\ mpc = "off"
    /\ ~mpidfile
    /\ mpidfile' = TRUE
    /\ mpc' = "dump"
    /\ UNCHANGED <<daemonVars, status, pid, threadVars, countVars, crossed>>

(* fmaster_FrdDumpExec returns.                                            *)
FirstDumpEnds ==
    /\ mpc = "dump"
    /\ mpc' = "first"
    /\ UNCHANGED <<daemonVars, mpidfile, status, pid, threadVars, countVars, crossed>>

(* fst_InitProcessInvoke looks, starts what is not there, and looks again; *)
(* then the restart thread is created.                                     *)
FirstScan ==
    /\ mpc = "first"
    /\ LookUp
    /\ mpc' = "start"
    /\ UNCHANGED <<daemonVars, mpidfile, threadVars, countVars, crossed>>

(* A round begins: RestartFlag, for the first time.                        *)
Look1 ==
    /\ mpc = "look1"
    /\ mpc' = IF RestartFlag THEN "look2" ELSE "scan"
    /\ UNCHANGED <<daemonVars, mpidfile, status, pid, threadVars, countVars, crossed>>

(* fmaster_SaveProcessInfo.                                                *)
Scan ==
    /\ mpc = "scan"
    /\ LookUp
    /\ mpc' = "look2"
    /\ UNCHANGED <<daemonVars, mpidfile, threadVars, countVars, crossed>>

(* Mutant: RestartFlag is read once a round.                               *)
Look2Not ==
    /\ mpc = "look2"
    /\ mpc' = "start"
    /\ UNCHANGED <<daemonVars, mpidfile, status, pid, threadVars, countVars, crossed>>

(* RestartFlag, for the second time.                                       *)
Look2 ==
    /\ mpc = "look2"
    /\ mpc' = IF RestartFlag THEN "look1" ELSE "start"
    /\ UNCHANGED <<daemonVars, mpidfile, status, pid, threadVars, countVars, crossed>>

(* fmaster_InvokeProcess, behind the database queries of                   *)
(* fmaster_CheckProcAlarm.                                                 *)
InvokeNothing ==
    /\ mpc = "start"
    /\ status # "K"
    /\ mpc' = "look1"
    /\ tpc' = IF tpc = "off" THEN "idle" ELSE tpc
    /\ UNCHANGED <<daemonVars, mpidfile, status, pid, RestartFlag, countVars, crossed>>

Invoke ==
    /\ mpc = "start"
    /\ status = "K"
    /\ \E told \in Terminated(proc, pid) :
           /\ crossed' = (crossed \/ Starting(told))
           /\ proc' = Started(told)
    /\ mpc' = "rescan"
    /\ UNCHANGED <<pidfile, mpidfile, status, pid, threadVars, countVars>>

(* sleep(1) and fmaster_SaveProcessInfo.                                   *)
Rescan ==
    /\ mpc = "rescan"
    /\ LookUp
    /\ mpc' = "look1"
    /\ tpc' = IF tpc = "off" THEN "idle" ELSE tpc
    /\ UNCHANGED <<daemonVars, mpidfile, RestartFlag, countVars, crossed>>

(* fmaster_HandleSignal: fmaster_KillAllProcess tells the process it knows.*)
MasterSignal ==
    /\ mpc \in {"first", "look1", "scan", "look2", "start", "rescan"}
    /\ stops < MaxStops
    /\ stops' = stops + 1
    /\ proc' \in Terminated(proc, pid)
    /\ mpc' = "told"
    /\ UNCHANGED <<pidfile, mpidfile, status, pid, threadVars, nights, crashes, kills, crossed>>

(* ... and 3 s later it removes its pid file and exits, its thread with it.*)
MasterExits ==
    /\ mpc = "told"
    /\ mpidfile' = FALSE
    /\ mpc' = "off"
    /\ status' = "-" /\ pid' = NoPid
    /\ tpc' = "off" /\ RestartFlag' = FALSE
    /\ UNCHANGED <<daemonVars, countVars, crossed>>

MainStep ==
    \/ MasterStarts \/ FirstDumpEnds \/ FirstScan
    \/ Look1 \/ Scan \/ Look2 \/ InvokeNothing \/ Invoke \/ Rescan
    \/ MasterExits

------------------------------------------------------------------------------
(* The restart thread.                                                     *)

(* It is 04:00: fmaster_RestartProcess sets RestartFlag.                   *)
RestartBegins ==
    /\ tpc = "idle"
    /\ nights < MaxNights
    /\ nights' = nights + 1
    /\ RestartFlag' = TRUE
    /\ tpc' = "kill"
    /\ crossed' = (crossed \/ mpc \in {"start", "rescan"})
    /\ UNCHANGED <<daemonVars, masterVars, crashes, kills, stops>>

(* pkill -9, of parents and children.                                      *)
KillAll ==
    /\ tpc = "kill"
    /\ proc' = [i \in Procs |-> "none"]
    /\ tpc' = "dump"
    /\ UNCHANGED <<pidfile, masterVars, RestartFlag, countVars, crossed>>

(* fmaster_FrdDumpExec returns.                                            *)
DumpEnds ==
    /\ tpc = "dump"
    /\ tpc' = "clean"
    /\ UNCHANGED <<daemonVars, masterVars, RestartFlag, countVars, crossed>>

(* Mutant: the pid file of the killed daemon is left.                      *)
CleanPidFileNot ==
    /\ tpc = "clean"
    /\ tpc' = "start"
    /\ UNCHANGED <<daemonVars, masterVars, RestartFlag, countVars, crossed>>

(* fFile_cleanupMasterPid of the daemon.                                   *)
CleanPidFile ==
    /\ tpc = "clean"
    /\ pidfile' = FALSE
    /\ tpc' = "start"
    /\ UNCHANGED <<proc, masterVars, RestartFlag, countVars, crossed>>

(* system("dap_frd frd &").                                                *)
StartAgain ==
    /\ tpc = "start"
    /\ proc' = Started(proc)
    /\ tpc' = "done"
    /\ UNCHANGED <<pidfile, masterVars, RestartFlag, countVars, crossed>>

(* Mutant: RestartFlag stays up.                                           *)
RestartEndsKeepsFlag ==
    /\ tpc = "done"
    /\ tpc' = "idle"
    /\ UNCHANGED <<daemonVars, masterVars, RestartFlag, countVars, crossed>>

(* RestartFlag = 0, and the thread sleeps over the rest of the minute.     *)
RestartEnds ==
    /\ tpc = "done"
    /\ RestartFlag' = FALSE
    /\ tpc' = "idle"
    /\ UNCHANGED <<daemonVars, masterVars, countVars, crossed>>

RestartStep == KillAll \/ DumpEnds \/ CleanPidFile \/ StartAgain \/ RestartEnds

------------------------------------------------------------------------------
Init ==
    /\ proc = [i \in Procs |-> "none"] /\ pidfile = FALSE
    /\ mpc = "off" /\ mpidfile = FALSE /\ status = "-" /\ pid = NoPid
    /\ tpc = "off" /\ RestartFlag = FALSE
    /\ nights = 0 /\ crashes = 0 /\ kills = 0 /\ stops = 0
    /\ crossed = FALSE

Next ==
    \/ MainStep \/ MasterSignal
    \/ RestartBegins \/ RestartStep
    \/ DaemonStep
    \/ \E i \in Procs : Crash(i) \/ Kill(i)

(* Every process and thread goes on; an operator starts dap_master again.  *)
Fairness ==
    /\ WF_vars(MainStep) /\ WF_vars(RestartStep)
    /\ \A i \in Procs :
         WF_vars(\/ CheckPidFile(i) \/ MakePidFile(i) \/ NoteParentPid(i)
                 \/ ParentExit(i) \/ ChildrenEnd(i))

Spec == Init /\ [][Next]_vars
FairSpec == Spec /\ Fairness

------------------------------------------------------------------------------
TypeOK ==
    /\ proc \in [Procs -> ProcStates] /\ pidfile \in BOOLEAN
    /\ mpc \in MasterPcs /\ mpidfile \in BOOLEAN
    /\ status \in {"-", "S", "K"} /\ pid \in Procs \cup {NoPid}
    /\ tpc \in ThreadPcs /\ RestartFlag \in BOOLEAN
    /\ nights \in 0..MaxNights /\ crashes \in 0..MaxCrashes
    /\ kills \in 0..MaxKills /\ stops \in 0..MaxStops
    /\ crossed \in BOOLEAN

(* Unless two starts crossed, at most one dap_frd serves: the parent, or   *)
(* children whose parent is dead and that nobody told to stop.  Two would  *)
(* read the same files and unlink them under each other.                   *)
OneInstance == ~crossed => Cardinality(Active) <= 1

(* ... and none serves while the restart thread has the detect data dumped.*)
DumpAlone == ~crossed /\ tpc = "dump" => Active = {}

(* A night brings the daemon back however it ended, also where it was      *)
(* killed and the pid file it left has kept it from being started.         *)
NightBringsBack == tpc = "start" ~> (Active # {} \/ crossed \/ mpc = "off")

(* By day a daemon that removed its pid file is started again.             *)
ComesBack ==
    mpc # "off" /\ Alive = {} /\ ~pidfile ~> (Active # {} \/ mpc = "off")
==============================================================================
