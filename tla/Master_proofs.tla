---------------------------- MODULE Master_proofs ----------------------------
(***************************************************************************)
(* Unless two starts cross, at most one daemon serves, and none while the  *)
(* restart thread has its data dumped: for any number of processes, nights,*)
(* signals, kills and stops.                                               *)
(***************************************************************************)
EXTENDS Master, FiniteSetTheorems, TLAPS

(* A process that has made the pid file, or whose children go on.          *)
Runs(i)   == proc[i] \in {"made", "run", "exit", "orphan"}
Starts(i) == proc[i] \in {"start", "make"}

(* RestartFlag is up from the beginning of a restart to its end, and there *)
(* is no restart thread before dap_master has started the daemons.         *)
Flag ==
    /\ RestartFlag <=> tpc \notin {"off", "idle"}
    /\ mpc \in {"off", "dump", "first"} => tpc = "off"

(* While the flag is up the main loop starts nothing, and from pkill to the*)
(* start of the restart thread there is no process.                        *)
Apart ==
    /\ RestartFlag => mpc # "start"
    /\ tpc \in {"dump", "clean", "start"} => \A i \in Procs : proc[i] = "none"

(* One process at most is starting and one serves; its pid file is there,  *)
(* so that one which has found none is alone.                              *)
Single ==
    /\ \A i, j \in Procs : Starts(i) /\ Starts(j) => i = j
    /\ \A i, j \in Procs : Runs(i) /\ Runs(j) => i = j
    /\ \A i \in Procs : Runs(i) => pidfile
    /\ \A i, j \in Procs : proc[i] = "make" => ~Runs(j)

MasterInv == TypeOK /\ Flag /\ (~crossed => Apart /\ Single)

------------------------------------------------------------------------------
(* A start adds at most one process, which is starting.                    *)
LEMMA StartedOne ==
    ASSUME NEW f \in [Procs -> ProcStates]
    PROVE  /\ Started(f) \in [Procs -> ProcStates]
           /\ \A i \in Procs : Started(f)[i] = f[i] \/ Started(f)[i] = "start"
           /\ \A i, j \in Procs :
                 Started(f)[i] # f[i] /\ Started(f)[j] # f[j] => i = j
<1> DEFINE free == {i \in Procs : f[i] = "none" /\ i # pid}
           c == CHOOSE i \in free : \A j \in free : i <= j
<1>1. Started(f) = [f EXCEPT ![c] = "start"]
    BY DEF Started
<1> HIDE DEF c
<1> QED
    BY <1>1 DEF ProcStates

(* A signal starts nothing, and one that served either serves on, with or  *)
(* without its handler, or is gone.                                        *)
LEMMA TerminatedFewer ==
    ASSUME NEW f \in [Procs -> ProcStates], NEW p \in Procs \cup {NoPid},
           NEW g \in Terminated(f, p)
    PROVE  /\ g \in [Procs -> ProcStates]
           /\ \A i \in Procs :
                 \/ g[i] = f[i]
                 \/ g[i] = "none"
                 \/ g[i] = "exit" /\ f[i] \in {"run", "exit"}
<1>1. CASE p = NoPid
    BY <1>1 DEF Terminated
<1>2. CASE p # NoPid
  <2>1. PICK s \in AfterSignal(f[p]) : g = [f EXCEPT ![p] = s]
      BY <1>2 DEF Terminated
  <2>2. \/ s = "none"
        \/ s = f[p] /\ f[p] \in {"orphan", "told"}
        \/ s = "exit" /\ f[p] \in {"run", "exit"}
    <3>1. CASE f[p] \in {"run", "exit"}
        BY <2>1, <3>1 DEF AfterSignal
    <3>2. CASE f[p] \in {"orphan", "told"}
        BY <2>1, <3>2 DEF AfterSignal
    <3>3. CASE f[p] \notin {"run", "exit", "orphan", "told"}
        BY <2>1, <3>3 DEF AfterSignal
    <3> QED
        BY <3>1, <3>2, <3>3
  <2>3. p \in Procs /\ s \in ProcStates
      BY <1>2, <2>2 DEF ProcStates
  <2>4. /\ g \in [Procs -> ProcStates] /\ g[p] = s
        /\ \A i \in Procs : i # p => g[i] = f[i]
      BY <2>1, <2>3
  <2> QED
      BY <2>2, <2>4
<1> QED
    BY <1>1, <1>2

(* Processes that end, or go on as they are, leave the single one single.  *)
LEMMA FewerIsSingle ==
    ASSUME proc \in [Procs -> ProcStates], proc' \in [Procs -> ProcStates],
           Single, pidfile' = pidfile,
           \A i \in Procs :
                 \/ proc'[i] = proc[i]
                 \/ proc'[i] \in {"none", "told"}
                 \/ proc'[i] \in {"exit", "orphan"} /\ proc[i] \in {"run", "exit"}
    PROVE  Single'
BY DEF Single, Runs, Starts

LEMMA MasterInit == Init => MasterInv
<1> SUFFICES ASSUME Init PROVE MasterInv
    OBVIOUS
<1>1. TypeOK
  <2>1. proc \in [Procs -> ProcStates] /\ pidfile \in BOOLEAN
      BY DEF Init, ProcStates
  <2>2. 0 \in 0..MaxNights /\ 0 \in 0..MaxCrashes /\ 0 \in 0..MaxKills /\ 0 \in 0..MaxStops
      BY MasterAssumption
  <2> QED
      BY <2>1, <2>2 DEF Init, TypeOK, MasterPcs, ThreadPcs, NoPid
<1>2. Flag
    BY DEF Init, Flag
<1>3. Apart /\ Single
    BY DEF Init, Apart, Single, Runs, Starts
<1> QED
    BY <1>1, <1>2, <1>3 DEF MasterInv

------------------------------------------------------------------------------
(* The type invariant: the bounds are guards, a number looked up is one of *)
(* a process.                                                              *)
LEMMA MasterTypeStep == MasterInv /\ [Next]_vars => TypeOK'
<1> SUFFICES ASSUME MasterInv, [Next]_vars PROVE TypeOK'
    OBVIOUS
<1> USE DEF TypeOK, MasterPcs, ThreadPcs, NoPid, daemonVars, masterVars,
            threadVars, countVars
<1>0. TypeOK
    BY DEF MasterInv
<1>p. \A i \in Procs, x \in ProcStates : [proc EXCEPT ![i] = x] \in [Procs -> ProcStates]
    BY <1>0
<1>t. \A g \in Terminated(proc, pid) : g \in [Procs -> ProcStates]
    BY <1>0, TerminatedFewer
<1>s. /\ Started(proc) \in [Procs -> ProcStates]
      /\ \A g \in Terminated(proc, pid) : Started(g) \in [Procs -> ProcStates]
    BY <1>0, <1>t, StartedOne
<1>l. LookUp => status' \in {"-", "S", "K"} /\ pid' \in Procs \cup {NoPid}
    BY <1>0 DEF LookUp, Alive
<1>c. /\ nights < MaxNights => nights + 1 \in 0..MaxNights
      /\ crashes < MaxCrashes => crashes + 1 \in 0..MaxCrashes
      /\ kills < MaxKills => kills + 1 \in 0..MaxKills
      /\ stops < MaxStops => stops + 1 \in 0..MaxStops
    BY <1>0, MasterAssumption
<1>1. ASSUME NEW i \in Procs, CheckPidFile(i) PROVE TypeOK'
    BY <1>0, <1>1, <1>p DEF CheckPidFile, ProcStates
<1>2. ASSUME NEW i \in Procs, MakePidFile(i) PROVE TypeOK'
    BY <1>0, <1>2, <1>p DEF MakePidFile, ProcStates
<1>n. ASSUME NEW i \in Procs, NoteParentPid(i) PROVE TypeOK'
    BY <1>0, <1>n, <1>p DEF NoteParentPid, ProcStates
<1>3. ASSUME NEW i \in Procs, ParentExit(i) PROVE TypeOK'
  <2>1. PICK x \in {"none", "told"} : proc' = [proc EXCEPT ![i] = x]
      BY <1>3 DEF ParentExit
  <2>2. proc' \in [Procs -> ProcStates]
      BY <1>p, <2>1 DEF ProcStates
  <2>3. pidfile' = FALSE /\ UNCHANGED <<masterVars, threadVars, countVars, crossed>>
      BY <1>3 DEF ParentExit
  <2>4. UNCHANGED <<mpc, mpidfile, status, pid, tpc, RestartFlag, nights, crashes, kills, stops,
                    crossed>>
      BY <2>3
  <2>5. pidfile' \in BOOLEAN
      BY <2>3
  <2> QED
      BY <1>0, <2>2, <2>4, <2>5
<1>4. ASSUME NEW i \in Procs, ChildrenEnd(i) PROVE TypeOK'
    BY <1>0, <1>4, <1>p DEF ChildrenEnd, ProcStates
<1>5. ASSUME NEW i \in Procs, Crash(i) PROVE TypeOK'
  <2>1. \A g \in Terminated(proc, i) : g \in [Procs -> ProcStates]
      BY <1>0, TerminatedFewer
  <2> QED
      BY <1>0, <1>5, <1>c, <2>1 DEF Crash
<1>6. ASSUME NEW i \in Procs, Kill(i) PROVE TypeOK'
    BY <1>0, <1>6, <1>p, <1>c DEF Kill, ProcStates
<1>7. CASE MasterStarts \/ FirstDumpEnds \/ Look1 \/ Look2
  <2>1. CASE MasterStarts \/ FirstDumpEnds
      BY <1>0, <2>1 DEF MasterStarts, FirstDumpEnds
  <2>2. CASE Look1 \/ Look2
      BY <1>0, <2>2 DEF Look1, Look2
  <2> QED
      BY <1>7, <2>1, <2>2
<1>8. CASE FirstScan \/ Scan \/ Rescan
    BY <1>0, <1>8, <1>l DEF FirstScan, Scan, Rescan
<1>9. CASE InvokeNothing \/ MasterExits
    BY <1>0, <1>9 DEF InvokeNothing, MasterExits
<1>10. CASE Invoke
    BY <1>0, <1>10, <1>s DEF Invoke, Starting
<1>11. CASE MasterSignal
    BY <1>0, <1>11, <1>t, <1>c DEF MasterSignal
<1>12. CASE RestartBegins
    BY <1>0, <1>12, <1>c DEF RestartBegins
<1>13. CASE KillAll
    BY <1>0, <1>13 DEF KillAll, ProcStates
<1>14. CASE DumpEnds \/ CleanPidFile \/ RestartEnds
    BY <1>0, <1>14 DEF DumpEnds, CleanPidFile, RestartEnds
<1>15. CASE StartAgain
    BY <1>0, <1>15, <1>s DEF StartAgain
<1>16. CASE UNCHANGED vars
    BY <1>0, <1>16 DEF vars
<1> QED
    BY <1>1, <1>2, <1>n, <1>3, <1>4, <1>5, <1>6, <1>7, <1>8, <1>9, <1>10, <1>11,
       <1>12, <1>13, <1>14, <1>15, <1>16
       DEF Next, MainStep, RestartStep, DaemonStep

LEMMA MasterFlagStep == MasterInv /\ [Next]_vars => Flag'
<1> SUFFICES ASSUME MasterInv, [Next]_vars PROVE Flag'
    OBVIOUS
<1> USE DEF Flag, daemonVars, masterVars, threadVars, countVars
<1>0. Flag /\ TypeOK
    BY DEF MasterInv
<1>1. CASE DaemonStep \/ \E i \in Procs : Crash(i) \/ Kill(i)
    BY <1>0, <1>1 DEF DaemonStep, CheckPidFile, MakePidFile, NoteParentPid,
                      ParentExit, ChildrenEnd, Crash, Kill
<1>2. CASE MainStep \/ MasterSignal
    BY <1>0, <1>2 DEF MainStep, MasterStarts, FirstDumpEnds, FirstScan, Look1,
                      Scan, Look2, InvokeNothing, Invoke, Rescan, MasterExits,
                      MasterSignal
<1>3. CASE RestartStep \/ RestartBegins
    BY <1>0, <1>3 DEF RestartStep, KillAll, DumpEnds, CleanPidFile, StartAgain,
                      RestartEnds, RestartBegins
<1>4. CASE UNCHANGED vars
    BY <1>0, <1>4 DEF vars
<1> QED
    BY <1>1, <1>2, <1>3, <1>4 DEF Next

------------------------------------------------------------------------------
(* A process that starts, where none is starting and there is room for it  *)
(* to be the only one, leaves the single one single.                       *)
LEMMA StartIsSingle ==
    ASSUME TypeOK, Single, pidfile' = pidfile,
           NEW f \in [Procs -> ProcStates],
           \A i \in Procs :
                 \/ f[i] = proc[i]
                 \/ f[i] = "none"
                 \/ f[i] = "exit" /\ proc[i] \in {"run", "exit"},
           \A i \in Procs : f[i] \notin {"start", "make"},
           proc' = Started(f)
    PROVE  Single'
<1>1. /\ \A i \in Procs : proc'[i] = f[i] \/ proc'[i] = "start"
      /\ \A i, j \in Procs : proc'[i] # f[i] /\ proc'[j] # f[j] => i = j
    BY StartedOne
<1>2. \A i \in Procs : Starts(i)' => proc'[i] # f[i]
    BY <1>1 DEF Starts
<1>3. \A i \in Procs : Runs(i)' => Runs(i)
    BY <1>1 DEF Runs
<1>4. \A i \in Procs : proc'[i] # "make"
    BY <1>1
<1> QED
    BY <1>1, <1>2, <1>3, <1>4 DEF Single

LEMMA MasterSingleStep ==
    MasterInv /\ [Next]_vars /\ ~crossed' => Apart' /\ Single'
<1> SUFFICES ASSUME MasterInv, [Next]_vars, ~crossed' PROVE Apart' /\ Single'
    OBVIOUS
<1> USE DEF daemonVars, masterVars, threadVars, countVars
<1>c. ~crossed
    BY DEF MasterInv, TypeOK, Next, vars, MainStep, MasterSignal, RestartBegins, RestartStep,
           DaemonStep, MasterStarts, FirstDumpEnds, FirstScan, Look1, Scan,
           Look2, InvokeNothing, Invoke, Rescan, MasterExits, KillAll, DumpEnds,
           CleanPidFile, StartAgain, RestartEnds, CheckPidFile, MakePidFile,
           NoteParentPid, ParentExit, ChildrenEnd, Crash, Kill
<1>0. TypeOK /\ Flag /\ Apart /\ Single
    BY <1>c DEF MasterInv
<1>t. TypeOK'
    BY MasterTypeStep
<1>p. proc \in [Procs -> ProcStates] /\ proc' \in [Procs -> ProcStates]
    BY <1>0, <1>t DEF TypeOK
(* Steps that leave the daemon alone: only the places of the two threads   *)
(* and the flag matter.                                                    *)
<1>d. ASSUME UNCHANGED daemonVars PROVE Single'
    BY <1>0, <1>d DEF Single, Runs, Starts
<1>1. ASSUME NEW i \in Procs, CheckPidFile(i) PROVE Apart' /\ Single'
  <2>1. Apart'
      BY <1>0, <1>1, <1>p DEF CheckPidFile, Apart
  <2>2. \A j \in Procs : Runs(j)' <=> Runs(j)
      BY <1>1, <1>p DEF CheckPidFile, Runs
  <2>3. \A j \in Procs : Starts(j)' => Starts(j)
      BY <1>1, <1>p DEF CheckPidFile, Starts
  <2>4. \A j \in Procs : proc'[j] = "make" => proc[j] = "make" \/ ~pidfile
      BY <1>1, <1>p DEF CheckPidFile
  <2>5. pidfile' = pidfile
      BY <1>1 DEF CheckPidFile
  <2>6. Single'
      BY <1>0, <2>2, <2>3, <2>4, <2>5 DEF Single
  <2> QED
      BY <2>1, <2>6
<1>2. ASSUME NEW i \in Procs, MakePidFile(i) PROVE Apart' /\ Single'
  <2>1. Apart'
      BY <1>0, <1>2, <1>p DEF MakePidFile, Apart
  <2>2. \A j \in Procs : Runs(j)' <=> j = i
      BY <1>0, <1>2, <1>p DEF MakePidFile, Runs, Single
  <2>3. \A j \in Procs : ~Starts(j)'
      BY <1>0, <1>2, <1>p DEF MakePidFile, Starts, Single
  <2>4. pidfile'
      BY <1>2 DEF MakePidFile
  <2>5. Single'
      BY <2>2, <2>3, <2>4 DEF Single, Starts
  <2> QED
      BY <2>1, <2>5
<1>n. ASSUME NEW i \in Procs, NoteParentPid(i) PROVE Apart' /\ Single'
  <2>1. Apart'
      BY <1>0, <1>n, <1>p DEF NoteParentPid, Apart
  <2>2. \A j \in Procs : (Runs(j)' <=> Runs(j)) /\ (Starts(j)' <=> Starts(j))
      BY <1>n, <1>p DEF NoteParentPid, Runs, Starts
  <2>3. pidfile' = pidfile /\ \A j \in Procs : proc'[j] = "make" => proc[j] = "make"
      BY <1>n, <1>p DEF NoteParentPid
  <2>4. Single'
      BY <1>0, <2>2, <2>3 DEF Single
  <2> QED
      BY <2>1, <2>4
<1>3. ASSUME NEW i \in Procs, ParentExit(i) PROVE Apart' /\ Single'
  <2>1. PICK x \in {"none", "told"} : proc' = [proc EXCEPT ![i] = x]
      BY <1>3 DEF ParentExit
  <2>2. Runs(i) /\ ~Runs(i)' /\ ~Starts(i)'
      BY <1>3, <1>p, <2>1 DEF ParentExit, Runs, Starts
  <2>3. \A j \in Procs : j # i => proc'[j] = proc[j]
      BY <1>p, <2>1
  <2>4. \A j \in Procs : ~Runs(j)'
      BY <1>0, <2>2, <2>3 DEF Single, Runs
  <2>5. \A j \in Procs : Starts(j)' => Starts(j)
      BY <2>2, <2>3 DEF Starts
  <2>6. Single'
      BY <1>0, <2>4, <2>5 DEF Single
  <2>7. Apart'
      BY <1>0, <1>3, <1>p DEF ParentExit, Apart
  <2> QED
      BY <2>6, <2>7
<1>4. ASSUME NEW i \in Procs, ChildrenEnd(i) PROVE Apart' /\ Single'
  <2>1. Apart'
      BY <1>0, <1>4, <1>p DEF ChildrenEnd, Apart
  <2>2. Single'
      BY <1>0, <1>4, <1>p, FewerIsSingle DEF ChildrenEnd
  <2> QED
      BY <2>1, <2>2
<1>5. ASSUME NEW i \in Procs, Crash(i) PROVE Apart' /\ Single'
  <2>1. \A j \in Procs : \/ proc'[j] = proc[j]
                         \/ proc'[j] = "none"
                         \/ proc'[j] = "exit" /\ proc[j] \in {"run", "exit"}
      BY <1>5, <1>p, TerminatedFewer DEF Crash
  <2>2. Apart'
      BY <1>0, <1>5, <2>1 DEF Crash, Apart
  <2>3. Single'
      BY <1>0, <1>5, <1>p, <2>1, FewerIsSingle DEF Crash
  <2> QED
      BY <2>2, <2>3
<1>6. ASSUME NEW i \in Procs, Kill(i) PROVE Apart' /\ Single'
  <2>1. PICK x \in {"none", "orphan"} : proc' = [proc EXCEPT ![i] = x]
      BY <1>6 DEF Kill
  <2>2. \A j \in Procs : \/ proc'[j] = proc[j]
                         \/ proc'[j] = "none"
                         \/ proc'[j] = "orphan" /\ proc[j] \in {"run", "exit"}
      BY <1>6, <1>p, <2>1 DEF Kill
  <2>3. Apart'
      BY <1>0, <1>6, <2>2 DEF Kill, Apart
  <2>4. Single'
      BY <1>0, <1>6, <1>p, <2>2, FewerIsSingle DEF Kill
  <2> QED
      BY <2>3, <2>4
<1>7. CASE \/ MasterStarts \/ FirstDumpEnds \/ FirstScan \/ Look1 \/ Scan
           \/ Look2 \/ InvokeNothing \/ Rescan \/ MasterExits
  <2>1. UNCHANGED daemonVars
      BY <1>7 DEF MasterStarts, FirstDumpEnds, FirstScan, Look1, Scan, Look2,
                  InvokeNothing, Rescan, MasterExits
  <2>2. RestartFlag' => mpc' # "start"
      BY <1>0, <1>7 DEF MasterStarts, FirstDumpEnds, FirstScan, Look1, Scan,
                  Look2, InvokeNothing, Rescan, MasterExits, Flag, Apart
  <2>3. tpc' \in {"dump", "clean", "start"} => tpc' = tpc
      BY <1>7 DEF MasterStarts, FirstDumpEnds, FirstScan, Look1, Scan, Look2,
                  InvokeNothing, Rescan, MasterExits
  <2>4. Apart'
      BY <1>0, <2>1, <2>2, <2>3 DEF Apart
  <2> QED
      BY <1>d, <2>1, <2>4
<1>8. CASE Invoke
  <2>0. PICK told \in Terminated(proc, pid) :
            /\ crossed' = (crossed \/ Starting(told))
            /\ proc' = Started(told) /\ pidfile' = pidfile
      BY <1>8 DEF Invoke
  <2>1. /\ told \in [Procs -> ProcStates]
        /\ \A i \in Procs : \/ told[i] = proc[i]
                            \/ told[i] = "none"
                            \/ told[i] = "exit" /\ proc[i] \in {"run", "exit"}
      BY <1>0, TerminatedFewer DEF TypeOK
  <2>2. \A i \in Procs : told[i] \notin {"start", "make"}
      BY <2>0 DEF Starting
  <2>3. Single'
      BY <1>0, <2>0, <2>1, <2>2, StartIsSingle
  <2>4. Apart'
      BY <1>0, <1>8 DEF Invoke, Apart, Flag
  <2> QED
      BY <2>3, <2>4
<1>9. CASE MasterSignal
  <2>1. \A j \in Procs : \/ proc'[j] = proc[j]
                         \/ proc'[j] = "none"
                         \/ proc'[j] = "exit" /\ proc[j] \in {"run", "exit"}
      BY <1>0, <1>9, TerminatedFewer DEF MasterSignal, TypeOK
  <2>2. Apart'
      BY <1>0, <1>9, <2>1 DEF MasterSignal, Apart
  <2>3. Single'
      BY <1>0, <1>9, <1>p, <2>1, FewerIsSingle DEF MasterSignal
  <2> QED
      BY <2>2, <2>3
<1>10. CASE RestartBegins \/ DumpEnds \/ RestartEnds
  <2>1. UNCHANGED daemonVars
      BY <1>10 DEF RestartBegins, DumpEnds, RestartEnds
  <2>2. Apart'
      BY <1>0, <1>10 DEF RestartBegins, DumpEnds, RestartEnds, Apart, Flag
  <2> QED
      BY <1>d, <2>1, <2>2
<1>11. CASE KillAll
  <2>1. \A i \in Procs : proc'[i] = "none"
      BY <1>11 DEF KillAll
  <2> QED
      BY <1>0, <1>11, <2>1 DEF KillAll, Apart, Single, Runs, Starts
<1>12. CASE CleanPidFile
  <2>1. \A i \in Procs : proc'[i] = "none"
      BY <1>0, <1>12 DEF CleanPidFile, Apart
  <2> QED
      BY <1>0, <1>12, <2>1 DEF CleanPidFile, Apart, Single, Runs, Starts
<1>13. CASE StartAgain
  <2>1. \A i \in Procs : proc[i] = "none"
      BY <1>0, <1>13 DEF StartAgain, Apart
  <2>2. Single'
      BY <1>0, <1>13, <1>p, <2>1, StartIsSingle DEF StartAgain
  <2>3. Apart'
      BY <1>0, <1>13 DEF StartAgain, Apart
  <2> QED
      BY <2>2, <2>3
<1>14. CASE UNCHANGED vars
    BY <1>0, <1>d, <1>14 DEF vars, Apart
<1> QED
    BY <1>1, <1>2, <1>n, <1>3, <1>4, <1>5, <1>6, <1>7, <1>8, <1>9, <1>10, <1>11,
       <1>12, <1>13, <1>14
       DEF Next, MainStep, RestartStep, DaemonStep

------------------------------------------------------------------------------
(* A set of processes that has no two members has one at most.             *)
LEMMA OneAtMost ==
    ASSUME NEW S, \A i, j \in S : i = j
    PROVE  Cardinality(S) <= 1
<1>1. CASE S = {}
    BY <1>1, FS_EmptySet
<1>2. CASE S # {}
  <2>1. PICK x : S = {x}
      BY <1>2
  <2> QED
      BY <2>1, FS_Singleton
<1> QED
    BY <1>1, <1>2

LEMMA MasterInvHolds == Spec => []MasterInv
<1>1. MasterInv /\ [Next]_vars => MasterInv'
    BY MasterTypeStep, MasterFlagStep, MasterSingleStep DEF MasterInv
<1> QED
    BY MasterInit, <1>1, PTL DEF Spec

(* The values of the variables (dap_master and one daemon), for all bounds.*)
THEOREM MasterTypeCorrect == Spec => []TypeOK
<1>1. MasterInv => TypeOK
    BY DEF MasterInv
<1> QED
    BY MasterInvHolds, <1>1, PTL

(* Unless two starts cross, never do two daemons serve at once: the pid    *)
(* file and RestartFlag together see to it (fFile_CheckMasterPid,          *)
(* fmaster_RestartProcess, the main loop of fstMainTask).                  *)
THEOREM MasterOneInstance == Spec => []OneInstance
<1>1. MasterInv => OneInstance
  <2> SUFFICES ASSUME MasterInv, ~crossed PROVE Cardinality(Active) <= 1
      BY DEF OneInstance
  <2>1. \A i, j \in Active : i = j
      BY DEF MasterInv, Single, Runs, Active
  <2> QED
      BY <2>1, OneAtMost
<1> QED
    BY MasterInvHolds, <1>1, PTL

(* ... and none serves during the nightly dump of its data.                *)
THEOREM MasterDumpAlone == Spec => []DumpAlone
<1>1. MasterInv => DumpAlone
    BY DEF MasterInv, DumpAlone, Apart, Active
<1> QED
    BY MasterInvHolds, <1>1, PTL
==============================================================================
