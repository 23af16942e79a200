------------------------------- MODULE ForkRoles -------------------------------
(***************************************************************************)
(* dap_policy_fw and dap_frd: a parent that forks a child per role, writes *)
(* its pid into the slot of the role, and forks it again from the SIGCHLD  *)
(* handler when it died.  A child takes for its role what the global       *)
(* g_nForkIdx is when it is forked.                                        *)
(*                                                                         *)
(* Handlers interrupt the parent between any two steps, and each other:    *)
(* stack holds what has been interrupted, the last entry runs.  A handler  *)
(* keeps its own signal blocked; that of SIGTERM never returns.            *)
(***************************************************************************)
EXTENDS Integers, Sequences, FiniteSets

CONSTANTS
    Daemon,         \* "fw" for dap_policy_fw, "frd" for dap_frd
    NDetect,        \* nForkCnt: forks for detect data, of dap_frd only
    EarlyDeaths,    \* may a child die before the parent has forked all?
    MaxForks,       \* bound: forks of the parent
    MaxFailures     \* bound: forks that fail

ASSUME ForkAssumption ==
    /\ Daemon \in {"fw", "frd"}
    /\ NDetect \in Nat /\ (Daemon = "fw" => NDetect = 0)
    /\ EarlyDeaths \in BOOLEAN
    /\ MaxForks \in Nat /\ MaxFailures \in Nat

VARIABLES
    stack,          \* interrupted and running parts of the parent, <<>> when it is gone
    gidx,           \* g_nForkIdx of the parent
    Pid,            \* slot -> child, None before the first
    children,       \* every child forked: whether it lives, and its role
    told,           \* children that have been sent SIGTERM
    pending,        \* is SIGCHLD pending?
    exitFlag,       \* g_ChildExitFlag
    mpc, mslot,     \* the startup: next step, local_nLoop
    hpc, hpid, hslot,   \* fw_SigchldHandler or frd_SigchldHandler: pid, loop
    newPid,         \* what fork has returned to the startup and to the handler
    missing,        \* slots a fork of the startup, lost, slots one of the handler failed for
    lost,
    tpc             \* steps of fw_HandleSignal or frd_HandleSignal that are done

startVars   == <<mpc, mslot>>
handlerVars == <<hpc, hpid, hslot>>
failures    == <<missing, lost>>
vars == <<stack, gidx, Pid, children, told, pending, exitFlag,
          startVars, handlerVars, newPid, failures, tpc>>

POLICY  == 0
SERVICE == 1
DETECT  == 2
Slots   == 0..(NDetect + 1)
None    == 0

Children == 1..Len(children)
Is(c, st) == c \in Children /\ children[c].st = st
Runs(part) == stack # <<>> /\ stack[Len(stack)] = part

(* fork(): the child has a copy of the globals.                            *)
Fork(asked, by) ==
    /\ Len(children) < MaxForks
    /\ children' = Append(children, [st |-> "alive", role |-> asked])
    /\ newPid' = [newPid EXCEPT ![by] = Len(children) + 1]

------------------------------------------------------------------------------
(* The parent starts: fw_MainTask, frd_MainTask.                           *)

StartRole ==
    /\ Runs("main") /\ mpc = "role"
    /\ gidx' = mslot
    /\ mpc' = "fork"
    /\ UNCHANGED <<stack, Pid, children, told, pending, exitFlag,
                   mslot, handlerVars, newPid, failures, tpc>>

StartFork ==
    /\ Runs("main") /\ mpc = "fork"
    /\ Fork(gidx, "main")
    /\ mpc' = "store"
    /\ UNCHANGED <<stack, gidx, Pid, told, pending, exitFlag,
                   mslot, handlerVars, failures, tpc>>

MayFail == Cardinality(missing) + Cardinality(lost) < MaxFailures

(* A failed fork for a fixed role ends the parent, one for detect data is  *)
(* passed over, and g_nForkIdx does not count it.                          *)
StartForkFails ==
    /\ Runs("main") /\ mpc = "fork"
    /\ MayFail
    /\ missing' = missing \cup {mslot}
    /\ IF mslot < DETECT
       THEN stack' = <<>> /\ UNCHANGED startVars
       ELSE /\ mslot' = mslot + 1
            /\ mpc' = IF mslot + 1 \in Slots THEN "fork" ELSE "loop"
            /\ UNCHANGED stack
    /\ UNCHANGED <<gidx, Pid, children, told, pending, exitFlag,
                   handlerVars, newPid, lost, tpc>>

(* For detect data g_nForkIdx counts along with local_nLoop.               *)
StartStore ==
    /\ Runs("main") /\ mpc = "store"
    /\ Pid' = [Pid EXCEPT ![mslot] = newPid["main"]]
    /\ gidx' = IF mslot >= DETECT THEN gidx + 1 ELSE gidx
    /\ mslot' = mslot + 1
    /\ mpc' = IF mslot + 1 \notin Slots THEN "loop"
              ELSE IF mslot + 1 > DETECT THEN "fork" ELSE "role"
    /\ UNCHANGED <<stack, children, told, pending, exitFlag,
                   handlerVars, newPid, failures, tpc>>

Start == StartRole \/ StartFork \/ StartForkFails \/ StartStore

------------------------------------------------------------------------------
(* Children end, by themselves or because they were told to.               *)

ChildEnds(c) ==
    /\ Is(c, "alive")
    /\ mpc = "loop" \/ EarlyDeaths \/ c \in told
    /\ children' = [children EXCEPT ![c].st = "zombie"]
    /\ pending' = TRUE
    /\ UNCHANGED <<stack, gidx, Pid, told, exitFlag,
                   startVars, handlerVars, newPid, failures, tpc>>

ToldChildEnds == \E c \in told : ChildEnds(c)

------------------------------------------------------------------------------
(* The handler of SIGCHLD.                                                 *)

HandlerIsCalled ==
    /\ pending
    /\ stack # <<>> /\ ~ \E k \in 1..Len(stack) : stack[k] = "chld"
    /\ pending' = FALSE
    /\ stack' = Append(stack, "chld")
    /\ hpc' = "reap"
    /\ UNCHANGED <<gidx, Pid, children, told, exitFlag,
                   startVars, hpid, hslot, newPid, failures, tpc>>

(* waitpid(-1, NULL, WNOHANG) finds a child.                               *)
Reap ==
    /\ Runs("chld") /\ hpc = "reap"
    /\ \E c \in Children :
         /\ Is(c, "zombie")
         /\ children' = [children EXCEPT ![c].st = "gone"]
         /\ hpid' = c
    /\ hslot' = 0
    /\ hpc' = "scan"
    /\ UNCHANGED <<stack, gidx, Pid, told, pending, exitFlag, startVars, newPid, failures, tpc>>

(* It finds none and the handler returns.                                  *)
HandlerReturns ==
    /\ Runs("chld") /\ hpc = "reap"
    /\ ~ \E c \in Children : Is(c, "zombie")
    /\ stack' = SubSeq(stack, 1, Len(stack) - 1)
    /\ hpc' = "out"
    /\ UNCHANGED <<gidx, Pid, children, told, pending, exitFlag,
                   startVars, hpid, hslot, newPid, failures, tpc>>

(* The slot is another child's, or the parent is about to exit.            *)
SkipSlot ==
    /\ Runs("chld") /\ hpc = "scan"
    /\ Pid[hslot] # hpid \/ exitFlag
    /\ hslot' = IF hslot + 1 \in Slots THEN hslot + 1 ELSE 0
    /\ hpc' = IF hslot + 1 \in Slots THEN "scan" ELSE "reap"
    /\ UNCHANGED <<stack, gidx, Pid, children, told, pending, exitFlag,
                   startVars, hpid, newPid, failures, tpc>>

(* Mutant: the flag of the exiting parent is not asked for.                *)
ForkAgainAlways ==
    /\ Runs("chld") /\ hpc = "scan"
    /\ Pid[hslot] = hpid
    /\ gidx' = IF Daemon = "frd" THEN hslot ELSE gidx
    /\ Fork(gidx', "chld")
    /\ hpc' = "store"
    /\ UNCHANGED <<stack, Pid, told, pending, exitFlag,
                   startVars, hpid, hslot, failures, tpc>>

(* Mutant: dap_frd forks without setting g_nForkIdx.                       *)
ForkAgainSameRole ==
    /\ Runs("chld") /\ hpc = "scan"
    /\ Pid[hslot] = hpid /\ ~exitFlag
    /\ Fork(gidx, "chld")
    /\ hpc' = "store"
    /\ UNCHANGED <<stack, gidx, Pid, told, pending, exitFlag,
                   startVars, hpid, hslot, failures, tpc>>

(* Fork for the slot of the dead child; only dap_frd sets g_nForkIdx.      *)
ForkAgain ==
    /\ Runs("chld") /\ hpc = "scan"
    /\ Pid[hslot] = hpid /\ ~exitFlag
    /\ gidx' = IF Daemon = "frd" THEN hslot ELSE gidx
    /\ Fork(gidx', "chld")
    /\ hpc' = "store"
    /\ UNCHANGED <<stack, Pid, told, pending, exitFlag,
                   startVars, hpid, hslot, failures, tpc>>

(* Mutant: the pid of the new child is not stored.                         *)
StoreAgainForgotten ==
    /\ Runs("chld") /\ hpc = "store"
    /\ hpc' = IF hslot + 1 \in Slots THEN "scan" ELSE "reap"
    /\ hslot' = IF hslot + 1 \in Slots THEN hslot + 1 ELSE 0
    /\ UNCHANGED <<stack, gidx, Pid, children, told, pending, exitFlag,
                   startVars, hpid, newPid, failures, tpc>>

StoreAgain ==
    /\ Runs("chld") /\ hpc = "store"
    /\ Pid' = [Pid EXCEPT ![hslot] = newPid["chld"]]
    /\ hpc' = IF hslot + 1 \in Slots THEN "scan" ELSE "reap"
    /\ hslot' = IF hslot + 1 \in Slots THEN hslot + 1 ELSE 0
    /\ UNCHANGED <<stack, gidx, children, told, pending, exitFlag,
                   startVars, hpid, newPid, failures, tpc>>

(* fork() fails, and the loop goes on: the slot keeps the dead pid.        *)
ForkAgainFails ==
    /\ Runs("chld") /\ hpc = "scan"
    /\ Pid[hslot] = hpid /\ ~exitFlag
    /\ MayFail
    /\ gidx' = IF Daemon = "frd" THEN hslot ELSE gidx
    /\ lost' = lost \cup {hslot}
    /\ hslot' = IF hslot + 1 \in Slots THEN hslot + 1 ELSE 0
    /\ hpc' = IF hslot + 1 \in Slots THEN "scan" ELSE "reap"
    /\ UNCHANGED <<stack, Pid, children, told, pending, exitFlag,
                   startVars, hpid, newPid, missing, tpc>>

Handler ==
    \/ HandlerIsCalled \/ Reap \/ HandlerReturns
    \/ SkipSlot \/ ForkAgain \/ ForkAgainFails \/ StoreAgain

------------------------------------------------------------------------------
(* The handler of SIGTERM in the parent.  dap_policy_fw tells its children *)
(* first, dap_frd sets the flag first.                                     *)

Order == IF Daemon = "fw" THEN <<"kill", "flag", "wait", "exit">>
                          ELSE <<"flag", "kill", "wait", "exit">>
Stopping(step) == Runs("term") /\ Order[tpc + 1] = step /\ tpc' = tpc + 1

Terminate ==
    /\ stack # <<>> /\ ~ \E k \in 1..Len(stack) : stack[k] = "term"
    /\ stack' = Append(stack, "term")
    /\ UNCHANGED <<gidx, Pid, children, told, pending, exitFlag,
                   startVars, handlerVars, newPid, failures, tpc>>

(* kill(0, SIGTERM), for a slot that has no child yet, tells every process *)
(* of the group.                                                           *)
TellChildren ==
    /\ Stopping("kill")
    /\ told' = IF \E s \in Slots : Pid[s] = None THEN Children
               ELSE told \cup {c \in Children : \E s \in Slots : Pid[s] = c}
    /\ UNCHANGED <<stack, gidx, Pid, children, pending, exitFlag,
                   startVars, handlerVars, newPid, failures>>

SetExitFlag ==
    /\ Stopping("flag")
    /\ exitFlag' = TRUE
    /\ UNCHANGED <<stack, gidx, Pid, children, told, pending,
                   startVars, handlerVars, newPid, failures>>

(* wait(): one child that has ended, or there is none.                     *)
WaitForOne ==
    /\ Stopping("wait")
    /\ \/ \E c \in Children :
            /\ Is(c, "zombie")
            /\ children' = [children EXCEPT ![c].st = "gone"]
       \/ /\ \A c \in Children : Is(c, "gone")
          /\ UNCHANGED children
    /\ UNCHANGED <<stack, gidx, Pid, told, pending, exitFlag,
                   startVars, handlerVars, newPid, failures>>

ParentExit ==
    /\ Stopping("exit")
    /\ stack' = <<>>
    /\ UNCHANGED <<gidx, Pid, children, told, pending, exitFlag,
                   startVars, handlerVars, newPid, failures>>

Stop == TellChildren \/ SetExitFlag \/ WaitForOne \/ ParentExit

------------------------------------------------------------------------------
Init ==
    /\ stack = <<"main">> /\ gidx = 0
    /\ Pid = [s \in Slots |-> None]
    /\ children = <<>> /\ told = {}
    /\ pending = FALSE /\ exitFlag = FALSE
    /\ mpc = "role" /\ mslot = POLICY
    /\ hpc = "out" /\ hpid = None /\ hslot = 0
    /\ newPid = [p \in {"main", "chld"} |-> None]
    /\ missing = {} /\ lost = {}
    /\ tpc = 0

Next ==
    \/ Start \/ Handler \/ Terminate \/ Stop
    \/ \E c \in Children : ChildEnds(c)

Spec == Init /\ [][Next]_vars

(* The parent is a running process; nothing makes a child end but being    *)
(* told to.                                                                *)
Fairness ==
    /\ WF_vars(Start \/ Stop) /\ WF_vars(Handler)
    /\ WF_vars(ToldChildEnds)
FairSpec == Spec /\ Fairness

------------------------------------------------------------------------------
TypeOK ==
    /\ stack \in {<<>>, <<"main">>, <<"main", "chld">>, <<"main", "term">>,
                  <<"main", "chld", "term">>, <<"main", "term", "chld">>}
    /\ gidx \in 0..(NDetect + 2)
    /\ Pid \in [Slots -> Nat] /\ \A s \in Slots : Pid[s] \in Children \cup {None}
    /\ children \in Seq([st : {"alive", "zombie", "gone"}, role : Slots])
    /\ told \subseteq Children
    /\ pending \in BOOLEAN /\ exitFlag \in BOOLEAN
    /\ mpc \in {"role", "fork", "store", "loop"} /\ mslot \in 0..(NDetect + 2)
    /\ hpc \in {"out", "reap", "scan", "store"} /\ hpid \in Children \cup {None}
    /\ hslot \in Slots
    /\ newPid \in [{"main", "chld"} -> Children \cup {None}]
    /\ missing \subseteq Slots /\ lost \subseteq Slots
    /\ tpc \in 0..4

(* fw_main_task.c:106 says of the fork of a slot "process that forks for   *)
(* policy data": the child of a slot works on the data of that slot, where *)
(* no fork of the startup failed.                                          *)
RoleOfSlot ==
    missing = {} =>
        \A s \in Slots : Is(Pid[s], "alive") => children[Pid[s]].role = s

(* No two children write, or read and unlink, the files of one role.       *)
OneChildPerRole ==
    missing = {} =>
        \A c, d \in Children :
            c # d /\ Is(c, "alive") /\ Is(d, "alive")
                => children[c].role # children[d].role

(* A parent that has begun to exit (it has set the flag, or told its       *)
(* children) brings no child into the world that nobody tells to stop.     *)
NoneBornAtExit == [][tpc > 0 => Len(children') = Len(children)]_vars

(* A role whose child died is served again, unless a fork for it failed,   *)
(* the parent is stopped or, in the model, may not fork any more.          *)
RoleComesBack ==
    \A s \in Slots :
        (mpc = "loop" /\ ~Is(Pid[s], "alive"))
            ~> \/ Is(Pid[s], "alive") /\ children[Pid[s]].role = s
               \/ stack \notin {<<"main">>, <<"main", "chld">>}
               \/ missing # {} \/ s \in lost
               \/ Len(children) = MaxForks
==============================================================================
