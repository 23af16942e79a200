------------------------------ MODULE PcifPool ------------------------------
(***************************************************************************)
(* The threads of one child process of dap_pcif.                           *)
(*                                                                         *)
(* The accept loop (fpcif_ForkWork) takes a slot for every connection,     *)
(* writes the socket into the slot and starts a detached thread, which     *)
(* learns its slot from the accept loop's own local_stThreadArg: cleared   *)
(* at the next round, whether or not the thread has read it.  The thread   *)
(* serves the connection, closes it and gives the slot back.  A third      *)
(* thread (fpcif_ThreadLoop) looks for slots taken 300 s ago or earlier;   *)
(* one that is not of a manager stops the accept loop, and the process     *)
(* ends.  It ends as well when there is no slot.  The parent then forks a  *)
(* new one, which starts from nothing; the listening socket survives.      *)
(***************************************************************************)
EXTENDS Naturals, Sequences, SequencesExt

CONSTANTS
    NSlots,       \* cfgThreadCnt
    NThreads,     \* bound: threads alive at one time; one more is not created
    MaxLoops      \* rounds fpcif_ThreadLoop waits for the sessions to end (60)

ASSUME PoolAssumption ==
    NSlots \in Nat \ {0} /\ NThreads \in Nat \ {0} /\ MaxLoops \in Nat

VARIABLES
    thrFlag,     \* the slots that are taken ('Y')
    young,       \* taken slots, by the time of their accept (thrTimer), oldest
                 \* first; a taken slot not in it was taken 300 s ago
    manager,     \* slots whose threadStepStatus is 99
    cli_sock,    \* g_stThread_arg[slot].cli_sock
    cli_thread,  \* local_stThreadArg.cli_thread
    fds,         \* the sockets that are open
    apc, asock,  \* accept loop: where it is, local_socket
    thr,         \* the threads
    ForkHangFlag,
    hpc, loops,  \* fpcif_ThreadLoop: where it is, local_loop_count
    late         \* history: the accept loop went on before a thread it had
                 \* created read cli_thread

slotVars == <<thrFlag, young, manager, cli_sock>>
loopVars == <<cli_thread, apc, asock>>
hangVars == <<ForkHangFlag, hpc, loops>>
vars == <<slotVars, loopVars, fds, thr, hangVars, late>>

Slots   == 0..(NSlots - 1)
Threads == 1..NThreads
Fds     == 1..(NThreads + 1)
NoFd    == 0

(* none: no such thread; born: it has not read its slot; numbered: it has; *)
(* serve: it has the socket too; closed: it has closed it.                 *)
NoThread == [pc |-> "none", num |-> 0, fd |-> NoFd]
ThreadRecords == [pc : {"none", "born", "numbered", "serve", "closed"}, num : Slots,
                  fd : Fds \union {NoFd}]

(* The first of a set of numbers, as the set of it: none, if there is none. *)
Lowest(S) == {x \in S : \A y \in S : x <= y}

Old(s) == s \in thrFlag /\ s \notin ToSet(young)
OldSlots == {s \in Slots : Old(s)}
Idle == {t \in Threads : thr[t].pc = "none"}
Born == {t \in Threads : thr[t].pc = "born"}

(* A child process that has just been forked.                              *)
Init ==
    /\ thrFlag = {} /\ young = <<>> /\ manager = {}
    /\ cli_sock = [s \in Slots |-> NoFd]
    /\ cli_thread = 0 /\ apc = "clear" /\ asock = NoFd
    /\ fds = {}
    /\ thr = [t \in Threads |-> NoThread]
    /\ ForkHangFlag = FALSE /\ hpc = "sleep" /\ loops = 0
    /\ late = FALSE

(* exit(0), and what fpcif_SigchldHandler forks in place of the process.   *)
ForkedAgain ==
    /\ thrFlag' = {} /\ young' = <<>> /\ manager' = {}
    /\ cli_sock' = [s \in Slots |-> NoFd]
    /\ cli_thread' = 0 /\ apc' = "clear" /\ asock' = NoFd
    /\ fds' = {}
    /\ thr' = [t \in Threads |-> NoThread]
    /\ ForkHangFlag' = FALSE /\ hpc' = "sleep" /\ loops' = 0
    /\ late' = FALSE

------------------------------------------------------------------------------
(* The accept loop.                                                        *)

(* A new round: the loop stops for good when a session hangs.              *)
Clear ==
    /\ apc = "clear"
    /\ IF ForkHangFlag
       THEN apc' = "hang" /\ UNCHANGED <<cli_thread, late>>
       ELSE /\ apc' = "accept"
            /\ cli_thread' = 0
            /\ late' = (late \/ Born # {})
    /\ UNCHANGED <<asock, slotVars, fds, thr, hangVars>>

(* accept: the lowest descriptor that is free.                             *)
Accept ==
    /\ apc = "accept"
    /\ \E fd \in Lowest(Fds \ fds) :
         /\ asock' = fd
         /\ fds' = fds \union {fd}
    /\ apc' = "slot"
    /\ UNCHANGED <<cli_thread, slotVars, thr, hangVars, late>>

AcceptFails ==
    /\ apc = "accept"
    /\ apc' = "clear"
    /\ UNCHANGED <<cli_thread, asock, slotVars, fds, thr, hangVars, late>>

(* Mutant: the slot is marked by the thread, not by the accept loop.       *)
TakeSlotUnmarked ==
    /\ apc = "slot"
    /\ \E s \in Lowest(Slots \ thrFlag) :
          /\ cli_sock' = [cli_sock EXCEPT ![s] = asock]
          /\ cli_thread' = s
          /\ manager' = manager \ {s}
    /\ apc' = "create"
    /\ UNCHANGED <<thrFlag, young, asock, fds, thr, hangVars, late>>

(* fpcif_ThreadGetIdx and what follows it: the lowest free slot.           *)
TakeSlot ==
    /\ apc = "slot"
    /\ \E s \in Lowest(Slots \ thrFlag) :
          /\ thrFlag' = thrFlag \union {s}
          /\ young' = Append(RemoveFirst(young, s), s)
          /\ cli_sock' = [cli_sock EXCEPT ![s] = asock]
          /\ cli_thread' = s
          /\ manager' = manager \ {s}
    /\ apc' = "create"
    /\ UNCHANGED <<asock, fds, thr, hangVars, late>>

(* "Thread Is Full": the process ends, and with it every session.          *)
PoolFull == apc = "slot" /\ thrFlag = Slots /\ ForkedAgain

CreateThread ==
    /\ apc = "create"
    /\ \E t \in Lowest(Idle) :
         thr' = [thr EXCEPT ![t] = [NoThread EXCEPT !.pc = "born"]]
    /\ apc' = "clear"
    /\ UNCHANGED <<cli_thread, asock, slotVars, fds, hangVars, late>>

(* fcom_ThreadCreate fails: the socket is closed and the slot given back.  *)
CreateFails ==
    /\ apc = "create"
    /\ fds' = fds \ {asock}
    /\ thrFlag' = thrFlag \ {cli_thread}
    /\ young' = RemoveFirst(young, cli_thread)
    /\ apc' = "clear"
    /\ UNCHANGED <<manager, cli_sock, cli_thread, asock, thr, hangVars, late>>

------------------------------------------------------------------------------
(* The threads of the connections: fpcif_PcifThread.                       *)

(* thrNum = conn->cli_thread: whatever the accept loop has left in it.     *)
ReadArg(t) ==
    /\ thr[t].pc = "born"
    /\ thr' = [thr EXCEPT ![t] = [pc |-> "numbered", num |-> cli_thread, fd |-> NoFd]]
    /\ UNCHANGED <<slotVars, loopVars, fds, hangVars, late>>

(* local_socket and threadStepStatus of that slot.                         *)
ReadSocket(t) ==
    /\ thr[t].pc = "numbered"
    /\ thr' = [thr EXCEPT ![t] = [@ EXCEPT !.pc = "serve", !.fd = cli_sock[thr[t].num]]]
    /\ manager' = manager \ {thr[t].num}
    /\ UNCHANGED <<thrFlag, young, cli_sock, loopVars, fds, hangVars, late>>

(* The first message says that a manager is at the other end.              *)
ServeManager(t) ==
    /\ thr[t].pc = "serve"
    /\ thr[t].num \notin manager
    /\ manager' = manager \union {thr[t].num}
    /\ UNCHANGED <<thrFlag, young, cli_sock, loopVars, fds, thr, hangVars, late>>

(* The session is over, or gave up as ForkHangFlag is set.                 *)
CloseSocket(t) ==
    /\ thr[t].pc = "serve"
    /\ thr' = [thr EXCEPT ![t].pc = "closed"]
    /\ fds' = fds \ {thr[t].fd}
    /\ manager' = manager \ {thr[t].num}
    /\ UNCHANGED <<thrFlag, young, cli_sock, loopVars, hangVars, late>>

FreeSlot(t) ==
    /\ thr[t].pc = "closed"
    /\ thr' = [thr EXCEPT ![t] = NoThread]
    /\ thrFlag' = thrFlag \ {thr[t].num}
    /\ young' = RemoveFirst(young, thr[t].num)
    /\ UNCHANGED <<manager, cli_sock, loopVars, fds, hangVars, late>>

------------------------------------------------------------------------------
(* The hang check: fpcif_ThreadLoop and fpcif_ThreadHangCheck.             *)

(* 300 s have passed since the slot was taken.                             *)
Age ==
    /\ young # <<>>
    /\ young' = Tail(young)
    /\ UNCHANGED <<thrFlag, manager, cli_sock, loopVars, fds, thr, hangVars, late>>

(* Mutant: the last slot is never looked at.                               *)
HangCheckOneShort ==
    /\ hpc = "sleep"
    /\ IF Lowest(OldSlots \ {NSlots - 1}) \subseteq manager
       THEN UNCHANGED <<ForkHangFlag, hpc>>
       ELSE ForkHangFlag' = TRUE /\ hpc' = "wait"
    /\ UNCHANGED <<loops, slotVars, loopVars, fds, thr, late>>

(* The lowest slot taken 300 s ago: a manager's is left alone, and nothing *)
(* above it is looked at.                                                  *)
HangCheck ==
    /\ hpc = "sleep"
    /\ IF Lowest(OldSlots) \subseteq manager
       THEN UNCHANGED <<ForkHangFlag, hpc>>
       ELSE ForkHangFlag' = TRUE /\ hpc' = "wait"
    /\ UNCHANGED <<loops, slotVars, loopVars, fds, thr, late>>

(* Only sessions that hang are left.                                       *)
OnlyOldLeft == OldSlots # {} /\ thrFlag = OldSlots

(* Mutant: the rounds are not counted.                                     *)
WaitForSessionsUncounted ==
    /\ hpc = "wait"
    /\ IF OnlyOldLeft
       THEN ForkedAgain
       ELSE UNCHANGED vars

(* Every second: the process ends once only sessions that hang are left,   *)
(* or when it has waited long enough.                                      *)
WaitForSessions ==
    /\ hpc = "wait"
    /\ IF OnlyOldLeft \/ loops >= MaxLoops
       THEN ForkedAgain
       ELSE /\ loops' = loops + 1
            /\ UNCHANGED <<ForkHangFlag, hpc, slotVars, loopVars, fds, thr, late>>

------------------------------------------------------------------------------
AcceptLoop == \/ Clear \/ Accept \/ AcceptFails \/ TakeSlot \/ PoolFull
              \/ CreateThread \/ CreateFails
Session(t) == \/ ReadArg(t) \/ ReadSocket(t) \/ ServeManager(t)
              \/ CloseSocket(t) \/ FreeSlot(t)
ThreadLoop == HangCheck \/ WaitForSessions

Next == AcceptLoop \/ (\E t \in Threads : Session(t)) \/ Age \/ ThreadLoop

Spec == Init /\ [][Next]_vars

(* The process is scheduled: its loops and its threads go on where they do *)
(* not wait for the network, and time passes.  A peer need not connect, and*)
(* a session need not end (CloseSocket).                                   *)
FairSpec ==
    /\ Spec
    /\ WF_vars(AcceptLoop /\ apc # "accept")
    /\ \A t \in Threads : WF_vars(ReadArg(t) \/ ReadSocket(t) \/ FreeSlot(t))
    /\ WF_vars(Age)
    /\ WF_vars(ThreadLoop)

------------------------------------------------------------------------------
(* The values of the variables, and a descriptor is open while used.       *)
TypeOK ==
    /\ thrFlag \subseteq Slots /\ manager \subseteq Slots
    /\ young \in Seq(Slots) /\ IsInjective(young) /\ ToSet(young) \subseteq thrFlag
    /\ cli_sock \in [Slots -> Fds \union {NoFd}]
    /\ cli_thread \in Slots
    /\ fds \subseteq Fds
    /\ apc \in {"clear", "accept", "slot", "create", "hang"}
    /\ asock \in Fds \union {NoFd}
    /\ thr \in [Threads -> ThreadRecords]
    /\ ForkHangFlag \in BOOLEAN
    /\ hpc \in {"sleep", "wait"}
    /\ loops \in 0..MaxLoops
    /\ late \in BOOLEAN

Serving == {t \in Threads : thr[t].pc \in {"numbered", "serve"}}
Having  == {t \in Threads : thr[t].pc \in {"numbered", "serve", "closed"}}

(* The socket that a thread serves, or is going to.                        *)
Socket(t) == IF thr[t].pc = "numbered" THEN cli_sock[thr[t].num] ELSE thr[t].fd

(* As long as every thread has read its slot before the accept loop came   *)
(* round: a thread has the slot and the open socket of its connection to   *)
(* itself, and a slot that is taken is some thread's or is being handed to *)
(* one (local_stThreadArg, pcif_fork.c:182, and all paths back to 'N').    *)
OwnConnection ==
    ~late =>
       /\ \A t \in Having : thr[t].num \in thrFlag
       /\ \A t \in Serving : Socket(t) \in fds
       /\ \A t, u \in Having : t # u => thr[t].num # thr[u].num
       /\ \A t, u \in Serving : t # u => Socket(t) # Socket(u)
       /\ \A s \in thrFlag :
             \/ \E t \in Having : thr[t].num = s
             \/ s = cli_thread /\ (apc = "create" \/ Born # {})

(* Whatever becomes of a session, and even of the number of its slot, no   *)
(* slot stays taken for ever, other than by or behind a manager's session, *)
(* at which the hang check ends (fpcif_ThreadHangCheck).                   *)
Masked(s) == \E m \in manager : m <= s /\ Old(m)
SlotsComeBack == \A s \in Slots : []<>(s \notin thrFlag \/ Masked(s))

(* The service is never gone for good: after "Thread Is Full" and after a  *)
(* session that hangs the listening socket is accepted from again.         *)
AcceptsAgain == []<>(apc = "accept")

(* The comment in fpcif_ThreadHangCheck: the sessions of managers are the  *)
(* exception.  Every other session that hangs is noticed, or ends.         *)
Hangs(s) == Old(s) /\ s \notin manager
HangIsNoticed == \A s \in Slots : Hangs(s) ~> (ForkHangFlag \/ ~Hangs(s))
=============================================================================
