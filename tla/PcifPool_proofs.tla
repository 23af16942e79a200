---------------------------- MODULE PcifPool_proofs ----------------------------
(***************************************************************************)
(* The threads of dap_pcif have their connections to themselves, as long   *)
(* as each reads its slot before the accept loop comes round: for every    *)
(* number of slots and of threads.                                         *)
(***************************************************************************)
EXTENDS PcifPool, SequenceTheorems, TLAPS

(* The values of what the argument is about; young, manager and the hang   *)
(* check are not.                                                          *)
PoolTypes ==
    /\ thrFlag \subseteq Slots
    /\ cli_sock \in [Slots -> Fds \union {NoFd}]
    /\ cli_thread \in Slots
    /\ fds \subseteq Fds
    /\ asock \in Fds \union {NoFd}
    /\ thr \in [Threads -> ThreadRecords]

(* A slot is being handed over while it is in local_stThreadArg and no     *)
(* thread has read it.                                                     *)
HandingOver == apc = "create" \/ Born # {}

(* One thread at most has not read its slot, and the accept loop has not   *)
(* gone on meanwhile.                                                      *)
OneBorn ==
    /\ Born # {} => apc \in {"clear", "hang"}
    /\ \A t, u \in Born : t = u

(* A socket just accepted, and a slot being handed over with its socket,   *)
(* are nobody's yet.                                                       *)
AcceptedIsFree ==
    /\ apc = "slot" => asock \in fds /\ \A t \in Serving : Socket(t) # asock
    /\ apc = "create" => cli_sock[cli_thread] = asock
    /\ HandingOver =>
         /\ cli_thread \in thrFlag
         /\ cli_sock[cli_thread] \in fds
         /\ \A t \in Having : thr[t].num # cli_thread
         /\ \A t \in Serving : Socket(t) # cli_sock[cli_thread]

(* What a thread has it has alone.                                         *)
Owned ==
    /\ \A t \in Having : thr[t].num \in thrFlag
    /\ \A t \in Serving : Socket(t) \in fds
    /\ \A t, u \in Having : t # u => thr[t].num # thr[u].num
    /\ \A t, u \in Serving : t # u => Socket(t) # Socket(u)

(* A slot that is taken is somebody's.                                     *)
NoneLost ==
    \A s \in thrFlag : \/ \E t \in Having : thr[t].num = s
                       \/ s = cli_thread /\ HandingOver

PoolInv ==
    /\ PoolTypes
    /\ ~late => OneBorn /\ AcceptedIsFree /\ Owned /\ NoneLost

------------------------------------------------------------------------------
LEMMA ZeroIsSlot == 0 \in Slots
    BY PoolAssumption DEF Slots

(* A child process that has just been forked, in both forms.               *)
LEMMA PoolInit == Init => PoolInv
<1> SUFFICES ASSUME Init PROVE PoolInv
    OBVIOUS
<1>1. \A t \in Threads : thr[t].pc = "none"
    BY DEF Init, NoThread
<1>2. Born = {} /\ Serving = {} /\ Having = {}
    BY <1>1 DEF Born, Serving, Having
<1>3. PoolTypes
    BY ZeroIsSlot DEF Init, PoolTypes, NoThread, ThreadRecords
<1> QED
    BY <1>2, <1>3 DEF Init, PoolInv, OneBorn, AcceptedIsFree, Owned, NoneLost,
                      HandingOver

LEMMA PoolForkedAgain == ForkedAgain => PoolInv'
<1> SUFFICES ASSUME ForkedAgain PROVE PoolInv'
    OBVIOUS
<1>1. \A t \in Threads : thr'[t].pc = "none"
    BY DEF ForkedAgain, NoThread
<1>2. Born' = {} /\ Serving' = {} /\ Having' = {}
    BY <1>1 DEF Born, Serving, Having
<1>3. PoolTypes'
    BY ZeroIsSlot DEF ForkedAgain, PoolTypes, NoThread, ThreadRecords
<1> QED
    BY <1>2, <1>3 DEF ForkedAgain, PoolInv, OneBorn, AcceptedIsFree, Owned,
                      NoneLost, HandingOver

------------------------------------------------------------------------------
LEMMA PoolTypeStep == PoolTypes /\ [Next]_vars => PoolTypes'
<1> SUFFICES ASSUME PoolTypes, [Next]_vars PROVE PoolTypes'
    OBVIOUS
<1> USE DEF PoolTypes, slotVars, loopVars, hangVars
<1>1. CASE Clear
    BY <1>1, ZeroIsSlot DEF Clear
<1>2. CASE Accept
    BY <1>2 DEF Accept, Lowest
<1>3. CASE AcceptFails
    BY <1>3 DEF AcceptFails
<1>4. CASE TakeSlot
    BY <1>4 DEF TakeSlot, Lowest
<1>5. CASE ForkedAgain
    BY <1>5, PoolForkedAgain DEF PoolInv
<1>6. CASE CreateThread
  <2>1. [NoThread EXCEPT !.pc = "born"] \in ThreadRecords
      BY ZeroIsSlot DEF NoThread, ThreadRecords
  <2> QED
      BY <1>6, <2>1 DEF CreateThread, Lowest, Idle
<1>7. CASE CreateFails
    BY <1>7 DEF CreateFails
<1>8. ASSUME NEW t \in Threads, Session(t) PROVE PoolTypes'
  <2>1. CASE ReadArg(t)
      BY <2>1 DEF ReadArg, ThreadRecords, NoFd
  <2>a. CASE ReadSocket(t)
    <3>1. thr[t] \in ThreadRecords /\ cli_sock[thr[t].num] \in Fds \union {NoFd}
        BY DEF ThreadRecords
    <3>2. [thr[t] EXCEPT !.pc = "serve", !.fd = cli_sock[thr[t].num]] \in ThreadRecords
        BY <3>1 DEF ThreadRecords
    <3> QED
        BY <2>a, <3>2 DEF ReadSocket
  <2>2. CASE ServeManager(t)
      BY <2>2 DEF ServeManager
  <2>3. CASE CloseSocket(t)
      BY <2>3 DEF CloseSocket, ThreadRecords
  <2>4. CASE FreeSlot(t)
    <3>1. NoThread \in ThreadRecords
        BY ZeroIsSlot DEF NoThread, ThreadRecords
    <3> QED
        BY <2>4, <3>1 DEF FreeSlot
  <2> QED
      BY <1>8, <2>1, <2>a, <2>2, <2>3, <2>4 DEF Session
<1>9. CASE Age
    BY <1>9 DEF Age
<1>10. CASE HangCheck
    BY <1>10 DEF HangCheck
<1>11. CASE WaitForSessions
    BY <1>5, <1>11 DEF WaitForSessions
<1>12. CASE UNCHANGED vars
    BY <1>12 DEF vars
<1> QED
    BY <1>1, <1>2, <1>3, <1>4, <1>5, <1>6, <1>7, <1>8, <1>9, <1>10, <1>11, <1>12
       DEF Next, AcceptLoop, ThreadLoop, PoolFull

(* Steps of the accept loop up to the creation of a thread: no thread      *)
(* changes, and none waits for its slot unless the loop is at its end.     *)
LEMMA PoolAcceptStep ==
    ASSUME PoolInv, ~late', Clear \/ Accept \/ AcceptFails \/ TakeSlot \/ CreateFails
    PROVE  OneBorn' /\ AcceptedIsFree' /\ Owned' /\ NoneLost'
<1>1. thr' = thr /\ Born' = Born /\ Serving' = Serving /\ Having' = Having
    BY DEF Clear, Accept, AcceptFails, TakeSlot, CreateFails, Born, Serving, Having
<1>2. ~late
    BY DEF Clear, Accept, AcceptFails, TakeSlot, CreateFails
<1>3. PoolTypes /\ OneBorn /\ AcceptedIsFree /\ Owned /\ NoneLost
    BY <1>2 DEF PoolInv
<1> USE DEF slotVars, loopVars, hangVars, HandingOver
<1>s. ASSUME \A s \in thrFlag : cli_sock'[s] = cli_sock[s]
      PROVE  \A t \in Serving : Socket(t)' = Socket(t)
    BY <1>1, <1>3, <1>s DEF Socket, Owned, Serving, Having
<1>4. CASE Clear
  <2>s. \A t \in Serving : Socket(t)' = Socket(t)
      BY <1>4, <1>s DEF Clear
  <2>1. CASE ForkHangFlag
      BY <1>1, <1>3, <1>4, <2>s, <2>1
         DEF Clear, OneBorn, AcceptedIsFree, Owned, NoneLost
  <2>2. CASE ~ForkHangFlag
    <3>1. Born = {} /\ apc' = "accept" /\ UNCHANGED <<slotVars, fds>>
        BY <1>4, <2>2 DEF Clear
    <3> QED
        BY <1>1, <1>3, <1>4, <2>s, <3>1
           DEF Clear, OneBorn, AcceptedIsFree, Owned, NoneLost
  <2> QED
      BY <2>1, <2>2
<1>5. CASE Accept
  <2>1. PICK fd \in Fds \ fds : asock' = fd /\ fds' = fds \union {fd}
      BY <1>5 DEF Accept, Lowest
  <2>2. Born = {} /\ apc' = "slot" /\ UNCHANGED <<slotVars, cli_thread>>
      BY <1>3, <1>5 DEF Accept, OneBorn
  <2>s. \A t \in Serving : Socket(t)' = Socket(t)
      BY <1>s, <2>2
  <2> QED
      BY <1>1, <1>3, <1>5, <2>1, <2>2, <2>s
         DEF Accept, OneBorn, AcceptedIsFree, Owned, NoneLost
<1>6. CASE AcceptFails
  <2>1. Born = {}
      BY <1>3, <1>6 DEF AcceptFails, OneBorn
  <2>s. \A t \in Serving : Socket(t)' = Socket(t)
      BY <1>s, <1>6 DEF AcceptFails
  <2> QED
      BY <1>1, <1>3, <1>6, <2>1, <2>s
         DEF AcceptFails, OneBorn, AcceptedIsFree, Owned, NoneLost
<1>7. CASE TakeSlot
  <2>1. PICK s \in Slots \ thrFlag :
            /\ thrFlag' = thrFlag \union {s}
            /\ cli_sock' = [cli_sock EXCEPT ![s] = asock]
            /\ cli_thread' = s
      BY <1>7 DEF TakeSlot, Lowest
  <2>2. Born = {} /\ apc = "slot" /\ apc' = "create" /\ UNCHANGED <<asock, fds>>
      BY <1>3, <1>7 DEF TakeSlot, OneBorn
  <2>3. cli_sock'[cli_thread'] = asock
      BY <1>3, <2>1 DEF PoolTypes
  <2>s. \A t \in Serving : Socket(t)' = Socket(t)
      BY <1>s, <1>3, <2>1 DEF PoolTypes
  <2> QED
      BY <1>1, <1>3, <2>1, <2>2, <2>3, <2>s
         DEF OneBorn, AcceptedIsFree, Owned, NoneLost
<1>8. CASE CreateFails
  <2>1. Born = {} /\ apc = "create" /\ apc' = "clear"
      BY <1>3, <1>8 DEF CreateFails, OneBorn
  <2>2. /\ thrFlag' = thrFlag \ {cli_thread} /\ fds' = fds \ {cli_sock[cli_thread]}
        /\ UNCHANGED <<cli_thread, cli_sock>>
      BY <1>3, <1>8 DEF CreateFails, AcceptedIsFree
  <2>s. \A t \in Serving : Socket(t)' = Socket(t)
      BY <1>s, <2>2
  <2> QED
      BY <1>1, <1>3, <2>1, <2>2, <2>s
         DEF OneBorn, AcceptedIsFree, Owned, NoneLost
<1> QED
    BY <1>4, <1>5, <1>6, <1>7, <1>8

(* A thread is created: it is the one that has to read its slot.           *)
LEMMA PoolCreateStep ==
    ASSUME PoolInv, ~late', CreateThread
    PROVE  OneBorn' /\ AcceptedIsFree' /\ Owned' /\ NoneLost'
<1>1. ~late
    BY DEF CreateThread
<1>2. PoolTypes /\ OneBorn /\ AcceptedIsFree /\ Owned /\ NoneLost
    BY <1>1 DEF PoolInv
<1>3. PICK t \in Threads :
          /\ thr[t].pc = "none"
          /\ thr' = [thr EXCEPT ![t] = [NoThread EXCEPT !.pc = "born"]]
    BY DEF CreateThread, Lowest, Idle
<1>4. Born = {} /\ apc = "create" /\ apc' = "clear"
    BY <1>2 DEF CreateThread, OneBorn
<1>5. /\ thr'[t].pc = "born"
      /\ \A u \in Threads : u # t => thr'[u] = thr[u]
    BY <1>2, <1>3 DEF PoolTypes, NoThread
<1>6. Born' = {t} /\ Serving' = Serving /\ Having' = Having
    BY <1>3, <1>4, <1>5 DEF Born, Serving, Having
<1>7. \A u \in Having : thr'[u] = thr[u]
    BY <1>3, <1>5 DEF Having
<1>8. \A u \in Serving : thr'[u] = thr[u]
    BY <1>7 DEF Serving, Having
<1>9. UNCHANGED <<cli_thread, asock, thrFlag, cli_sock, fds>>
    BY DEF CreateThread, slotVars
<1>s. \A u \in Serving : Socket(u)' = Socket(u)
    BY <1>8, <1>9 DEF Socket
<1>10. OneBorn'
    BY <1>4, <1>6 DEF OneBorn
<1>11. AcceptedIsFree'
    BY <1>2, <1>4, <1>6, <1>7, <1>s, <1>9 DEF AcceptedIsFree, HandingOver
<1>12. Owned'
    BY <1>2, <1>6, <1>7, <1>s, <1>9 DEF Owned
<1>13. NoneLost'
    BY <1>2, <1>4, <1>6, <1>7, <1>9 DEF NoneLost, HandingOver
<1> QED
    BY <1>10, <1>11, <1>12, <1>13

(* The thread reads the slot handed over to it.                            *)
LEMMA PoolReadStep ==
    ASSUME PoolInv, ~late', NEW t \in Threads, ReadArg(t)
    PROVE  OneBorn' /\ AcceptedIsFree' /\ Owned' /\ NoneLost'
<1>1. ~late /\ UNCHANGED <<thrFlag, cli_sock, cli_thread, apc, asock, fds>>
    BY DEF ReadArg, slotVars, loopVars
<1>2. PoolTypes /\ OneBorn /\ AcceptedIsFree /\ Owned /\ NoneLost
    BY <1>1 DEF PoolInv
<1>3. t \in Born /\ apc \in {"clear", "hang"} /\ HandingOver
    BY <1>2 DEF ReadArg, Born, OneBorn, HandingOver
<1>4. /\ thr'[t].pc = "numbered" /\ thr'[t].num = cli_thread
      /\ \A u \in Threads : u # t => thr'[u] = thr[u]
    BY <1>2 DEF ReadArg, PoolTypes
<1>5. /\ Born' = {} /\ Serving' = Serving \union {t} /\ Having' = Having \union {t}
      /\ t \notin Having /\ t \notin Serving
    BY <1>2, <1>3, <1>4 DEF OneBorn, Born, Serving, Having
<1>6. Having \subseteq Threads /\ Serving \subseteq Threads
    BY DEF Having, Serving
<1>s. /\ Socket(t)' = cli_sock[cli_thread]
      /\ \A u \in Serving : Socket(u)' = Socket(u)
    BY <1>1, <1>4, <1>5, <1>6 DEF Socket
<1>7. OneBorn'
    BY <1>5 DEF OneBorn
<1>8. AcceptedIsFree'
    BY <1>1, <1>3, <1>5 DEF AcceptedIsFree, HandingOver
<1>9. Owned'
    BY <1>1, <1>2, <1>3, <1>4, <1>5, <1>6, <1>s DEF Owned, AcceptedIsFree
<1>10. NoneLost'
    BY <1>1, <1>2, <1>4, <1>5, <1>6 DEF NoneLost
<1> QED
    BY <1>7, <1>8, <1>9, <1>10

(* ... and its socket, which stays the one of its slot.                    *)
LEMMA PoolSocketStep ==
    ASSUME PoolInv, ~late', NEW t \in Threads, ReadSocket(t)
    PROVE  OneBorn' /\ AcceptedIsFree' /\ Owned' /\ NoneLost'
<1>1. ~late /\ UNCHANGED <<thrFlag, cli_sock, cli_thread, apc, asock, fds>>
    BY DEF ReadSocket, loopVars
<1>2. PoolTypes /\ OneBorn /\ AcceptedIsFree /\ Owned /\ NoneLost
    BY <1>1 DEF PoolInv
<1>3. /\ thr[t].pc = "numbered" /\ thr'[t].pc = "serve" /\ thr'[t].num = thr[t].num
      /\ thr'[t].fd = cli_sock[thr[t].num]
      /\ \A u \in Threads : u # t => thr'[u] = thr[u]
    BY <1>2 DEF ReadSocket, PoolTypes, ThreadRecords
<1>4. Born' = Born /\ Serving' = Serving /\ Having' = Having
    BY <1>3 DEF Born, Serving, Having
<1>5. \A u \in Threads : Socket(u)' = Socket(u) /\ thr'[u].num = thr[u].num
    BY <1>1, <1>3 DEF Socket
<1>6. Having \subseteq Threads /\ Serving \subseteq Threads
    BY DEF Having, Serving
<1> QED
    BY <1>1, <1>2, <1>4, <1>5, <1>6
       DEF OneBorn, AcceptedIsFree, Owned, NoneLost, HandingOver

(* A session ends: its socket, then its slot.                              *)
LEMMA PoolEndStep ==
    ASSUME PoolInv, ~late', NEW t \in Threads, CloseSocket(t) \/ FreeSlot(t)
    PROVE  OneBorn' /\ AcceptedIsFree' /\ Owned' /\ NoneLost'
<1>1. ~late /\ UNCHANGED <<cli_sock, cli_thread, apc, asock>>
    BY DEF CloseSocket, FreeSlot, loopVars
<1>2. PoolTypes /\ OneBorn /\ AcceptedIsFree /\ Owned /\ NoneLost
    BY <1>1 DEF PoolInv
<1>3. \A u \in Threads : u # t => thr'[u] = thr[u]
    BY <1>2 DEF CloseSocket, FreeSlot, PoolTypes
<1>4. Having \subseteq Threads /\ Serving \subseteq Threads
    BY DEF Having, Serving
<1>5. CASE CloseSocket(t)
  <2>1. /\ thr'[t].pc = "closed" /\ thr'[t].num = thr[t].num
        /\ thr[t].pc = "serve"
        /\ thrFlag' = thrFlag /\ fds' = fds \ {thr[t].fd}
      BY <1>2, <1>5 DEF CloseSocket, PoolTypes, ThreadRecords
  <2>2. /\ Born' = Born /\ Serving' = Serving \ {t} /\ Having' = Having
        /\ t \in Serving
      BY <1>3, <2>1 DEF Born, Serving, Having
  <2>s. thr[t].fd = Socket(t) /\ \A u \in Serving \ {t} : Socket(u)' = Socket(u)
      BY <1>1, <1>3, <1>4, <2>1 DEF Socket
  <2>3. \A u \in Having : thr'[u].num = thr[u].num
      BY <1>3, <1>4, <2>1
  <2>4. OneBorn'
      BY <1>1, <1>2, <2>2 DEF OneBorn
  <2>5. AcceptedIsFree'
      BY <1>1, <1>2, <1>4, <2>1, <2>2, <2>3, <2>s DEF AcceptedIsFree, HandingOver
  <2>6. Owned'
      BY <1>2, <1>4, <2>1, <2>2, <2>3, <2>s DEF Owned
  <2>7. NoneLost'
      BY <1>1, <1>2, <2>1, <2>2, <2>3 DEF NoneLost, HandingOver
  <2> QED
      BY <2>4, <2>5, <2>6, <2>7
<1>6. CASE FreeSlot(t)
  <2>1. /\ thr'[t].pc = "none" /\ thr[t].pc = "closed"
        /\ thrFlag' = thrFlag \ {thr[t].num} /\ fds' = fds
      BY <1>2, <1>6 DEF FreeSlot, PoolTypes, NoThread
  <2>2. /\ Born' = Born /\ Serving' = Serving /\ Having' = Having \ {t}
        /\ t \in Having /\ t \notin Serving
      BY <1>3, <2>1 DEF Born, Serving, Having
  <2>3. \A u \in Having : u # t => thr'[u] = thr[u]
      BY <1>3, <1>4
  <2>4. \A u \in Serving : Socket(u)' = Socket(u)
      BY <1>1, <1>3, <1>4, <2>2 DEF Socket
  <2>5. OneBorn'
      BY <1>1, <1>2, <2>2 DEF OneBorn
  <2>6. AcceptedIsFree'
      BY <1>1, <1>2, <2>1, <2>2, <2>3, <2>4 DEF AcceptedIsFree, HandingOver
  <2>7. Owned'
      BY <1>2, <2>1, <2>2, <2>3, <2>4 DEF Owned
  <2>8. NoneLost'
      BY <1>1, <1>2, <2>1, <2>2, <2>3 DEF NoneLost, HandingOver
  <2> QED
      BY <2>5, <2>6, <2>7, <2>8
<1> QED
    BY <1>5, <1>6

(* Steps that touch no slot, socket or thread, apart from managers, the    *)
(* ages of the slots and the hang check.                                   *)
LEMMA PoolOtherStep ==
    ASSUME PoolInv, ~late',
           UNCHANGED <<thrFlag, cli_sock, loopVars, fds, thr, late>>
    PROVE  OneBorn' /\ AcceptedIsFree' /\ Owned' /\ NoneLost'
    BY DEF PoolInv, loopVars, OneBorn, AcceptedIsFree, Owned, NoneLost,
           HandingOver, Born, Serving, Having, Socket

LEMMA PoolInvHolds == Spec => []PoolInv
<1>1. PoolInv /\ [Next]_vars => PoolInv'
  <2> SUFFICES ASSUME PoolInv, [Next]_vars, ~late'
               PROVE  OneBorn' /\ AcceptedIsFree' /\ Owned' /\ NoneLost'
      BY PoolTypeStep DEF PoolInv
  <2>1. CASE AcceptLoop
      BY <2>1, PoolAcceptStep, PoolCreateStep, PoolForkedAgain
         DEF AcceptLoop, PoolFull, PoolInv
  <2>2. ASSUME NEW t \in Threads, Session(t)
        PROVE  OneBorn' /\ AcceptedIsFree' /\ Owned' /\ NoneLost'
    <3>1. CASE ServeManager(t)
        BY <3>1, PoolOtherStep DEF ServeManager
    <3> QED
        BY <2>2, <3>1, PoolReadStep, PoolSocketStep, PoolEndStep DEF Session
  <2>3. CASE Age \/ HangCheck
      BY <2>3, PoolOtherStep DEF Age, HangCheck, slotVars
  <2>4. CASE WaitForSessions
    <3>1. CASE ForkedAgain
        BY <3>1, PoolForkedAgain DEF PoolInv
    <3>2. CASE UNCHANGED <<thrFlag, cli_sock, loopVars, fds, thr, late>>
        BY <3>2, PoolOtherStep
    <3> QED
        BY <2>4, <3>1, <3>2 DEF WaitForSessions, slotVars
  <2>5. CASE UNCHANGED vars
      BY <2>5, PoolOtherStep DEF vars, slotVars
  <2> QED
      BY <2>1, <2>2, <2>3, <2>4, <2>5 DEF Next, ThreadLoop
<1> QED
    BY PoolInit, <1>1, PTL DEF Spec

(* As long as every thread has read its slot before the accept loop came   *)
(* round, each has slot and socket to itself and no slot is lost, for any  *)
(* number of slots and threads (fpcif_ForkWork, fpcif_PcifThread).         *)
THEOREM PoolOwnConnection == Spec => []OwnConnection
<1>1. PoolInv => OwnConnection
    BY DEF PoolInv, OwnConnection, Owned, NoneLost, HandingOver
<1> QED
    BY PoolInvHolds, <1>1, PTL

------------------------------------------------------------------------------
(* The list of taken slots by age, from which slots are removed in between.*)

LEMMA RemovedAt ==
    ASSUME NEW S, NEW q \in Seq(S), IsInjective(q), NEW i \in 1..Len(q)
    PROVE  RemoveFirst(q, q[i]) = RemoveAt(q, i)
<1>1. {j \in 1..Len(q) : q[j] = q[i]} = {i}
    BY DEF IsInjective
<1>2. (CHOOSE x \in {i} : \A y \in {i} : x <= y) = i
    OBVIOUS
<1> QED BY <1>1, <1>2 DEF RemoveFirst, SelectInSeq, Min

(* A list without its element at i.                                        *)
LEMMA RemovedFrom ==
    ASSUME NEW S, NEW q \in Seq(S), IsInjective(q), NEW i \in 1..Len(q)
    PROVE  /\ RemoveAt(q, i) \in Seq(S) /\ IsInjective(RemoveAt(q, i))
           /\ ToSet(RemoveAt(q, i)) = ToSet(q) \ {q[i]}
<1> DEFINE p == SubSeq(q, 1, i - 1)
           t == SubSeq(q, i + 1, Len(q))
           r == RemoveAt(q, i)
<1>0. Len(q) \in Nat /\ \A j \in 1..Len(q) : q[j] \in S
    OBVIOUS
<1>1. p \in Seq(S) /\ Len(p) = i - 1 /\ \A j \in 1..(i - 1) : p[j] = q[j]
    <2>1. /\ SubSeq(q, 1, i - 1) \in Seq(S)
          /\ Len(SubSeq(q, 1, i - 1)) = IF 1 <= i - 1 THEN (i - 1) - 1 + 1 ELSE 0
          /\ \A j \in 1..((i - 1) - 1 + 1) : SubSeq(q, 1, i - 1)[j] = q[1 + j - 1]
        BY <1>0, SubSeqProperties
    <2> QED BY <2>1
<1>2. t \in Seq(S) /\ Len(t) = Len(q) - i /\ \A j \in 1..(Len(q) - i) : t[j] = q[i + j]
    <2>1. /\ SubSeq(q, i + 1, Len(q)) \in Seq(S)
          /\ Len(SubSeq(q, i + 1, Len(q))) = IF i + 1 <= Len(q) THEN Len(q) - (i + 1) + 1 ELSE 0
          /\ \A j \in 1..(Len(q) - (i + 1) + 1) :
                SubSeq(q, i + 1, Len(q))[j] = q[(i + 1) + j - 1]
        BY <1>0, SubSeqProperties
    <2>2. \A j \in 1..(Len(q) - i) : (i + 1) + j - 1 = i + j /\ j \in 1..(Len(q) - (i + 1) + 1)
        BY <1>0
    <2> QED BY <1>0, <2>1, <2>2
<1>r. r = p \o t
    BY DEF RemoveAt
<1> HIDE DEF p, t, r
<1>3. /\ r \in Seq(S) /\ Len(r) = Len(q) - 1
      /\ \A j \in 1..Len(r) : r[j] = IF j < i THEN q[j] ELSE q[j + 1]
    <2>1. /\ r \in Seq(S) /\ Len(r) = Len(p) + Len(t)
          /\ \A j \in 1..(Len(p) + Len(t)) : r[j] = IF j <= Len(p) THEN p[j] ELSE t[j - Len(p)]
        BY <1>1, <1>2, <1>r, ConcatProperties
    <2>2. Len(r) = Len(q) - 1
        BY <1>0, <1>1, <1>2, <2>1
    <2>3. ASSUME NEW j \in 1..Len(r) PROVE r[j] = IF j < i THEN q[j] ELSE q[j + 1]
        <3>1. CASE j < i
            BY <1>0, <1>1, <1>2, <2>1, <2>2, <3>1
        <3>2. CASE ~ (j < i)
            <4>1. r[j] = t[j - (i - 1)] /\ j - (i - 1) \in 1..(Len(q) - i)
                BY <1>0, <1>1, <1>2, <2>1, <2>2, <3>2
            <4>2. t[j - (i - 1)] = q[i + (j - (i - 1))]
                BY <1>2, <4>1
            <4>3. i + (j - (i - 1)) = j + 1
                BY <2>2
            <4> QED BY <3>2, <4>1, <4>2, <4>3
        <3> QED BY <3>1, <3>2
    <2> QED BY <2>1, <2>2, <2>3
<1>4. IsInjective(r)
    <2>1. \A a, b \in 1..Len(q) : q[a] = q[b] => a = b
        BY DEF IsInjective
    <2>2. ASSUME NEW a \in 1..Len(r), NEW b \in 1..Len(r), r[a] = r[b] PROVE a = b
        <3> DEFINE x == IF a < i THEN a ELSE a + 1
                   y == IF b < i THEN b ELSE b + 1
        <3>1. x \in 1..Len(q) /\ y \in 1..Len(q)
            BY <1>0, <1>3
        <3>2. r[a] = q[x] /\ r[b] = q[y]
            BY <1>3
        <3>3. x = y
            BY <2>1, <2>2, <3>1, <3>2
        <3> QED BY <3>3
    <2>3. DOMAIN r = 1..Len(r)
        BY <1>3
    <2> QED BY <2>2, <2>3 DEF IsInjective
<1>5. ToSet(r) = ToSet(q) \ {q[i]}
    <2>0. DOMAIN r = 1..Len(r) /\ DOMAIN q = 1..Len(q)
        BY <1>3
    <2>1. ASSUME NEW j \in 1..Len(r) PROVE r[j] \in ToSet(q) /\ r[j] # q[i]
        <3> DEFINE x == IF j < i THEN j ELSE j + 1
        <3>1. x \in 1..Len(q) /\ x # i
            BY <1>0, <1>3
        <3>2. r[j] = q[x]
            BY <1>3
        <3> QED BY <2>0, <3>1, <3>2 DEF ToSet, IsInjective
    <2>2. ASSUME NEW j \in 1..Len(q), j # i PROVE \E k \in 1..Len(r) : r[k] = q[j]
        <3>1. CASE j < i
            BY <1>0, <1>3, <3>1
        <3>2. CASE j > i
            <4>1. j - 1 \in 1..Len(r) /\ ~ (j - 1 < i) /\ (j - 1) + 1 = j
                BY <1>0, <1>3, <3>2
            <4> QED BY <1>3, <4>1
        <3> QED BY <2>2, <3>1, <3>2
    <2>3. ASSUME NEW e \in ToSet(r) PROVE e \in ToSet(q) \ {q[i]}
        BY <2>0, <2>1 DEF ToSet
    <2>4. ASSUME NEW e \in ToSet(q), e # q[i] PROVE e \in ToSet(r)
        <3>1. PICK j \in 1..Len(q) : e = q[j]
            BY <2>0 DEF ToSet
        <3>2. PICK k \in 1..Len(r) : r[k] = q[j]
            BY <2>2, <2>4, <3>1
        <3> QED BY <2>0, <3>1, <3>2 DEF ToSet
    <2> QED BY <2>3, <2>4
<1> QED BY <1>3, <1>4, <1>5 DEF r

LEMMA Removed ==
    ASSUME NEW S, NEW q \in Seq(S), IsInjective(q), NEW e
    PROVE  /\ RemoveFirst(q, e) \in Seq(S) /\ IsInjective(RemoveFirst(q, e))
           /\ ToSet(RemoveFirst(q, e)) = ToSet(q) \ {e}
<1>1. CASE \E i \in 1..Len(q) : q[i] = e
    <2>1. PICK i \in 1..Len(q) : q[i] = e
        BY <1>1
    <2>2. RemoveFirst(q, e) = RemoveAt(q, i)
        BY <2>1, RemovedAt
    <2> QED BY <2>1, <2>2, RemovedFrom
<1>2. CASE ~ \E i \in 1..Len(q) : q[i] = e
    <2>1. RemoveFirst(q, e) = q
        BY <1>2 DEF RemoveFirst
    <2>2. e \notin ToSet(q)
        BY <1>2 DEF ToSet
    <2> QED BY <2>1, <2>2
<1> QED BY <1>1, <1>2

(* A list that grows by an element that is not in it, or loses its first.  *)
LEMMA Appended ==
    ASSUME NEW S, NEW q \in Seq(S), IsInjective(q), NEW e \in S, e \notin ToSet(q)
    PROVE  /\ Append(q, e) \in Seq(S) /\ IsInjective(Append(q, e))
           /\ ToSet(Append(q, e)) = ToSet(q) \union {e}
<1> DEFINE r == Append(q, e)
<1>1. /\ r \in Seq(S) /\ Len(r) = Len(q) + 1 /\ r[Len(q) + 1] = e /\ Len(q) \in Nat
      /\ \A j \in 1..Len(q) : r[j] = q[j]
    OBVIOUS
<1>2. DOMAIN r = 1..(Len(q) + 1) /\ DOMAIN q = 1..Len(q)
    BY <1>1
<1> HIDE DEF r
<1>3. \A j \in 1..Len(q) : q[j] # e
    BY <1>2 DEF ToSet
<1>4. \A a, b \in 1..Len(q) : q[a] = q[b] => a = b
    BY <1>2 DEF IsInjective
<1>5. ASSUME NEW a \in 1..(Len(q) + 1), NEW b \in 1..(Len(q) + 1), r[a] = r[b] PROVE a = b
    <2>1. CASE a \in 1..Len(q) /\ b \in 1..Len(q)
        BY <1>1, <1>4, <1>5, <2>1
    <2>2. CASE a = Len(q) + 1 /\ b \in 1..Len(q)
        BY <1>1, <1>3, <1>5, <2>2
    <2>3. CASE a \in 1..Len(q) /\ b = Len(q) + 1
        BY <1>1, <1>3, <1>5, <2>3
    <2> QED BY <1>1, <2>1, <2>2, <2>3
<1>6. ToSet(r) = ToSet(q) \union {e}
    <2>1. \A x \in ToSet(r) : x \in ToSet(q) \union {e}
        BY <1>1, <1>2 DEF ToSet
    <2>2. \A x \in ToSet(q) : x \in ToSet(r)
        BY <1>1, <1>2 DEF ToSet
    <2>3. e \in ToSet(r)
        BY <1>1, <1>2 DEF ToSet
    <2> QED BY <2>1, <2>2, <2>3
<1> QED BY <1>1, <1>2, <1>5, <1>6 DEF r, IsInjective

LEMMA Shortened ==
    ASSUME NEW S, NEW q \in Seq(S), IsInjective(q), q # <<>>
    PROVE  Tail(q) \in Seq(S) /\ IsInjective(Tail(q)) /\ ToSet(Tail(q)) \subseteq ToSet(q)
<1> DEFINE r == Tail(q)
<1>1. r \in Seq(S) /\ Len(r) = Len(q) - 1 /\ \A j \in 1..Len(r) : r[j] = q[j + 1]
    BY HeadTailProperties
<1>2. DOMAIN r = 1..Len(r) /\ DOMAIN q = 1..Len(q) /\ Len(q) \in Nat
    BY <1>1
<1> HIDE DEF r
<1>3. \A j \in 1..Len(r) : j + 1 \in 1..Len(q)
    BY <1>1, <1>2
<1>4. ASSUME NEW a \in 1..Len(r), NEW b \in 1..Len(r), r[a] = r[b] PROVE a = b
    <2>1. q[a + 1] = q[b + 1] /\ a + 1 \in 1..Len(q) /\ b + 1 \in 1..Len(q)
        BY <1>1, <1>3, <1>4
    <2>2. a + 1 = b + 1
        BY <1>2, <2>1 DEF IsInjective
    <2> QED BY <2>2
<1>5. \A x \in ToSet(r) : x \in ToSet(q)
    BY <1>1, <1>2, <1>3 DEF ToSet
<1> QED BY <1>1, <1>2, <1>4, <1>5 DEF r, IsInjective

------------------------------------------------------------------------------
(* The slots that are taken are listed once at most, and only they.        *)
Ages == young \in Seq(Slots) /\ IsInjective(young) /\ ToSet(young) \subseteq thrFlag

LEMMA NoAges == <<>> \in Seq(Slots) /\ IsInjective(<<>>) /\ ToSet(<<>>) = {}
BY DEF IsInjective, ToSet

LEMMA AgesStep == ASSUME TypeOK, [Next]_vars PROVE Ages'
<1>0. Ages /\ thrFlag \subseteq Slots /\ cli_thread \in Slots /\ thr \in [Threads -> ThreadRecords]
    BY DEF TypeOK, Ages
<1>a. ASSUME young' = young, thrFlag' = thrFlag PROVE Ages'
    BY <1>0, <1>a DEF Ages
<1>b. ASSUME NEW s, young' = RemoveFirst(young, s), thrFlag' = thrFlag \ {s} PROVE Ages'
    <2>1. /\ RemoveFirst(young, s) \in Seq(Slots) /\ IsInjective(RemoveFirst(young, s))
          /\ ToSet(RemoveFirst(young, s)) = ToSet(young) \ {s}
        BY <1>0, Removed DEF Ages
    <2> QED BY <1>0, <1>b, <2>1 DEF Ages
<1>1. CASE TakeSlot
    <2>1. PICK s \in Slots \ thrFlag : /\ thrFlag' = thrFlag \union {s}
                                      /\ young' = Append(RemoveFirst(young, s), s)
        BY <1>1 DEF TakeSlot, Lowest
    <2> DEFINE q == RemoveFirst(young, s)
    <2>2. q \in Seq(Slots) /\ IsInjective(q) /\ ToSet(q) = ToSet(young) \ {s}
        BY <1>0, Removed DEF Ages
    <2> HIDE DEF q
    <2>3. /\ Append(q, s) \in Seq(Slots) /\ IsInjective(Append(q, s))
          /\ ToSet(Append(q, s)) = ToSet(q) \union {s}
        BY <2>2, Appended
    <2> QED BY <1>0, <2>1, <2>2, <2>3 DEF Ages, q
<1>2. CASE CreateFails
    BY <1>2, <1>b DEF CreateFails
<1>3. ASSUME NEW t \in Threads, FreeSlot(t) PROVE Ages'
    BY <1>3, <1>b DEF FreeSlot
<1>4. CASE ForkedAgain
    BY <1>4, NoAges DEF ForkedAgain, Ages
<1>5. CASE Age
    <2>1. young # <<>> /\ young' = Tail(young) /\ thrFlag' = thrFlag
        BY <1>5 DEF Age
    <2>2. /\ Tail(young) \in Seq(Slots) /\ IsInjective(Tail(young))
          /\ ToSet(Tail(young)) \subseteq ToSet(young)
        BY <1>0, <2>1, Shortened DEF Ages
    <2> QED BY <1>0, <2>1, <2>2 DEF Ages
<1>6. CASE Clear \/ Accept \/ AcceptFails \/ CreateThread
    BY <1>6, <1>a DEF Clear, Accept, AcceptFails, CreateThread, slotVars
<1>7. ASSUME NEW t \in Threads,
             ReadArg(t) \/ ReadSocket(t) \/ ServeManager(t) \/ CloseSocket(t)
      PROVE  Ages'
    BY <1>7, <1>a DEF ReadArg, ReadSocket, ServeManager, CloseSocket, slotVars
<1>8. CASE HangCheck
    BY <1>8, <1>a DEF HangCheck, slotVars
<1>9. CASE WaitForSessions
    BY <1>9, <1>a, <1>4 DEF WaitForSessions, slotVars
<1>10. CASE UNCHANGED vars
    BY <1>10, <1>a DEF vars, slotVars
<1> QED BY <1>1, <1>2, <1>3, <1>4, <1>5, <1>6, <1>7, <1>8, <1>9, <1>10
        DEF Next, AcceptLoop, PoolFull, Session, ThreadLoop

(* Where the accept loop and the hang check are.                           *)
LoopTypes ==
    /\ manager \subseteq Slots
    /\ apc \in {"clear", "accept", "slot", "create", "hang"}
    /\ ForkHangFlag \in BOOLEAN /\ late \in BOOLEAN
    /\ hpc \in {"sleep", "wait"} /\ loops \in 0..MaxLoops

LEMMA LoopTypesStep == ASSUME TypeOK, [Next]_vars PROVE LoopTypes'
<1> USE DEF slotVars, loopVars, hangVars
<1>0. /\ LoopTypes /\ cli_thread \in Slots /\ thr \in [Threads -> ThreadRecords]
      /\ MaxLoops \in Nat
    BY PoolAssumption DEF TypeOK, LoopTypes
<1>1. CASE Clear \/ Accept \/ AcceptFails \/ CreateThread \/ CreateFails
    BY <1>0, <1>1 DEF LoopTypes, Clear, Accept, AcceptFails, CreateThread, CreateFails
<1>2. CASE TakeSlot
    BY <1>0, <1>2 DEF LoopTypes, TakeSlot
<1>3. CASE ForkedAgain
    <2>1. /\ manager' = {} /\ apc' = "clear" /\ ForkHangFlag' = FALSE /\ late' = FALSE
          /\ hpc' = "sleep" /\ loops' = 0
        BY <1>3 DEF ForkedAgain
    <2>2. 0 \in 0..MaxLoops
        BY <1>0
    <2> QED BY <2>1, <2>2 DEF LoopTypes
<1>4. ASSUME NEW t \in Threads, Session(t) PROVE LoopTypes'
    <2>1. thr[t].num \in Slots
        BY <1>0 DEF ThreadRecords
    <2>2. manager' \subseteq Slots
        BY <1>0, <1>4, <2>1
           DEF LoopTypes, Session, ReadArg, ReadSocket, ServeManager, CloseSocket, FreeSlot
    <2>3. UNCHANGED <<apc, ForkHangFlag, late, hpc, loops>>
        BY <1>4 DEF Session, ReadArg, ReadSocket, ServeManager, CloseSocket, FreeSlot
    <2> QED BY <1>0, <2>2, <2>3 DEF LoopTypes
<1>5. CASE Age
    BY <1>0, <1>5 DEF LoopTypes, Age
<1>6. CASE HangCheck
    BY <1>0, <1>6 DEF LoopTypes, HangCheck
<1>7. CASE WaitForSessions
    BY <1>0, <1>3, <1>7 DEF LoopTypes, WaitForSessions
<1>8. CASE UNCHANGED vars
    BY <1>0, <1>8 DEF LoopTypes, vars
<1> QED BY <1>1, <1>2, <1>3, <1>4, <1>5, <1>6, <1>7, <1>8
        DEF Next, AcceptLoop, PoolFull, ThreadLoop

(* The values of the variables, with threads that read their slot late     *)
(* too: slots are listed by age once each, and only those that are taken   *)
(* (thrTimer, fpcif_ThreadHangCheck).                                      *)
THEOREM PoolTypeCorrect == Spec => []TypeOK
<1>1. TypeOK <=> PoolTypes /\ Ages /\ LoopTypes
    BY DEF TypeOK, PoolTypes, Ages, LoopTypes
<1>2. Init => TypeOK
    <2> SUFFICES ASSUME Init PROVE TypeOK
        OBVIOUS
    <2>1. PoolTypes
        BY PoolInit DEF PoolInv
    <2>2. Ages
        BY NoAges DEF Init, Ages
    <2>3. LoopTypes
        <3>1. 0 \in 0..MaxLoops
            BY PoolAssumption
        <3> QED BY <3>1 DEF Init, LoopTypes
    <2> QED BY <1>1, <2>1, <2>2, <2>3
<1>3. TypeOK /\ [Next]_vars => TypeOK'
    <2> SUFFICES ASSUME TypeOK, [Next]_vars PROVE TypeOK'
        OBVIOUS
    <2>1. PoolTypes' /\ Ages' /\ LoopTypes'
        BY <1>1, PoolTypeStep, AgesStep, LoopTypesStep
    <2>2. /\ thrFlag' \subseteq Slots /\ cli_sock' \in [Slots -> Fds \union {NoFd}]
          /\ cli_thread' \in Slots /\ fds' \subseteq Fds /\ asock' \in Fds \union {NoFd}
          /\ thr' \in [Threads -> ThreadRecords]
        BY <2>1 DEF PoolTypes
    <2>3. young' \in Seq(Slots) /\ IsInjective(young') /\ ToSet(young') \subseteq thrFlag'
        BY <2>1 DEF Ages
    <2>4. /\ manager' \subseteq Slots /\ apc' \in {"clear", "accept", "slot", "create", "hang"}
          /\ ForkHangFlag' \in BOOLEAN /\ late' \in BOOLEAN
          /\ hpc' \in {"sleep", "wait"} /\ loops' \in 0..MaxLoops
        BY <2>1 DEF LoopTypes
    <2> QED BY <2>2, <2>3, <2>4 DEF TypeOK
<1> QED BY <1>2, <1>3, PTL DEF Spec
==============================================================================
