----------------------------- MODULE DbLog_proofs -----------------------------
(***************************************************************************)
(* dap_dblog with a database that takes every row: until somebody takes an *)
(* index between its two stores, a stop saves all that waits in the ring,  *)
(* from the oldest record on, and rows appear in the order their records   *)
(* were received, none twice, for every size of the ring and any number of *)
(* stops and kills.                                                        *)
(***************************************************************************)
EXTENDS DbLog, SQueue_proofs

EndPcs   == {"stop", "save", "exit"}
StartPcs == {"down", "loadq", "wrapq"}
PuttingPcs == {"put", "fill", "load", "store"}

(* Records between g_nFront and g_nRear, and the ones g_nFront is past.    *)
InQueue == IF Oldest <= Vacant THEN Vacant - Oldest ELSE Vacant - Oldest + Qnum
Passed  == Len(kept) - InQueue

(* An index is beyond the array only between its two stores, or when a     *)
(* signal has come between them and nothing is saved yet.                  *)
LogTypes ==
    /\ data \in [Cells -> Nat]
    /\ rear \in 0..Qnum /\ front \in 0..Qnum /\ tmp \in 0..Qsize
    /\ pc["main"] \notin {"wrap", "stop"} => front \in 0..Qsize
    /\ \/ rear \in 0..Qsize
       \/ pc["recv"] \in {"loadwrap", "storewrap"}
       \/ pc["recv"] = "off" /\ pc["main"] \in {"wrapq", "stop"}
    /\ pc \in [Threads -> RecvPcs \cup {"off"} \cup TakePcs \cup EndPcs \cup StartPcs]
    /\ pc["recv"] \in RecvPcs \cup {"off"}
    /\ pc["main"] \in TakePcs \cup EndPcs \cup StartPcs
    /\ rec \in [Threads -> Nat] /\ val \in [Threads -> 0..Qnum]
    /\ nrec \in Nat /\ kept \in Seq(Nat) /\ out \in Seq(Nat)
    /\ db \in Seq(Nat) /\ file \in Seq(Nat) /\ cfront \in Nat /\ crear \in Nat
    /\ owed \in Nat
    /\ refused = 0 /\ crashes \in Nat /\ stops \in Nat

(* The records in the ring lie in their order from g_nFront to g_nRear.    *)
RingHolds ==
    /\ InQueue <= Len(kept)
    /\ \A k \in 0..(InQueue - 1) : data[Place(Oldest, k)] = kept[Passed + k + 1]

(* A put that found room still has it, and the record stays in its slot.   *)
ReceiverPutting ==
    /\ pc["main"] \in StartPcs => pc["recv"] = "off"
    /\ pc["recv"] \in PuttingPcs => rec["recv"] = nrec /\ nrec > 0
    /\ pc["recv"] \in {"fill", "load", "store"} => InQueue < Qsize
    /\ pc["recv"] \in {"load", "store"} => data[rear] = rec["recv"]
    /\ pc["recv"] = "store" => val["recv"] = rear + 1
    /\ pc["recv"] = "storewrap" => val["recv"] = Vacant

(* Where a get stands; a signal may have come in the middle of one.        *)
MainGetting ==
    /\ pc["main"] \in {"get", "advance", "got"} => Passed = Len(out)
    /\ pc["main"] = "advance" => tmp = front /\ InQueue > 0
    /\ pc["main"] \in {"wrap", "take"} => /\ Passed = Len(out) + 1 /\ Oldest = Succ(tmp)
                                         /\ data[tmp] = kept[Len(out) + 1]
    /\ pc["main"] = "got" => Len(out) > 0 /\ rec["main"] = kept[Len(out)]
    /\ pc["main"] \in EndPcs => Passed \in {Len(out), Len(out) + 1}
    /\ pc["main"] \in StartPcs => Passed = 0 /\ out = <<>>

(* What a stop has saved, and will save, is there from g_nFront on.        *)
Saving ==
    /\ pc["main"] \in {"save", "exit"} =>
           /\ Passed + Len(file) <= owed /\ owed <= Len(kept)
           /\ \A j \in 1..Len(file) : file[j] = kept[Passed + j]
    /\ pc["main"] = "save" =>
           cfront = Place(Oldest, Len(file)) /\ crear = Place(Oldest, owed - Passed)
    /\ pc["main"] = "exit" => Passed + Len(file) = owed

SaveInv == LogTypes /\ RingHolds /\ ReceiverPutting /\ MainGetting /\ Saving

(* The row inserted last.                                                  *)
LastRow == IF db = <<>> THEN 0 ELSE db[Len(db)]

(* What waits in the ring, or was taken and not inserted, is newer than    *)
(* every row, and in order.                                                *)
RingOrder ==
    /\ LastRow <= nrec
    /\ \A k \in 1..Len(kept) : kept[k] > 0 /\ kept[k] <= nrec
    /\ \A j, k \in 1..Len(kept) : j < k => kept[j] < kept[k]
    /\ pc["recv"] \in PuttingPcs => LastRow < nrec /\ \A k \in 1..Len(kept) : kept[k] < nrec
    /\ \A k \in 1..Len(kept) : k > Len(out) => LastRow < kept[k]
    /\ pc["main"] = "got" => LastRow < rec["main"]

(* So is what was saved.                                                   *)
FileOrder ==
    /\ \A j \in 1..Len(file) : LastRow < file[j] /\ file[j] <= nrec
    /\ \A j, k \in 1..Len(file) : j < k => file[j] < file[k]
    /\ pc["main"] \in TakePcs => file = <<>>
    /\ pc["main"] = "down" => cfront = 0 /\ kept = <<>>
    /\ pc["main"] \in {"loadq", "wrapq"} =>
           /\ cfront <= Len(file)
           /\ \A k \in 1..Len(kept), j \in 1..Len(file) : j > cfront => kept[k] < file[j]

RowsInv == SaveInv /\ RingOrder /\ FileOrder

------------------------------------------------------------------------------
(* Where the ring stands, unless a thread has been misled.                 *)
LEMMA QueueFacts ==
    ASSUME LogTypes
    PROVE  /\ InQueue \in 0..Qsize /\ Vacant = Place(Oldest, InQueue)
           /\ Oldest \in 0..Qsize /\ Vacant \in 0..Qsize
<1>1. Oldest \in 0..Qsize /\ Vacant \in 0..Qsize
    BY Wraps DEF LogTypes, Oldest, Vacant
<1> HIDE DEF Oldest, Vacant
<1> QED BY <1>1, QueueAssumption, SMT DEF InQueue, Place, Qnum

(* An index that is not between its stores.                                *)
LEMMA Whole == ASSUME LogTypes
    PROVE  /\ rear \in 0..Qsize => Vacant = rear
           /\ front \in 0..Qsize => Oldest = front
           /\ pc["recv"] \in {"recv", "put", "fill", "load", "store"} => rear \in 0..Qsize
BY OneFurther DEF LogTypes, Oldest, Vacant

LEMMA RearIsApart ==
    ASSUME LogTypes, rear \in 0..Qsize, NEW k \in 0..Qsize, k # InQueue
    PROVE  Place(Oldest, k) # rear
<1>1. /\ rear = Place(Oldest, InQueue) /\ Oldest \in 0..Qsize /\ InQueue \in 0..Qsize
    BY QueueFacts, Whole
<1> QED BY <1>1, SlotsDiffer

(* How many wait, from where they lie.                                     *)
LEMMA Between ==
    ASSUME NEW f \in 0..Qsize, NEW n \in 0..Qsize
    PROVE  (IF f <= Place(f, n) THEN Place(f, n) - f ELSE Place(f, n) - f + Qnum) = n
BY QueueAssumption, SMT DEF Place, Qnum

LEMMA QueueGrows ==
    ASSUME LogTypes, rear \in 0..Qsize, InQueue < Qsize, rear' = rear + 1, front' = front
    PROVE  InQueue' = InQueue + 1 /\ Oldest' = Oldest
<1>1. /\ Oldest \in 0..Qsize /\ InQueue \in 0..Qsize /\ InQueue + 1 \in 0..Qsize
      /\ Vacant = Place(Oldest, InQueue)
    BY QueueFacts, QueueAssumption
<1>2. Oldest' = Oldest
    BY DEF Oldest, Wrapped
<1>3. Vacant' = Succ(rear) /\ Vacant = rear
    BY OneFurther DEF Vacant, Wrapped
<1>4. Vacant' = Place(Oldest', InQueue + 1)
    BY <1>1, <1>2, <1>3, SlotsDiffer
<1> HIDE DEF Oldest, Vacant
<1>5. InQueue' = IF Oldest' <= Vacant' THEN Vacant' - Oldest' ELSE Vacant' - Oldest' + Qnum
    BY DEF InQueue, Qnum
<1>6. InQueue' = InQueue + 1
    <2> HIDE DEF InQueue, Qnum, Place
    <2> QED BY <1>1, <1>2, <1>4, <1>5, Between
<1> QED BY <1>2, <1>6

LEMMA QueueShrinks ==
    ASSUME LogTypes, front \in 0..Qsize, InQueue > 0, front' = front + 1, rear' = rear
    PROVE  InQueue' = InQueue - 1 /\ Oldest' = Succ(front)
<1>1. /\ Oldest \in 0..Qsize /\ InQueue \in 0..Qsize
      /\ Vacant = Place(Oldest, InQueue)
    BY QueueFacts
<1>2. Oldest' = Succ(front) /\ Oldest = front /\ Vacant' = Vacant
    BY OneFurther DEF Oldest, Vacant, Wrapped
<1>3. Vacant \in 0..Qsize
    BY QueueFacts
<1> HIDE DEF Oldest, Vacant
<1> QED BY <1>1, <1>2, <1>3, QueueAssumption, SMT DEF InQueue, Place, Succ, Qnum

(* The second store of an index changes nothing of the ring.               *)
LEMMA QueueWraps ==
    ASSUME LogTypes, \/ rear' = Vacant /\ front' = front
                     \/ rear' = rear /\ front' = Oldest
    PROVE  /\ InQueue' = InQueue /\ Oldest' = Oldest /\ Vacant' = Vacant
<1>1. Wrapped(Oldest) = Oldest /\ Wrapped(Vacant) = Vacant
    BY Wraps DEF LogTypes, Oldest, Vacant
<1>2. Oldest' = Oldest /\ Vacant' = Vacant
    BY <1>1 DEF Oldest, Vacant, Wrapped
<1> HIDE DEF Oldest, Vacant
<1> QED BY <1>2 DEF InQueue

LEMMA QueueStays ==
    ASSUME rear' = rear, front' = front
    PROVE  InQueue' = InQueue /\ Oldest' = Oldest /\ Vacant' = Vacant
           /\ (kept' = kept => Passed' = Passed)
BY DEF InQueue, Passed, Oldest, Vacant, Wrapped

(* A put or a get that is not misled has room, or a record.                *)
LEMMA HasRoom ==
    ASSUME LogTypes, ~misled,
           \/ PutCheck("recv") /\ ~misled'
           \/ ~IsFull /\ rear \in 0..Qsize /\ front \in 0..Qsize
    PROVE  InQueue < Qsize
<1>1. /\ rear \in 0..Qsize /\ front # Succ(rear) /\ ~(front = Qnum /\ rear + 1 = Qnum)
    <2>1. CASE PutCheck("recv") /\ ~misled'
        BY <2>1, Whole, OneFurther DEF PutCheck, IsFull
    <2>2. CASE ~IsFull /\ rear \in 0..Qsize /\ front \in 0..Qsize
        BY <2>2, OneFurther, QueueAssumption DEF IsFull, Qnum
    <2> QED BY <2>1, <2>2
<1>2. Vacant = rear /\ Oldest = IF front = Qnum THEN 0 ELSE front
    BY <1>1, OneFurther DEF Vacant, Oldest, Wrapped
<1>3. Oldest # Succ(Vacant) <=> InQueue < Qsize
    BY QueueFacts, Apart
<1>4. Succ(rear) = 0 <=> rear + 1 = Qnum
    BY <1>1 DEF Succ
<1> HIDE DEF Oldest, Vacant, InQueue, Succ
<1> QED BY <1>1, <1>2, <1>3, <1>4

LEMMA HasRecord ==
    ASSUME LogTypes, GetCheck, ~misled, ~misled'
    PROVE  InQueue > 0
<1>1. /\ front \in 0..Qsize /\ front # rear /\ ~(rear = Qnum /\ front = 0)
    BY DEF LogTypes, GetCheck, IsEmpty
<1>2. Oldest = front /\ Vacant = IF rear = Qnum THEN 0 ELSE rear
    BY <1>1, OneFurther DEF Vacant, Oldest, Wrapped
<1>3. Oldest # Vacant <=> InQueue > 0
    BY QueueFacts, Apart
<1> HIDE DEF Oldest, Vacant, InQueue
<1> QED BY <1>1, <1>2, <1>3

LEMMA GotoFacts ==
    ASSUME LogTypes, NEW t \in Threads, NEW to, Goto(t, to)
    PROVE  pc'[t] = to /\ \A u \in Threads : u # t => pc'[u] = pc[u]
BY DEF LogTypes, Goto

LEMMA LogInit == DbLogInit => SaveInv /\ ~misled
<1> SUFFICES ASSUME DbLogInit PROVE SaveInv /\ ~misled
    OBVIOUS
<1>1. Init /\ QueueInv
    BY QueueInit DEF DbLogInit
<1>2. /\ rear = 0 /\ front = 0 /\ tmp = 0 /\ nrec = 0 /\ kept = <<>> /\ out = <<>>
      /\ pc["recv"] = "recv" /\ pc["main"] = "get" /\ Len(kept) = 0 /\ Len(out) = 0
      /\ db = <<>> /\ file = <<>> /\ cfront = 0 /\ crear = 0 /\ owed = 0
      /\ stops = 0 /\ crashes = 0 /\ refused = 0 /\ misled = FALSE
    BY <1>1 DEF Init, DbLogInit, Threads
<1>3. /\ pc \in [Threads -> RecvPcs \cup {"off"} \cup TakePcs \cup EndPcs \cup StartPcs]
      /\ data \in [Cells -> Nat] /\ rec \in [Threads -> Nat] /\ val \in [Threads -> 0..Qnum]
    BY <1>1 DEF QueueInv, Types
<1>4. kept \in Seq(Nat) /\ out \in Seq(Nat) /\ db \in Seq(Nat) /\ file \in Seq(Nat)
    BY <1>2
<1>5. LogTypes
    <2>1. 0 \in 0..Qnum /\ 0 \in 0..Qsize /\ 0 \in Nat
        BY QueueAssumption DEF Qnum
    <2>2. pc["recv"] \in RecvPcs \cup {"off"} /\ pc["main"] \in TakePcs \cup EndPcs \cup StartPcs
        BY <1>2 DEF RecvPcs, TakePcs
    <2> QED BY <1>2, <1>3, <1>4, <2>1, <2>2, Zenon DEF LogTypes
<1>6. InQueue = 0 /\ Passed = 0
    <2>1. Wrapped(0) = 0
        BY QueueAssumption DEF Wrapped, Qnum
    <2>2. Oldest = 0 /\ Vacant = 0
        BY <1>2, <2>1, Zenon DEF Oldest, Vacant
    <2> HIDE DEF Oldest, Vacant
    <2>3. InQueue = 0
        BY <2>2 DEF InQueue
    <2> HIDE DEF InQueue
    <2>4. Passed = 0 - 0
        BY <1>2, <2>3, Zenon DEF Passed
    <2> QED BY <2>3, <2>4
<1>7. RingHolds /\ ReceiverPutting /\ MainGetting /\ Saving
    <2> HIDE DEF InQueue, Passed
    <2>1. RingHolds
        BY <1>2, <1>6 DEF RingHolds
    <2> QED BY <1>2, <1>6, <2>1
            DEF ReceiverPutting, MainGetting, Saving, StartPcs, EndPcs, PuttingPcs
<1> QED BY <1>2, <1>5, <1>7 DEF SaveInv

(* The steps of the receiver thread.                                       *)
LEMMA ReceiverTypes ==
    ASSUME SaveInv, ReceiveUnlessStopped \/ ReceiverPuts \/ ReceiverQuits
    PROVE  LogTypes'
<1> USE QueueAssumption DEF LogTypes
<1>0. LogTypes /\ Qsize \in Nat /\ Qnum = Qsize + 1
    BY DEF SaveInv, Qnum
<1>a. UNCHANGED <<db, file, cfront, crear, owed, refused, crashes, stops, front, tmp, out>>
    BY DEF ReceiveUnlessStopped, ReceiverPuts, ReceiverQuits, ReceiverStep, Receive, Put,
           PutCheck, PutFill, PutLoad, PutStore, ReceiverFindsFull, logVars, saveVars, faults,
           ring, history
<1>1. CASE ReceiveUnlessStopped
    <2>1. /\ rec' = [rec EXCEPT !["recv"] = nrec + 1] /\ nrec' = nrec + 1 /\ pc["recv"] = "recv"
          /\ pc' = [pc EXCEPT !["recv"] = "put"] /\ UNCHANGED <<data, rear, val, kept>>
        BY <1>1 DEF ReceiveUnlessStopped, Receive, Goto, ring, history
    <2> QED BY <1>0, <1>a, <2>1 DEF Threads, RecvPcs
<1>2. CASE ReceiverQuits
    <2>1. /\ pc' = [pc EXCEPT !["recv"] = "off"] /\ UNCHANGED <<data, rear, val, kept, rec, nrec>>
          /\ pc["recv"] = "recv"
        BY <1>2 DEF ReceiverQuits, Goto, ring, history, receiver
    <2> QED BY <1>0, <1>a, <2>1 DEF Threads
<1>3. CASE ReceiverFindsFull
    <2>1. /\ pc' = [pc EXCEPT !["recv"] = IF tries < Retry THEN "put" ELSE "recv"]
          /\ UNCHANGED <<data, rear, val, kept, rec, nrec>> /\ pc["recv"] = "put"
        BY <1>3 DEF ReceiverFindsFull, Goto, ring, history
    <2> QED BY <1>0, <1>a, <2>1 DEF Threads, RecvPcs
<1>4. CASE PutCheck("recv")
    <2>1. /\ pc' = [pc EXCEPT !["recv"] = "fill"] /\ UNCHANGED <<data, rear, val, kept, rec, nrec>>
          /\ pc["recv"] = "put"
        BY <1>4 DEF PutCheck, Goto, ring, receiver
    <2> QED BY <1>0, <1>a, <2>1 DEF Threads, RecvPcs
<1>5. CASE PutFill("recv")
    <2>1. /\ pc' = [pc EXCEPT !["recv"] = "load"] /\ UNCHANGED <<rear, val, kept, rec, nrec>>
          /\ data' = [data EXCEPT ![rear] = rec["recv"]] /\ pc["recv"] = "fill"
        BY <1>5 DEF PutFill, Goto, history, receiver
    <2>2. data' \in [Cells -> Nat]
        BY <1>0, <2>1 DEF Threads
    <2> QED BY <1>0, <1>a, <2>1, <2>2 DEF Threads, RecvPcs
<1>6. CASE PutLoad("recv")
    <2>1. /\ val' = [val EXCEPT !["recv"] = Stepped(rear, pc["recv"] = "loadwrap")]
          /\ pc["recv"] \in {"load", "loadwrap"}
          /\ pc' = [pc EXCEPT !["recv"] = IF pc["recv"] = "load" THEN "store" ELSE "storewrap"]
          /\ UNCHANGED <<data, rear, kept, rec, nrec>>
        BY <1>6 DEF PutLoad, Goto, ring, history, receiver
    <2>2. Stepped(rear, pc["recv"] = "loadwrap") \in 0..Qnum
        <3>1. CASE pc["recv"] = "load"
            <4>1. rear \in 0..Qsize
                BY <1>0, <3>1
            <4> QED BY <3>1, <4>1, OneFurther DEF Stepped
        <3>2. CASE pc["recv"] = "loadwrap"
            <4>1. rear % Qnum \in 0..Qsize
                BY <1>0, Wraps
            <4> HIDE DEF Qnum
            <4> QED BY <1>0, <3>2, <4>1 DEF Stepped
        <3> QED BY <2>1, <3>1, <3>2
    <2>3. val' \in [Threads -> 0..Qnum]
        BY <1>0, <2>1, <2>2
    <2> QED BY <1>0, <1>a, <2>1, <2>3 DEF Threads, RecvPcs
<1>7. CASE PutStore("recv")
    <2>1. /\ rear' = val["recv"] /\ pc["recv"] \in {"store", "storewrap"}
          /\ kept' = IF pc["recv"] = "store" THEN Append(kept, rec["recv"]) ELSE kept
          /\ pc' = [pc EXCEPT !["recv"] = IF pc["recv"] = "store" THEN "loadwrap" ELSE "recv"]
          /\ UNCHANGED <<data, val, rec, nrec>>
        BY <1>7 DEF PutStore, Goto, AfterPut, receiver
    <2>2. kept' \in Seq(Nat)
        <3>1. kept \in Seq(Nat) /\ rec["recv"] \in Nat
            BY <1>0 DEF Threads
        <3> QED BY <2>1, <3>1
    <2>3. rear' \in 0..Qnum
        BY <1>0, <2>1 DEF Threads
    <2>4. pc["recv"] = "storewrap" => rear' \in 0..Qsize
        BY <1>0, <2>1, QueueFacts DEF SaveInv, ReceiverPutting
    <2> QED BY <1>0, <1>a, <2>1, <2>2, <2>3, <2>4 DEF Threads, RecvPcs
<1> QED BY <1>1, <1>2, <1>3, <1>4, <1>5, <1>6, <1>7 DEF ReceiverPuts, ReceiverStep, Put

(* With nothing refused the main thread never puts.                        *)
LEMMA MainNeverPuts ==
    ASSUME LogTypes, MaxRefused = 0
    PROVE  ~InsertFails /\ ~MainPuts /\ ~MainFindsFull
BY DEF LogTypes, InsertFails, MainPuts, Put, PutCheck, PutFill, PutLoad, PutStore, MainFindsFull,
       TakePcs, EndPcs, StartPcs

(* The steps of fstFromQToDBMS.                                            *)
LEMMA MainTypes ==
    ASSUME SaveInv, MainGets \/ Insert \/ UnknownType \/ Signal
    PROVE  LogTypes'
<1> USE QueueAssumption DEF LogTypes
<1>0. LogTypes /\ Qsize \in Nat /\ Qnum = Qsize + 1 /\ ReceiverPutting
    BY DEF SaveInv, Qnum
<1>a. UNCHANGED <<data, rear, val, nrec, kept, file, cfront, crear, owed, refused, crashes>>
    BY DEF MainGets, Get, GetCheck, GetAdvance, GetTake, Insert, UnknownType, Signal, logVars,
           saveVars, faults, ring, history, receiver
<1>1. CASE GetCheck /\ UNCHANGED logVars
    <2>1. /\ pc' = [pc EXCEPT !["main"] = "advance"] /\ UNCHANGED <<front, rec, out, db, stops>>
          /\ tmp' = front /\ pc["main"] = "get"
        BY <1>1 DEF GetCheck, Goto, ring, logVars, faults
    <2> QED BY <1>0, <1>a, <2>1 DEF Threads, TakePcs
<1>2. CASE GetAdvance /\ UNCHANGED logVars
    <2>1. /\ front' = Stepped(front, pc["main"] = "wrap") /\ pc["main"] \in {"advance", "wrap"}
          /\ pc' = [pc EXCEPT !["main"] = IF pc["main"] = "advance" THEN "wrap" ELSE "take"]
          /\ UNCHANGED <<tmp, rec, out, db, stops>>
        BY <1>2 DEF GetAdvance, Goto, history, logVars, faults
    <2>2. CASE pc["main"] = "advance"
        <3>1. front' \in 0..Qnum
            BY <1>0, <2>1, <2>2, OneFurther DEF Stepped
        <3> QED BY <1>0, <1>a, <2>1, <2>2, <3>1 DEF Threads, TakePcs
    <2>3. CASE pc["main"] = "wrap"
        <3>1. front' \in 0..Qsize
            BY <1>0, <2>1, <2>3, Wraps DEF Stepped
        <3> QED BY <1>0, <1>a, <2>1, <2>3, <3>1 DEF Threads, TakePcs
    <2> QED BY <2>1, <2>2, <2>3
<1>3. CASE GetTake /\ UNCHANGED logVars
    <2>1. /\ pc' = [pc EXCEPT !["main"] = "got"] /\ UNCHANGED <<front, tmp, db, stops>>
          /\ pc["main"] = "take"
          /\ \E r \in {data[tmp]} \cup {x \in {Mixed} : SharedSlot} :
                 rec' = [rec EXCEPT !["main"] = r] /\ out' = Append(out, r)
        BY <1>3 DEF GetTake, Goto, ring, logVars, faults
    <2>2. data[tmp] \in Nat /\ Mixed \in Nat
        BY <1>0 DEF Cells, Mixed
    <2>3. PICK r \in Nat : rec' = [rec EXCEPT !["main"] = r] /\ out' = Append(out, r)
        BY <2>1, <2>2
    <2>4. out' \in Seq(Nat)
        BY <1>0, <2>3
    <2>5. rec' \in [Threads -> Nat]
        BY <1>0, <2>3
    <2> QED BY <1>0, <1>a, <2>1, <2>4, <2>5 DEF Threads, TakePcs
<1>4. CASE Insert
    <2>1. /\ pc' = [pc EXCEPT !["main"] = "get"] /\ UNCHANGED <<front, tmp, rec, out, stops>>
          /\ db' = Append(db, rec["main"]) /\ pc["main"] = "got"
        BY <1>4 DEF Insert, Goto, ring, history, faults
    <2>2. rec["main"] \in Nat
        BY <1>0 DEF Threads
    <2>3. db' \in Seq(Nat)
        BY <1>0, <2>1, <2>2
    <2> QED BY <1>0, <1>a, <2>1, <2>3 DEF Threads, TakePcs
<1>5. CASE UnknownType
    <2>1. /\ pc' = [pc EXCEPT !["main"] = "get"] /\ UNCHANGED <<front, tmp, rec, out, db, stops>>
          /\ pc["main"] = "got"
        BY <1>5 DEF UnknownType, Goto, ring, history, logVars, faults
    <2> QED BY <1>0, <1>a, <2>1 DEF Threads, TakePcs
<1>6. CASE Signal
    <2>1. /\ pc' = [pc EXCEPT !["main"] = "stop"] /\ UNCHANGED <<front, tmp, rec, out, db>>
          /\ stops' = stops + 1
        BY <1>6 DEF Signal, Goto, ring, history
    <2> QED BY <1>0, <1>a, <2>1 DEF Threads, EndPcs
<1> QED BY <1>1, <1>2, <1>3, <1>4, <1>5, <1>6 DEF MainGets, Get

(* The process is gone.                                                    *)
LEMMA GoneFacts ==
    ASSUME Gone
    PROVE  /\ pc'["main"] = "down" /\ pc'["recv"] = "off"
           /\ InQueue' = 0 /\ Passed' = 0 /\ out' = <<>> /\ kept' = <<>> /\ Len(kept') = 0
           /\ cfront' = 0 /\ nrec' = nrec /\ db' = db
<1>1. /\ pc'["main"] = "down" /\ pc'["recv"] = "off" /\ rear' = 0 /\ front' = 0
      /\ out' = <<>> /\ kept' = <<>> /\ Len(kept') = 0
      /\ cfront' = 0 /\ nrec' = nrec /\ db' = db
    BY DEF Gone, Threads
<1>2. Wrapped(0) = 0
    BY QueueAssumption DEF Wrapped, Qnum
<1>3. Oldest' = Wrapped(0) /\ Vacant' = Wrapped(0)
    BY <1>1 DEF Oldest, Vacant, Wrapped
<1> HIDE DEF Oldest, Vacant
<1>4. InQueue' = 0
    BY <1>2, <1>3 DEF InQueue
<1> HIDE DEF InQueue
<1>5. Passed' = 0
    BY <1>1, <1>4 DEF Passed
<1> QED BY <1>1, <1>4, <1>5

(* The steps of the handler, of SIGKILL and of the next start.             *)
LEMMA OtherTypes ==
    ASSUME SaveInv, ~misled', Handler \/ Crash \/ Starting \/ StartWithoutDb \/ PidFileRemoved
    PROVE  LogTypes'
<1> USE QueueAssumption DEF LogTypes
<1>0. LogTypes /\ Qsize \in Nat /\ Qnum = Qsize + 1 /\ ReceiverPutting
    BY DEF SaveInv, Qnum
<1>1. CASE SaveBegins
    <2>1. /\ pc' = [pc EXCEPT !["main"] = "save"] /\ cfront' = front /\ crear' = rear
          /\ file' = <<>> /\ owed' = Len(kept) /\ front # Qnum /\ rear # Qnum
          /\ UNCHANGED <<data, rear, front, tmp, rec, val, nrec, kept, out, db, refused, crashes, stops>>
        BY <1>1 DEF SaveBegins, Goto, ring, receiver, faults
    <2>2. file' \in Seq(Nat) /\ owed' \in Nat
        BY <1>0, <2>1
    <2>3. front \in 0..Qsize /\ rear \in 0..Qsize
        BY <1>0, <2>1
    <2> QED BY <1>0, <2>1, <2>2, <2>3 DEF Threads, EndPcs
<1>2. CASE SaveOne
    <2>1. /\ cfront' = (cfront + 1) % Qnum /\ file' = Append(file, data[cfront])
          /\ pc["main"] = "save"
          /\ UNCHANGED <<data, rear, front, tmp, pc, rec, val, nrec, kept, out, db, crear, owed,
                         refused, crashes, stops>>
        BY <1>2 DEF SaveOne, ring, history, receiver, faults
    <2>2. cfront \in 0..Qsize
        <3>1. /\ cfront = Place(Oldest, Len(file)) /\ Passed + Len(file) <= owed
              /\ owed <= Len(kept)
            BY <2>1 DEF SaveInv, Saving
        <3>2. Len(file) \in Nat /\ Len(kept) \in Nat /\ owed \in Nat /\ InQueue \in 0..Qsize
            BY <1>0, QueueFacts
        <3>3. Len(file) \in 0..Qsize
            <4> HIDE DEF InQueue
            <4> QED BY <1>0, <3>1, <3>2 DEF Passed
        <3>4. Oldest \in 0..Qsize
            BY <1>0, QueueFacts
        <3>5. Place(Oldest, Len(file)) \in 0..Qsize
            BY <3>3, <3>4, SlotsDiffer
        <3> QED BY <3>1, <3>5
    <2>3. cfront' \in Nat /\ data[cfront] \in Nat
        BY <1>0, <2>1, <2>2 DEF Cells
    <2>4. file' \in Seq(Nat)
        BY <1>0, <2>1, <2>3
    <2> QED BY <1>0, <2>1, <2>3, <2>4
<1>3. CASE SaveEnds
    <2>1. /\ pc' = [pc EXCEPT !["main"] = "exit"] /\ pc["main"] = "save"
          /\ UNCHANGED <<data, rear, front, tmp, rec, val, nrec, kept, out, db, file, cfront,
                         crear, owed, refused, crashes, stops>>
        BY <1>3 DEF SaveEnds, Goto, ring, history, receiver, logVars, saveVars, faults
    <2> QED BY <1>0, <2>1 DEF Threads, EndPcs
<1>4. CASE Exit \/ Crash
    <2>1. Gone /\ UNCHANGED <<file, refused, stops>> /\ crashes' \in {crashes, crashes + 1}
        BY <1>4 DEF Exit, Crash, faults
    <2>2. /\ pc' = [t \in Threads |-> IF t = "main" THEN "down" ELSE "off"]
          /\ data' = [c \in Cells |-> 0] /\ rear' = 0 /\ front' = 0 /\ tmp' = 0 /\ owed' = 0
          /\ rec' = [t \in Threads |-> 0] /\ val' = [t \in Threads |-> 0]
          /\ kept' = <<>> /\ out' = <<>> /\ cfront' = 0 /\ crear' = 0 /\ UNCHANGED <<nrec, db>>
        BY <2>1 DEF Gone, Zeroed
    <2>3. /\ data' \in [Cells -> Nat] /\ rec' \in [Threads -> Nat] /\ val' \in [Threads -> 0..Qnum]
          /\ kept' \in Seq(Nat) /\ out' \in Seq(Nat)
        BY <1>0, <2>2
    <2>4. /\ pc' \in [Threads -> RecvPcs \cup {"off"} \cup TakePcs \cup EndPcs \cup StartPcs]
          /\ pc'["main"] = "down" /\ pc'["recv"] = "off"
        BY <2>2 DEF Threads, StartPcs
    <2> QED BY <1>0, <2>1, <2>2, <2>3, <2>4 DEF StartPcs
<1>5. CASE Start
    <2>1. /\ pc' = [pc EXCEPT !["main"] = "loadq"] /\ pc["main"] = "down"
          /\ UNCHANGED <<data, rear, front, tmp, rec, val, nrec, kept, out, db, file, cfront,
                         crear, owed, refused, crashes, stops>>
        BY <1>5 DEF Start, Goto, ring, history, receiver, saveVars, faults
    <2> QED BY <1>0, <2>1 DEF Threads, StartPcs, ReceiverPutting
<1>6. CASE LoadOne
    <2>1. /\ cfront < Len(file) /\ cfront' = cfront + 1 /\ pc["main"] = "loadq"
          /\ UNCHANGED <<front, tmp, rec, val, nrec, out, db, file, crear, owed, refused,
                         crashes, stops>>
        BY <1>6 DEF LoadOne, receiver, faults
    <2>2. pc["recv"] = "off"
        BY <1>0, <2>1 DEF ReceiverPutting, StartPcs
    <2>3. file[cfront + 1] \in Nat
        <3>1. cfront \in Nat /\ file \in Seq(Nat)
            BY <1>0, Zenon
        <3> QED BY <2>1, <3>1
    <2>4. CASE IsFull
        BY <1>0, <1>6, <2>1, <2>4 DEF LoadOne
    <2>5. CASE ~IsFull
        <3>1. /\ data' = [data EXCEPT ![rear] = file[cfront + 1]] /\ rear' = rear + 1
              /\ kept' = Append(kept, file[cfront + 1])
              /\ pc' = [pc EXCEPT !["main"] = "wrapq"]
            BY <1>6, <2>5 DEF LoadOne, Goto
        <3>2. data' \in [Cells -> Nat]
            BY <1>0, <2>3, <3>1
        <3>3. kept' \in Seq(Nat)
            BY <1>0, <2>3, <3>1
        <3>4. rear' \in 0..Qnum
            BY <1>0, <2>1, <2>2, <3>1, OneFurther
        <3>5. /\ pc' \in [Threads -> RecvPcs \cup {"off"} \cup TakePcs \cup EndPcs \cup StartPcs]
              /\ pc'["main"] = "wrapq" /\ pc'["recv"] = "off"
            BY <1>0, <2>2, <3>1 DEF Threads, StartPcs
        <3>6. /\ pc'["recv"] \in RecvPcs \cup {"off"}
              /\ pc'["main"] \in TakePcs \cup EndPcs \cup StartPcs
              /\ pc'["main"] \notin {"wrap", "stop"} => front' \in 0..Qsize
            BY <1>0, <2>1, <3>5 DEF StartPcs
        <3>7. /\ front' \in 0..Qnum /\ tmp' \in 0..Qsize /\ rec' \in [Threads -> Nat]
              /\ val' \in [Threads -> 0..Qnum] /\ nrec' \in Nat /\ out' \in Seq(Nat)
              /\ db' \in Seq(Nat) /\ file' \in Seq(Nat) /\ cfront' \in Nat /\ crear' \in Nat
              /\ owed' \in Nat /\ refused' = 0 /\ crashes' \in Nat /\ stops' \in Nat
            BY <1>0, <2>1
        <3> QED BY <3>2, <3>3, <3>4, <3>5, <3>6, <3>7, Zenon
    <2> QED BY <2>4, <2>5
<1>7. CASE LoadWraps
    <2>1. /\ rear' = rear % Qnum /\ pc' = [pc EXCEPT !["main"] = "loadq"] /\ pc["main"] = "wrapq"
          /\ UNCHANGED <<data, front, tmp, rec, val, nrec, kept, out, db, file, cfront,
                         crear, owed, refused, crashes, stops>>
        BY <1>7 DEF LoadWraps, Goto, history, receiver, logVars, saveVars, faults
    <2>2. rear' \in 0..Qsize
        BY <1>0, <2>1, Wraps
    <2> QED BY <1>0, <2>1, <2>2 DEF Threads, StartPcs
<1>8. CASE RemoveFile
    <2>1. /\ pc' = [t \in Threads |-> IF t = "main" THEN "get" ELSE "recv"]
          /\ cfront' = 0 /\ file' = <<>> /\ pc["main"] = "loadq"
          /\ UNCHANGED <<data, rear, front, tmp, rec, val, nrec, kept, out, db, crear, owed,
                         refused, crashes, stops>>
        BY <1>8 DEF RemoveFile, ring, history, receiver, faults
    <2>2. /\ pc' \in [Threads -> RecvPcs \cup {"off"} \cup TakePcs \cup EndPcs \cup StartPcs]
          /\ pc'["main"] = "get" /\ pc'["recv"] = "recv"
        BY <2>1 DEF Threads, RecvPcs, TakePcs
    <2>3. file' \in Seq(Nat)
        BY <2>1
    <2>4. rear \in 0..Qsize /\ front \in 0..Qsize
        BY <1>0, <2>1 DEF ReceiverPutting, StartPcs
    <2> QED BY <1>0, <2>1, <2>2, <2>3, <2>4 DEF RecvPcs, TakePcs
<1>9. CASE StartWithoutDb \/ PidFileRemoved
    <2>1. /\ crashes' \in {crashes, crashes + 1}
          /\ UNCHANGED <<pc, data, rear, front, tmp, rec, val, nrec, kept, out, db, file, cfront,
                         crear, owed, refused, stops>>
        BY <1>9 DEF StartWithoutDb, PidFileRemoved, vars, ring, history, receiver, saveVars, faults
    <2> QED BY <1>0, <2>1
<1> QED BY <1>1, <1>2, <1>3, <1>4, <1>5, <1>6, <1>7, <1>8, <1>9 DEF Handler, Starting

LEMMA LogTypesStep ==
    ASSUME MaxRefused = 0, SaveInv, ~misled', DbLogNext
    PROVE  LogTypes'
BY ReceiverTypes, MainTypes, OtherTypes, MainNeverPuts DEF DbLogNext, MainStep, SaveInv

------------------------------------------------------------------------------
(* What each kind of step does to the ring and to the histories.           *)

(* A put begins a copy, has copied, has moved g_nRear.                     *)
LEMMA Fills ==
    ASSUME SaveInv, PutFill("recv") /\ UNCHANGED logVars
    PROVE  /\ pc["recv"] = "fill" /\ pc'["recv"] = "load" /\ pc'["main"] = pc["main"]
           /\ data'[rear] = rec["recv"] /\ \A k \in 0..(InQueue - 1) :
                                               data'[Place(Oldest, k)] = data[Place(Oldest, k)]
           /\ pc["main"] \in {"wrap", "take"} => data'[tmp] = data[tmp]
           /\ InQueue < Qsize /\ InQueue' = InQueue /\ Passed' = Passed /\ Oldest' = Oldest
           /\ UNCHANGED <<rear, front, tmp, rec, val, nrec, kept, out, logVars>>
<1>1. /\ pc["recv"] = "fill" /\ Goto("recv", "load") /\ data' = [data EXCEPT ![rear] = rec["recv"]]
      /\ UNCHANGED <<rear, front, tmp, rec, val, nrec, kept, out, logVars>>
    BY DEF PutFill, receiver, history
<1>2. LogTypes /\ InQueue < Qsize
    BY <1>1 DEF SaveInv, ReceiverPutting
<1>3. pc'["recv"] = "load" /\ pc'["main"] = pc["main"]
    BY <1>1, <1>2, GotoFacts DEF Threads
<1>4. /\ InQueue \in 0..Qsize /\ Oldest \in 0..Qsize
      /\ tmp \in 0..Qsize /\ data \in [Cells -> Nat] /\ rear \in 0..Qsize
    BY <1>1, <1>2, QueueFacts, Whole DEF LogTypes
<1>5. rear \in Cells /\ tmp \in Cells
    BY <1>4, QueueAssumption DEF Cells, Qnum
<1>6. ASSUME NEW k \in 0..(InQueue - 1) PROVE data'[Place(Oldest, k)] = data[Place(Oldest, k)]
    <2>1. k \in 0..Qsize /\ k # InQueue
        BY <1>4, QueueAssumption
    <2>2. Place(Oldest, k) # rear
        BY <1>2, <1>4, <2>1, RearIsApart
    <2> QED BY <1>1, <1>4, <2>2
<1>7. ASSUME pc["main"] \in {"wrap", "take"} PROVE data'[tmp] = data[tmp]
    <2>1. Oldest = Succ(tmp)
        BY <1>7 DEF SaveInv, MainGetting
    <2>2. rear = Place(Oldest, InQueue)
        BY <1>2, <1>4, QueueFacts, Whole
    <2>3. tmp # Place(Oldest, InQueue)
        BY <1>2, <1>4, <2>1, SlotsDiffer
    <2> QED BY <1>1, <1>4, <2>2, <2>3
<1>8. InQueue' = InQueue /\ Passed' = Passed /\ Oldest' = Oldest
    BY <1>1, QueueStays
<1> QED BY <1>1, <1>2, <1>3, <1>4, <1>5, <1>6, <1>7, <1>8

LEMMA Stores ==
    ASSUME SaveInv, PutStore("recv") /\ UNCHANGED logVars, pc["recv"] = "store"
    PROVE  /\ pc'["recv"] = "loadwrap" /\ pc'["main"] = pc["main"]
           /\ kept' = Append(kept, rec["recv"]) /\ Len(kept') = Len(kept) + 1
           /\ \A k \in 1..Len(kept) : kept'[k] = kept[k]
           /\ kept'[Len(kept) + 1] = rec["recv"] /\ data[rear] = rec["recv"] /\ Vacant = rear
           /\ InQueue' = InQueue + 1 /\ Passed' = Passed /\ Oldest' = Oldest
           /\ UNCHANGED <<data, front, tmp, rec, val, nrec, out, logVars>>
<1>0. LogTypes
    BY DEF SaveInv
<1>1. /\ rear' = val["recv"] /\ kept' = Append(kept, rec["recv"])
      /\ Goto("recv", "loadwrap")
      /\ UNCHANGED <<data, front, tmp, rec, val, nrec, out, logVars>>
    BY <1>0 DEF PutStore, receiver
<1>2. /\ InQueue < Qsize /\ rear' = rear + 1 /\ data[rear] = rec["recv"]
      /\ rear \in 0..Qsize /\ Vacant = rear
    BY <1>0, <1>1, Whole DEF SaveInv, ReceiverPutting
<1>3. pc'["main"] = pc["main"] /\ pc'["recv"] = "loadwrap"
    BY <1>0, <1>1, GotoFacts DEF Threads
<1>4. kept \in Seq(Nat) /\ rec["recv"] \in Nat /\ Len(kept) \in Nat
    BY <1>0 DEF LogTypes, Threads
<1>5. /\ Len(kept') = Len(kept) + 1 /\ kept'[Len(kept) + 1] = rec["recv"]
      /\ \A k \in 1..Len(kept) : kept'[k] = kept[k]
    BY <1>1, <1>4
<1>6. InQueue' = InQueue + 1 /\ Oldest' = Oldest
    BY <1>0, <1>1, <1>2, QueueGrows
<1>7. Passed' = Passed
    <2>1. InQueue \in Nat
        BY <1>0, QueueFacts
    <2> HIDE DEF InQueue
    <2> QED BY <1>4, <1>5, <1>6, <2>1 DEF Passed
<1> QED BY <1>1, <1>2, <1>3, <1>5, <1>6, <1>7

LEMMA Advances ==
    ASSUME SaveInv, GetAdvance /\ UNCHANGED logVars, pc["main"] = "advance"
    PROVE  /\ pc'["main"] = "wrap" /\ pc'["recv"] = pc["recv"]
           /\ tmp = front /\ Oldest = front /\ front \in 0..Qsize
           /\ InQueue > 0 /\ Oldest' = Succ(front)
           /\ InQueue' = InQueue - 1 /\ Passed' = Passed + 1 /\ Vacant' = Vacant
           /\ UNCHANGED <<data, rear, tmp, rec, val, nrec, kept, out, logVars>>
<1>0. LogTypes
    BY DEF SaveInv
<1>1. UNCHANGED <<data, rear, tmp, rec, val, nrec, kept, out, logVars>>
    BY <1>0 DEF GetAdvance, receiver, history
<1>2. tmp = front /\ InQueue > 0 /\ front \in 0..Qsize /\ Oldest = front
    BY <1>0, <1>1, Whole DEF SaveInv, MainGetting, LogTypes
<1>3. front' = front + 1 /\ Goto("main", "wrap")
    BY <1>1, <1>2 DEF GetAdvance, Stepped
<1>4. pc'["main"] = "wrap" /\ pc'["recv"] = pc["recv"]
    BY <1>0, <1>3, GotoFacts DEF Threads
<1>5. InQueue' = InQueue - 1 /\ Oldest' = Succ(front)
    BY <1>0, <1>1, <1>2, <1>3, QueueShrinks
<1>6. Passed' = Passed + 1
    <2>1. Len(kept) \in Nat /\ kept' = kept
        BY <1>0, <1>1 DEF LogTypes
    <2>2. InQueue \in Nat
        BY <1>0, QueueFacts
    <2> HIDE DEF InQueue
    <2> QED BY <1>5, <2>1, <2>2 DEF Passed
<1>7. Vacant' = Vacant
    BY <1>1 DEF Vacant, Wrapped
<1> QED BY <1>1, <1>2, <1>3, <1>4, <1>5, <1>6, <1>7

LEMMA Takes ==
    ASSUME SaveInv, GetTake /\ UNCHANGED logVars
    PROVE  /\ pc["main"] = "take" /\ pc'["main"] = "got" /\ pc'["recv"] = pc["recv"]
           /\ rec'["recv"] = rec["recv"] /\ rec'["main"] = kept[Len(out) + 1]
           /\ Len(out') = Len(out) + 1 /\ Passed = Len(out) + 1
           /\ InQueue' = InQueue /\ Passed' = Passed /\ Oldest' = Oldest /\ Vacant' = Vacant
           /\ UNCHANGED <<ring, val, nrec, kept, logVars>>
<1>0. LogTypes
    BY DEF SaveInv
<1>a. pc["main"] = "take"
    BY DEF GetTake
<1>b. ~SharedSlot
    <2> SUFFICES ASSUME pc["recv"] = "fill" PROVE rear # tmp
        BY DEF SharedSlot
    <2>1. /\ InQueue \in 0..Qsize /\ InQueue < Qsize /\ Oldest \in 0..Qsize /\ tmp \in 0..Qsize
          /\ rear = Place(Oldest, InQueue)
        BY <1>0, QueueFacts, Whole DEF SaveInv, ReceiverPutting, LogTypes
    <2>2. Oldest = Succ(tmp)
        BY <1>a DEF SaveInv, MainGetting
    <2>3. tmp # Place(Oldest, InQueue)
        BY <2>1, <2>2, SlotsDiffer
    <2> QED BY <2>1, <2>3
<1>1. /\ rec' = [rec EXCEPT !["main"] = data[tmp]]
      /\ out' = Append(out, data[tmp]) /\ Goto("main", "got")
      /\ UNCHANGED <<ring, val, nrec, kept, logVars>>
    BY <1>b DEF GetTake, receiver
<1>2. data[tmp] = kept[Len(out) + 1] /\ Passed = Len(out) + 1
    BY <1>a DEF SaveInv, MainGetting
<1>3. pc'["main"] = "got" /\ pc'["recv"] = pc["recv"]
    BY <1>0, <1>1, GotoFacts DEF Threads
<1>4. rec'["recv"] = rec["recv"] /\ rec'["main"] = data[tmp]
    BY <1>0, <1>1 DEF LogTypes, Threads
<1>5. data[tmp] \in Nat /\ out \in Seq(Nat)
    BY <1>0, QueueAssumption DEF LogTypes, Cells, Qnum
<1>6. Len(out') = Len(out) + 1
    BY <1>1, <1>5
<1>7. InQueue' = InQueue /\ Passed' = Passed /\ Oldest' = Oldest /\ Vacant' = Vacant
    BY <1>1, QueueStays DEF ring
<1> QED BY <1>a, <1>1, <1>2, <1>3, <1>4, <1>6, <1>7

(* The second store of an index, by a put, a get or fipc_SQLoadQ.          *)
Wraps2 ==
    \/ PutStore("recv") /\ pc["recv"] = "storewrap" /\ UNCHANGED logVars
    \/ GetAdvance /\ pc["main"] = "wrap" /\ UNCHANGED logVars
    \/ LoadWraps

LEMMA SecondStores ==
    ASSUME SaveInv, Wraps2
    PROVE  /\ InQueue' = InQueue /\ Passed' = Passed /\ Oldest' = Oldest /\ Vacant' = Vacant
           /\ UNCHANGED <<data, kept, out, tmp, rec, nrec, val, db, file, cfront, crear, owed>>
           /\ \/ pc["recv"] = "storewrap" /\ pc'["recv"] = "recv" /\ pc'["main"] = pc["main"]
              \/ /\ pc["main"] = "wrap" /\ pc'["main"] = "take" /\ pc'["recv"] = pc["recv"]
                 /\ rear' = rear
              \/ pc["main"] = "wrapq" /\ pc'["main"] = "loadq" /\ pc'["recv"] = pc["recv"]
<1>0. LogTypes /\ ReceiverPutting
    BY DEF SaveInv
<1>1. front % Qnum = Oldest /\ rear % Qnum = Vacant
    BY <1>0, Wraps DEF LogTypes, Oldest, Vacant
<1>2. UNCHANGED <<data, kept, out, tmp, rec, nrec, val, db, file, cfront, crear, owed>>
    BY DEF Wraps2, PutStore, GetAdvance, LoadWraps, logVars, saveVars, history, receiver
<1>3. CASE PutStore("recv") /\ pc["recv"] = "storewrap"
    <2>1. rear' = Vacant /\ front' = front /\ Goto("recv", "recv")
        BY <1>0, <1>3 DEF PutStore, AfterPut, ReceiverPutting
    <2>2. pc'["recv"] = "recv" /\ pc'["main"] = pc["main"]
        BY <1>0, <2>1, GotoFacts DEF Threads
    <2> QED BY <1>0, <1>2, <1>3, <2>1, <2>2, QueueWraps DEF Passed
<1>4. CASE GetAdvance /\ pc["main"] = "wrap"
    <2>1. front' = Oldest /\ rear' = rear /\ Goto("main", "take")
        BY <1>1, <1>4 DEF GetAdvance, Stepped
    <2>2. pc'["main"] = "take" /\ pc'["recv"] = pc["recv"]
        BY <1>0, <2>1, GotoFacts DEF Threads
    <2> QED BY <1>0, <1>2, <1>4, <2>1, <2>2, QueueWraps DEF Passed
<1>5. CASE LoadWraps
    <2>1. rear' = Vacant /\ front' = front /\ Goto("main", "loadq") /\ pc["main"] = "wrapq"
        BY <1>1, <1>5 DEF LoadWraps
    <2>2. pc'["main"] = "loadq" /\ pc'["recv"] = pc["recv"]
        BY <1>0, <2>1, GotoFacts DEF Threads
    <2> QED BY <1>0, <1>2, <2>1, <2>2, QueueWraps DEF Passed
<1> QED BY <1>3, <1>4, <1>5 DEF Wraps2

(* fipc_SQLoadQ puts the next record of the file, or finds the ring full.  *)
LEMMA Loads ==
    ASSUME SaveInv, ~misled, LoadOne
    PROVE  /\ pc["main"] = "loadq" /\ cfront < Len(file) /\ cfront' = cfront + 1
           /\ pc'["main"] \in {"loadq", "wrapq"} /\ pc'["recv"] = pc["recv"]
           /\ UNCHANGED <<front, rec, val, nrec, tmp, out, db, file>>
           /\ \/ UNCHANGED <<data, rear, kept, pc>>
              \/ /\ InQueue < Qsize /\ InQueue' = InQueue + 1 /\ Passed' = Passed
                 /\ Oldest' = Oldest /\ Vacant = rear
                 /\ data'[rear] = file[cfront + 1]
                 /\ \A k \in 0..(InQueue - 1) : data'[Place(Oldest, k)] = data[Place(Oldest, k)]
                 /\ kept' = Append(kept, file[cfront + 1]) /\ Len(kept') = Len(kept) + 1
                 /\ \A k \in 1..Len(kept) : kept'[k] = kept[k]
                 /\ kept'[Len(kept) + 1] = file[cfront + 1]
<1>0. LogTypes /\ ReceiverPutting
    BY DEF SaveInv
<1>1. /\ pc["main"] = "loadq" /\ cfront < Len(file) /\ cfront' = cfront + 1
      /\ UNCHANGED <<front, rec, val, nrec, tmp, out, db, file>>
    BY DEF LoadOne, receiver
<1>2. CASE IsFull
    BY <1>1, <1>2 DEF LoadOne
<1>3. CASE ~IsFull
    <2>1. /\ data' = [data EXCEPT ![rear] = file[cfront + 1]] /\ rear' = rear + 1
          /\ kept' = Append(kept, file[cfront + 1]) /\ Goto("main", "wrapq")
        BY <1>3 DEF LoadOne
    <2>2. rear \in 0..Qsize /\ front \in 0..Qsize
        BY <1>0, <1>1 DEF LogTypes, ReceiverPutting, StartPcs
    <2>3. /\ InQueue \in 0..Qsize /\ InQueue < Qsize /\ Vacant = rear
          /\ Oldest \in 0..Qsize /\ data \in [Cells -> Nat]
          /\ kept \in Seq(Nat) /\ file[cfront + 1] \in Nat
        <3>1. file[cfront + 1] \in Nat
            <4>1. cfront \in Nat /\ file \in Seq(Nat)
                BY <1>0 DEF LogTypes
            <4> QED BY <1>1, <4>1
        <3>2. InQueue < Qsize
            BY <1>0, <1>3, <2>2, HasRoom
        <3> QED BY <1>0, <2>2, <3>1, <3>2, QueueFacts, Whole DEF LogTypes
    <2>4. InQueue' = InQueue + 1 /\ Oldest' = Oldest
        BY <1>0, <1>1, <2>1, <2>2, <2>3, QueueGrows
    <2>5. rear \in Cells
        BY <2>2, QueueAssumption DEF Cells, Qnum
    <2>6. ASSUME NEW k \in 0..(InQueue - 1) PROVE data'[Place(Oldest, k)] = data[Place(Oldest, k)]
        <3>1. k \in 0..Qsize /\ k # InQueue
            BY <2>3, QueueAssumption
        <3>2. Place(Oldest, k) # rear
            BY <1>0, <2>2, <3>1, RearIsApart
        <3> QED BY <2>1, <2>3, <3>2
    <2>7. /\ Len(kept') = Len(kept) + 1 /\ kept'[Len(kept) + 1] = file[cfront + 1]
          /\ \A k \in 1..Len(kept) : kept'[k] = kept[k]
        BY <2>1, <2>3
    <2>8. Passed' = Passed
        <3>1. Len(kept) \in Nat /\ InQueue \in Nat
            BY <2>3
        <3> HIDE DEF InQueue
        <3> QED BY <3>1, <2>4, <2>7 DEF Passed
    <2>9. data'[rear] = file[cfront + 1]
        BY <2>1, <2>3, <2>5
    <2>10. pc'["main"] = "wrapq" /\ pc'["recv"] = pc["recv"]
        BY <1>0, <2>1, GotoFacts DEF Threads
    <2> QED BY <1>1, <2>1, <2>3, <2>4, <2>6, <2>7, <2>8, <2>9, <2>10
<1> QED BY <1>2, <1>3

(* All other steps leave the ring alone.                                   *)
LEMMA RingSteps ==
    ASSUME MaxRefused = 0, SaveInv, DbLogNext
    PROVE  \/ PutFill("recv") /\ UNCHANGED logVars
           \/ PutStore("recv") /\ pc["recv"] = "store" /\ UNCHANGED logVars
           \/ GetAdvance /\ pc["main"] = "advance" /\ UNCHANGED logVars
           \/ Wraps2
           \/ LoadOne
           \/ Gone
           \/ UNCHANGED <<data, rear, front, kept>>
<1>1. CASE ReceiveUnlessStopped \/ ReceiverPuts \/ ReceiverQuits
    BY <1>1 DEF ReceiveUnlessStopped, ReceiverPuts, ReceiverQuits, ReceiverStep, Receive, Put,
                PutCheck, PutLoad, PutStore, ReceiverFindsFull, Wraps2, ring, history
<1>2. CASE MainStep
    <2>1. ~InsertFails /\ ~MainPuts /\ ~MainFindsFull
        BY MainNeverPuts DEF SaveInv
    <2> QED BY <1>2, <2>1 DEF MainStep, MainGets, Get, GetCheck, GetAdvance, GetTake, Insert,
                              UnknownType, Wraps2, ring, history
<1>3. CASE Signal \/ Handler \/ Crash \/ Starting \/ StartWithoutDb \/ PidFileRemoved
    BY <1>3 DEF Signal, Handler, SaveBegins, SaveOne, SaveEnds, Exit, Crash, Starting, Start,
                RemoveFile, StartWithoutDb, PidFileRemoved, Wraps2, ring, history, vars
<1> QED BY <1>1, <1>2, <1>3 DEF DbLogNext

LEMMA NextPlace ==
    ASSUME NEW f \in 0..Qsize, NEW k \in 0..(Qsize - 1)
    PROVE  /\ Place(Succ(f), k) = Place(f, k + 1) /\ Succ(Place(f, k)) = Place(f, k + 1)
           /\ Place(f, 0) = f
BY QueueAssumption, SMT DEF Place, Succ, Qnum

(* A record appended to the ring.                                          *)
LEMMA RingAppends ==
    ASSUME SaveInv, InQueue' = InQueue + 1, Passed' = Passed, Oldest' = Oldest, Vacant = rear,
           \A k \in 0..(InQueue - 1) : data'[Place(Oldest, k)] = data[Place(Oldest, k)],
           Len(kept') = Len(kept) + 1, \A k \in 1..Len(kept) : kept'[k] = kept[k],
           data'[rear] = kept'[Len(kept) + 1]
    PROVE  RingHolds'
<1>1. /\ InQueue \in 0..Qsize /\ rear = Place(Oldest, InQueue) /\ Len(kept) \in Nat
      /\ InQueue <= Len(kept) /\ RingHolds
    BY QueueFacts DEF SaveInv, LogTypes, RingHolds
<1> HIDE DEF InQueue, Oldest, Vacant
<1>2. Passed \in Nat /\ Passed + InQueue = Len(kept)
    BY <1>1 DEF Passed
<1>3. ASSUME NEW k \in 0..InQueue PROVE data'[Place(Oldest, k)] = kept'[Passed + k + 1]
    <2>1. CASE k = InQueue
        <3>1. Passed + k + 1 = Len(kept) + 1
            BY <1>1, <1>2, <2>1
        <3> QED BY <1>1, <2>1, <3>1
    <2>2. CASE k \in 0..(InQueue - 1)
        <3>1. Passed + k + 1 \in 1..Len(kept)
            BY <1>1, <1>2, <2>2
        <3>2. data[Place(Oldest, k)] = kept[Passed + k + 1]
            BY <1>1, <2>2 DEF RingHolds
        <3> QED BY <2>2, <3>1, <3>2
    <2> QED BY <1>1, <2>1, <2>2
<1>4. 0..(InQueue' - 1) = 0..InQueue /\ InQueue' <= Len(kept')
    BY <1>1
<1> HIDE DEF Passed
<1> QED BY <1>3, <1>4 DEF RingHolds

LEMMA RingHoldsStep ==
    ASSUME MaxRefused = 0, SaveInv, ~misled, DbLogNext
    PROVE  RingHolds'
<1>0. /\ LogTypes /\ RingHolds /\ InQueue \in 0..Qsize
      /\ Oldest \in 0..Qsize /\ Len(kept) \in Nat
  <2>1. LogTypes /\ RingHolds
      BY DEF SaveInv
  <2>2. kept \in Seq(Nat)
      BY <2>1 DEF LogTypes
  <2>3. Len(kept) \in Nat
      BY <2>2
  <2> QED BY <2>1, <2>2, <2>3, QueueFacts
<1>a. ASSUME InQueue' = InQueue, Passed' = Passed, Oldest' = Oldest, UNCHANGED <<data, kept>>
      PROVE  RingHolds'
    BY <1>0, <1>a DEF RingHolds
<1>1. CASE PutFill("recv") /\ UNCHANGED logVars
    <2>1. /\ \A k \in 0..(InQueue - 1) : data'[Place(Oldest, k)] = data[Place(Oldest, k)]
          /\ InQueue' = InQueue /\ Passed' = Passed /\ Oldest' = Oldest /\ kept' = kept
        BY <1>1, Fills
    <2> HIDE DEF InQueue, Passed, Oldest
    <2> QED BY <1>0, <2>1 DEF RingHolds
<1>2. CASE PutStore("recv") /\ pc["recv"] = "store" /\ UNCHANGED logVars
    <2>1. /\ InQueue' = InQueue + 1 /\ Passed' = Passed /\ Oldest' = Oldest /\ Vacant = rear
          /\ data' = data
          /\ Len(kept') = Len(kept) + 1 /\ \A k \in 1..Len(kept) : kept'[k] = kept[k]
          /\ data'[rear] = kept'[Len(kept) + 1]
        BY <1>2, Stores
    <2> QED BY <2>1, RingAppends
<1>3. CASE GetAdvance /\ pc["main"] = "advance" /\ UNCHANGED logVars
    <2>1. /\ InQueue > 0 /\ Oldest' = Succ(Oldest) /\ InQueue' = InQueue - 1
          /\ Passed' = Passed + 1 /\ UNCHANGED <<data, kept>>
        BY <1>3, Advances
    <2> HIDE DEF InQueue, Oldest
    <2>2. ASSUME NEW k \in 0..(InQueue - 2) PROVE data[Place(Succ(Oldest), k)] = kept[Passed + 1 + k + 1]
        <3>1. k \in 0..(Qsize - 1) /\ k + 1 \in 0..(InQueue - 1)
            BY <1>0, QueueAssumption
        <3>2. Place(Succ(Oldest), k) = Place(Oldest, k + 1)
            BY <1>0, <3>1, NextPlace
        <3>3. data[Place(Oldest, k + 1)] = kept[Passed + (k + 1) + 1]
            BY <1>0, <3>1 DEF RingHolds
        <3>4. Passed + (k + 1) + 1 = Passed + 1 + k + 1
            BY <1>0 DEF Passed
        <3> QED BY <3>2, <3>3, <3>4
    <2>3. 0..(InQueue' - 1) = 0..(InQueue - 2) /\ InQueue' <= Len(kept')
        BY <1>0, <2>1 DEF RingHolds
    <2> HIDE DEF Passed
    <2> QED BY <2>1, <2>2, <2>3 DEF RingHolds
<1>4. CASE LoadOne
    <2>1. CASE UNCHANGED <<data, rear, kept>>
        <3>1. front' = front
            BY <1>4, Loads
        <3> QED BY <1>a, <2>1, <3>1, QueueStays
    <2>2. CASE /\ InQueue' = InQueue + 1 /\ Passed' = Passed /\ Oldest' = Oldest /\ Vacant = rear
               /\ data'[rear] = file[cfront + 1]
               /\ \A k \in 0..(InQueue - 1) : data'[Place(Oldest, k)] = data[Place(Oldest, k)]
               /\ Len(kept') = Len(kept) + 1 /\ \A k \in 1..Len(kept) : kept'[k] = kept[k]
               /\ kept'[Len(kept) + 1] = file[cfront + 1]
        BY <2>2, RingAppends
    <2> QED BY <1>4, <2>1, <2>2, Loads
<1>5. CASE Gone
    <2>1. InQueue' = 0 /\ Len(kept') = 0
        BY <1>5, GoneFacts
    <2> QED BY <2>1 DEF RingHolds
<1>6. CASE UNCHANGED <<data, rear, front, kept>>
    BY <1>6, <1>a, QueueStays
<1>7. CASE Wraps2
    BY <1>7, <1>a, SecondStores
<1> QED BY <1>1, <1>2, <1>3, <1>4, <1>5, <1>6, <1>7, RingSteps

LEMMA ReceiverPuttingStep ==
    ASSUME MaxRefused = 0, SaveInv, ~misled, ~misled', DbLogNext
    PROVE  ReceiverPutting'
<1>0. /\ LogTypes /\ ReceiverPutting /\ InQueue \in 0..Qsize /\ nrec \in Nat
      /\ pc["recv"] \in RecvPcs \cup {"off"}
    BY QueueFacts DEF SaveInv, LogTypes
<1>b. ASSUME pc'["recv"] = pc["recv"], pc'["main"] \in StartPcs => pc'["recv"] = "off",
             UNCHANGED <<data, rear, front, val, nrec>>, rec'["recv"] = rec["recv"]
      PROVE  ReceiverPutting'
    <2>1. InQueue' = InQueue /\ Vacant' = Vacant
        BY <1>b, QueueStays
    <2> HIDE DEF InQueue, Vacant
    <2> QED BY <1>0, <1>b, <2>1 DEF ReceiverPutting
<1>1. CASE ReceiveUnlessStopped
    <2>1. /\ pc["recv"] = "recv" /\ pc'["recv"] = "put" /\ pc'["main"] = pc["main"]
          /\ nrec' = nrec + 1 /\ rec'["recv"] = nrec + 1
        BY <1>0, <1>1, GotoFacts DEF ReceiveUnlessStopped, Receive, Threads, LogTypes
    <2> QED BY <1>0, <2>1 DEF ReceiverPutting, StartPcs
<1>2. CASE ReceiverQuits \/ (ReceiverFindsFull /\ UNCHANGED logVars)
    <2>1. /\ pc["recv"] \in {"recv", "put"} /\ pc'["main"] = pc["main"]
          /\ pc'["recv"] \in {"off", "recv", pc["recv"]}
          /\ rec' = rec /\ nrec' = nrec
        BY <1>0, <1>2, GotoFacts DEF ReceiverQuits, ReceiverFindsFull, Threads, receiver, logVars
    <2> QED BY <1>0, <2>1 DEF ReceiverPutting, PuttingPcs
<1>3. CASE PutCheck("recv") /\ UNCHANGED logVars
    <2>1. /\ pc["recv"] = "put" /\ pc'["recv"] = "fill" /\ pc'["main"] = pc["main"]
          /\ UNCHANGED <<rec, nrec, rear, front>>
        BY <1>0, <1>3, GotoFacts DEF PutCheck, Threads, ring, receiver
    <2>2. InQueue < Qsize /\ InQueue' = InQueue
        BY <1>0, <1>3, <2>1, HasRoom, QueueStays
    <2> QED BY <1>0, <2>1, <2>2 DEF ReceiverPutting, PuttingPcs
<1>4. CASE PutFill("recv") /\ UNCHANGED logVars
    <2>1. /\ pc["recv"] = "fill" /\ pc'["recv"] = "load" /\ pc'["main"] = pc["main"]
          /\ data'[rear] = rec["recv"] /\ InQueue < Qsize /\ InQueue' = InQueue
          /\ UNCHANGED <<rear, rec, nrec>>
        BY <1>4, Fills
    <2> QED BY <1>0, <2>1 DEF ReceiverPutting, PuttingPcs
<1>5. CASE PutLoad("recv") /\ UNCHANGED logVars
    <2>1. /\ pc["recv"] \in {"load", "loadwrap"}
          /\ Goto("recv", IF pc["recv"] = "load" THEN "store" ELSE "storewrap")
          /\ val' = [val EXCEPT !["recv"] = Stepped(rear, pc["recv"] = "loadwrap")]
          /\ UNCHANGED <<data, rear, front, rec, nrec>>
        BY <1>5 DEF PutLoad, ring, receiver
    <2>2. /\ pc'["recv"] = IF pc["recv"] = "load" THEN "store" ELSE "storewrap"
          /\ pc'["main"] = pc["main"] /\ val'["recv"] = Stepped(rear, pc["recv"] = "loadwrap")
        BY <1>0, <2>1, GotoFacts DEF Threads, LogTypes
    <2>3. InQueue' = InQueue /\ Vacant' = Vacant /\ rear' = rear
        BY <2>1, QueueStays
    <2>4. rear % Qnum = Vacant
        BY <1>0, Wraps DEF LogTypes, Vacant
    <2> HIDE DEF InQueue, Vacant, Qnum
    <2>5. CASE pc["recv"] = "load"
        BY <1>0, <2>1, <2>2, <2>3, <2>5 DEF ReceiverPutting, PuttingPcs, Stepped
    <2>6. CASE pc["recv"] = "loadwrap"
        BY <1>0, <2>1, <2>2, <2>3, <2>4, <2>6 DEF ReceiverPutting, PuttingPcs, Stepped
    <2> QED BY <2>1, <2>5, <2>6
<1>6. CASE PutStore("recv") /\ pc["recv"] = "store" /\ UNCHANGED logVars
    <2>1. pc'["recv"] = "loadwrap" /\ pc'["main"] = pc["main"]
        BY <1>6, Stores
    <2> QED BY <1>0, <1>6, <2>1 DEF ReceiverPutting, PuttingPcs
<1>7. CASE GetAdvance /\ pc["main"] = "advance" /\ UNCHANGED logVars
    <2>1. /\ pc'["main"] = "wrap" /\ pc'["recv"] = pc["recv"] /\ InQueue' = InQueue - 1
          /\ Vacant' = Vacant
          /\ UNCHANGED <<data, rear, rec, val, nrec>>
        BY <1>7, Advances
    <2>2. InQueue < Qsize => InQueue' < Qsize
        BY <1>0, <2>1, QueueAssumption
    <2> HIDE DEF InQueue, Vacant
    <2> QED BY <1>0, <2>1, <2>2 DEF ReceiverPutting, StartPcs
<1>8. CASE GetTake /\ UNCHANGED logVars
    <2>1. /\ pc'["main"] = "got" /\ pc'["recv"] = pc["recv"] /\ rec'["recv"] = rec["recv"]
          /\ UNCHANGED <<data, rear, front, val, nrec>>
        BY <1>8, Takes DEF ring
    <2> QED BY <1>b, <2>1 DEF StartPcs
<1>9. CASE (GetCheck /\ UNCHANGED logVars) \/ Insert \/ UnknownType \/ Signal
    <2>1. /\ pc'["recv"] = pc["recv"] /\ pc'["main"] \notin StartPcs
          /\ UNCHANGED <<data, rear, front, rec, val, nrec>>
        BY <1>0, <1>9, GotoFacts
           DEF GetCheck, Insert, UnknownType, Signal, Threads, ring, receiver, StartPcs
    <2> QED BY <1>b, <2>1
<1>10. CASE SaveBegins \/ SaveEnds
    <2>1. /\ pc'["recv"] = pc["recv"] /\ pc'["main"] \notin StartPcs
          /\ UNCHANGED <<data, rear, front, rec, val, nrec>>
        BY <1>0, <1>10, GotoFacts DEF SaveBegins, SaveEnds, Threads, ring, receiver, StartPcs
    <2> QED BY <1>b, <2>1
<1>11. CASE SaveOne \/ StartWithoutDb \/ PidFileRemoved
    <2>1. UNCHANGED <<pc, data, rear, front, rec, val, nrec>>
        BY <1>11 DEF SaveOne, StartWithoutDb, PidFileRemoved, ring, receiver, vars
    <2> QED BY <1>0, <1>b, <2>1 DEF ReceiverPutting
<1>12. CASE Exit \/ Crash
    <2>1. pc'["recv"] = "off"
        BY <1>12, GoneFacts DEF Exit, Crash
    <2> QED BY <2>1 DEF ReceiverPutting, PuttingPcs
<1>13. CASE Start
    <2>1. /\ pc["main"] = "down" /\ pc'["recv"] = pc["recv"]
          /\ UNCHANGED <<data, rear, front, rec, val, nrec>>
        BY <1>0, <1>13, GotoFacts DEF Start, Threads, ring, receiver
    <2> QED BY <1>0, <1>b, <2>1 DEF ReceiverPutting, StartPcs
<1>14. CASE LoadOne
    <2>1. pc["main"] = "loadq" /\ pc'["recv"] = pc["recv"]
        BY <1>14, Loads
    <2> QED BY <1>0, <2>1 DEF ReceiverPutting, StartPcs, PuttingPcs
<1>15. CASE RemoveFile
    <2>1. pc'["recv"] = "recv" /\ pc'["main"] = "get"
        BY <1>15 DEF RemoveFile, Threads
    <2> QED BY <2>1 DEF ReceiverPutting, StartPcs, PuttingPcs
<1>16. CASE Wraps2
    <2>1. /\ InQueue' = InQueue /\ Vacant' = Vacant /\ UNCHANGED <<data, rec, nrec, val>>
          /\ \/ pc["recv"] = "storewrap" /\ pc'["recv"] = "recv" /\ pc'["main"] = pc["main"]
             \/ /\ pc["main"] = "wrap" /\ pc'["main"] = "take" /\ pc'["recv"] = pc["recv"]
                /\ rear' = rear
             \/ pc["main"] = "wrapq" /\ pc'["main"] = "loadq" /\ pc'["recv"] = pc["recv"]
        BY <1>16, SecondStores
    <2>2. CASE pc["recv"] = "storewrap" /\ pc'["recv"] = "recv" /\ pc'["main"] = pc["main"]
        BY <1>0, <2>2 DEF ReceiverPutting, PuttingPcs
    <2>3. CASE /\ pc["main"] = "wrap" /\ pc'["main"] = "take" /\ pc'["recv"] = pc["recv"]
               /\ rear' = rear
        <3> HIDE DEF InQueue, Vacant
        <3> QED BY <1>0, <2>1, <2>3 DEF ReceiverPutting, StartPcs
    <2>4. CASE pc["main"] = "wrapq" /\ pc'["main"] = "loadq" /\ pc'["recv"] = pc["recv"]
        BY <1>0, <2>4 DEF ReceiverPutting, StartPcs, PuttingPcs
    <2> QED BY <2>1, <2>2, <2>3, <2>4
<1>17. CASE PutStore("recv") /\ UNCHANGED logVars
    BY <1>6, <1>16, <1>17 DEF PutStore, Wraps2
<1>18. CASE GetAdvance /\ UNCHANGED logVars
    BY <1>7, <1>16, <1>18 DEF GetAdvance, Wraps2
<1>19. CASE LoadWraps
    BY <1>16, <1>19 DEF Wraps2
<1> QED BY <1>0, <1>1, <1>2, <1>3, <1>4, <1>5, <1>8, <1>9, <1>10, <1>11, <1>12, <1>13,
           <1>14, <1>15, <1>17, <1>18, <1>19, MainNeverPuts
        DEF DbLogNext, ReceiverPuts, ReceiverStep, Put, MainStep, MainGets, Get, Handler, Starting

LEMMA MainGettingStep ==
    ASSUME MaxRefused = 0, SaveInv, ~misled, ~misled', DbLogNext
    PROVE  MainGetting'
<1>0. /\ LogTypes /\ MainGetting /\ InQueue \in 0..Qsize /\ Len(kept) \in Nat /\ Len(out) \in Nat
      /\ RingHolds /\ ReceiverPutting /\ Oldest \in 0..Qsize
      /\ pc["main"] \in TakePcs \cup EndPcs \cup StartPcs
  <2>1. LogTypes /\ MainGetting /\ RingHolds /\ ReceiverPutting
      BY DEF SaveInv
  <2>2. /\ kept \in Seq(Nat) /\ out \in Seq(Nat)
        /\ pc["main"] \in TakePcs \cup EndPcs \cup StartPcs
      BY <2>1 DEF LogTypes
  <2>3. Len(kept) \in Nat /\ Len(out) \in Nat
      BY <2>2
  <2> QED BY <2>1, <2>2, <2>3, QueueFacts
<1>a. Passed \in Nat /\ Passed + InQueue = Len(kept)
    <2>1. InQueue <= Len(kept)
        BY <1>0 DEF RingHolds
    <2> HIDE DEF InQueue
    <2> QED BY <1>0, <2>1 DEF Passed
<1>b. ASSUME UNCHANGED <<data, rear, front, kept, tmp, out>>, pc'["main"] = pc["main"],
             rec'["main"] = rec["main"]
      PROVE  MainGetting'
    <2>1. InQueue' = InQueue /\ Passed' = Passed /\ Oldest' = Oldest
        BY <1>b, QueueStays
    <2> HIDE DEF InQueue, Passed, Oldest, Succ
    <2> QED BY <1>0, <1>b, <2>1 DEF MainGetting
<1>1. CASE ReceiveUnlessStopped \/ ReceiverQuits \/ (ReceiverFindsFull /\ UNCHANGED logVars)
    <2>1. /\ pc'["main"] = pc["main"] /\ rec'["main"] = rec["main"]
          /\ UNCHANGED <<data, rear, front, kept, tmp, out>>
        BY <1>0, <1>1, GotoFacts DEF ReceiveUnlessStopped, Receive, ReceiverQuits,
           ReceiverFindsFull, Threads, ring, history, LogTypes
    <2> QED BY <1>b, <2>1
<1>2. CASE (PutCheck("recv") \/ PutLoad("recv")) /\ UNCHANGED logVars
    <2>1. pc'["main"] = pc["main"] /\ UNCHANGED <<data, rear, front, kept, tmp, out, rec>>
        BY <1>0, <1>2, GotoFacts DEF PutCheck, PutLoad, Threads, ring, history
    <2> QED BY <1>b, <2>1
<1>3. CASE PutFill("recv") /\ UNCHANGED logVars
    <2>1. /\ pc'["main"] = pc["main"]
          /\ pc["main"] \in {"wrap", "take"} => data'[tmp] = data[tmp]
          /\ InQueue' = InQueue /\ Passed' = Passed /\ Oldest' = Oldest
          /\ UNCHANGED <<front, tmp, rec, kept, out>>
        BY <1>3, Fills
    <2> HIDE DEF InQueue, Passed, Oldest, Succ
    <2> QED BY <1>0, <2>1 DEF MainGetting
<1>4. CASE PutStore("recv") /\ pc["recv"] = "store" /\ UNCHANGED logVars
    <2>1. /\ pc'["main"] = pc["main"] /\ InQueue' = InQueue + 1 /\ Passed' = Passed
          /\ Oldest' = Oldest
          /\ \A k \in 1..Len(kept) : kept'[k] = kept[k]
          /\ UNCHANGED <<data, front, tmp, rec, out>>
        BY <1>4, Stores
    <2>2. pc["main"] \notin StartPcs
        BY <1>0, <1>4 DEF ReceiverPutting
    <2>3. pc["main"] \in {"wrap", "take"} => kept'[Len(out) + 1] = kept[Len(out) + 1]
        <3> SUFFICES ASSUME pc["main"] \in {"wrap", "take"} PROVE Len(out) + 1 \in 1..Len(kept)
            BY <2>1
        <3>1. Passed = Len(out) + 1
            BY <1>0 DEF MainGetting
        <3> QED BY <1>0, <1>a, <3>1
    <2>4. pc["main"] = "got" => kept'[Len(out)] = kept[Len(out)]
        <3> SUFFICES ASSUME pc["main"] = "got" PROVE Len(out) \in 1..Len(kept)
            BY <2>1
        <3>1. Passed = Len(out) /\ Len(out) > 0
            BY <1>0 DEF MainGetting
        <3> QED BY <1>0, <1>a, <3>1
    <2>5. InQueue > 0 => InQueue' > 0
        BY <1>0, <2>1
    <2> HIDE DEF InQueue, Passed, Oldest, Succ
    <2> QED BY <1>0, <2>1, <2>2, <2>3, <2>4, <2>5 DEF MainGetting
<1>5. CASE GetCheck /\ UNCHANGED logVars
    <2>1. /\ pc["main"] = "get" /\ pc'["main"] = "advance" /\ tmp' = front
          /\ UNCHANGED <<data, rear, front, kept, out, rec>>
        BY <1>0, <1>5, GotoFacts DEF GetCheck, Threads, ring
    <2>2. InQueue > 0 /\ InQueue' = InQueue /\ Passed' = Passed /\ Passed = Len(out)
        BY <1>0, <1>5, <2>1, HasRecord, QueueStays DEF MainGetting
    <2> HIDE DEF InQueue, Passed
    <2> QED BY <2>1, <2>2 DEF MainGetting, EndPcs, StartPcs
<1>6. CASE GetAdvance /\ pc["main"] = "advance" /\ UNCHANGED logVars
    <2>1. /\ pc'["main"] = "wrap" /\ tmp = front /\ InQueue > 0 /\ Oldest = front
          /\ Oldest' = Succ(front) /\ Passed' = Passed + 1
          /\ UNCHANGED <<data, tmp, rec, kept, out>>
        BY <1>6, Advances
    <2>2. Passed = Len(out)
        BY <1>0, <1>6 DEF MainGetting
    <2>3. data[tmp] = kept[Len(out) + 1]
        <3>1. 0 \in 0..(InQueue - 1) /\ Place(Oldest, 0) = Oldest
            BY <1>0, <2>1, NextPlace, QueueAssumption
        <3>2. data[Place(Oldest, 0)] = kept[Passed + 0 + 1]
            BY <1>0, <3>1 DEF RingHolds
        <3> HIDE DEF Passed, InQueue, Oldest
        <3> QED BY <1>a, <2>1, <2>2, <3>1, <3>2
    <2> HIDE DEF InQueue, Passed, Oldest, Succ
    <2> QED BY <2>1, <2>2, <2>3 DEF MainGetting, EndPcs, StartPcs
<1>7. CASE GetTake /\ UNCHANGED logVars
    <2>1. /\ pc'["main"] = "got" /\ rec'["main"] = kept[Len(out) + 1] /\ Len(out') = Len(out) + 1
          /\ Passed = Len(out) + 1 /\ Passed' = Passed /\ kept' = kept
        BY <1>7, Takes
    <2> QED BY <1>0, <2>1 DEF MainGetting, EndPcs, StartPcs
<1>8. CASE Insert \/ UnknownType
    <2>1. /\ pc["main"] = "got" /\ pc'["main"] = "get" /\ UNCHANGED <<rear, front, kept, out>>
        BY <1>0, <1>8, GotoFacts DEF Insert, UnknownType, Threads, ring, history
    <2>2. Passed' = Passed /\ Passed = Len(out)
        BY <1>0, <2>1, QueueStays DEF MainGetting
    <2> QED BY <2>1, <2>2 DEF MainGetting, EndPcs, StartPcs
<1>9. CASE Signal
    <2>1. /\ pc["main"] \in TakePcs \cup {"loadq", "wrapq"} /\ pc'["main"] = "stop"
          /\ UNCHANGED <<rear, front, kept, out>>
        BY <1>0, <1>9, GotoFacts
           DEF Signal, Threads, ring, history, MainPcs, PutPcs, GetPcs, TakePcs, EndPcs, StartPcs
    <2>2. Passed' = Passed
        BY <2>1, QueueStays
    <2>3. Passed \in {Len(out), Len(out) + 1}
        <3>1. CASE pc["main"] \in TakePcs
            BY <1>0, <3>1 DEF MainGetting, TakePcs
        <3>2. CASE pc["main"] \in {"loadq", "wrapq"}
            BY <1>0, <3>2 DEF MainGetting, StartPcs
        <3> QED BY <2>1, <3>1, <3>2
    <2> QED BY <2>1, <2>2, <2>3 DEF MainGetting, EndPcs, StartPcs
<1>10. CASE SaveBegins \/ SaveOne \/ SaveEnds
    <2>1. /\ pc["main"] \in EndPcs /\ pc'["main"] \in {"save", "exit"}
          /\ UNCHANGED <<rear, front, kept, out>>
        BY <1>0, <1>10, GotoFacts
           DEF SaveBegins, SaveOne, SaveEnds, Threads, ring, history, EndPcs
    <2>2. Passed' = Passed
        BY <2>1, QueueStays
    <2> QED BY <1>0, <2>1, <2>2 DEF MainGetting, EndPcs, StartPcs
<1>11. CASE Exit \/ Crash
    <2>1. pc'["main"] = "down" /\ Passed' = 0 /\ out' = <<>>
        BY <1>11, GoneFacts DEF Exit, Crash
    <2> QED BY <2>1 DEF MainGetting, EndPcs, StartPcs
<1>12. CASE Start
    <2>1. /\ pc["main"] = "down" /\ pc'["main"] = "loadq" /\ UNCHANGED <<rear, front, kept, out>>
        BY <1>0, <1>12, GotoFacts DEF Start, Threads, ring, history
    <2>2. Passed' = Passed
        BY <2>1, QueueStays
    <2> QED BY <1>0, <2>1, <2>2 DEF MainGetting, EndPcs, StartPcs
<1>13. CASE LoadOne
    <2>1. /\ pc["main"] = "loadq" /\ pc'["main"] \in {"loadq", "wrapq"}
          /\ front' = front /\ out' = out
        BY <1>13, Loads
    <2>2. Passed' = Passed
        <3>1. CASE UNCHANGED <<data, rear, kept>>
            BY <2>1, <3>1, QueueStays
        <3> QED BY <1>13, <3>1, Loads
    <2> QED BY <1>0, <2>1, <2>2 DEF MainGetting, EndPcs, StartPcs
<1>14. CASE RemoveFile
    <2>1. /\ pc["main"] = "loadq" /\ pc'["main"] = "get" /\ UNCHANGED <<rear, front, kept, out>>
        BY <1>14 DEF RemoveFile, Threads, ring, history
    <2>2. Passed' = Passed /\ Passed = 0 /\ Len(out) = 0
        BY <1>0, <2>1, QueueStays DEF MainGetting, StartPcs
    <2> QED BY <2>1, <2>2 DEF MainGetting, EndPcs, StartPcs
<1>15. CASE StartWithoutDb \/ PidFileRemoved
    BY <1>15, <1>b DEF StartWithoutDb, PidFileRemoved, vars, ring, history
<1>16. CASE Wraps2
    <2>1. /\ InQueue' = InQueue /\ Passed' = Passed /\ Oldest' = Oldest
          /\ UNCHANGED <<data, kept, out, tmp, rec>>
          /\ \/ pc'["main"] = pc["main"]
             \/ pc["main"] = "wrap" /\ pc'["main"] = "take"
             \/ pc["main"] = "wrapq" /\ pc'["main"] = "loadq"
        BY <1>16, SecondStores
    <2>2. CASE pc["main"] = "wrap" /\ pc'["main"] = "take"
        <3> HIDE DEF InQueue, Passed, Oldest, Succ
        <3> QED BY <1>0, <2>1, <2>2 DEF MainGetting, EndPcs, StartPcs
    <2>3. CASE pc["main"] = "wrapq" /\ pc'["main"] = "loadq"
        BY <1>0, <2>1, <2>3 DEF MainGetting, EndPcs, StartPcs
    <2>4. CASE pc'["main"] = pc["main"] /\ pc["main"] # "advance"
        <3> HIDE DEF InQueue, Passed, Oldest, Succ
        <3> QED BY <1>0, <2>1, <2>4 DEF MainGetting
    <2>5. CASE pc'["main"] = pc["main"] /\ pc["main"] = "advance"
        <3>1. front' = front
            BY <1>16, <2>5 DEF Wraps2, PutStore, GetAdvance, LoadWraps
        <3> HIDE DEF InQueue, Passed, Oldest, Succ
        <3> QED BY <1>0, <2>1, <2>5, <3>1 DEF MainGetting, EndPcs, StartPcs
    <2> QED BY <2>1, <2>2, <2>3, <2>4, <2>5
<1>17. CASE PutStore("recv") /\ UNCHANGED logVars
    BY <1>4, <1>16, <1>17 DEF PutStore, Wraps2
<1>18. CASE GetAdvance /\ UNCHANGED logVars
    BY <1>6, <1>16, <1>18 DEF GetAdvance, Wraps2
<1>19. CASE LoadWraps
    BY <1>16, <1>19 DEF Wraps2
<1> QED BY <1>0, <1>1, <1>2, <1>3, <1>5, <1>7, <1>8, <1>9, <1>10, <1>11, <1>12, <1>13,
           <1>14, <1>15, <1>17, <1>18, <1>19, MainNeverPuts
        DEF DbLogNext, ReceiverPuts, ReceiverStep, Put, MainStep, MainGets, Get, Handler, Starting

(* What is left of a save before its end.                                  *)
LEMMA LeftToSave ==
    ASSUME NEW p \in Nat, NEW l \in Nat, NEW o \in Nat, NEW k \in Nat, NEW q \in 0..Qsize,
           p + q = k, p + l <= o, o <= k
    PROVE  /\ l \in 0..Qsize /\ o - p \in 0..Qsize
           /\ l # o - p => l \in 0..(q - 1) /\ l \in 0..(Qsize - 1) /\ p + l + 1 <= o
           /\ l = o - p => p + l = o
BY QueueAssumption

(* fipc_SQSaveQ copies the next slot.                                      *)
LEMMA Saves ==
    ASSUME SaveInv, SaveOne
    PROVE  /\ pc["main"] = "save" /\ Passed \in Nat /\ owed \in Nat
           /\ Passed + Len(file) + 1 <= owed /\ owed <= Len(kept)
           /\ Len(file') = Len(file) + 1 /\ \A j \in 1..Len(file) : file'[j] = file[j]
           /\ file'[Len(file) + 1] = kept[Passed + Len(file) + 1]
           /\ cfront' = Place(Oldest, Len(file) + 1)
           /\ UNCHANGED <<ring, pc, nrec, history, db, crear, owed, rec>>
<1>0. /\ LogTypes /\ RingHolds /\ Saving /\ InQueue \in 0..Qsize /\ Oldest \in 0..Qsize
      /\ file \in Seq(Nat) /\ Len(file) \in Nat /\ Len(kept) \in Nat /\ owed \in Nat
      /\ Qsize \in Nat /\ data \in [Cells -> Nat]
  <2>1. LogTypes /\ RingHolds /\ Saving
      BY DEF SaveInv
  <2>2. /\ file \in Seq(Nat) /\ kept \in Seq(Nat) /\ owed \in Nat /\ Qsize \in Nat
        /\ data \in [Cells -> Nat]
      BY <2>1, QueueAssumption DEF LogTypes
  <2>3. Len(file) \in Nat /\ Len(kept) \in Nat
      BY <2>2
  <2> QED BY <2>1, <2>2, <2>3, QueueFacts
<1>1. /\ pc["main"] = "save" /\ cfront # crear /\ file' = Append(file, data[cfront])
      /\ cfront' = (cfront + 1) % Qnum
      /\ UNCHANGED <<ring, pc, nrec, history, db, crear, owed, rec>>
    BY DEF SaveOne, receiver
<1>2. /\ cfront = Place(Oldest, Len(file)) /\ crear = Place(Oldest, owed - Passed)
      /\ Passed + Len(file) <= owed /\ owed <= Len(kept)
    BY <1>0, <1>1 DEF Saving
<1> HIDE DEF InQueue, Oldest
<1>3. Passed \in Nat /\ Passed + InQueue = Len(kept)
    BY <1>0 DEF RingHolds, Passed
<1> HIDE DEF Passed
<1>4. Len(file) # owed - Passed
    BY <1>1, <1>2
<1>5. /\ Len(file) \in 0..(InQueue - 1) /\ Len(file) \in 0..(Qsize - 1)
      /\ Passed + Len(file) + 1 <= owed
    BY <1>0, <1>2, <1>3, <1>4, LeftToSave
<1>6. data[cfront] = kept[Passed + Len(file) + 1]
    BY <1>0, <1>2, <1>5 DEF RingHolds
<1>7. cfront \in 0..Qsize
    <2>1. Len(file) \in 0..Qsize
        BY <1>0, <1>5
    <2>2. Place(Oldest, Len(file)) \in 0..Qsize
        BY <1>0, <2>1, SlotsDiffer
    <2> QED BY <1>2, <2>2
<1>8. cfront' = Place(Oldest, Len(file) + 1)
    <2>1. cfront' = Succ(cfront)
        BY <1>1, <1>7, OneFurther
    <2> QED BY <1>0, <1>2, <1>5, <2>1, NextPlace
<1>9. data[cfront] \in Nat
    <2>1. cfront \in Cells
        BY <1>7, QueueAssumption DEF Cells, Qnum
    <2> QED BY <1>0, <2>1
<1>10. /\ Len(file') = Len(file) + 1 /\ file'[Len(file) + 1] = data[cfront]
       /\ \A j \in 1..Len(file) : file'[j] = file[j]
    BY <1>0, <1>1, <1>9
<1> QED BY <1>0, <1>1, <1>2, <1>3, <1>5, <1>6, <1>8, <1>10

LEMMA SavingStep ==
    ASSUME MaxRefused = 0, SaveInv, ~misled, ~misled', DbLogNext
    PROVE  Saving'
<1>0. /\ LogTypes /\ Saving /\ InQueue \in 0..Qsize /\ Oldest \in 0..Qsize /\ Len(kept) \in Nat
      /\ Len(file) \in Nat /\ Passed \in Nat /\ Passed + InQueue = Len(kept) /\ owed \in Nat
      /\ Vacant = Place(Oldest, InQueue)
    <2>1. LogTypes /\ Saving /\ RingHolds
        BY DEF SaveInv
    <2>2. Len(kept) \in Nat /\ Len(file) \in Nat /\ owed \in Nat
        BY <2>1 DEF LogTypes
    <2>3. InQueue \in 0..Qsize /\ Oldest \in 0..Qsize /\ Vacant = Place(Oldest, InQueue)
        BY <2>1, QueueFacts
    <2>4. InQueue <= Len(kept) /\ InQueue \in Nat
        BY <2>1, <2>3, QueueAssumption DEF RingHolds
    <2>5. Passed \in Nat /\ Passed + InQueue = Len(kept)
        <3> HIDE DEF InQueue
        <3> QED BY <2>2, <2>4 DEF Passed
    <2> QED BY <2>1, <2>2, <2>3, <2>5
<1>a. ASSUME pc'["main"] = pc["main"], UNCHANGED <<file, cfront, crear, owed>>,
             Len(kept') >= Len(kept), Len(kept') \in Nat, Passed' = Passed, Oldest' = Oldest,
             \A k \in 1..Len(kept) : kept'[k] = kept[k]
      PROVE  Saving'
    <2> SUFFICES ASSUME pc["main"] \in {"save", "exit"} PROVE Saving'
        BY <1>a DEF Saving
    <2>1. Passed + Len(file) <= owed /\ owed <= Len(kept) /\ owed <= Len(kept')
        BY <1>0, <1>a DEF Saving
    <2>2. ASSUME NEW j \in 1..Len(file) PROVE file[j] = kept'[Passed + j]
        <3>1. Passed + j \in 1..Len(kept)
            <4> HIDE DEF Passed, InQueue
            <4> QED BY <1>0, <2>1
        <3> QED BY <1>0, <1>a, <3>1 DEF Saving
    <2> HIDE DEF Passed, Oldest
    <2> QED BY <1>0, <1>a, <2>1, <2>2 DEF Saving
<1>b. ASSUME pc'["main"] = pc["main"], UNCHANGED <<rear, front, kept, file, cfront, crear, owed>>
      PROVE  Saving'
    BY <1>0, <1>a, <1>b, QueueStays
<1>1. CASE ReceiveUnlessStopped \/ ReceiverQuits \/ (ReceiverFindsFull /\ UNCHANGED logVars)
    <2>1. pc'["main"] = pc["main"] /\ UNCHANGED <<rear, front, kept, file, cfront, crear, owed>>
        BY <1>0, <1>1, GotoFacts DEF ReceiveUnlessStopped, Receive, ReceiverQuits,
           ReceiverFindsFull, Threads, ring, history, logVars, saveVars
    <2> QED BY <1>b, <2>1
<1>2. CASE (PutCheck("recv") \/ PutLoad("recv")) /\ UNCHANGED logVars
    <2>1. pc'["main"] = pc["main"] /\ UNCHANGED <<rear, front, kept, file, cfront, crear, owed>>
        BY <1>0, <1>2, GotoFacts DEF PutCheck, PutLoad, Threads, ring, history, logVars, saveVars
    <2> QED BY <1>b, <2>1
<1>3. CASE PutFill("recv") /\ UNCHANGED logVars
    <2>1. pc'["main"] = pc["main"] /\ UNCHANGED <<rear, front, kept, logVars>>
        BY <1>3, Fills
    <2> QED BY <1>b, <2>1 DEF logVars, saveVars
<1>4. CASE PutStore("recv") /\ pc["recv"] = "store" /\ UNCHANGED logVars
    <2>1. /\ pc'["main"] = pc["main"] /\ Len(kept') = Len(kept) + 1 /\ Passed' = Passed
          /\ Oldest' = Oldest
          /\ \A k \in 1..Len(kept) : kept'[k] = kept[k]
          /\ UNCHANGED logVars
        BY <1>4, Stores
    <2> QED BY <1>0, <1>a, <2>1 DEF logVars, saveVars
<1>5. CASE MainGets \/ Insert \/ UnknownType \/ Signal
    <2>1. pc'["main"] \notin {"save", "exit"}
        BY <1>0, <1>5, GotoFacts DEF MainGets, Get, GetCheck, GetAdvance, GetTake, Insert,
           UnknownType, Signal, Threads
    <2> QED BY <2>1 DEF Saving
<1>6. CASE SaveBegins
    <2>1. /\ pc'["main"] = "save" /\ cfront' = front /\ crear' = rear /\ file' = <<>>
          /\ owed' = Len(kept) /\ front # Qnum /\ rear # Qnum
          /\ UNCHANGED <<rear, front, kept>>
        BY <1>0, <1>6, GotoFacts DEF SaveBegins, Threads, ring
    <2>2. /\ Passed' = Passed /\ Oldest' = Oldest /\ Len(file') = 0
          /\ Oldest = front /\ Vacant = rear
        BY <2>1, QueueStays DEF Oldest, Vacant, Wrapped
    <2> HIDE DEF InQueue, Oldest, Vacant
    <2>3. front = Place(Oldest, 0)
        BY <1>0, <2>2, NextPlace, QueueAssumption
    <2>4. Len(kept) - Passed = InQueue
        <3> HIDE DEF Passed
        <3> QED BY <1>0
    <2> HIDE DEF Passed
    <2> QED BY <1>0, <2>1, <2>2, <2>3, <2>4 DEF Saving
<1>7. CASE SaveOne
    <2>1. /\ pc["main"] = "save"
          /\ Passed + Len(file) + 1 <= owed /\ owed <= Len(kept)
          /\ Len(file') = Len(file) + 1 /\ \A j \in 1..Len(file) : file'[j] = file[j]
          /\ file'[Len(file) + 1] = kept[Passed + Len(file) + 1]
          /\ cfront' = Place(Oldest, Len(file) + 1)
          /\ UNCHANGED <<rear, front, kept, pc, crear, owed>>
        BY <1>7, Saves DEF SaveInv, ring, history
    <2>2. Passed' = Passed /\ Oldest' = Oldest
        BY <2>1, QueueStays
    <2>3. ASSUME NEW j \in 1..(Len(file) + 1) PROVE file'[j] = kept[Passed + j]
        <3>1. CASE j \in 1..Len(file)
            BY <1>0, <2>1, <3>1 DEF Saving
        <3>2. CASE j = Len(file) + 1
            <4>1. Passed + Len(file) + 1 = Passed + j
                BY <1>0, <3>2
            <4> QED BY <2>1, <3>2, <4>1
        <3> QED BY <1>0, <3>1, <3>2
    <2>4. crear = Place(Oldest, owed - Passed)
        BY <1>0, <2>1 DEF Saving
    <2> HIDE DEF Passed, Oldest, InQueue
    <2>5. Passed + (Len(file) + 1) <= owed
        BY <1>0, <2>1
    <2> QED BY <2>1, <2>2, <2>3, <2>4, <2>5 DEF Saving
<1>8. CASE SaveEnds
    <2>1. /\ pc["main"] = "save" /\ cfront = crear /\ pc'["main"] = "exit"
          /\ UNCHANGED <<rear, front, kept, file, owed>>
        BY <1>0, <1>8, GotoFacts DEF SaveEnds, Threads, ring, history, logVars, saveVars
    <2>2. Passed' = Passed
        BY <2>1, QueueStays
    <2>3. /\ cfront = Place(Oldest, Len(file)) /\ crear = Place(Oldest, owed - Passed)
          /\ Passed + Len(file) <= owed /\ owed <= Len(kept)
        BY <1>0, <2>1 DEF Saving
    <2> HIDE DEF InQueue, Oldest, Passed
    <2>4. Len(file) \in 0..Qsize /\ owed - Passed \in 0..Qsize
        BY <1>0, <2>3, LeftToSave
    <2>5. Len(file) = owed - Passed
        <3>1. Place(Oldest, Len(file)) = Place(Oldest, owed - Passed)
            BY <2>1, <2>3
        <3>2. Len(file) # owed - Passed => Place(Oldest, Len(file)) # Place(Oldest, owed - Passed)
            BY <1>0, <2>4, SlotsDiffer
        <3> QED BY <3>1, <3>2
    <2>6. Passed + Len(file) = owed
        BY <1>0, <2>3, <2>5, LeftToSave
    <2> QED BY <1>0, <2>1, <2>2, <2>3, <2>6 DEF Saving
<1>9. CASE Exit \/ Crash \/ Start \/ LoadOne \/ RemoveFile
    <2>1. pc'["main"] \notin {"save", "exit"}
        <3>1. CASE Exit \/ Crash
            BY <3>1, GoneFacts DEF Exit, Crash
        <3>2. CASE Start
            BY <1>0, <3>2, GotoFacts DEF Start, Threads
        <3>3. CASE LoadOne
            BY <3>3, Loads
        <3>4. CASE RemoveFile
            BY <3>4 DEF RemoveFile, Threads
        <3> QED BY <1>9, <3>1, <3>2, <3>3, <3>4
    <2> QED BY <2>1 DEF Saving
<1>10. CASE StartWithoutDb \/ PidFileRemoved
    <2>1. pc' = pc /\ UNCHANGED <<rear, front, kept, file, cfront, crear, owed>>
        BY <1>10 DEF StartWithoutDb, PidFileRemoved, vars, ring, history, saveVars
    <2> QED BY <1>b, <2>1
<1>11. CASE Wraps2
    <2>1. /\ Passed' = Passed /\ Oldest' = Oldest /\ UNCHANGED <<kept, file, cfront, crear, owed>>
          /\ pc'["main"] = pc["main"] \/ pc'["main"] \in {"take", "loadq"}
        BY <1>11, SecondStores
    <2>2. CASE pc'["main"] = pc["main"]
        BY <1>0, <1>a, <2>1, <2>2
    <2>3. CASE pc'["main"] \in {"take", "loadq"}
        BY <2>3 DEF Saving
    <2> QED BY <2>1, <2>2, <2>3
<1>12. CASE PutStore("recv") /\ UNCHANGED logVars
    BY <1>4, <1>11, <1>12 DEF PutStore, Wraps2
<1>13. CASE LoadWraps
    BY <1>11, <1>13 DEF Wraps2
<1> QED BY <1>0, <1>1, <1>2, <1>3, <1>5, <1>6, <1>7, <1>8, <1>9, <1>10, <1>12, <1>13, MainNeverPuts
        DEF DbLogNext, ReceiverPuts, ReceiverStep, Put, MainStep, Handler, Starting

(* A step that leaves all variables alone.                                 *)
LEMMA SaveInvStutter == ASSUME SaveInv, UNCHANGED dbVars PROVE SaveInv'
<1>1. UNCHANGED <<data, rear, front, tmp, pc, rec, val, nrec, kept, out, db, file,
                  cfront, crear, owed, refused, crashes, stops>>
    BY DEF dbVars, vars, ring, receiver, history, logVars, saveVars, faults
<1>2. InQueue' = InQueue /\ Passed' = Passed /\ Oldest' = Oldest /\ Vacant' = Vacant
    BY <1>1, QueueStays
<1>3. LogTypes'
    BY <1>1 DEF SaveInv, LogTypes
<1> HIDE DEF InQueue, Passed, Oldest, Vacant
<1>4. RingHolds'
    BY <1>1, <1>2 DEF SaveInv, RingHolds
<1>5. ReceiverPutting' /\ MainGetting'
    BY <1>1, <1>2 DEF SaveInv, ReceiverPutting, MainGetting
<1>6. Saving'
    BY <1>1, <1>2 DEF SaveInv, Saving
<1> QED BY <1>3, <1>4, <1>5, <1>6 DEF SaveInv

(* Who has been misled stays so, over restarts too.                        *)
LEMMA LogMisledStays ==
    ASSUME MaxRefused = 0, LogTypes \/ misled, [DbLogNext]_dbVars, misled
    PROVE  misled'
<1>1. CASE ReceiveUnlessStopped \/ ReceiverPuts \/ ReceiverQuits
    BY <1>1 DEF ReceiveUnlessStopped, ReceiverPuts, ReceiverQuits, ReceiverStep, Receive, Put,
                PutCheck, PutFill, PutLoad, PutStore, ReceiverFindsFull, history
<1>2. CASE MainStep
    BY <1>2 DEF MainStep, MainGets, Get, GetCheck, GetAdvance, GetTake, Insert, InsertFails,
                UnknownType, MainPuts, MainFindsFull, Put, PutCheck, PutFill, PutLoad, PutStore,
                history
<1>3. CASE Signal \/ Handler \/ Crash \/ Starting \/ StartWithoutDb \/ PidFileRemoved
    BY <1>3 DEF Signal, Handler, SaveBegins, SaveOne, SaveEnds, Exit, Crash, Gone, Starting,
                Start, LoadOne, LoadWraps, RemoveFile, StartWithoutDb, PidFileRemoved, vars, history
<1>4. CASE UNCHANGED dbVars
    BY <1>4 DEF dbVars, vars, history
<1> QED BY <1>1, <1>2, <1>3, <1>4 DEF DbLogNext

LEMMA SaveInvStep ==
    ASSUME MaxRefused = 0, SaveInv, ~misled, ~misled', [DbLogNext]_dbVars
    PROVE  SaveInv'
<1>1. CASE UNCHANGED dbVars
    BY <1>1, SaveInvStutter
<1>2. CASE DbLogNext
    BY <1>2, LogTypesStep, RingHoldsStep, ReceiverPuttingStep, MainGettingStep, SavingStep
       DEF SaveInv
<1> QED BY <1>1, <1>2

LEMMA SaveInvariant ==
    ASSUME MaxRefused = 0
    PROVE  DbLogSpec => [](misled \/ SaveInv)
<1>1. (misled \/ SaveInv) /\ [DbLogNext]_dbVars => (misled \/ SaveInv)'
    BY SaveInvStep, LogMisledStays
<1> QED BY LogInit, <1>1, PTL DEF DbLogSpec

(* fipc_SQSaveQ: what a signal saves is all that waited in the ring when   *)
(* the save began, from the oldest record on, though the receiver puts     *)
(* meanwhile; for every signal and kill that came before, until somebody   *)
(* takes an index between its two stores.                                  *)
THEOREM DbLogSavedFromOldest ==
    ASSUME MaxRefused = 0
    PROVE  DbLogSpec => []SavedFromOldest
<1>1. ASSUME misled \/ SaveInv PROVE SavedFromOldest
    <2> SUFFICES ASSUME pc["main"] = "exit", SaveInv
                 PROVE  \E k \in {Len(out), Len(out) + 1} :
                            /\ k + Len(file) = owed
                            /\ \A j \in 1..Len(file) : file[j] = kept[k + j]
        BY <1>1 DEF SavedFromOldest
    <2>1. Passed \in {Len(out), Len(out) + 1} /\ Passed + Len(file) = owed
        BY DEF SaveInv, MainGetting, Saving, EndPcs
    <2>2. \A j \in 1..Len(file) : file[j] = kept[Passed + j]
        BY DEF SaveInv, Saving
    <2> QED BY <2>1, <2>2
<1> QED BY SaveInvariant, <1>1, PTL

------------------------------------------------------------------------------
(* The order of the records.                                               *)

LEMMA RowsInit == DbLogInit => RowsInv
<1> SUFFICES ASSUME DbLogInit PROVE RowsInv
    OBVIOUS
<1>1. /\ SaveInv /\ db = <<>> /\ file = <<>> /\ kept = <<>> /\ nrec = 0
      /\ pc["recv"] = "recv" /\ pc["main"] = "get" /\ Len(kept) = 0 /\ Len(file) = 0
    BY LogInit DEF DbLogInit, Init, Threads
<1>2. LastRow = 0
    BY <1>1 DEF LastRow
<1>3. RingOrder
    BY <1>1, <1>2 DEF RingOrder, PuttingPcs
<1>4. FileOrder
    BY <1>1, <1>2 DEF FileOrder
<1> QED BY <1>1, <1>3, <1>4 DEF RowsInv

LEMMA RowFacts == ASSUME LogTypes PROVE LastRow \in Nat /\ nrec \in Nat
BY DEF LogTypes, LastRow

(* The row of a record that is inserted, and what stays as it is.          *)
LEMMA Inserts ==
    ASSUME SaveInv, Insert
    PROVE  /\ pc["main"] = "got" /\ pc'["main"] = "get" /\ pc'["recv"] = pc["recv"]
           /\ db' = Append(db, rec["main"]) /\ LastRow' = rec["main"]
           /\ Len(out) \in 1..Len(kept) /\ rec["main"] = kept[Len(out)]
           /\ UNCHANGED <<rec, nrec, kept, out, file, cfront>>
<1>0. LogTypes /\ db \in Seq(Nat) /\ rec["main"] \in Nat
    BY DEF SaveInv, LogTypes, Threads
<1>1. /\ pc["main"] = "got" /\ Goto("main", "get") /\ db' = Append(db, rec["main"])
      /\ UNCHANGED <<rec, nrec, kept, out, file, cfront>>
    BY DEF Insert, history, receiver, saveVars
<1>2. pc'["main"] = "get" /\ pc'["recv"] = pc["recv"]
    BY <1>0, <1>1, GotoFacts DEF Threads
<1>3. LastRow' = rec["main"]
    BY <1>0, <1>1 DEF LastRow
<1>4. Passed = Len(out) /\ Len(out) > 0 /\ rec["main"] = kept[Len(out)]
    BY <1>1 DEF SaveInv, MainGetting
<1>5. InQueue \in Nat /\ Len(out) \in Nat /\ Len(kept) \in Nat
    <2>1. kept \in Seq(Nat) /\ out \in Seq(Nat)
        BY <1>0 DEF LogTypes
    <2>2. InQueue \in 0..Qsize
        BY <1>0, QueueFacts
    <2> QED BY <2>1, <2>2, QueueAssumption
<1>6. Len(out) \in 1..Len(kept)
    <2> HIDE DEF InQueue
    <2> QED BY <1>4, <1>5 DEF Passed
<1> QED BY <1>1, <1>2, <1>3, <1>4, <1>6

LEMMA RingOrderStep ==
    ASSUME MaxRefused = 0, RowsInv, ~misled, ~misled', DbLogNext
    PROVE  RingOrder'
<1>0. /\ LogTypes /\ SaveInv /\ RingOrder /\ FileOrder /\ LastRow \in Nat /\ nrec \in Nat
      /\ Len(kept) \in Nat /\ Len(out) \in Nat /\ Len(file) \in Nat
    <2>1. LogTypes /\ SaveInv /\ RingOrder /\ FileOrder
        BY DEF RowsInv, SaveInv
    <2>2. LastRow \in Nat /\ nrec \in Nat
        BY <2>1, RowFacts
    <2>3. Len(kept) \in Nat /\ Len(out) \in Nat /\ Len(file) \in Nat
        BY <2>1 DEF LogTypes
    <2> QED BY <2>1, <2>2, <2>3
<1>a. ASSUME UNCHANGED <<nrec, kept, out, db>>,
             pc'["recv"] \in PuttingPcs => pc["recv"] \in PuttingPcs,
             pc'["main"] = "got" => pc["main"] = "got" /\ rec'["main"] = rec["main"]
      PROVE  RingOrder'
    <2>1. LastRow' = LastRow
        BY <1>a DEF LastRow
    <2> QED BY <1>0, <1>a, <2>1 DEF RingOrder
<1>15. CASE Wraps2
    <2>1. /\ UNCHANGED <<nrec, kept, out, db, rec>>
          /\ pc'["recv"] \in {pc["recv"], "recv"} /\ pc'["main"] \in {pc["main"], "take", "loadq"}
        BY <1>0, <1>15, SecondStores
    <2> QED BY <1>a, <2>1 DEF PuttingPcs
<1>1. CASE ReceiveUnlessStopped
    <2>1. /\ nrec' = nrec + 1 /\ rec' = [rec EXCEPT !["recv"] = nrec + 1]
          /\ pc'["main"] = pc["main"] /\ UNCHANGED <<kept, out, db>>
        BY <1>0, <1>1, GotoFacts DEF ReceiveUnlessStopped, Receive, Threads, history, logVars
    <2>2. LastRow' = LastRow /\ rec'["main"] = rec["main"]
        BY <1>0, <2>1 DEF LastRow, LogTypes, Threads
    <2>3. \A k \in 1..Len(kept) : kept[k] \in Nat
        <3>1. kept \in Seq(Nat)
            BY <1>0 DEF LogTypes
        <3> QED BY <3>1
    <2>4. /\ LastRow < nrec + 1 /\ LastRow <= nrec + 1
          /\ \A k \in 1..Len(kept) : kept[k] > 0 /\ kept[k] < nrec + 1 /\ kept[k] <= nrec + 1
        BY <1>0, <2>3 DEF RingOrder
    <2> QED BY <1>0, <2>1, <2>2, <2>4 DEF RingOrder
<1>2. CASE ReceiverQuits \/ (ReceiverFindsFull /\ UNCHANGED logVars)
    <2>1. /\ pc["recv"] = "put" \/ pc'["recv"] \notin PuttingPcs
          /\ pc'["main"] = pc["main"] /\ UNCHANGED <<nrec, kept, out, db, rec>>
        BY <1>0, <1>2, GotoFacts DEF ReceiverQuits, ReceiverFindsFull, Threads, history, receiver,
           logVars, PuttingPcs
    <2> QED BY <1>a, <2>1 DEF PuttingPcs
<1>3. CASE (PutCheck("recv") \/ PutLoad("recv")) /\ UNCHANGED logVars
    <2>1. /\ pc["recv"] \in PuttingPcs \/ pc["recv"] = "loadwrap"
          /\ pc'["main"] = pc["main"] /\ UNCHANGED <<nrec, kept, out, db, rec>>
        BY <1>0, <1>3, GotoFacts DEF PutCheck, PutLoad, Threads, history, receiver,
           logVars, PuttingPcs
    <2>2. pc["recv"] = "loadwrap" => pc'["recv"] = "storewrap"
        BY <1>0, <1>3, GotoFacts DEF PutCheck, PutLoad, Threads
    <2>3. pc'["recv"] \in PuttingPcs => pc["recv"] \in PuttingPcs
        BY <2>1, <2>2 DEF PuttingPcs
    <2>4. pc'["main"] = "got" => pc["main"] = "got" /\ rec'["main"] = rec["main"]
        BY <2>1
    <2> QED BY <1>a, <2>1, <2>3, <2>4
<1>4. CASE PutFill("recv") /\ UNCHANGED logVars
    <2>1. /\ pc["recv"] = "fill" /\ pc'["main"] = pc["main"]
          /\ UNCHANGED <<nrec, kept, out, db, rec>>
        BY <1>0, <1>4, Fills DEF logVars
    <2> QED BY <1>a, <2>1 DEF PuttingPcs
<1>5. CASE PutStore("recv") /\ pc["recv"] = "store" /\ UNCHANGED logVars
    <2>1. /\ pc["recv"] = "store" /\ pc'["recv"] = "loadwrap" /\ pc'["main"] = pc["main"]
          /\ Len(kept') = Len(kept) + 1 /\ \A k \in 1..Len(kept) : kept'[k] = kept[k]
          /\ kept'[Len(kept) + 1] = rec["recv"] /\ UNCHANGED <<rec, nrec, out, db>>
        BY <1>0, <1>5, Stores DEF logVars
    <2>2. rec["recv"] = nrec /\ nrec > 0
        <3>1. ReceiverPutting /\ pc["recv"] \in PuttingPcs
            BY <1>0, <2>1 DEF SaveInv, PuttingPcs
        <3> QED BY <3>1 DEF ReceiverPutting
    <2>3. LastRow' = LastRow /\ LastRow < nrec /\ \A k \in 1..Len(kept) : kept[k] < nrec
        BY <1>0, <2>1 DEF LastRow, RingOrder, PuttingPcs
    <2>4. ASSUME NEW k \in 1..(Len(kept) + 1)
          PROVE  kept'[k] > 0 /\ kept'[k] <= nrec /\ (k > Len(out) => LastRow < kept'[k])
        <3>1. CASE k \in 1..Len(kept)
            BY <1>0, <2>1, <3>1 DEF RingOrder
        <3>2. CASE k = Len(kept) + 1
            BY <1>0, <2>1, <2>2, <2>3, <3>2
        <3> QED BY <1>0, <3>1, <3>2
    <2>5. ASSUME NEW j \in 1..(Len(kept) + 1), NEW k \in 1..(Len(kept) + 1), j < k
          PROVE  kept'[j] < kept'[k]
        <3>0. j \in 1..Len(kept)
            BY <1>0, <2>5
        <3>1. CASE k \in 1..Len(kept)
            BY <1>0, <2>1, <2>5, <3>0, <3>1 DEF RingOrder
        <3>2. CASE k = Len(kept) + 1
            BY <1>0, <2>1, <2>2, <2>3, <3>0, <3>2
        <3> QED BY <1>0, <3>1, <3>2
    <2> QED BY <1>0, <2>1, <2>3, <2>4, <2>5 DEF RingOrder, PuttingPcs
<1>6. CASE MainGets
    <2>1. CASE GetCheck /\ UNCHANGED logVars
        <3>1. /\ pc'["main"] = "advance" /\ pc'["recv"] = pc["recv"]
              /\ UNCHANGED <<nrec, kept, out, db>>
            BY <1>0, <2>1, GotoFacts DEF GetCheck, Threads, history, receiver, logVars
        <3> QED BY <1>a, <3>1
    <2>2. CASE GetAdvance /\ pc["main"] = "advance" /\ UNCHANGED logVars
        <3>1. /\ pc'["main"] = "wrap" /\ pc'["recv"] = pc["recv"]
              /\ UNCHANGED <<nrec, kept, out, db>>
            BY <1>0, <2>2, Advances DEF logVars
        <3> QED BY <1>a, <3>1
    <2>3. CASE GetTake /\ UNCHANGED logVars
        <3>1. /\ pc'["main"] = "got" /\ pc'["recv"] = pc["recv"]
              /\ rec'["main"] = kept[Len(out) + 1] /\ Len(out') = Len(out) + 1
              /\ Passed = Len(out) + 1 /\ UNCHANGED <<nrec, kept, db>>
            BY <1>0, <2>3, Takes DEF logVars
        <3>2. Len(out) + 1 \in 1..Len(kept)
            <4>1. InQueue \in Nat
                BY <1>0, QueueFacts, QueueAssumption
            <4> HIDE DEF InQueue
            <4> QED BY <1>0, <3>1, <4>1 DEF Passed
        <3>3. LastRow' = LastRow /\ LastRow < kept[Len(out) + 1]
            BY <1>0, <3>1, <3>2 DEF LastRow, RingOrder
        <3>4. \A k \in 1..Len(kept) : k > Len(out) + 1 => LastRow < kept[k]
            BY <1>0 DEF RingOrder
        <3> QED BY <1>0, <3>1, <3>3, <3>4 DEF RingOrder
    <2> QED BY <1>6, <1>15, <2>1, <2>2, <2>3 DEF MainGets, Get, GetAdvance, Wraps2
<1>7. CASE Insert
    <2>1. /\ pc'["main"] = "get" /\ pc'["recv"] = pc["recv"] /\ LastRow' = kept[Len(out)]
          /\ Len(out) \in 1..Len(kept) /\ UNCHANGED <<nrec, kept, out>>
        BY <1>0, <1>7, Inserts
    <2>2. \A k \in 1..Len(kept) : k > Len(out) => kept[Len(out)] < kept[k]
        BY <2>1, <1>0 DEF RingOrder
    <2>3. kept[Len(out)] <= nrec /\ (pc["recv"] \in PuttingPcs => kept[Len(out)] < nrec)
        BY <2>1, <1>0 DEF RingOrder
    <2> QED BY <1>0, <2>1, <2>2, <2>3 DEF RingOrder
<1>8. CASE UnknownType \/ Signal \/ SaveBegins \/ SaveEnds \/ Start
    <2>1. /\ pc'["main"] \in {"get", "stop", "save", "exit", "loadq"} /\ pc'["recv"] = pc["recv"]
          /\ UNCHANGED <<nrec, kept, out, db>>
        BY <1>0, <1>8, GotoFacts DEF UnknownType, Signal, SaveBegins, SaveEnds, Start, Threads,
           history, receiver, logVars
    <2> QED BY <1>a, <2>1
<1>9. CASE SaveOne
    <2>1. UNCHANGED <<nrec, kept, out, db, pc, rec>>
        BY <1>0, <1>9, Saves DEF history
    <2> QED BY <1>a, <2>1
<1>10. CASE RemoveFile
    <2>1. /\ pc'["main"] = "get" /\ pc'["recv"] = "recv" /\ UNCHANGED <<nrec, kept, out, db>>
        BY <1>10 DEF RemoveFile, Threads, history, receiver
    <2> QED BY <1>a, <2>1 DEF PuttingPcs
<1>11. CASE Exit \/ Crash
    <2>1. /\ pc'["main"] = "down" /\ pc'["recv"] = "off" /\ Len(kept') = 0
          /\ nrec' = nrec /\ db' = db
        BY <1>11, GoneFacts DEF Exit, Crash
    <2>2. LastRow' = LastRow
        BY <2>1 DEF LastRow
    <2> QED BY <1>0, <2>1, <2>2 DEF RingOrder, PuttingPcs
<1>12. CASE LoadOne
    <2>1. /\ pc["main"] = "loadq" /\ cfront < Len(file) /\ UNCHANGED <<rec, nrec, out, db>>
          /\ pc'["main"] \in {"loadq", "wrapq"} /\ pc'["recv"] = pc["recv"]
          /\ \/ kept' = kept
             \/ /\ Len(kept') = Len(kept) + 1 /\ \A k \in 1..Len(kept) : kept'[k] = kept[k]
                /\ kept'[Len(kept) + 1] = file[cfront + 1]
        BY <1>0, <1>12, Loads
    <2>2. CASE kept' = kept
        BY <1>a, <2>1, <2>2
    <2>3. CASE /\ Len(kept') = Len(kept) + 1 /\ \A k \in 1..Len(kept) : kept'[k] = kept[k]
               /\ kept'[Len(kept) + 1] = file[cfront + 1]
        <3>0. cfront \in Nat /\ cfront + 1 \in 1..Len(file) /\ file[cfront + 1] \in Nat
            <4>1. cfront \in Nat /\ file \in Seq(Nat)
                BY <1>0 DEF LogTypes, SaveInv
            <4> QED BY <2>1, <4>1
        <3>1. /\ LastRow < file[cfront + 1] /\ file[cfront + 1] <= nrec
              /\ \A k \in 1..Len(kept) : kept[k] < file[cfront + 1]
            <4>1. cfront + 1 > cfront
                BY <3>0
            <4> QED BY <1>0, <2>1, <3>0, <4>1 DEF FileOrder
        <3>2. pc'["recv"] = "off" /\ LastRow' = LastRow
            BY <1>0, <2>1 DEF SaveInv, ReceiverPutting, StartPcs, LastRow
        <3>3. ASSUME NEW k \in 1..(Len(kept) + 1)
              PROVE  kept'[k] > 0 /\ kept'[k] <= nrec /\ (k > Len(out) => LastRow < kept'[k])
            <4>1. CASE k \in 1..Len(kept)
                BY <1>0, <2>3, <4>1 DEF RingOrder
            <4>2. CASE k = Len(kept) + 1
                BY <1>0, <2>3, <3>0, <3>1, <4>2
            <4> QED BY <1>0, <4>1, <4>2
        <3>4. ASSUME NEW j \in 1..(Len(kept) + 1), NEW k \in 1..(Len(kept) + 1), j < k
              PROVE  kept'[j] < kept'[k]
            <4>0. j \in 1..Len(kept)
                BY <1>0, <3>4
            <4>1. CASE k \in 1..Len(kept)
                BY <1>0, <2>3, <3>4, <4>0, <4>1 DEF RingOrder
            <4>2. CASE k = Len(kept) + 1
                BY <1>0, <2>3, <3>1, <4>0, <4>2
            <4> QED BY <1>0, <4>1, <4>2
        <3> QED BY <1>0, <2>1, <2>3, <3>2, <3>3, <3>4 DEF RingOrder, PuttingPcs
    <2> QED BY <2>1, <2>2, <2>3
<1>13. CASE StartWithoutDb \/ PidFileRemoved
    <2>1. UNCHANGED <<nrec, kept, out, db, pc, rec>>
        BY <1>13 DEF StartWithoutDb, PidFileRemoved, vars, receiver, history
    <2> QED BY <1>a, <2>1
<1>14. CASE PutStore("recv") /\ UNCHANGED logVars
    BY <1>5, <1>14, <1>15 DEF PutStore, Wraps2
<1>16. CASE LoadWraps
    BY <1>15, <1>16 DEF Wraps2
<1> QED BY <1>0, <1>1, <1>2, <1>3, <1>4, <1>6, <1>7, <1>8, <1>9, <1>10, <1>11, <1>12, <1>13,
           <1>14, <1>16, MainNeverPuts
        DEF DbLogNext, ReceiverPuts, ReceiverStep, Put, MainStep, Handler, Starting

LEMMA FileOrderStep ==
    ASSUME MaxRefused = 0, RowsInv, ~misled, ~misled', DbLogNext
    PROVE  FileOrder'
<1>0. /\ LogTypes /\ SaveInv /\ RingOrder /\ FileOrder /\ LastRow \in Nat /\ nrec \in Nat
      /\ Len(kept) \in Nat /\ Len(out) \in Nat /\ Len(file) \in Nat /\ cfront \in Nat
      /\ \A j \in 1..Len(file) : file[j] \in Nat
    <2>1. LogTypes /\ SaveInv /\ RingOrder /\ FileOrder
        BY DEF RowsInv, SaveInv
    <2>2. LastRow \in Nat /\ nrec \in Nat
        BY <2>1, RowFacts
    <2>3. /\ Len(kept) \in Nat /\ Len(out) \in Nat /\ Len(file) \in Nat /\ cfront \in Nat
          /\ \A j \in 1..Len(file) : file[j] \in Nat
        <3>1. kept \in Seq(Nat) /\ out \in Seq(Nat) /\ file \in Seq(Nat) /\ cfront \in Nat
            BY <2>1 DEF LogTypes
        <3> QED BY <3>1
    <2> QED BY <2>1, <2>2, <2>3
<1>a. ASSUME UNCHANGED <<file, db>>, nrec' \in {nrec, nrec + 1}, pc'["main"] \notin StartPcs,
             pc'["main"] \in TakePcs => pc["main"] \in TakePcs
      PROVE  FileOrder'
    <2>1. LastRow' = LastRow
        BY <1>a DEF LastRow
    <2>2. \A j \in 1..Len(file) : LastRow < file[j] /\ file[j] <= nrec'
        BY <1>0, <1>a DEF FileOrder
    <2> QED BY <1>0, <1>a, <2>1, <2>2 DEF FileOrder, StartPcs
<1>b. ASSUME file' = <<>>, pc'["main"] \notin StartPcs
      PROVE  FileOrder'
    <2>1. Len(file') = 0
        BY <1>b
    <2> QED BY <1>b, <2>1 DEF FileOrder, StartPcs
<1>1. CASE ReceiveUnlessStopped \/ ReceiverPuts \/ ReceiverQuits
    <2>1. pc["recv"] # "off" /\ pc'["main"] = pc["main"]
        BY <1>0, <1>1, GotoFacts DEF ReceiveUnlessStopped, Receive, ReceiverPuts, ReceiverStep,
           Put, PutCheck, PutFill, PutLoad, PutStore, ReceiverFindsFull, ReceiverQuits, Threads
    <2>2. UNCHANGED <<file, db>> /\ nrec' \in {nrec, nrec + 1}
        BY <1>1 DEF ReceiveUnlessStopped, Receive, ReceiverPuts, ReceiverStep,
           Put, PutCheck, PutFill, PutLoad, PutStore, ReceiverFindsFull, ReceiverQuits, logVars,
           saveVars, receiver
    <2>3. pc["main"] \notin StartPcs
        BY <1>0, <2>1 DEF SaveInv, ReceiverPutting
    <2> QED BY <1>a, <2>1, <2>2, <2>3
<1>2. CASE MainGets \/ Insert \/ UnknownType
    <2>1. pc["main"] \in TakePcs /\ pc'["main"] \in {"advance", "take", "got", "get", "wrap"}
        BY <1>0, <1>2, GotoFacts DEF MainGets, Get, GetCheck, GetAdvance, GetTake, Insert,
           UnknownType, LogTypes, TakePcs, EndPcs, StartPcs, Threads
    <2>2. file' = file
        BY <1>2 DEF MainGets, Get, Insert, UnknownType, logVars, saveVars
    <2> QED BY <1>0, <1>b, <2>1, <2>2 DEF FileOrder, StartPcs
<1>3. CASE Signal \/ SaveEnds
    <2>1. pc'["main"] \in {"stop", "exit"} /\ UNCHANGED <<file, db, nrec>>
        BY <1>0, <1>3, GotoFacts DEF Signal, SaveEnds, Threads, receiver, logVars, saveVars
    <2> QED BY <1>a, <2>1 DEF StartPcs, TakePcs
<1>4. CASE SaveBegins
    <2>1. pc'["main"] = "save" /\ file' = <<>>
        BY <1>0, <1>4, GotoFacts DEF SaveBegins, Threads
    <2> QED BY <1>b, <2>1 DEF StartPcs
<1>5. CASE SaveOne
    <2>1. /\ pc["main"] = "save" /\ Passed \in Nat /\ owed \in Nat
          /\ Passed + Len(file) + 1 <= owed /\ owed <= Len(kept)
          /\ Len(file') = Len(file) + 1 /\ \A j \in 1..Len(file) : file'[j] = file[j]
          /\ file'[Len(file) + 1] = kept[Passed + Len(file) + 1]
          /\ UNCHANGED <<pc, nrec, db>>
        BY <1>0, <1>5, Saves
    <2>2. /\ Passed \in {Len(out), Len(out) + 1} /\ Passed \in Nat
          /\ Passed + Len(file) + 1 \in 1..Len(kept)
          /\ Passed + Len(file) + 1 > Len(out)
        <3>1. Passed \in {Len(out), Len(out) + 1}
            BY <1>0, <2>1 DEF SaveInv, MainGetting, EndPcs
        <3> HIDE DEF Passed
        <3> QED BY <1>0, <2>1, <3>1
    <2>3. LastRow' = LastRow
        BY <2>1 DEF LastRow
    <2>4. \A j \in 1..Len(file) : file[j] = kept[Passed + j] /\ Passed + j \in 1..Len(kept)
        <3>1. \A j \in 1..Len(file) : file[j] = kept[Passed + j]
            BY <1>0, <2>1 DEF SaveInv, Saving
        <3> HIDE DEF Passed
        <3>2. \A j \in 1..Len(file) : Passed + j \in 1..Len(kept)
            BY <1>0, <2>2
        <3> QED BY <3>1, <3>2
    <2>5. ASSUME NEW j \in 1..(Len(file) + 1)
          PROVE  LastRow < file'[j] /\ file'[j] <= nrec
        <3>1. CASE j \in 1..Len(file)
            BY <1>0, <2>1, <3>1 DEF FileOrder
        <3>2. CASE j = Len(file) + 1
            BY <1>0, <2>1, <2>2, <3>2 DEF RingOrder
        <3> QED BY <1>0, <3>1, <3>2
    <2>6. ASSUME NEW j \in 1..(Len(file) + 1), NEW k \in 1..(Len(file) + 1), j < k
          PROVE  file'[j] < file'[k]
        <3>0. j \in 1..Len(file)
            BY <1>0, <2>6
        <3>1. CASE k \in 1..Len(file)
            BY <1>0, <2>1, <2>6, <3>0, <3>1 DEF FileOrder
        <3>2. CASE k = Len(file) + 1
            <4>1. file'[j] = kept[Passed + j] /\ Passed + j \in 1..Len(kept)
                BY <2>1, <2>4, <3>0
            <4>2. file'[k] = kept[Passed + Len(file) + 1]
                BY <2>1, <3>2
            <4>3. Passed + j < Passed + Len(file) + 1
                <5> HIDE DEF Passed
                <5> QED BY <1>0, <2>2, <3>0
            <4>4. kept[Passed + j] < kept[Passed + Len(file) + 1]
                BY <1>0, <2>2, <4>1, <4>3 DEF RingOrder
            <4> QED BY <4>1, <4>2, <4>4
        <3> QED BY <1>0, <3>1, <3>2
    <2> QED BY <1>0, <2>1, <2>3, <2>5, <2>6 DEF FileOrder, TakePcs
<1>6. CASE RemoveFile
    <2>1. pc'["main"] = "get" /\ file' = <<>>
        BY <1>6 DEF RemoveFile, Threads
    <2> QED BY <1>b, <2>1 DEF StartPcs
<1>7. CASE Exit \/ Crash
    <2>1. /\ pc'["main"] = "down" /\ kept' = <<>> /\ cfront' = 0
          /\ UNCHANGED <<nrec, db, file>>
        BY <1>7, GoneFacts DEF Exit, Crash
    <2>2. LastRow' = LastRow
        BY <2>1 DEF LastRow
    <2> QED BY <1>0, <2>1, <2>2 DEF FileOrder, TakePcs
<1>8. CASE Start
    <2>1. /\ pc["main"] = "down" /\ pc'["main"] = "loadq"
          /\ UNCHANGED <<nrec, db, file, kept, cfront>>
        BY <1>0, <1>8, GotoFacts DEF Start, Threads, receiver, history, logVars, saveVars
    <2>2. LastRow' = LastRow /\ cfront = 0 /\ Len(kept) = 0
        BY <1>0, <2>1 DEF LastRow, FileOrder
    <2> QED BY <1>0, <2>1, <2>2 DEF FileOrder, TakePcs
<1>9. CASE LoadOne
    <2>1. /\ pc["main"] = "loadq" /\ cfront < Len(file) /\ cfront' = cfront + 1
          /\ pc'["main"] \in {"loadq", "wrapq"}
          /\ UNCHANGED <<nrec, db, file>>
          /\ \/ kept' = kept
             \/ /\ Len(kept') = Len(kept) + 1 /\ \A k \in 1..Len(kept) : kept'[k] = kept[k]
                /\ kept'[Len(kept) + 1] = file[cfront + 1]
        BY <1>0, <1>9, Loads
    <2>2. LastRow' = LastRow /\ cfront + 1 <= Len(file) /\ cfront + 1 \in 1..Len(file)
        BY <1>0, <2>1 DEF LastRow
    <2>3. ASSUME NEW k \in 1..Len(kept'), NEW j \in 1..Len(file), j > cfront + 1
          PROVE  kept'[k] < file[j]
        <3>1. CASE k \in 1..Len(kept) /\ kept'[k] = kept[k]
            <4>1. j > cfront
                BY <1>0, <2>3
            <4> QED BY <1>0, <2>1, <3>1, <4>1 DEF FileOrder
        <3>2. CASE k = Len(kept) + 1 /\ kept'[k] = file[cfront + 1]
            BY <1>0, <2>2, <2>3, <3>2 DEF FileOrder
        <3> QED BY <1>0, <2>1, <3>1, <3>2
    <2> QED BY <1>0, <2>1, <2>2, <2>3 DEF FileOrder, TakePcs
<1>10. CASE LoadWraps
    <2>1. /\ pc["main"] = "wrapq" /\ pc'["main"] = "loadq"
          /\ UNCHANGED <<nrec, db, file, cfront, kept>>
        BY <1>0, <1>10, GotoFacts DEF LoadWraps, Threads, receiver, history, logVars, saveVars
    <2>2. LastRow' = LastRow
        BY <2>1 DEF LastRow
    <2> QED BY <1>0, <2>1, <2>2 DEF FileOrder, TakePcs
<1>11. CASE StartWithoutDb \/ PidFileRemoved
    <2>1. UNCHANGED <<nrec, db, file, cfront, kept, pc>>
        BY <1>11 DEF StartWithoutDb, PidFileRemoved, vars, receiver, history, saveVars
    <2>2. LastRow' = LastRow
        BY <2>1 DEF LastRow
    <2> QED BY <1>0, <2>1, <2>2 DEF FileOrder
<1> QED BY <1>0, <1>1, <1>2, <1>3, <1>4, <1>5, <1>6, <1>7, <1>8, <1>9, <1>10, <1>11, MainNeverPuts
        DEF DbLogNext, MainStep, Handler, Starting

LEMMA RowsInvStep ==
    ASSUME MaxRefused = 0, RowsInv, ~misled, ~misled', [DbLogNext]_dbVars
    PROVE  RowsInv'
<1>0. SaveInv' /\ SaveInv
    BY SaveInvStep DEF RowsInv
<1>1. CASE UNCHANGED dbVars
    <2>1. RingOrder' /\ FileOrder'
        BY <1>1 DEF RowsInv, RingOrder, FileOrder, LastRow, dbVars, vars, ring, receiver,
                    history, logVars, saveVars, faults
    <2> QED BY <1>0, <2>1 DEF RowsInv
<1>2. CASE DbLogNext
    BY <1>0, <1>2, RingOrderStep, FileOrderStep DEF RowsInv
<1> QED BY <1>1, <1>2

LEMMA RowsInvariant ==
    ASSUME MaxRefused = 0
    PROVE  DbLogSpec => [](misled \/ RowsInv)
<1>1. (misled \/ RowsInv) /\ [DbLogNext]_dbVars => (misled \/ RowsInv)'
    BY RowsInvStep, LogMisledStays DEF RowsInv, SaveInv
<1> QED BY RowsInit, <1>1, PTL DEF DbLogSpec

(* dap_dblog implements LossyFifo until somebody takes an index between    *)
(* its two stores: whatever signals and kills come, the rows appear in the *)
(* order their records were received, and none twice, though a file that   *)
(* was saved is loaded into a ring again.                                  *)
THEOREM DbLogImplementsRows ==
    ASSUME MaxRefused = 0
    PROVE  DbLogSpec => ImplementsRows
<1>1. DbLogInit => Rows!Init
    BY DEF DbLogInit, Init, Rows!Init
<1>2. (misled \/ RowsInv) /\ [DbLogNext]_dbVars => [~misled' => Rows!Next]_<<nrec, db>>
    <2> SUFFICES ASSUME RowsInv, [DbLogNext]_dbVars PROVE [Rows!Next]_<<nrec, db>>
        BY LogMisledStays DEF RowsInv, SaveInv
    <2>0. /\ SaveInv /\ LogTypes /\ LastRow \in Nat /\ nrec \in Nat
        BY RowFacts DEF RowsInv, SaveInv
    <2>1. CASE ReceiveUnlessStopped
        BY <2>1 DEF ReceiveUnlessStopped, Receive, logVars, Rows!Next, Rows!Send
    <2>2. CASE Insert
        <3>1. /\ db' = Append(db, rec["main"]) /\ nrec' = nrec /\ pc["main"] = "got"
              /\ Len(out) \in 1..Len(kept) /\ rec["main"] = kept[Len(out)]
            BY <2>0, <2>2, Inserts
        <3>2. LastRow < rec["main"] /\ rec["main"] <= nrec
            BY <3>1 DEF RowsInv, RingOrder
        <3>3. rec["main"] \in (Rows!Newest + 1)..nrec
            <4>1. Rows!Newest = LastRow
                BY DEF Rows!Newest, LastRow
            <4>2. rec["main"] \in Nat
                BY <2>0 DEF LogTypes, Threads
            <4> QED BY <2>0, <3>2, <4>1, <4>2
        <3>4. Rows!Arrive
            BY <3>1, <3>3 DEF Rows!Arrive
        <3> QED BY <3>4 DEF Rows!Next
    <2>3. CASE UNCHANGED <<nrec, db>>
        BY <2>3
    <2>4. CASE ReceiverPuts \/ ReceiverQuits \/ MainGets \/ UnknownType
        <3>1. UNCHANGED <<nrec, db>>
            BY <2>4 DEF ReceiverPuts, ReceiverStep, Put, PutCheck, PutFill, PutLoad, PutStore,
               ReceiverFindsFull, ReceiverQuits, MainGets, Get, GetCheck, GetAdvance, GetTake,
               UnknownType, receiver, logVars
        <3> QED BY <2>3, <3>1
    <2>5. CASE Signal \/ Handler \/ Crash \/ Starting \/ StartWithoutDb \/ PidFileRemoved
        <3>1. UNCHANGED <<nrec, db>>
            BY <2>5 DEF Signal, Handler, SaveBegins, SaveOne, SaveEnds, Exit, Crash, Gone, Starting,
               Start, LoadOne, LoadWraps, RemoveFile, StartWithoutDb, PidFileRemoved, vars, receiver,
               logVars
        <3> QED BY <2>3, <3>1
    <2>6. CASE UNCHANGED dbVars
        BY <2>3, <2>6 DEF dbVars, vars, receiver, logVars
    <2> QED BY <2>0, <2>1, <2>2, <2>4, <2>5, <2>6, MainNeverPuts DEF DbLogNext, MainStep
<1> QED BY RowsInvariant, <1>1, <1>2, PTL DEF DbLogSpec, ImplementsRows

------------------------------------------------------------------------------
(* Whatever the database refuses, misled or not.                           *)

AllPcs == {"recv", "off"} \cup PutPcs \cup GetPcs \cup EndPcs \cup StartPcs

(* The main thread puts a refused record again only while it has tries     *)
(* left, and it has nCfgRetryQCount of them in its life.                   *)
TriesLeft ==
    /\ retryCnt \in 0..Retry
    /\ pc["main"] = "put" => retryCnt < Retry

LEMMA PcStep ==
    ASSUME pc \in [Threads -> AllPcs], [DbLogNext]_dbVars
    PROVE  pc' \in [Threads -> AllPcs]
<1> USE DEF Threads, AllPcs, PutPcs, GetPcs, EndPcs, StartPcs
<1>a. ASSUME NEW t \in Threads, NEW to \in AllPcs, Goto(t, to) PROVE pc' \in [Threads -> AllPcs]
    BY <1>a DEF Goto
<1>1. ASSUME NEW t \in Threads, Put(t) PROVE pc' \in [Threads -> AllPcs]
    <2>1. \E to \in AllPcs : Goto(t, to)
        BY <1>1 DEF Put, PutCheck, PutFill, PutLoad, PutStore, AfterPut
    <2> QED BY <1>a, <2>1
<1>2. CASE ReceiveUnlessStopped \/ ReceiverQuits \/ ReceiverFindsFull
    <2>1. \E to \in AllPcs : Goto("recv", to)
        BY <1>2 DEF ReceiveUnlessStopped, Receive, ReceiverQuits, ReceiverFindsFull
    <2> QED BY <1>a, <2>1
<1>3. CASE MainGets \/ Insert \/ InsertFails \/ UnknownType \/ MainFindsFull
    <2>1. \E to \in AllPcs : Goto("main", to)
        BY <1>3 DEF MainGets, Get, GetCheck, GetAdvance, GetTake, Insert, InsertFails, UnknownType,
                    MainFindsFull
    <2> QED BY <1>a, <2>1
<1>4. CASE Signal \/ SaveBegins \/ SaveEnds \/ Start \/ LoadWraps
    <2>1. \E to \in AllPcs : Goto("main", to)
        BY <1>4 DEF Signal, SaveBegins, SaveEnds, Start, LoadWraps
    <2> QED BY <1>a, <2>1
<1>5. CASE SaveOne \/ StartWithoutDb \/ PidFileRemoved \/ UNCHANGED dbVars
    BY <1>5 DEF SaveOne, StartWithoutDb, PidFileRemoved, dbVars, vars
<1>7. CASE LoadOne
    <2>1. pc' = pc \/ \E to \in AllPcs : Goto("main", to)
        BY <1>7 DEF LoadOne
    <2> QED BY <1>a, <2>1
<1>6. CASE Exit \/ Crash \/ RemoveFile
    BY <1>6 DEF Exit, Crash, Gone, RemoveFile
<1> QED BY <1>1, <1>2, <1>3, <1>4, <1>5, <1>6, <1>7
        DEF DbLogNext, ReceiverPuts, ReceiverStep, MainStep, MainPuts, Handler, Starting

LEMMA TriesLeftStep ==
    ASSUME pc \in [Threads -> AllPcs], TriesLeft, [DbLogNext]_dbVars
    PROVE  TriesLeft'
<1>0. Retry \in Nat /\ retryCnt \in 0..Retry /\ "main" \in Threads /\ "recv" \in Threads
    BY QueueAssumption DEF TriesLeft, Threads
<1>a. ASSUME retryCnt' = retryCnt, pc'["main"] # "put" \/ pc'["main"] = pc["main"]
      PROVE  TriesLeft'
    BY <1>a DEF TriesLeft
<1>1. CASE ReceiveUnlessStopped \/ ReceiverQuits \/ ReceiverPuts
    BY <1>0, <1>1, <1>a DEF ReceiveUnlessStopped, Receive, ReceiverQuits, ReceiverPuts,
       ReceiverStep, ReceiverFindsFull, Put, PutCheck, PutFill, PutLoad, PutStore, Goto, logVars
<1>2. CASE MainGets \/ Insert \/ UnknownType
    BY <1>0, <1>2, <1>a DEF MainGets, Get, GetCheck, GetAdvance, GetTake, Insert, UnknownType,
       Goto, logVars
<1>3. CASE InsertFails
    <2>1. retryCnt' = retryCnt /\ pc'["main"] = IF retryCnt < Retry THEN "put" ELSE "get"
        BY <1>0, <1>3 DEF InsertFails, Goto
    <2> QED BY <1>0, <2>1 DEF TriesLeft
<1>4. CASE MainPuts
    <2>1. retryCnt' = retryCnt /\ pc'["main"] # "put"
        BY <1>0, <1>4 DEF MainPuts, Put, PutCheck, PutFill, PutLoad, PutStore, AfterPut, Goto, logVars
    <2> QED BY <1>a, <2>1
<1>5. CASE MainFindsFull
    <2>1. /\ pc["main"] = "put" /\ retryCnt' = retryCnt + 1
          /\ pc'["main"] = IF retryCnt + 1 < Retry THEN "put" ELSE "get"
        BY <1>0, <1>5 DEF MainFindsFull, Goto
    <2>2. retryCnt < Retry
        BY <2>1 DEF TriesLeft
    <2> QED BY <1>0, <2>1, <2>2 DEF TriesLeft
<1>6. CASE Signal \/ SaveBegins \/ SaveEnds \/ Start \/ LoadWraps \/ LoadOne
    BY <1>0, <1>6, <1>a DEF Signal, SaveBegins, SaveEnds, Start, LoadWraps, LoadOne, Goto, logVars
<1>7. CASE SaveOne \/ RemoveFile \/ StartWithoutDb \/ PidFileRemoved \/ UNCHANGED dbVars
    BY <1>0, <1>7, <1>a DEF SaveOne, RemoveFile, StartWithoutDb, PidFileRemoved, dbVars, vars, logVars
<1>8. CASE Exit \/ Crash
    <2>1. retryCnt' = 0 /\ pc'["main"] = "down"
        BY <1>0, <1>8 DEF Exit, Crash, Gone
    <2> QED BY <1>0, <2>1 DEF TriesLeft
<1> QED BY <1>1, <1>2, <1>3, <1>4, <1>5, <1>6, <1>7, <1>8 DEF DbLogNext, MainStep, Handler, Starting

(* The loop of fstFromQToDBMS that waits for room in the ring, which only  *)
(* the same thread could make, ends: each round but the last leaves a try, *)
(* and there are nCfgRetryQCount.                                          *)
THEOREM DbLogTriesLeft == DbLogSpec => []TriesLeft
<1> DEFINE I == pc \in [Threads -> AllPcs] /\ TriesLeft
<1>1. DbLogInit => I
    <2> SUFFICES ASSUME DbLogInit PROVE I
        OBVIOUS
    <2>1. /\ pc = [t \in Threads |-> IF t = "recv" THEN "recv" ELSE "get"] /\ retryCnt = 0
        BY DEF DbLogInit, Init
    <2>2. pc \in [Threads -> AllPcs] /\ pc["main"] = "get"
        BY <2>1 DEF Threads, AllPcs, GetPcs
    <2> QED BY <2>1, <2>2, QueueAssumption DEF TriesLeft
<1>2. I /\ [DbLogNext]_dbVars => I'
    BY PcStep, TriesLeftStep
<1> HIDE DEF I
<1>3. I => TriesLeft
    BY DEF I
<1> QED BY <1>1, <1>2, <1>3, PTL DEF DbLogSpec
==============================================================================
