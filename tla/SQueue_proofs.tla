---------------------------- MODULE SQueue_proofs ----------------------------
(***************************************************************************)
(* With one producer and one consumer the ring of dap_sQueue.c is a first- *)
(* in-first-out queue of Qsize records, whatever Qsize is, and no slot is  *)
(* copied while it is filled, until a thread takes an index unwrapped; the *)
(* memcpy stay in the array even then.                                     *)
(***************************************************************************)
EXTENDS SQueue, TLAPS

(* Records that are in the ring: kept, and g_nFront not yet past them.     *)
InRing == Len(kept) - Len(out) - (IF pc["main"] \in {"wrap", "take"} THEN 1 ELSE 0)

(* The slot an index stands for before its second store.                   *)
Wrapped(i) == IF i = Qnum THEN 0 ELSE i

Oldest == Wrapped(front)
Vacant == Wrapped(rear)

(* The slot k places after slot f.                                         *)
Place(f, k) == IF f + k < Qnum THEN f + k ELSE f + k - Qnum

Succ(i) == IF i + 1 = Qnum THEN 0 ELSE i + 1

RecvPcs == {"recv", "put", "fill", "load", "store", "loadwrap", "storewrap"}
TakePcs == {"get", "advance", "wrap", "take", "got"}

(* An index is beyond the array only between its two stores.               *)
Types ==
    /\ data \in [Cells -> Nat]
    /\ rear \in 0..Qnum /\ front \in 0..Qnum /\ tmp \in 0..Qsize
    /\ pc["recv"] \notin {"loadwrap", "storewrap"} => rear \in 0..Qsize
    /\ pc["recv"] = "storewrap" => val["recv"] \in 0..Qsize
    /\ pc["main"] # "wrap" => front \in 0..Qsize
    /\ pc \in [Threads -> RecvPcs \cup TakePcs]
    /\ pc["recv"] \in RecvPcs /\ pc["main"] \in TakePcs
    /\ rec \in [Threads -> Nat] /\ val \in [Threads -> 0..Qnum]
    /\ pc["recv"] # "recv" => rec["recv"] \in 1..MaxRec
    /\ tries \in 0..(Retry + 1) /\ nrec \in Nat
    /\ pc["recv"] = "put" => tries <= Retry
    /\ kept \in Seq(1..MaxRec) /\ out \in Seq(Nat) /\ misled \in BOOLEAN

(* The records in the ring lie in their order from g_nFront to g_nRear.    *)
Filled ==
    /\ InRing \in 0..Qsize
    /\ Vacant = Place(Oldest, InRing)
    /\ \A k \in 0..(InRing - 1) : data[Place(Oldest, k)] = kept[Len(kept) - InRing + k + 1]

(* A put that found room still has it, and the record stays in its slot.   *)
Putting ==
    /\ pc["recv"] \in {"fill", "load", "store"} => InRing < Qsize
    /\ pc["recv"] \in {"load", "store"} => data[rear] = rec["recv"]
    /\ pc["recv"] = "store" => val["recv"] = rear + 1
    /\ pc["recv"] = "storewrap" => val["recv"] = Vacant

(* The slot a get has freed is the one before g_nFront.                    *)
Getting ==
    /\ pc["main"] = "advance" => tmp = front /\ InRing > 0
    /\ pc["main"] \in {"wrap", "take"} => Oldest = Succ(tmp) /\ data[tmp] = kept[Len(out) + 1]

Ring == Filled /\ Putting /\ Getting

QueueInv == Types /\ (misled \/ Ring)

------------------------------------------------------------------------------
(* One place further round the ring, in one store and in two.              *)
LEMMA OneFurther ==
    ASSUME NEW i \in 0..Qsize
    PROVE  /\ (i + 1) % Qnum = Succ(i) /\ Succ(i) \in 0..Qsize
           /\ i + 1 \in 0..Qnum /\ Wrapped(i + 1) = Succ(i) /\ Wrapped(i) = i
BY QueueAssumption, SMT DEF Qnum, Succ, Wrapped

LEMMA Wraps ==
    ASSUME NEW i \in 0..Qnum
    PROVE  i % Qnum = Wrapped(i) /\ Wrapped(i) \in 0..Qsize /\ Wrapped(Wrapped(i)) = Wrapped(i)
BY QueueAssumption, SMT DEF Qnum, Wrapped

LEMMA QueueInit == Init => QueueInv
<1> SUFFICES ASSUME Init PROVE QueueInv
    OBVIOUS
<1>1. /\ rear = 0 /\ front = 0 /\ tmp = 0 /\ tries = 0 /\ nrec = 0 /\ misled = FALSE
      /\ kept = <<>> /\ out = <<>> /\ Len(kept) = 0 /\ Len(out) = 0
    BY DEF Init
<1>2. /\ pc \in [Threads -> RecvPcs \cup TakePcs]
      /\ pc["recv"] = "recv" /\ pc["main"] = "get"
    BY DEF Init, RecvPcs, TakePcs, Threads
<1>3. data \in [Cells -> Nat] /\ rec \in [Threads -> Nat] /\ val \in [Threads -> 0..Qnum]
    BY QueueAssumption DEF Init, Zeroed, Qnum
<1>4. kept \in Seq(1..MaxRec) /\ out \in Seq(Nat)
    BY <1>1
<1>5. Types
    <2>1. 0 \in 0..Qnum /\ 0 \in 0..Qsize /\ 0 \in 0..(Retry + 1) /\ 0 \in Nat
        BY QueueAssumption DEF Qnum
    <2>2. pc["recv"] \in RecvPcs /\ pc["main"] \in TakePcs
        BY <1>2 DEF RecvPcs, TakePcs
    <2>3. FALSE \in BOOLEAN
        OBVIOUS
    <2> QED BY <1>1, <1>2, <1>3, <1>4, <2>1, <2>2, <2>3, Zenon DEF Types
<1>6. InRing = 0 /\ Oldest = 0 /\ Vacant = 0
    <2>1. InRing = 0
        <3>1. pc["main"] \notin {"wrap", "take"}
            BY <1>2
        <3>2. InRing = Len(kept) - Len(out) - 0
            BY <3>1, Zenon DEF InRing
        <3>3. InRing = 0 - 0 - 0
            BY <1>1, <3>2, Zenon
        <3> HIDE DEF InRing
        <3> QED BY <3>3
    <2>2. Wrapped(0) = 0
        BY QueueAssumption DEF Wrapped, Qnum
    <2> QED BY <1>1, <2>1, <2>2 DEF Oldest, Vacant
<1>7. Filled
    BY <1>1, <1>6, QueueAssumption DEF Filled, Place, Qnum
<1>8. Putting /\ Getting
    BY <1>2 DEF Putting, Getting
<1> QED BY <1>5, <1>7, <1>8 DEF QueueInv, Ring

(* The steps keep the types, misled or not.                                *)
LEMMA StepTypes == ASSUME Types, [Next]_vars PROVE Types'
<1> USE QueueAssumption
<1>0. Types /\ Qnum = Qsize + 1 /\ Qsize \in Nat \ {0} /\ Retry \in Nat
    BY DEF Qnum
<1>1. CASE Receive
    BY <1>0, <1>1 DEF Types, Receive, Goto, RecvPcs, TakePcs, Threads, ring, history
<1>2. CASE PutCheck("recv")
    BY <1>0, <1>2 DEF Types, PutCheck, Goto, RecvPcs, TakePcs, Threads, ring, receiver
<1>3. CASE PutFill("recv")
    <2>1. data' \in [Cells -> Nat]
        BY <1>0, <1>3 DEF Types, PutFill, Threads
    <2> QED BY <1>0, <1>3, <2>1 DEF Types, PutFill, Goto, RecvPcs, TakePcs, Threads, receiver, history
<1>4. CASE PutLoad("recv")
    <2>1. UNCHANGED <<data, rear, front, tmp, rec, tries, nrec, kept, out, misled>>
        BY <1>4 DEF PutLoad, ring, receiver, history
    <2>2. CASE pc["recv"] = "load"
        <3>1. /\ val' = [val EXCEPT !["recv"] = rear + 1] /\ rear \in 0..Qsize
              /\ pc' = [pc EXCEPT !["recv"] = "store"]
            BY <1>0, <1>4, <2>2 DEF Types, PutLoad, Stepped, Goto
        <3>2. rear + 1 \in 0..Qnum
            BY <3>1, OneFurther
        <3>3. val' \in [Threads -> 0..Qnum]
            BY <1>0, <3>1, <3>2 DEF Types
        <3> QED BY <1>0, <2>1, <2>2, <3>1, <3>3 DEF Types, RecvPcs, TakePcs, Threads
    <2>3. CASE pc["recv"] = "loadwrap"
        <3>1. /\ val' = [val EXCEPT !["recv"] = rear % Qnum] /\ rear \in 0..Qnum
              /\ pc' = [pc EXCEPT !["recv"] = "storewrap"]
            BY <1>0, <1>4, <2>3 DEF Types, PutLoad, Stepped, Goto
        <3>2. rear % Qnum \in 0..Qsize
            BY <3>1, Wraps
        <3> HIDE DEF Qnum
        <3>3. val' \in [Threads -> 0..Qnum] /\ val'["recv"] \in 0..Qsize
            BY <1>0, <3>1, <3>2 DEF Types, Threads
        <3> QED BY <1>0, <2>1, <2>3, <3>1, <3>3 DEF Types, RecvPcs, TakePcs, Threads
    <2> QED BY <1>4, <2>2, <2>3 DEF PutLoad
<1>5. CASE PutStore("recv")
    <2>1. UNCHANGED <<data, front, tmp, rec, val, tries, nrec, out, misled>> /\ rear' = val["recv"]
        BY <1>5 DEF PutStore, receiver
    <2>2. CASE pc["recv"] = "store"
        <3>1. /\ kept' = Append(kept, rec["recv"]) /\ rec["recv"] \in 1..MaxRec
              /\ pc' = [pc EXCEPT !["recv"] = "loadwrap"]
            BY <1>0, <1>5, <2>2 DEF Types, PutStore, Goto
        <3>2. kept' \in Seq(1..MaxRec)
            BY <1>0, <3>1 DEF Types
        <3>3. rear' \in 0..Qnum
            BY <1>0, <2>1 DEF Types, Threads
        <3> QED BY <1>0, <2>1, <2>2, <3>1, <3>2, <3>3 DEF Types, RecvPcs, TakePcs, Threads
    <2>3. CASE pc["recv"] = "storewrap"
        <3>1. kept' = kept /\ pc' = [pc EXCEPT !["recv"] = "recv"]
            BY <1>5, <2>3 DEF PutStore, Goto, AfterPut
        <3>2. rear' \in 0..Qsize
            BY <1>0, <2>1, <2>3 DEF Types
        <3> QED BY <1>0, <2>1, <2>3, <3>1, <3>2 DEF Types, RecvPcs, TakePcs, Threads
    <2> QED BY <1>5, <2>2, <2>3 DEF PutStore
<1>6. CASE ReceiverFindsFull
    BY <1>0, <1>6 DEF Types, ReceiverFindsFull, Goto, RecvPcs, TakePcs, Threads, ring, history
<1>7. CASE GetCheck
    BY <1>0, <1>7 DEF Types, GetCheck, Goto, RecvPcs, TakePcs, Threads, ring, receiver
<1>8. CASE GetAdvance
    <2>1. UNCHANGED <<data, rear, tmp, rec, val, tries, nrec, kept, out, misled>>
        BY <1>8 DEF GetAdvance, receiver, history
    <2>2. CASE pc["main"] = "advance"
        <3>1. front' = front + 1 /\ front \in 0..Qsize /\ pc' = [pc EXCEPT !["main"] = "wrap"]
            BY <1>0, <1>8, <2>2 DEF Types, GetAdvance, Stepped, Goto
        <3> QED BY <1>0, <2>1, <2>2, <3>1 DEF Types, RecvPcs, TakePcs, Threads
    <2>3. CASE pc["main"] = "wrap"
        <3>1. front' = front % Qnum /\ front \in 0..Qnum /\ pc' = [pc EXCEPT !["main"] = "take"]
            BY <1>0, <1>8, <2>3 DEF Types, GetAdvance, Stepped, Goto
        <3>2. front' \in 0..Qsize
            BY <3>1, Wraps
        <3> QED BY <1>0, <2>1, <2>3, <3>1, <3>2 DEF Types, RecvPcs, TakePcs, Threads
    <2> QED BY <1>8, <2>2, <2>3 DEF GetAdvance
<1>9. CASE GetTake
    <2>1. data[tmp] \in Nat /\ Mixed \in Nat
        BY <1>0 DEF Types, Cells, Mixed
    <2>2. PICK r \in {data[tmp]} \cup {x \in {Mixed} : SharedSlot} :
              rec' = [rec EXCEPT !["main"] = r] /\ out' = Append(out, r)
        BY <1>9 DEF GetTake
    <2>3. r \in Nat /\ out \in Seq(Nat)
        BY <1>0, <2>1 DEF Types
    <2>4. out' \in Seq(Nat)
        BY <2>2, <2>3
    <2>5. rec' \in [Threads -> Nat] /\ rec'["recv"] = rec["recv"]
        BY <1>0, <2>2, <2>3 DEF Types, Threads
    <2>6. pc' = [pc EXCEPT !["main"] = "got"] /\ UNCHANGED <<ring, val, tmp, receiver, kept, misled>>
        BY <1>9 DEF GetTake, Goto
    <2> QED BY <1>0, <1>9, <2>4, <2>5, <2>6 DEF Types, GetTake, RecvPcs, TakePcs, Threads, ring, receiver
<1>10. CASE Use
    BY <1>0, <1>10 DEF Types, Use, Goto, RecvPcs, TakePcs, Threads, ring, history, receiver
<1>11. CASE UNCHANGED vars
    BY <1>0, <1>11 DEF Types, vars, ring, receiver, history
<1> QED
    BY <1>1, <1>2, <1>3, <1>4, <1>5, <1>6, <1>7, <1>8, <1>9, <1>10, <1>11
       DEF Next, ReceiverStep, Put, Get

(* Who has been misled stays so.                                           *)
LEMMA MisledStays == ASSUME Types, [Next]_vars, misled PROVE misled'
BY DEF Types, Next, ReceiverStep, Put, Get, Receive, PutCheck, PutFill, PutLoad, PutStore,
       ReceiverFindsFull, GetCheck, GetAdvance, GetTake, Use, vars, history

(* Slots of different places are different, and so is the freed one.       *)
LEMMA SlotsDiffer ==
    ASSUME NEW f \in 0..Qsize, NEW j \in 0..Qsize, NEW k \in 0..Qsize
    PROVE  /\ Place(f, j) \in 0..Qsize /\ Place(f, j) \in Cells
           /\ j # k => Place(f, j) # Place(f, k)
           /\ j < Qsize => Succ(Place(f, j)) = Place(f, j + 1)
           /\ \A t \in 0..Qsize : f = Succ(t) /\ j < Qsize => t # Place(f, j)
BY QueueAssumption, SMT DEF Place, Succ, Qnum, Cells

LEMMA RingTypes ==
    ASSUME Types, Ring
    PROVE  /\ Oldest \in 0..Qsize /\ Vacant \in 0..Qsize /\ InRing \in 0..Qsize
           /\ Vacant = Place(Oldest, InRing)
           /\ Filled /\ Putting /\ Getting
BY Wraps DEF Types, Ring, Filled, Oldest, Vacant

(* How far apart the indexes of a ring with n records are.                 *)
LEMMA Apart ==
    ASSUME NEW f \in 0..Qsize, NEW r \in 0..Qsize, NEW n \in 0..Qsize, r = Place(f, n)
    PROVE  /\ f # Succ(r) <=> n < Qsize
           /\ f # r <=> n > 0
BY QueueAssumption, SMT DEF Place, Succ, Qnum

(* A put that is not misled has room.                                      *)
LEMMA PutHasRoom ==
    ASSUME Types, Ring, PutCheck("recv"), ~misled
    PROVE  IF misled' THEN InRing = Qsize ELSE InRing < Qsize
<1>1. /\ rear \in 0..Qsize /\ front # Succ(rear)
      /\ misled' <=> front = Qnum /\ rear + 1 = Qnum
    BY OneFurther DEF Types, PutCheck, IsFull
<1>2. Vacant = rear /\ Oldest = IF front = Qnum THEN 0 ELSE front
    BY <1>1, OneFurther DEF Vacant, Oldest, Wrapped
<1>3. /\ InRing \in 0..Qsize /\ Oldest \in 0..Qsize
      /\ Oldest # Succ(Vacant) <=> InRing < Qsize
    BY RingTypes, Apart
<1>4. Succ(rear) = 0 <=> rear + 1 = Qnum
    BY <1>1 DEF Succ
<1>5. InRing < Qsize \/ InRing = Qsize
    BY <1>3, QueueAssumption
<1> HIDE DEF Oldest, Vacant, InRing, Succ
<1> QED BY <1>1, <1>2, <1>3, <1>4, <1>5

(* A get that is not misled has a record.                                  *)
LEMMA GetHasRecord ==
    ASSUME Types, Ring, GetCheck, ~misled
    PROVE  IF misled' THEN InRing = 0 ELSE InRing > 0
<1>1. /\ front \in 0..Qsize /\ front # rear
      /\ misled' <=> rear = Qnum /\ front = 0
    BY DEF Types, GetCheck, IsEmpty
<1>2. Oldest = front /\ Vacant = IF rear = Qnum THEN 0 ELSE rear
    BY <1>1, OneFurther DEF Vacant, Oldest, Wrapped
<1>3. /\ InRing \in 0..Qsize
      /\ Oldest # Vacant <=> InRing > 0
    BY RingTypes, Apart
<1>4. InRing = 0 \/ InRing > 0
    BY <1>3
<1> QED BY <1>1, <1>2, <1>3, <1>4

(* What a step that touches neither the ring nor the histories keeps.      *)
LEMMA RingKept ==
    ASSUME Ring, UNCHANGED <<ring, kept, out>>,
           (pc["main"] \in {"wrap", "take"}) <=> (pc'["main"] \in {"wrap", "take"})
    PROVE  Filled' /\ InRing' = InRing /\ Oldest' = Oldest /\ Vacant' = Vacant
<1>1. InRing' = InRing
    BY DEF InRing
<1>2. Oldest' = Oldest /\ Vacant' = Vacant
    BY DEF ring, Oldest, Vacant, Wrapped
<1> QED BY <1>1, <1>2 DEF Ring, Filled, ring

(* Steps of the receiver before it fills a slot, and of the main thread    *)
(* before it advances and after it has copied.                             *)
LEMMA QuietSteps ==
    ASSUME Types, Ring, ~misled, ~misled',
           Receive \/ PutCheck("recv") \/ ReceiverFindsFull \/ GetCheck \/ Use \/ UNCHANGED vars
    PROVE  Ring'
<1>0. Types /\ Filled /\ Putting /\ Getting
    BY DEF Ring
<1>1. CASE Receive
    <2>1. Filled' /\ Oldest' = Oldest /\ InRing' = InRing
        BY <1>0, <1>1, RingKept DEF Receive, Goto, Types, history
    <2>2. Putting'
        BY <1>0, <1>1 DEF Types, Receive, Goto, Putting, Threads
    <2>3. Getting'
        BY <1>0, <1>1, <2>1 DEF Types, Receive, Goto, Getting, Threads, ring, history, Succ
    <2> QED BY <2>1, <2>2, <2>3 DEF Ring
<1>2. CASE PutCheck("recv")
    <2>1. Filled' /\ Oldest' = Oldest /\ InRing' = InRing
        BY <1>0, <1>2, RingKept DEF PutCheck, Goto, Types
    <2>2. InRing < Qsize
        BY <1>2, PutHasRoom
    <2>3. Putting'
        BY <1>0, <1>2, <2>1, <2>2 DEF Types, PutCheck, Goto, Putting
    <2>4. Getting'
        BY <1>0, <1>2, <2>1 DEF Types, PutCheck, Goto, Getting, ring, Succ
    <2> QED BY <2>1, <2>3, <2>4 DEF Ring
<1>3. CASE ReceiverFindsFull
    <2>1. Filled' /\ Oldest' = Oldest /\ InRing' = InRing
        BY <1>0, <1>3, RingKept DEF ReceiverFindsFull, Goto, Types, history
    <2>2. Putting'
        BY <1>0, <1>3, <2>1 DEF Types, ReceiverFindsFull, Goto, Putting, ring
    <2>3. Getting'
        BY <1>0, <1>3, <2>1 DEF Types, ReceiverFindsFull, Goto, Getting, ring, history, Succ
    <2> QED BY <2>1, <2>2, <2>3 DEF Ring
<1>4. CASE GetCheck
    <2>1. Filled' /\ Vacant' = Vacant /\ InRing' = InRing
        BY <1>0, <1>4, RingKept DEF GetCheck, Goto, Types
    <2>2. InRing > 0
        BY <1>4, GetHasRecord
    <2>3. Putting'
        BY <1>0, <1>4, <2>1 DEF Types, GetCheck, Goto, Putting, ring
    <2>4. Getting'
        BY <1>0, <1>4, <2>1, <2>2 DEF Types, GetCheck, Goto, Getting, ring
    <2> QED BY <2>1, <2>3, <2>4 DEF Ring
<1>5. CASE Use
    <2>1. Filled' /\ Vacant' = Vacant /\ InRing' = InRing
        BY <1>0, <1>5, RingKept DEF Use, Goto, Types, history
    <2>2. Putting'
        BY <1>0, <1>5, <2>1 DEF Types, Use, Goto, Putting, ring
    <2>3. Getting'
        BY <1>0, <1>5 DEF Types, Use, Goto, Getting
    <2> QED BY <2>1, <2>2, <2>3 DEF Ring
<1>6. CASE UNCHANGED vars
    <2>1. Filled' /\ Oldest' = Oldest /\ Vacant' = Vacant /\ InRing' = InRing
        BY <1>6, RingKept DEF vars, history
    <2> QED BY <1>0, <1>6, <2>1 DEF vars, ring, history, Ring, Putting, Getting, Succ
<1> QED BY <1>1, <1>2, <1>3, <1>4, <1>5, <1>6

(* The slot a put fills holds no record and is not being copied.           *)
LEMMA RearIsFree ==
    ASSUME Types, Ring, pc["recv"] = "fill"
    PROVE  /\ rear = Vacant /\ \A k \in 0..(InRing - 1) : Place(Oldest, k) # rear
           /\ pc["main"] \in {"advance", "wrap", "take"} => tmp # rear
<1>1. /\ InRing \in 0..Qsize /\ InRing < Qsize /\ Vacant = Place(Oldest, InRing)
      /\ Oldest \in 0..Qsize /\ tmp \in 0..Qsize /\ rear \in 0..Qsize
    BY RingTypes DEF Putting, Types
<1>2. Vacant = rear
    BY <1>1, OneFurther DEF Vacant
<1>3. ASSUME NEW k \in 0..(InRing - 1) PROVE Place(Oldest, k) # rear
    <2>1. k \in 0..Qsize /\ k # InRing
        BY <1>1, <1>3, QueueAssumption
    <2>2. Place(Oldest, k) # Place(Oldest, InRing)
        BY <1>1, <2>1, SlotsDiffer
    <2> QED BY <1>1, <1>2, <2>2
<1>4. pc["main"] \in {"wrap", "take"} => tmp # rear
    <2>1. pc["main"] \in {"wrap", "take"} => Oldest = Succ(tmp)
        BY RingTypes DEF Getting
    <2>2. Oldest = Succ(tmp) => tmp # Place(Oldest, InRing)
        BY <1>1, SlotsDiffer
    <2> QED BY <1>1, <1>2, <2>1, <2>2
<1>5. pc["main"] = "advance" => InRing > 0 /\ tmp = front /\ front \in 0..Qsize
    BY RingTypes DEF Getting, Types
<1>6. pc["main"] = "advance" => tmp = Place(Oldest, 0)
    BY <1>5, OneFurther, QueueAssumption, SMT DEF Oldest, Place, Qnum
<1>7. pc["main"] = "advance" => tmp # rear
    BY <1>1, <1>3, <1>5, <1>6
<1> QED BY <1>2, <1>3, <1>4, <1>7

LEMMA FillStep == ASSUME Types, Ring, PutFill("recv") PROVE Ring'
<1>1. /\ Filled /\ Putting /\ Getting /\ pc["recv"] = "fill"
      /\ data' = [data EXCEPT ![rear] = rec["recv"]] /\ data \in [Cells -> Nat]
      /\ rear \in Cells /\ front' = front /\ rear' = rear
      /\ UNCHANGED <<rec, val, tmp, kept, out>>
      /\ pc'["recv"] = "load" /\ pc'["main"] = pc["main"]
    <2>1. pc' = [pc EXCEPT !["recv"] = "load"] /\ pc \in [Threads -> RecvPcs \cup TakePcs]
        BY DEF PutFill, Goto, Types
    <2>2. rear \in Cells
        BY QueueAssumption DEF Types, Cells, Qnum
    <2>3. pc'["recv"] = "load" /\ pc'["main"] = pc["main"]
        BY <2>1 DEF Threads
    <2> QED BY <2>2, <2>3 DEF PutFill, Types, Ring, history
<1>2. InRing' = InRing /\ Oldest' = Oldest /\ Vacant' = Vacant
    BY <1>1 DEF InRing, Oldest, Vacant, Wrapped
<1>3. \A k \in 0..(InRing - 1) : data'[Place(Oldest, k)] = data[Place(Oldest, k)]
    <2> TAKE k \in 0..(InRing - 1)
    <2>1. k \in 0..Qsize /\ Oldest \in 0..Qsize
        BY RingTypes, QueueAssumption
    <2>2. Place(Oldest, k) \in Cells
        BY <2>1, SlotsDiffer
    <2>3. Place(Oldest, k) # rear
        BY <1>1, RearIsFree
    <2> QED BY <1>1, <2>2, <2>3
<1>4. Filled'
    BY <1>1, <1>2, <1>3 DEF Filled
<1>5. Putting'
    BY <1>1, <1>2 DEF Putting
<1>6. pc["main"] \in {"wrap", "take"} => data'[tmp] = data[tmp]
    <2>1. tmp \in Cells
        BY QueueAssumption DEF Types, Cells, Qnum
    <2> QED BY <1>1, <2>1, RearIsFree
<1>7. Getting'
    BY <1>1, <1>2, <1>6 DEF Getting, Succ
<1> QED BY <1>4, <1>5, <1>7 DEF Ring

LEMMA LoadStep == ASSUME Types, Ring, PutLoad("recv") PROVE Ring'
<1>1. /\ Filled /\ Putting /\ Getting /\ pc["recv"] \in {"load", "loadwrap"}
      /\ UNCHANGED <<ring, rec, tmp, kept, out>>
      /\ pc'["main"] = pc["main"]
      /\ pc'["recv"] = IF pc["recv"] = "load" THEN "store" ELSE "storewrap"
      /\ val'["recv"] = Stepped(rear, pc["recv"] = "loadwrap")
    BY DEF PutLoad, Goto, Types, Threads, Ring, history
<1>2. pc["recv"] = "load" => val'["recv"] = rear + 1
    BY <1>1 DEF Stepped
<1>3. pc["recv"] = "loadwrap" => val'["recv"] = Vacant
    BY <1>1, Wraps DEF Stepped, Types, Vacant
<1>4. Filled' /\ InRing' = InRing /\ Oldest' = Oldest /\ Vacant' = Vacant
    BY <1>1, RingKept
<1>5. Putting'
    BY <1>1, <1>2, <1>3, <1>4 DEF Putting, ring
<1>6. Getting'
    BY <1>1, <1>4 DEF Getting, ring, Succ
<1> QED BY <1>4, <1>5, <1>6 DEF Ring

(* The first store of g_nRear: the record is in the ring.                  *)
LEMMA StoreStep ==
    ASSUME Types, Ring, PutStore("recv"), pc["recv"] = "store"
    PROVE  Ring'
<1>1. /\ Filled /\ Putting /\ Getting /\ rear \in 0..Qsize
      /\ pc'["recv"] = "loadwrap" /\ pc'["main"] = pc["main"]
    BY DEF PutStore, Goto, Types, Threads, Ring
<1>2. /\ rear' = rear + 1 /\ kept' = Append(kept, rec["recv"])
      /\ data' = data /\ front' = front /\ out' = out /\ tmp' = tmp
      /\ data[rear] = rec["recv"] /\ rec["recv"] \in 1..MaxRec /\ InRing < Qsize
    BY <1>1 DEF PutStore, Putting, Types
<1>3. /\ kept \in Seq(1..MaxRec) /\ Len(kept) \in Nat /\ Len(out) \in Nat
      /\ InRing \in 0..Qsize /\ Oldest \in 0..Qsize
      /\ Vacant = Place(Oldest, InRing)
      /\ \A k \in 0..(InRing - 1) : data[Place(Oldest, k)] = kept[Len(kept) - InRing + k + 1]
    BY <1>1, RingTypes DEF Types, Filled
<1>4. /\ Len(kept') = Len(kept) + 1 /\ kept'[Len(kept) + 1] = rec["recv"]
      /\ \A i \in 1..Len(kept) : kept'[i] = kept[i]
    BY <1>2, <1>3
<1>5. InRing' = InRing + 1 /\ InRing' \in 0..Qsize
    BY <1>1, <1>2, <1>3, <1>4, QueueAssumption DEF InRing
<1>6. Oldest' = Oldest /\ Vacant = rear /\ Vacant' = Succ(rear)
    BY <1>1, <1>2, OneFurther DEF Oldest, Vacant, Wrapped
<1>7. Vacant' = Place(Oldest', InRing')
    <2>1. Succ(Place(Oldest, InRing)) = Place(Oldest, InRing + 1)
        BY <1>2, <1>3, SlotsDiffer, QueueAssumption
    <2> QED BY <1>3, <1>5, <1>6, <2>1
<1>8. InRing + Len(out) <= Len(kept)
    BY <1>1, <1>3 DEF InRing
<1>9. \A k \in 0..(InRing' - 1) :
          data'[Place(Oldest', k)] = kept'[Len(kept') - InRing' + k + 1]
    <2> TAKE k \in 0..(InRing' - 1)
    <2> DEFINE i == Len(kept) - InRing + k + 1
    <2>1. Len(kept') - InRing' + k + 1 = i
        BY <1>3, <1>4, <1>5
    <2>2. CASE k < InRing
        <3>1. k \in 0..(InRing - 1) /\ i \in 1..Len(kept)
            BY <2>2, <1>3, <1>5, <1>8
        <3>2. data[Place(Oldest, k)] = kept[i] /\ kept'[i] = kept[i]
            BY <3>1, <1>3, <1>4
        <3> QED BY <3>2, <2>1, <1>2, <1>6
    <2>3. CASE k = InRing
        <3>1. i = Len(kept) + 1
            BY <2>3, <1>3
        <3> QED BY <3>1, <2>1, <2>3, <1>2, <1>3, <1>4, <1>6
    <2> QED BY <2>2, <2>3, <1>3, <1>5
<1>10. Filled'
    BY <1>5, <1>7, <1>9 DEF Filled
<1>11. Putting'
    BY <1>1 DEF Putting
<1>12. Getting'
    <2>1. pc["main"] \in {"wrap", "take"} => Len(out) + 1 \in 1..Len(kept)
        BY <1>3 DEF InRing
    <2>2. pc["main"] \in {"wrap", "take"} => data[tmp] = kept'[Len(out) + 1]
        BY <1>1, <1>4, <2>1 DEF Getting
    <2>3. pc["main"] \in {"wrap", "take"} => Oldest' = Succ(tmp) /\ data'[tmp'] = kept'[Len(out') + 1]
        BY <1>1, <1>2, <1>6, <2>2 DEF Getting
    <2>4. pc["main"] = "advance" => tmp' = front' /\ InRing' > 0
        BY <1>1, <1>2, <1>3, <1>5 DEF Getting
    <2> QED BY <1>1, <1>2, <2>3, <2>4 DEF Getting, Succ
<1> QED BY <1>10, <1>11, <1>12 DEF Ring

(* The second store of an index changes nothing of the ring.               *)
LEMMA WrapStep ==
    ASSUME Types, Ring, \/ PutStore("recv") /\ pc["recv"] = "storewrap"
                        \/ GetAdvance /\ pc["main"] = "wrap"
    PROVE  Ring'
<1>0. Filled /\ Putting /\ Getting /\ rear \in 0..Qnum /\ front \in 0..Qnum
    BY DEF Ring, Types
<1>1. CASE PutStore("recv") /\ pc["recv"] = "storewrap"
    <2>1. /\ rear' = Vacant /\ pc'["recv"] = "recv" /\ pc'["main"] = pc["main"]
          /\ UNCHANGED <<data, front, tmp, kept, out>>
        BY <1>0, <1>1 DEF PutStore, Goto, AfterPut, Types, Threads, Putting
    <2>2. Vacant' = Vacant /\ Oldest' = Oldest
        BY <1>0, <2>1, Wraps DEF Vacant, Oldest, Wrapped
    <2>3. InRing' = InRing
        BY <2>1 DEF InRing
    <2> QED BY <1>0, <2>1, <2>2, <2>3 DEF Ring, Filled, Putting, Getting, Succ
<1>2. CASE GetAdvance /\ pc["main"] = "wrap"
    <2>1. /\ front' = front % Qnum /\ pc'["main"] = "take" /\ pc'["recv"] = pc["recv"]
          /\ UNCHANGED <<data, rear, rec, val, tmp, kept, out>>
        BY <1>0, <1>2 DEF GetAdvance, Stepped, Goto, Types, Threads, history
    <2>2. Vacant' = Vacant /\ Oldest' = Oldest
        BY <1>0, <2>1, Wraps DEF Vacant, Oldest, Wrapped
    <2>3. InRing' = InRing
        BY <1>2, <2>1 DEF InRing
    <2> QED BY <1>0, <1>2, <2>1, <2>2, <2>3 DEF Ring, Filled, Putting, Getting, Succ
<1> QED BY <1>1, <1>2

(* The first store of g_nFront: the oldest record has left the ring.       *)
LEMMA AdvanceStep ==
    ASSUME Types, Ring, GetAdvance, pc["main"] = "advance"
    PROVE  Ring'
<1>1. /\ Filled /\ Putting /\ Getting /\ front \in 0..Qsize
      /\ pc'["main"] = "wrap" /\ pc'["recv"] = pc["recv"]
    BY DEF GetAdvance, Goto, Types, Threads, Ring
<1>2. /\ front' = front + 1 /\ tmp = front /\ InRing > 0
      /\ UNCHANGED <<data, rear, rec, val, tmp, kept, out>>
    BY <1>1 DEF GetAdvance, Stepped, Getting, history
<1>3. /\ Len(kept) \in Nat /\ Len(out) \in Nat
      /\ InRing \in 0..Qsize /\ Oldest \in 0..Qsize
      /\ Vacant = Place(Oldest, InRing) /\ InRing = Len(kept) - Len(out)
      /\ \A k \in 0..(InRing - 1) : data[Place(Oldest, k)] = kept[Len(kept) - InRing + k + 1]
    <2>1. Len(kept) \in Nat /\ Len(out) \in Nat
        BY DEF Types
    <2>2. InRing = Len(kept) - Len(out)
        BY <2>1 DEF InRing
    <2> QED BY <2>1, <2>2, RingTypes, Zenon DEF Filled
<1>4. InRing' = InRing - 1 /\ InRing' \in 0..(Qsize - 1)
    BY <1>1, <1>2, <1>3, QueueAssumption DEF InRing
<1>5. Oldest = front /\ Oldest' = Succ(front) /\ Vacant' = Vacant
    BY <1>1, <1>2, OneFurther DEF Oldest, Vacant, Wrapped
<1>6. \A k \in 0..(Qsize - 1) : Place(Oldest', k) = Place(Oldest, k + 1)
    BY <1>3, <1>5, QueueAssumption, SMT DEF Place, Succ, Qnum
<1>7. Vacant' = Place(Oldest', InRing')
    BY <1>3, <1>4, <1>5, <1>6
<1>8. \A k \in 0..(InRing' - 1) :
          data'[Place(Oldest', k)] = kept'[Len(kept') - InRing' + k + 1]
    <2> TAKE k \in 0..(InRing' - 1)
    <2>1. k + 1 \in 0..(InRing - 1) /\ k \in 0..(Qsize - 1)
        BY <1>3, <1>4, QueueAssumption
    <2>2. data[Place(Oldest, k + 1)] = kept[Len(kept) - InRing + (k + 1) + 1]
        BY <1>3, <2>1
    <2>3. Len(kept) - InRing + (k + 1) + 1 = Len(kept') - InRing' + k + 1
        BY <1>2, <1>3, <1>4
    <2> QED BY <1>2, <1>6, <2>1, <2>2, <2>3
<1>9. Filled'
    BY <1>4, <1>7, <1>8, QueueAssumption DEF Filled
<1>10. Putting'
    BY <1>1, <1>2, <1>4, <1>5, QueueAssumption DEF Putting
<1>11. data[tmp] = kept[Len(out) + 1]
    <2>1. Place(Oldest, 0) = front
        BY <1>3, <1>5, QueueAssumption DEF Place, Qnum
    <2>2. data[Place(Oldest, 0)] = kept[Len(kept) - InRing + 0 + 1]
        BY <1>2, <1>3
    <2> QED BY <1>2, <1>3, <2>1, <2>2
<1>12. Getting'
    BY <1>1, <1>2, <1>5, <1>11 DEF Getting, Succ
<1> QED BY <1>9, <1>10, <1>12 DEF Ring

(* Copying the freed slot brings the record it held.                       *)
LEMMA TakesIt ==
    ASSUME Types, Ring, GetTake
    PROVE  pc["main"] = "take" /\ out' = Append(out, data[tmp]) /\ rec' = [rec EXCEPT !["main"] = data[tmp]]
<1>1. ~SharedSlot
    BY RearIsFree DEF SharedSlot
<1> QED BY <1>1 DEF GetTake

LEMMA TakeStep == ASSUME Types, Ring, GetTake PROVE Ring'
<1>1. /\ Filled /\ Putting /\ Getting /\ pc["main"] = "take"
      /\ pc'["main"] = "got" /\ pc'["recv"] = pc["recv"]
    BY DEF GetTake, Goto, Types, Threads, Ring
<1>2. UNCHANGED <<data, rear, front, val, kept>> /\ out' = Append(out, data[tmp])
    BY TakesIt DEF GetTake, ring
<1>3. rec'["recv"] = rec["recv"]
    BY TakesIt DEF Types, Threads
<1>4. Len(out') = Len(out) + 1 /\ Len(out) \in Nat /\ Len(kept) \in Nat
    BY <1>1, <1>2 DEF Types
<1>5. InRing' = InRing /\ Oldest' = Oldest /\ Vacant' = Vacant
    BY <1>1, <1>2, <1>4 DEF InRing, Oldest, Vacant, Wrapped
<1>6. Filled'
    BY <1>1, <1>2, <1>5 DEF Filled
<1>7. Putting'
    BY <1>1, <1>2, <1>3, <1>5 DEF Putting
<1>8. Getting'
    BY <1>1 DEF Getting
<1> QED BY <1>6, <1>7, <1>8 DEF Ring

LEMMA RingStep ==
    ASSUME Types, Ring, [Next]_vars, ~misled, ~misled'
    PROVE  Ring'
<1>1. CASE PutStore("recv")
    BY <1>1, StoreStep, WrapStep DEF PutStore
<1>2. CASE GetAdvance
    BY <1>2, AdvanceStep, WrapStep DEF GetAdvance
<1> QED BY <1>1, <1>2, QuietSteps, FillStep, LoadStep, TakeStep DEF Next, ReceiverStep, Put, Get

LEMMA QueueInvariant == Spec => []QueueInv
<1>1. Init => QueueInv
    BY QueueInit
<1>2. QueueInv /\ [Next]_vars => QueueInv'
    <2> SUFFICES ASSUME QueueInv, [Next]_vars PROVE QueueInv'
        OBVIOUS
    <2>1. Types'
        BY StepTypes DEF QueueInv
    <2>2. misled' \/ Ring'
        BY RingStep, MisledStays DEF QueueInv
    <2> QED BY <2>1, <2>2 DEF QueueInv
<1> QED BY <1>1, <1>2, PTL DEF Spec

(* The two memcpy of the ring meet only when a test of it was misled by an *)
(* index between its two stores, for every number of slots.                *)
THEOREM QueueNoSharedSlot == Spec => []NoSharedSlot
<1>1. QueueInv => NoSharedSlot
    BY RearIsFree DEF NoSharedSlot, SharedSlot, QueueInv
<1> QED BY <1>1, QueueInvariant, PTL

(* Whatever the threads read of each other, an index is behind the array   *)
(* only between its two stores, and there by one.                          *)
THEOREM QueueTypeCorrect == Spec => []TypeOK
<1>1. QueueInv => TypeOK
    <2> SUFFICES ASSUME QueueInv PROVE TypeOK
        OBVIOUS
    <2>1. Types
        BY DEF QueueInv
    <2>2. Qnum - 1 = Qsize /\ Qsize \in Nat /\ Qnum \notin 0..Qsize
        BY QueueAssumption DEF Qnum
    <2>3. kept \in Seq(Nat)
        BY <2>1, QueueAssumption DEF Types
    <2> QED BY <2>1, <2>2, <2>3 DEF Types, TypeOK, RecvPcs, TakePcs, PutPcs, GetPcs
<1> QED BY <1>1, QueueInvariant, PTL

(* The memcpy of SQPut and of SQGet keep to the array of qsiz + 1 slots.   *)
InArray ==
    /\ pc["recv"] = "fill" => rear \in 0..Qsize
    /\ pc["main"] = "take" => tmp \in 0..Qsize

(* With one thread that puts (dap_alarm, dap_vwlog), misled or not: the    *)
(* memcpy of fipc_SQPut and fipc_SQGet keep to the array.                  *)
THEOREM QueueInArray == Spec => []InArray
<1>1. QueueInv => InArray
    BY DEF QueueInv, Types, InArray
<1> QED BY <1>1, QueueInvariant, PTL

------------------------------------------------------------------------------
(* Refinement: the ring implements BoundedFifo.                            *)

GotSoFar == IF pc["main"] \in {"wrap", "take"} THEN Append(out, data[tmp]) ELSE out

(* Nothing changes what has been put and got but the steps that first      *)
(* store an index; the freed slot is got at the moment it was freed.       *)
LEMMA FifoStep ==
    ASSUME Types, Ring, ~misled, ~misled', [Next]_vars
    PROVE  [Fifo!Next]_<<kept, GotSoFar, misled>>
<1>0. /\ Filled /\ Putting /\ Getting
      /\ kept \in Seq(1..MaxRec) /\ out \in Seq(Nat)
      /\ Len(kept) \in Nat /\ Len(out) \in Nat /\ misled' = misled
    <2>1. kept \in Seq(1..MaxRec) /\ out \in Seq(Nat) /\ misled \in BOOLEAN
        BY DEF Types
    <2>2. misled' \in BOOLEAN
        BY StepTypes DEF Types
    <2> QED BY <2>1, <2>2 DEF Ring
<1>1. Len(GotSoFar) = IF pc["main"] \in {"wrap", "take"} THEN Len(out) + 1 ELSE Len(out)
    BY <1>0 DEF GotSoFar
<1>2. Len(kept) - Len(GotSoFar) = InRing
    BY <1>0, <1>1 DEF InRing
<1>3. CASE PutStore("recv") /\ pc["recv"] = "store"
    <2>1. kept' = Append(kept, rec["recv"]) /\ rec["recv"] \in 1..MaxRec /\ InRing < Qsize
        BY <1>0, <1>3 DEF PutStore, Types, Putting
    <2>2. pc'["main"] = pc["main"]
        BY <1>3 DEF PutStore, Goto, Types, Threads
    <2>3. GotSoFar' = GotSoFar
        BY <1>3, <2>2 DEF PutStore, GotSoFar
    <2>4. Fifo!Put
        BY <1>0, <1>2, <2>1, <2>3 DEF Fifo!Put, Fifo!Waiting, GotSoFar
    <2> QED BY <2>4 DEF Fifo!Next
<1>4. CASE GetAdvance /\ pc["main"] = "advance"
    <2>1. /\ pc["main"] = "advance" /\ pc'["main"] = "wrap" /\ InRing > 0
          /\ UNCHANGED <<kept, out, data, tmp>>
        BY <1>0, <1>4 DEF GetAdvance, Goto, Types, Threads, Getting, history
    <2>2. Getting'
        BY <1>4, AdvanceStep DEF Ring
    <2>3. GotSoFar = out /\ GotSoFar' = Append(out, kept[Len(out) + 1])
        BY <2>1, <2>2 DEF Getting, GotSoFar
    <2>4. Fifo!Get
        BY <1>0, <1>2, <2>1, <2>3 DEF Fifo!Get, Fifo!Waiting, GotSoFar
    <2> QED BY <2>4 DEF Fifo!Next
<1>5. CASE GetTake
    <2>1. pc["main"] = "take" /\ pc'["main"] = "got"
        BY <1>5 DEF GetTake, Goto, Types, Threads
    <2>2. GotSoFar' = GotSoFar /\ kept' = kept
        BY <1>5, <2>1, TakesIt DEF GetTake, GotSoFar
    <2> QED BY <1>0, <2>2
<1>6. CASE Receive \/ PutCheck("recv") \/ PutLoad("recv") \/ ReceiverFindsFull
           \/ GetCheck \/ Use \/ UNCHANGED vars
    <2>1. UNCHANGED <<kept, out, data>>
        BY <1>6 DEF Receive, PutCheck, PutLoad, ReceiverFindsFull, GetCheck, Use,
                    vars, ring, history
    <2>2. pc["main"] \in {"wrap", "take"} => pc'["main"] = pc["main"] /\ tmp' = tmp
        BY <1>6 DEF Receive, PutCheck, PutLoad, ReceiverFindsFull, GetCheck, Use,
                    vars, Goto, Types, Threads
    <2>3. pc'["main"] \in {"wrap", "take"} => pc["main"] = pc'["main"]
        BY <1>6 DEF Receive, PutCheck, PutLoad, ReceiverFindsFull, GetCheck, Use,
                    vars, Goto, Types, Threads
    <2>4. GotSoFar' = GotSoFar
        BY <2>1, <2>2, <2>3 DEF GotSoFar
    <2> QED BY <1>0, <2>1, <2>4
<1>7. CASE PutFill("recv")
    <2>1. UNCHANGED <<kept, out, tmp>> /\ pc'["main"] = pc["main"]
        BY <1>7 DEF PutFill, Goto, Types, Threads, history
    <2>2. pc["main"] \in {"wrap", "take"} => tmp # rear /\ tmp \in Cells /\ rear \in Cells
        <3>1. pc["main"] \in {"wrap", "take"} => tmp # rear
            BY <1>7, RearIsFree DEF PutFill
        <3>2. tmp \in 0..Qsize /\ rear \in 0..Qnum
            BY DEF Types
        <3>3. 0..Qnum \subseteq Cells /\ 0..Qsize \subseteq Cells
            BY QueueAssumption DEF Cells, Qnum
        <3> QED BY <3>1, <3>2, <3>3
    <2>3. pc["main"] \in {"wrap", "take"} => data'[tmp] = data[tmp]
        BY <1>7, <2>2 DEF PutFill, Types
    <2>4. GotSoFar' = GotSoFar
        BY <2>1, <2>3 DEF GotSoFar
    <2> QED BY <1>0, <2>1, <2>4
<1>8. CASE PutStore("recv") /\ pc["recv"] = "storewrap"
    <2>1. UNCHANGED <<kept, out, data, tmp>> /\ pc'["main"] = pc["main"]
        BY <1>8 DEF PutStore, Goto, Types, Threads
    <2> QED BY <1>0, <2>1 DEF GotSoFar
<1>9. CASE GetAdvance /\ pc["main"] = "wrap"
    <2>1. UNCHANGED <<kept, out, data, tmp>> /\ pc'["main"] = "take"
        BY <1>9 DEF GetAdvance, Goto, Types, Threads, history
    <2> QED BY <1>0, <1>9, <2>1 DEF GotSoFar
<1>10. CASE PutStore("recv")
    BY <1>3, <1>8, <1>10 DEF PutStore
<1>11. CASE GetAdvance
    BY <1>4, <1>9, <1>11 DEF GetAdvance
<1> QED BY <1>5, <1>6, <1>7, <1>10, <1>11 DEF Next, ReceiverStep, Put, Get

(* Only a test of a full ring or of an empty one is misled.                *)
LEMMA MisleadStep ==
    ASSUME Types, Ring, ~misled, misled', [Next]_vars
    PROVE  Fifo!Mislead
<1>1. PutCheck("recv") \/ GetCheck
    BY DEF Next, ReceiverStep, Put, Get, Receive, PutFill, PutLoad, PutStore,
           ReceiverFindsFull, GetAdvance, GetTake, Use, vars, history
<1>2. InRing \in {0, Qsize}
    BY <1>1, PutHasRoom, GetHasRecord
<1>3. UNCHANGED <<kept, out, data>>
    BY <1>1 DEF PutCheck, GetCheck, ring
<1>4. pc["main"] \in {"wrap", "take"} <=> pc'["main"] \in {"wrap", "take"}
    BY <1>1 DEF PutCheck, GetCheck, Goto, Types, Threads
<1>5. pc["main"] \in {"wrap", "take"} => tmp' = tmp
    BY <1>1 DEF PutCheck, GetCheck
<1>6. GotSoFar' = GotSoFar
    BY <1>3, <1>4, <1>5 DEF GotSoFar
<1>7. Len(kept) - Len(GotSoFar) = InRing
    <2>1. out \in Seq(Nat) /\ kept \in Seq(1..MaxRec)
        BY DEF Types
    <2> QED BY <2>1 DEF InRing, GotSoFar
<1>8. misled' = TRUE
    BY StepTypes DEF Types
<1> QED BY <1>2, <1>3, <1>6, <1>7, <1>8 DEF Fifo!Mislead, Fifo!Waiting, GotSoFar

(* Whatever qsiz is: records are got once each, in the order they were     *)
(* put, and at most qsiz of them wait, until a thread is misled; and one   *)
(* can be only when the ring is full or empty.                             *)
THEOREM QueueImplementsFifo == Spec => ImplementsFifo
<1>1. Init => Fifo!Init
    <2> SUFFICES ASSUME Init PROVE Fifo!Init
        OBVIOUS
    <2>1. kept = <<>> /\ out = <<>> /\ pc["main"] = "get" /\ misled = FALSE
        BY DEF Init, Threads
    <2> QED BY <2>1 DEF Fifo!Init
<1>2. QueueInv /\ [Next]_vars
          => [Fifo!Next]_<<kept, IF pc["main"] \in {"wrap", "take"} THEN Append(out, data[tmp]) ELSE out,
                           misled>>
    <2> SUFFICES ASSUME QueueInv, [Next]_vars PROVE [Fifo!Next]_<<kept, GotSoFar, misled>>
        BY DEF GotSoFar
    <2>1. CASE misled
        BY <2>1, MisledStays DEF QueueInv, Fifo!Next, Fifo!Anything
    <2>2. CASE ~misled /\ misled'
        BY <2>2, MisleadStep DEF QueueInv, Fifo!Next
    <2>3. CASE ~misled /\ ~misled'
        BY <2>3, FifoStep DEF QueueInv
    <2> QED BY <2>1, <2>2, <2>3
<1> QED BY <1>1, <1>2, QueueInvariant, PTL DEF Spec, ImplementsFifo, Fifo!Spec
==============================================================================
