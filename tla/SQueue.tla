-------------------------------- MODULE SQueue --------------------------------
(***************************************************************************)
(* The queue in memory of dap_dblog, dap_alarm and dap_vwlog: a ring of    *)
(* qsiz + 1 slots in dap_sQueue.c without a lock.  The receiver thread     *)
(* puts what fipc_FQGetData brings it; the main thread gets.  SQGet moves  *)
(* g_nFront past a slot before it copies the slot: the one slot more than  *)
(* qsiz is all that keeps a put away from it.                              *)
(*                                                                         *)
(* The threads share plain ints.  Compiled as the makefiles do (gcc -g, no *)
(* -O), "g_nRear++; g_nRear = g_nRear % g_nQnum" stores the index twice,   *)
(* and the other thread can read it unwrapped: a full ring then looks like *)
(* one with room, an empty one like one with records.  misled says whether *)
(* that has happened.                                                      *)
(***************************************************************************)
EXTENDS Integers, Sequences

CONSTANTS
    Qsize,      \* qsiz: nCfgRsltQsize
    Retry,      \* nCfgRetryQCount
    MaxRec,     \* bound: records that reach the receiver
    MaxGets     \* bound: records the main thread gets from one ring

ASSUME QueueAssumption ==
    /\ Qsize \in Nat \ {0}
    /\ Retry \in Nat
    /\ MaxRec \in Nat /\ MaxGets \in Nat

VARIABLES
    data,           \* the slots; those from Qnum on lie behind the array
    rear, front,    \* g_nRear, g_nFront
    pc,             \* where each thread is
    rec,            \* RsltQData of each thread
    val,            \* the index a thread has computed and not yet stored
    tmp,            \* tmp of SQGet
    tries,          \* retryCnt of the receiver thread
    nrec,           \* records received so far, numbered in their order
    kept, out,      \* history: records put, records got
    misled          \* history: has an index been taken unwrapped for a place?

ring     == <<data, rear, front>>
receiver == <<tries, nrec>>
history  == <<kept, out, misled>>
vars     == <<ring, pc, rec, val, tmp, receiver, history>>

Threads == {"recv", "main"}
Qnum    == Qsize + 1
Cells   == 0..(3 * Qnum)
Zeroed  == 0            \* a slot as calloc leaves it
Mixed   == MaxRec + 1   \* parts of two records

(* Mutant: a full ring is not seen.                                        *)
IsFullNever == FALSE

(* fipc_SQIsFull.                                                          *)
IsFull == front = (rear + 1) % Qnum

(* Mutant: the slot after the first is taken for the end.                  *)
IsEmptyEarly == (front + 1) % Qnum = rear \/ front = rear

(* fipc_SQIsEmpty.                                                         *)
IsEmpty == front = rear

(* What is stored for index i: the increment, and then the remainder.      *)
Stepped(i, wrapping) == IF wrapping THEN i % Qnum ELSE i + 1

(* Where a thread goes on when its fipc_SQPut has returned 0.              *)
AfterPut(t) == IF t = "recv" THEN "recv" ELSE "get"

Goto(t, to) == pc' = [pc EXCEPT ![t] = to]

------------------------------------------------------------------------------
(* fipc_SQPut, by thread t.                                                *)

(* The test misses a full ring when the other thread is between the two    *)
(* stores of g_nFront, which then stands for the first slot.               *)
PutCheck(t) ==
    /\ pc[t] = "put" /\ ~IsFull
    /\ misled' = (misled \/ (front = Qnum /\ rear + 1 = Qnum))
    /\ Goto(t, "fill")
    /\ UNCHANGED <<ring, rec, val, tmp, receiver, kept, out>>

PutFill(t) ==
    /\ pc[t] = "fill"
    /\ data' = [data EXCEPT ![rear] = rec[t]]
    /\ Goto(t, "load")
    /\ UNCHANGED <<rear, front, rec, val, tmp, receiver, history>>

(* g_nRear++ and g_nRear % g_nQnum, read and written apart.                *)
PutLoad(t) ==
    /\ pc[t] \in {"load", "loadwrap"}
    /\ val' = [val EXCEPT ![t] = Stepped(rear, pc[t] = "loadwrap")]
    /\ Goto(t, IF pc[t] = "load" THEN "store" ELSE "storewrap")
    /\ UNCHANGED <<ring, rec, tmp, receiver, history>>

PutStore(t) ==
    /\ pc[t] \in {"store", "storewrap"}
    /\ rear' = val[t]
    /\ kept' = IF pc[t] = "store" THEN Append(kept, rec[t]) ELSE kept
    /\ Goto(t, IF pc[t] = "store" THEN "loadwrap" ELSE AfterPut(t))
    /\ UNCHANGED <<data, front, rec, val, tmp, receiver, out, misled>>

Put(t) == PutCheck(t) \/ PutFill(t) \/ PutLoad(t) \/ PutStore(t)

------------------------------------------------------------------------------
(* The receiver thread.                                                    *)

(* fipc_FQGetData brings a record.                                         *)
Receive ==
    /\ pc["recv"] = "recv"
    /\ nrec < MaxRec
    /\ nrec' = nrec + 1
    /\ rec' = [rec EXCEPT !["recv"] = nrec + 1]
    /\ tries' = 0
    /\ Goto("recv", "put")
    /\ UNCHANGED <<ring, val, tmp, history>>

(* Mutant: tries are not counted.                                          *)
ReceiverFindsFullUncounted ==
    /\ pc["recv"] = "put" /\ IsFull
    /\ UNCHANGED vars

(* The put returns -1.  Try again after a sleep, nCfgRetryQCount times,    *)
(* then go on without the record.                                          *)
ReceiverFindsFull ==
    /\ pc["recv"] = "put" /\ IsFull
    /\ tries' = tries + 1
    /\ Goto("recv", IF tries < Retry THEN "put" ELSE "recv")
    /\ UNCHANGED <<ring, rec, val, tmp, nrec, history>>

ReceiverStep == Put("recv") \/ ReceiverFindsFull

------------------------------------------------------------------------------
(* fipc_SQGet, by the main thread.                                         *)

(* The test misses an empty ring when the other thread is between the two  *)
(* stores of g_nRear, which then stands for the first slot.                *)
GetCheck ==
    /\ pc["main"] = "get" /\ ~IsEmpty
    /\ Len(out) < MaxGets
    /\ tmp' = front
    /\ misled' = (misled \/ (rear = Qnum /\ front = 0))
    /\ Goto("main", "advance")
    /\ UNCHANGED <<ring, rec, val, receiver, kept, out>>

(* g_nFront++ and g_nFront % g_nQnum: no other thread writes it.           *)
GetAdvance ==
    /\ pc["main"] \in {"advance", "wrap"}
    /\ front' = Stepped(front, pc["main"] = "wrap")
    /\ Goto("main", IF pc["main"] = "advance" THEN "wrap" ELSE "take")
    /\ UNCHANGED <<data, rear, rec, val, tmp, receiver, history>>

(* The two memcpy may be under way in the same slot.                       *)
SharedSlot == pc["recv"] = "fill" /\ pc["main"] \in {"advance", "wrap", "take"} /\ rear = tmp

(* Mutant: the slot g_nFront is at after it was advanced.                  *)
GetTakeNext ==
    /\ pc["main"] = "take"
    /\ rec' = [rec EXCEPT !["main"] = data[front]]
    /\ out' = Append(out, data[front])
    /\ Goto("main", "got")
    /\ UNCHANGED <<ring, val, tmp, receiver, kept, misled>>

(* memcpy, which brings parts of two records when it meets that of a put.  *)
GetTake ==
    /\ pc["main"] = "take"
    /\ \E r \in {data[tmp]} \cup {x \in {Mixed} : SharedSlot} :
           /\ rec' = [rec EXCEPT !["main"] = r]
           /\ out' = Append(out, r)
    /\ Goto("main", "got")
    /\ UNCHANGED <<ring, val, tmp, receiver, kept, misled>>

Get == GetCheck \/ GetAdvance \/ GetTake

(* The daemon does what the record asks for and gets the next.             *)
Use ==
    /\ pc["main"] = "got"
    /\ Goto("main", "get")
    /\ UNCHANGED <<ring, rec, val, tmp, receiver, history>>

------------------------------------------------------------------------------
Init ==
    /\ data = [c \in Cells |-> Zeroed]
    /\ rear = 0 /\ front = 0
    /\ pc = [t \in Threads |-> IF t = "recv" THEN "recv" ELSE "get"]
    /\ rec = [t \in Threads |-> Zeroed]
    /\ val = [t \in Threads |-> 0]
    /\ tmp = 0 /\ tries = 0
    /\ nrec = 0
    /\ kept = <<>> /\ out = <<>>
    /\ misled = FALSE

Next == Receive \/ ReceiverStep \/ Get \/ Use

(* Both are threads of their own whose waits are sleeps of fixed length.   *)
Fairness == WF_vars(ReceiverStep) /\ WF_vars(Get \/ Use)

Spec == Init /\ [][Next]_vars
FairSpec == Spec /\ Fairness

------------------------------------------------------------------------------
PutPcs == {"put", "fill", "load", "store", "loadwrap", "storewrap"}
GetPcs == {"get", "advance", "wrap", "take", "got"}

(* An index is beyond the array only between its two stores.               *)
TypeOK ==
    /\ data \in [Cells -> Nat]
    /\ rear \in 0..Qnum /\ front \in 0..Qnum
    /\ pc["recv"] \notin {"loadwrap", "storewrap"} => rear # Qnum
    /\ pc["main"] # "wrap" => front # Qnum
    /\ pc \in [Threads -> {"recv"} \cup PutPcs \cup GetPcs]
    /\ pc["recv"] \in {"recv"} \cup PutPcs /\ pc["main"] \in GetPcs
    /\ rec \in [Threads -> Nat]
    /\ val \in [Threads -> 0..Qnum]
    /\ tmp \in 0..(Qnum - 1)
    /\ tries \in 0..(Retry + 1)
    /\ nrec \in Nat
    /\ kept \in Seq(Nat) /\ out \in Seq(Nat)
    /\ misled \in BOOLEAN

(* The slot that SQGet has freed and is still copying is not filled, as    *)
(* long as no test of the ring was misled: the slot to spare is all that   *)
(* keeps the two memcpy apart, without a lock.                             *)
NoSharedSlot == SharedSlot => misled

(* The ring is a queue of Qsize records, until a thread is misled, which   *)
(* can happen only when it is full or empty.  A record is got when         *)
(* g_nFront is stored, though its slot is copied later.                    *)
Fifo == INSTANCE BoundedFifo
        WITH Capacity <- Qsize, Record <- 1..MaxRec, put <- kept,
             got <- IF pc["main"] \in {"wrap", "take"} THEN Append(out, data[tmp]) ELSE out
ImplementsFifo == Fifo!Spec

(* A receiver that finds the ring full does not stay with its record.      *)
ReceiverGoesOn == pc["recv"] = "put" ~> pc["recv"] = "recv"

(* Every record put is got, as long as no thread has been misled.          *)
AllAreGot == \A k \in 1..MaxRec : Len(kept) >= k ~> Len(out) >= k \/ misled
==============================================================================
