---------------------------- MODULE BoundedFifo ----------------------------
(***************************************************************************)
(* What the queue in the memory of a daemon promises: at most Capacity     *)
(* records wait, and they are got in the order they were put, each once,   *)
(* none lost and none invented.  The promise ends when a thread is misled  *)
(* about the queue, which can happen only when it is full or empty.        *)
(***************************************************************************)
EXTENDS Naturals, Sequences

CONSTANTS Capacity, Record

VARIABLES
    put,    \* every record put so far
    got,    \* every record got so far
    misled  \* has a full queue been taken for one with room, or an empty one
            \* for one with records?

Waiting == Len(put) - Len(got)

Init == put = <<>> /\ got = <<>> /\ misled = FALSE

Put == Waiting < Capacity /\ (\E r \in Record : put' = Append(put, r)) /\ UNCHANGED <<got, misled>>

Get == Waiting > 0 /\ got' = Append(got, put[Len(got) + 1]) /\ UNCHANGED <<put, misled>>

Mislead == Waiting \in {0, Capacity} /\ misled' = TRUE /\ UNCHANGED <<put, got>>

Anything == misled /\ misled'

Next == Put \/ Get \/ Mislead \/ Anything

Spec == Init /\ [][Next]_<<put, got, misled>>
==============================================================================
