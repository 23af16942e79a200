------------------------------ MODULE LossyFifo ------------------------------
(***************************************************************************)
(* What a spool promises its reader's database: records 1, 2, 3, ... are   *)
(* sent, and those that arrive do so once each and in the order they were  *)
(* sent.  Records may be passed over; none arrives late.                   *)
(***************************************************************************)
EXTENDS Naturals, Sequences

VARIABLES
    sent,   \* the number of the last record sent
    got     \* the records that arrived

Newest == IF got = <<>> THEN 0 ELSE got[Len(got)]

Init == sent = 0 /\ got = <<>>

Send == sent' = sent + 1 /\ UNCHANGED got

Arrive == \E r \in (Newest + 1)..sent : got' = Append(got, r) /\ UNCHANGED sent

Next == Send \/ Arrive

Spec == Init /\ [][Next]_<<sent, got>>
==============================================================================
