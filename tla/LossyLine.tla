------------------------------ MODULE LossyLine ------------------------------
(***************************************************************************)
(* What the receiving side of the serial line promises the packet handler: *)
(* of the frames that are sent it hands over some, each at most once and   *)
(* in the order they were sent in.                                         *)
(***************************************************************************)
EXTENDS Naturals, Sequences

VARIABLES
  sent,     \* how many frames have been sent
  received  \* the numbers of those that have been handed over

Init == sent = 0 /\ received = <<>>

Send == sent' > sent /\ sent' \in Nat /\ UNCHANGED received

Hand ==
  /\ \E k \in 1 .. sent :
       /\ \A i \in 1 .. Len(received) : received[i] < k
       /\ received' = Append(received, k)
  /\ UNCHANGED sent

Spec == Init /\ [][Send \/ Hand]_<<sent, received>>
=============================================================================
