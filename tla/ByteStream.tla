------------------------------ MODULE ByteStream ------------------------------
(***************************************************************************)
(* What the transmit path of a serial line promises its callers: the bytes *)
(* of the calls it accepts go out, none of them twice and none that was    *)
(* not given to it, and all of them in the end.                            *)
(***************************************************************************)
EXTENDS Naturals

VARIABLES
  accepted,  \* how many bytes callers have handed over
  delivered  \* how many have gone out

\* the line itself may have something to say before the first call
Init == accepted \in Nat /\ delivered = 0

Accept ==
  /\ accepted' \in Nat /\ accepted' >= accepted
  /\ UNCHANGED delivered

Deliver ==
  /\ delivered' \in delivered + 1 .. accepted
  /\ UNCHANGED accepted

Next == Accept \/ Deliver

Spec == Init /\ [][Next]_<<accepted, delivered>> /\ WF_<<accepted, delivered>>(Deliver)
=============================================================================
