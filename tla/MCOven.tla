------------------------------- MODULE MCOven -------------------------------
(* Model values and small profiles for the runs of module Oven.            *)
EXTENDS Oven, TLC

MCLidOpenPosition == -4
\* Of a longer lift: a stride past the last offset is not parked.
MCDeepPosition == -8
MCHeaterBand == -1

\* Two heated steps and the zero duration that ends the profile.
MCPoints ==
  (0 :> [temperature |-> 100, time |-> 1]) @@ (1 :> [temperature |-> 200, time |-> 2])
  @@ (2 :> [temperature |-> 200, time |-> 0]) @@ (3 :> [temperature |-> 0, time |-> 0])
\* A profile of one step in an array that still holds a longer profile.
MCStalePoints ==
  (0 :> [temperature |-> 100, time |-> 1]) @@ (1 :> [temperature |-> 200, time |-> 1])
  @@ (2 :> [temperature |-> 0, time |-> 0])
\* A profile of one heated step.
MCOneStep ==
  (0 :> [temperature |-> 200, time |-> 1]) @@ (1 :> [temperature |-> 200, time |-> 0])
  @@ (2 :> [temperature |-> 0, time |-> 0])
=============================================================================
