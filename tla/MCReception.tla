----------------------------- MODULE MCReception -----------------------------
(* An instance of Reception for TLC: packets with and without zeros in them, *)
(* a ring that the frames go round several times, and a decode buffer that  *)
(* two frames run together do not fit into.                                 *)
EXTENDS Reception

MCPackets == {<<0, 2>>, <<1, 1>>, <<2, 0, 1>>}

\* enough of them to have some in the ring while earlier ones are read
MCMore == MCPackets \cup {<<1, 0>>}
=============================================================================
