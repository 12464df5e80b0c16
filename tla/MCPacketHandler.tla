--------------------------- MODULE MCPacketHandler ---------------------------
(* An instance of PacketHandler for TLC: a property that is read on its own *)
(* and a state that is read in two parts, as the display reads its state    *)
(* and its monitor values.                                                  *)
EXTENDS PacketHandler

MCRounds == <<<<"state">>, <<"monitor_1", "monitor_2">>>>
=============================================================================
