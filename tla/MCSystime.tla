------------------------------- MODULE MCSystime -------------------------------
(* Instances of Systime for TLC: three levels that are soon full.          *)
EXTENDS Systime, Sequences

MCRadix == <<3, 2>>
=============================================================================
