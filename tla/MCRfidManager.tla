--------------------------- MODULE MCRfidManager ---------------------------
(***************************************************************************)
(* Small instances of RfidManager for TLC: two slots, one factory card and *)
(* two ids a client can add, so that the array fills up, slots of removed  *)
(* cards are reused and removed cards come back; two clock readings.       *)
(***************************************************************************)
EXTENDS RfidManager

MCCardIds == 1 .. 3
MCDefaultCards == <<1>>
MCStamps == {0, 1}
MCOneStamp == {0}
=============================================================================
