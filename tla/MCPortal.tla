------------------------------ MODULE MCPortal ------------------------------
(***************************************************************************)
(* Small instances of Portal and, through it, of FirmwareUpdate: one slot  *)
(* and one card to change it, uploads of one chunk.                 *)
(***************************************************************************)
EXTENDS Portal

MCCardIds == 1 .. 2
MCDefaultCards == <<1>>
MCStamps == {0}
=============================================================================
