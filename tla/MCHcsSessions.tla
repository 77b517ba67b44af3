--------------------------- MODULE MCHcsSessions ---------------------------
(* Small instances of HcsSessions for TLC.                                 *)
EXTENDS HcsSessions
=============================================================================
