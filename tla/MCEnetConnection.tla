-------------------------- MODULE MCEnetConnection --------------------------
(* EnetConnection for TLC.                                                 *)
EXTENDS EnetConnection
=============================================================================
