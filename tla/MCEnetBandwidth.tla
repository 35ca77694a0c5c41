-------------------------- MODULE MCEnetBandwidth ---------------------------
(***************************************************************************)
(* EnetBandwidth for TLC: three peers, one of them without limits.         *)
(***************************************************************************)
EXTENDS EnetBandwidth

TakeAtMost == <<58, 0, 20>>
SendAtMost == <<10, 200, 0>>
=============================================================================
