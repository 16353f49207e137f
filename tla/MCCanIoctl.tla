----------------------------- MODULE MCCanIoctl ------------------------------
(* CanIoctl for TLC; it has no constants.                                   *)
EXTENDS CanIoctl
=============================================================================
