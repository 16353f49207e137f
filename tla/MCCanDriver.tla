----------------------------- MODULE MCCanDriver -----------------------------
(* CanDriver for TLC; every constant is given its value in the .cfg.        *)
EXTENDS CanDriver
=============================================================================
