--------------------------- MODULE MCPasswordReset ---------------------------
(***************************************************************************)
(* Small instances of PasswordReset for TLC.                                *)
(***************************************************************************)
EXTENDS PasswordReset

CONSTANTS alice, cash, m1, m2, reset1, reset2
=============================================================================
