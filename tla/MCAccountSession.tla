--------------------------- MODULE MCAccountSession ---------------------------
(***************************************************************************)
(* Small instances of AccountSession.                                      *)
(***************************************************************************)
EXTENDS AccountSession

CONSTANTS a, b    \* accounts

=============================================================================
