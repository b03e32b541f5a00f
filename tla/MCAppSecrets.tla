---------------------------- MODULE MCAppSecrets ----------------------------
(* AppSecrets for TLC. *)
EXTENDS AppSecrets
=============================================================================
