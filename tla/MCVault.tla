------------------------------- MODULE MCVault -------------------------------
(* AppVault on a small instance. *)
EXTENDS AppVault
==============================================================================
