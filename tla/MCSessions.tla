----------------------------- MODULE MCSessions -----------------------------
(* AppSessions on a small instance. *)
EXTENDS AppSessions
=============================================================================
