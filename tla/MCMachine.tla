----------------------------- MODULE MCMachine -----------------------------
EXTENDS MachineApproval

(* Two epochs of two sequences each. *)
MCEnvelope == [epoch : 1..2, seq : 1..2]
=============================================================================
