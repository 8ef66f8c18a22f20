----------------------------- MODULE MCCommand -----------------------------
EXTENDS CommandPath

CONSTANT MaxApprovals   \* bound: approvals one behaviour may sign

(* The App signs at most MaxApprovals, so no sequence goes past it. *)
MCEnvelope == [id : 1..MaxApprovals, epoch : Epochs, seq : 1..MaxApprovals]

Symmetry == Permutations(Run) \cup Permutations(Request)
=============================================================================
