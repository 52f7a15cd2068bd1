-------------------------- MODULE MCReceivingEndpoint --------------------------
(* Small instances of ReceivingEndpoint for TLC. *)
EXTENDS ReceivingEndpoint, TLC

MCSymmetry == Permutations(Readers)
===============================================================================
