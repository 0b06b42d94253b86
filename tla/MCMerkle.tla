------------------------------ MODULE MCMerkle ------------------------------
(* Model-checking instance of Merkle: logs of every shape up to MaxEntries. *)
EXTENDS Merkle
=============================================================================
