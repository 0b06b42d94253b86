------------------------------ MODULE MCBackup ------------------------------
(* Model-checking instances of Backup. *)
EXTENDS Backup, TLC

CONSTANTS pub, pub2, priv

(* Two public paths for one private path. *)
SharedPrivate == {<<pub, priv>>, <<pub2, priv>>}

(* Processes and output paths are interchangeable. *)
Symmetric == Permutations(Procs) \cup Permutations(Outs)
=============================================================================
