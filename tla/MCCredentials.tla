--------------------------- MODULE MCCredentials ---------------------------
(* Model-checking instance of Credentials and Storage.  Processes and       *)
(* passwords are interchangeable.                                           *)
EXTENDS Credentials

Symmetry == Permutations(Procs) \cup Permutations(Passwords)
=============================================================================
