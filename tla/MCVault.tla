------------------------------ MODULE MCVault ------------------------------
(* Model-checking instances of Vault. *)
EXTENDS VaultProperties
=============================================================================
