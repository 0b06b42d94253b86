---------------------------- MODULE MCAutoRotate ----------------------------
(* Model-checking instances of AutoRotate. *)
EXTENDS AutoRotate
=============================================================================
