------------------------------ MODULE MCDevSeed ------------------------------
(* DevSeed on one real mandate and one demonstration mandate. *)
EXTENDS DevSeed
=============================================================================
