------------------------------ MODULE MCAtaDma ------------------------------
(* Small instances of AtaDma for TLC. *)
EXTENDS AtaDma

CONSTANTS t1, t2, v0, v1

=============================================================================
