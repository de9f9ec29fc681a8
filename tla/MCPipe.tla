------------------------------- MODULE MCPipe -------------------------------
(* A small instance of Pipe for TLC. *)
EXTENDS Pipe

CONSTANTS p1, p2
=============================================================================
