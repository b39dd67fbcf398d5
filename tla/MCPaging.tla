------------------------------ MODULE MCPaging ------------------------------
(* Instances of Paging for TLC: two processes, and memories that fill up. *)
EXTENDS Paging

CONSTANTS p1, p2
=============================================================================
