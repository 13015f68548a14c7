------------------------------ MODULE MCPaging ------------------------------
(* An instance of Paging for TLC: small numbers only. *)
EXTENDS Paging
=============================================================================
