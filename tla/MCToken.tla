------------------------------ MODULE MCToken ------------------------------
(* A small instance of FungibleToken for TLC. *)
EXTENDS FungibleToken
=============================================================================
