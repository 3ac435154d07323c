------------------------------ MODULE MCEscrow ------------------------------
(***************************************************************************)
(* Small instances of the Soroban rail for TLC: the names of two payments, *)
(* whose amounts, endpoints and bounds the .cfg files give.                *)
(***************************************************************************)
EXTENDS EscrowProperties

CONSTANTS p1, p2
=============================================================================
