----------------------------- MODULE MCGateway -----------------------------
(***************************************************************************)
(* Small instances of the gateway over the payments module for TLC.        *)
(***************************************************************************)
EXTENDS GatewayProperties, MCPayments

CONSTANTS k1

\* One client, the owner of the payment.
OwnerOnly == {<<k1, p1>>}
=============================================================================
