----------------------------- MODULE MCWallets -----------------------------
(***************************************************************************)
(* Small instances of the wallets module for TLC.                          *)
(***************************************************************************)
EXTENDS WalletsProperties

CONSTANTS u1, u2, n1, n2, a1, a2, c1, c2

\* One user does everything, and has to share the addresses with another one.
OneUserAndARival ==
  {<<op, u1>> : op \in {"provision", "link", "fund", "sign"}} \cup {<<"link", u2>>}
=============================================================================
