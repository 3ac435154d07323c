----------------------------- MODULE MCPayments -----------------------------
(***************************************************************************)
(* Small instances of the payments module for TLC.                         *)
(***************************************************************************)
EXTENDS PaymentsProperties, TLC

CONSTANTS p1, p2, b1, c1, c2, x1, x2

\* One payment of two units.
OneRequest == {[key |-> p1, booking |-> b1, amount |-> 2]}

\* Two keys compete for one booking.
TwoKeys == {[key |-> p, booking |-> b1, amount |-> 1] : p \in {p1, p2}}

\* The same, for different amounts.
UnequalRequests ==
  {[key |-> p1, booking |-> b1, amount |-> 2],
   [key |-> p2, booking |-> b1, amount |-> 1]}

\* Two payloads compete for one key, and a second key for the same booking.
RivalRequests ==
  TwoKeys \cup {[key |-> p1, booking |-> b1, amount |-> 2]}

\* Nothing the services do depends on the audit trail or on the model's own
\* record of what administrators decided and the provider paid back.
WithoutHistory ==
  <<payments, refunded, rowLock, calls, charge, now, restarts>>

HttpSymmetry == Permutations({c1, c2})
=============================================================================
