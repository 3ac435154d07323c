-------------------------- MODULE GatewayProperties --------------------------
(***************************************************************************)
(* What a client may rely on when it listens to the gateway.               *)
(***************************************************************************)
EXTENDS PaymentsGateway, PaymentsProperties

\* Once nobody works on a closed payment any more, whoever listens to it has
\* been told of its status, unless a push went by while handleSubscribe
\* awaited findOne.  That gap, which the code does not close, is the only one:
\* neither a save that changes nothing, nor the await before apply()'s push,
\* nor a client that subscribes in the middle of a call loses an update.
OnlyTheGapLosesUpdates ==
  \A k \in Clients :
    LET p == sockets[k].pay IN
    /\ sockets[k].at = "joined"
    /\ ~sockets[k].missed
    /\ ~Open(p)
    /\ ~Busy(p)
    => payments[p].status \in sockets[k].told

\* While webhooks and verify-on-return calls are all that works on a payment, a
\* client that was told of a verdict has not been told too early or the wrong
\* one: the payment has that status already and keeps it.
ToldVerdictStands ==
  \A k \in Clients : \A s \in sockets[k].told \ OpenStatuses :
    payments[sockets[k].pay].status = s
=============================================================================
