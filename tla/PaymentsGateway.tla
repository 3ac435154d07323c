--------------------------- MODULE PaymentsGateway ---------------------------
(***************************************************************************)
(* PaymentsGateway over the payments module: clients hold a socket, ask    *)
(* for one payment's updates, and are told what the services push.         *)
(* handleSubscribe reads the payment and joins the room an await later, so *)
(* a subscription in progress is a state of its own, beside the status it  *)
(* has read.  A push reaches whoever is in the room at that moment.        *)
(*                                                                         *)
(* A handler's write and what it does up to its next await are one action  *)
(* here as in PaymentStore, so a push is apart from the write only where   *)
(* the code awaits something in between, as apply() does.                  *)
(***************************************************************************)
EXTENDS PaymentsSystem

CONSTANTS
  Clients,  \* websocket connections
  MayView   \* <<client, payment>>: owner of the payment, or administrator

ASSUME GatewayAssumption == MayView \subseteq Clients \X Payments

VARIABLES sockets

gatewayVars == <<vars, sockets>>

\* Where the socket is, the payment it asked for, the status findOne has read
\* for it, what it has been told since it joined, and whether a push went by
\* between that read and the join.
Socket == [at: {"off", "connected", "reading", "joined"},
           pay: Payments \cup {None}, read: Statuses \cup {"ABSENT"},
           told: SUBSET Statuses, missed: BOOLEAN]

Off == [at |-> "off", pay |-> None, read |-> "ABSENT", told |-> {},
        missed |-> FALSE]

GatewayTypeOK == sockets \in [Clients -> Socket]

GatewayInit == Init /\ sockets = [k \in Clients |-> Off]

(***************************************************************************)
(* What the services push.                                                 *)
(***************************************************************************)

\* Mutant: apply() pushes for webhooks only.
PushesVerdict(call) == call.op = "webhook"

\* apply() pushes behind its logEvent, whoever called it.
Pushes(call) == TRUE

\* Mutant: the push stands before the save().
SaveBegins(before, after) == before.at = "save"

\* A save() that returned in a handler that goes on to push: sweepExpired,
\* recordAttempt's escalation, resolveManually and void.
SaveReturned(before, after) ==
  /\ before.at \in {"save", "flush"}
  /\ before.op # "initiate"
  /\ after.at \notin {"flush", "log_applied"}

\* The statuses that a step of call c pushes: one, or none.
Pushed(c) ==
  LET before == calls[c] IN
  IF \/ before.at = "log_applied" /\ Pushes(before)
     \/ SaveReturned(before, calls'[c])
  THEN {before.snap.status}
  ELSE IF before.at = "refund_commit" THEN {payments'[before.pay].status}
  ELSE {}

\* emitPaymentUpdate, to the room of the payment that c works on.
Emit(c) ==
  sockets' = [k \in Clients |->
    IF sockets[k].pay # calls[c].pay THEN sockets[k]
    ELSE IF sockets[k].at = "joined"
         THEN [sockets[k] EXCEPT !.told = @ \cup Pushed(c)]
    ELSE [sockets[k] EXCEPT !.missed = @ \/ Pushed(c) # {}]]

(***************************************************************************)
(* What a client does.                                                     *)
(***************************************************************************)

Goes(k, socket) == sockets' = [sockets EXCEPT ![k] = socket]

\* handleConnection accepts the token; a socket it rejects stays off.
Connect(k) ==
  /\ sockets[k].at = "off"
  /\ Goes(k, [Off EXCEPT !.at = "connected"])

\* Mutant: the room is joined whether or not the payment exists.
Permitted(k, p) == <<k, p>> \in MayView

\* findOne and assertCanView; 'subscribe:error' changes nothing.
Viewable(k, p) == Exists(p) /\ <<k, p>> \in MayView

\* handleSubscribe up to its await.
Subscribe(k) ==
  /\ sockets[k].at = "connected"
  /\ \E p \in Payments :
       /\ Viewable(k, p)
       /\ Goes(k, [sockets[k] EXCEPT !.at = "reading", !.pay = p,
                                     !.read = payments[p].status])

\* join(), and 'subscribed' with the status that was read.
Join(k) ==
  /\ sockets[k].at = "reading"
  /\ Goes(k, [sockets[k] EXCEPT !.at = "joined", !.told = {sockets[k].read}])

\* The connection is lost or closed.
Disconnect(k) ==
  /\ sockets[k].at # "off"
  /\ Goes(k, Off)

ClientStep(k) == Connect(k) \/ Subscribe(k) \/ Join(k) \/ Disconnect(k)

(***************************************************************************)
(* Together.  A restart drops all sockets.                                 *)
(***************************************************************************)

GatewayNext ==
  \/ \E c \in HttpCalls : HttpStep(c) /\ Emit(c)
  \/ \E c \in CronCalls : CronStep(c) /\ Emit(c)
  \/ (ProviderSettle \/ Tick) /\ UNCHANGED sockets
  \/ Restart /\ sockets' = [k \in Clients |-> Off]
  \/ \E k \in Clients : ClientStep(k) /\ UNCHANGED vars

GatewaySpec == GatewayInit /\ [][GatewayNext]_gatewayVars
=============================================================================
