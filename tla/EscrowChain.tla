---------------------------- MODULE EscrowChain ----------------------------
(***************************************************************************)
(* The escrow contract and the Soroban RPC endpoints, as                   *)
(* EscrowContractClient and SorobanRpcClient use them.  The escrow id is   *)
(* sha256 of the payment id, so an escrow is named by its payment.         *)
(*                                                                         *)
(* A transaction carries the next sequence number of the account that      *)
(* signs it: the payer's custodial account for a create, the treasury for  *)
(* a release or a refund.  An endpoint keeps one pending transaction per   *)
(* account, and a ledger includes it if its number is still the next.      *)
(***************************************************************************)
EXTENDS Integers, FiniteSets

CONSTANTS
  Payments,
  Endpoints   \* how many RPC endpoints are configured

ASSUME ChainAssumption == Endpoints \in Nat \ {0}

VARIABLES
  escrow,     \* the contract's status of each escrow
  sequence,   \* the last sequence number each account has used
  pending,    \* transactions that some endpoint has accepted
  landed      \* those that a ledger included, successful or reverted

chainVars == <<escrow, sequence, pending, landed>>

EscrowStatus == {"NOT_FOUND", "LOCKED", "RELEASED", "REFUNDED"}
Accounts == {"payer", "treasury"}
Kinds == {"create", "release", "refund"}
Transaction == [kind: Kinds, pay: Payments, seq: Nat]

Signer(tx) == IF tx.kind = "create" THEN "payer" ELSE "treasury"

\* What the contract allows: an escrow is created once, and a locked one is
\* released or refunded.
Allows(kind, p) ==
  escrow[p] = IF kind = "create" THEN "NOT_FOUND" ELSE "LOCKED"

After(kind) ==
  CASE kind = "create" -> "LOCKED"
    [] kind = "release" -> "RELEASED"
    [] kind = "refund" -> "REFUNDED"

\* The transaction that buildAndAssemble makes from a fresh getAccount.
Build(kind, p) ==
  [kind |-> kind, pay |-> p,
   seq |-> sequence[IF kind = "create" THEN "payer" ELSE "treasury"] + 1]

IsNext(tx) == tx.seq = sequence[Signer(tx)] + 1

PoolFree(tx) == \A other \in pending : Signer(other) = Signer(tx) => other = tx

Accept(tx) == IsNext(tx) /\ PoolFree(tx) /\ pending' = pending \cup {tx}

ChainTypeOK ==
  /\ escrow \in [Payments -> EscrowStatus]
  /\ sequence \in [Accounts -> Nat]
  /\ pending \subseteq Transaction
  /\ landed \subseteq Transaction

ChainInit ==
  /\ escrow = [p \in Payments |-> "NOT_FOUND"]
  /\ sequence = [a \in Accounts |-> 0]
  /\ pending = {}
  /\ landed = {}

\* A ledger includes the transaction.  It reverts if the contract refuses it,
\* and may revert for reasons of its own; the code does not tell the two from
\* a success by the transaction's result.
Include(tx) ==
  /\ tx \in pending
  /\ IsNext(tx)
  /\ pending' = pending \ {tx}
  /\ sequence' = [sequence EXCEPT ![Signer(tx)] = @ + 1]
  /\ landed' = landed \cup {tx}
  /\ \/ /\ Allows(tx.kind, tx.pay)
        /\ escrow' = [escrow EXCEPT ![tx.pay] = After(tx.kind)]
     \/ UNCHANGED escrow

\* It is never included: its 30 seconds are over.
Drop(tx) ==
  /\ tx \in pending
  /\ pending' = pending \ {tx}
  /\ UNCHANGED <<escrow, sequence, landed>>
=============================================================================
