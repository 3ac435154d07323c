--------------------------- MODULE WalletCustody ---------------------------
(***************************************************************************)
(* What the wallets module promises about each user's wallet, with neither *)
(* requests nor transactions nor locks: a user gets at most one custodial  *)
(* key, which nobody else has and which is kept for good; a wallet of the  *)
(* user's own can be linked once, for one unused challenge that was issued *)
(* to that user, unless another user has linked the address; only          *)
(* custodial wallets are funded; and only a key that is kept signs.        *)
(***************************************************************************)
EXTENDS Integers

CONSTANTS Users, Nonces, Addresses, Keys, None

VARIABLES
  wallet,    \* custody and address of each user's wallet
  key,       \* the key the server keeps for each user
  issued,    \* whom each challenge was issued to
  consumed,  \* the challenges that have been used
  credited,  \* how often each user's wallet was funded
  signatures \* how often each user's key has signed

custodyVars == <<wallet, key, issued, consumed, credited, signatures>>

CustodyInit ==
  /\ wallet = [u \in Users |-> [custody |-> "none", address |-> None]]
  /\ key = [u \in Users |-> None]
  /\ issued = [n \in Nonces |-> None]
  /\ consumed = {}
  /\ credited = [u \in Users |-> 0]
  /\ signatures = [u \in Users |-> 0]

\* provisionCustodialWallet.
Provision(u, k) ==
  /\ wallet[u].custody = "none"
  /\ \A v \in Users : key[v] # k
  /\ key' = [key EXCEPT ![u] = k]
  /\ wallet' = [wallet EXCEPT ![u] = [custody |-> "CUSTODIAL", address |-> k]]
  /\ UNCHANGED <<issued, consumed, credited, signatures>>

\* createLinkChallenge.
Issue(u, n) ==
  /\ issued[n] = None
  /\ issued' = [issued EXCEPT ![n] = u]
  /\ UNCHANGED <<wallet, key, consumed, credited, signatures>>

\* verifyAndLinkExternalWallet: a new wallet, an upgrade, or the same again.
Link(u, n, a) ==
  /\ issued[n] = u
  /\ n \notin consumed
  /\ wallet[u].custody = "EXTERNAL" => wallet[u].address = a
  /\ \A v \in Users \ {u} :
       ~(wallet[v].custody = "EXTERNAL" /\ wallet[v].address = a)
  /\ wallet' = [wallet EXCEPT ![u] = [custody |-> "EXTERNAL", address |-> a]]
  /\ consumed' = consumed \cup {n}
  /\ UNCHANGED <<key, issued, credited, signatures>>

\* fundCustodialWallet.
Fund(u) ==
  /\ wallet[u].custody = "CUSTODIAL"
  /\ credited' = [credited EXCEPT ![u] = @ + 1]
  /\ UNCHANGED <<wallet, key, issued, consumed, signatures>>

\* signPayload.  The wallet may have been upgraded since the call looked.
Sign(u) ==
  /\ key[u] # None
  /\ signatures' = [signatures EXCEPT ![u] = @ + 1]
  /\ UNCHANGED <<wallet, key, issued, consumed, credited>>

CustodyNext ==
  \/ \E u \in Users, k \in Keys : Provision(u, k)
  \/ \E u \in Users, n \in Nonces : Issue(u, n)
  \/ \E u \in Users, n \in Nonces, a \in Addresses : Link(u, n, a)
  \/ \E u \in Users : Fund(u) \/ Sign(u)

CustodySpec == CustodyInit /\ [][CustodyNext]_custodyVars
=============================================================================
