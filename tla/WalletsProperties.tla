------------------------- MODULE WalletsProperties -------------------------
(***************************************************************************)
(* What the wallets module must satisfy.                                   *)
(***************************************************************************)
EXTENDS Wallets

Custodial(u) == accounts[u].custody = "CUSTODIAL"
Linked(u) == accounts[u].custody = "EXTERNAL"

\* The server can sign for every custodial wallet: the key it keeps is the one
\* whose address the account shows, whoever provisioned or upgraded meanwhile.
KeyMatchesAccount == \A u \in Users : Custodial(u) => accounts[u].address = keys[u]

\* A double click never provisions two keypairs: once a user has key material
\* it is never replaced (uq_wallet_accounts_user_id decides the race).
KeyIsFinal == [][\A u \in Users : keys[u] # None => keys'[u] = keys[u]]_vars

\* A linked wallet stays the one that was linked, although provisioning and
\* further links may have looked at the account before it was.
ExternalIsFinal == [][\A u \in Users : Linked(u) => accounts'[u] = accounts[u]]_vars

\* No two users end up with the same external address
\* (uq_wallet_accounts_external_address).
OneClaimPerAddress ==
  \A u, v \in Users :
    Linked(u) /\ Linked(v) /\ accounts[u].address = accounts[v].address => u = v

\* A captured signature cannot be replayed: a challenge is good for one link,
\* also when the same body arrives twice at once (claimChallenge).
ChallengeLinksOnce == \A n \in Nonces : links[n] <= 1

\* An administrator's credit is only booked while the wallet is custodial; an
\* upgrade between the check and the booking has to wait (fundCustodialWallet).
CreditsOnlyCustodial ==
  [][\A u \in Users : credits'[u] # credits[u] => Custodial(u)]_vars

\* No signature leaves KeyCustodyService.sign without its entry in
\* wallet_key_access_log.
SignaturesAreLogged == \A u \in Users : signed[u] <= accessLog[u].success

Custody == INSTANCE WalletCustody WITH
  Keys <- Keypair,
  wallet <- accounts,
  key <- keys,
  issued <- [n \in Nonces |-> challenges[n].user],
  consumed <- {n \in Nonces : challenges[n].consumed},
  credited <- credits,
  signatures <- signed

\* Whatever overlaps, waits or is rolled back, the module implements the
\* promised custody: in particular a link and the use of its challenge come
\* together or not at all, also when the link loses to provisioning or to
\* another user (verifyAndLinkExternalWallet).
ImplementsCustody == Custody!CustodySpec

\* Call c waits for what d has locked: the INSERTs for the entry of the user in
\* the unique index, and SELECT FOR UPDATE for a row that it can see.
WaitsFor(c, d) ==
  /\ c # d
  /\ calls[c].user \in Users
  /\ userLock[calls[c].user] = d
  /\ \/ calls[c].at \in {"insert", "write"}
     \/ calls[c].at = "upsert" /\ HasAccount(calls[c].user)

\* There is no deadlock between provisioning, linking and funding, although a
\* link locks a challenge and then an account, which it may only be about to
\* insert: whoever is waited for is within its transaction and waits for nobody
\* in turn, and a challenge is only held by a link on its way to its commit.
WaitingIsShort ==
  /\ \A c, d \in Calls :
       WaitsFor(c, d) =>
         /\ calls[d].at \in {"keypair", "commit", "write", "fund"}
         /\ \A e \in Calls : ~WaitsFor(d, e)
  /\ \A n \in Nonces, c \in Calls :
       nonceLock[n] = c => calls[c].at \in {"upsert", "write"} /\ calls[c].nonce = n

\* Calls that wait for each other's rows and index entries all get an answer.
CallsAreAnswered ==
  \A c \in Calls : calls[c].at \notin {"idle", "done"} ~> calls[c].at = "done"
=============================================================================
