------------------------------ MODULE Wallets ------------------------------
(***************************************************************************)
(* WalletsService and KeyCustodyService: custodial wallets whose key the   *)
(* server keeps, and external wallets that a user links by signing a       *)
(* challenge.  Calls overlap; a transaction holds the rows and the index   *)
(* entries it has touched until it commits or is rolled back, and nobody   *)
(* sees what it has not committed.                                         *)
(*                                                                         *)
(* The PENDING account of provisionCustodialWallet is never committed and  *)
(* nothing writes DISABLED, so an account that can be seen is ACTIVE.      *)
(***************************************************************************)
EXTENDS Integers, FiniteSets

CONSTANTS
  Users,
  Nonces,      \* bound: the challenges that are ever issued
  Addresses,   \* public keys of the users' own wallets
  Calls,       \* HTTP requests and signing jobs in flight at once
  None,        \* no user, address, key or call
  Operations,  \* <<operation, user>>: what this instance asks for
  MaxCredits,  \* bound: how often a wallet is funded
  MaxSigned    \* bound: how often a wallet signs

ASSUME WalletsAssumption ==
  /\ None \notin Users \cup Nonces \cup Addresses \cup Calls
  /\ None \notin Users \X Calls
  /\ MaxCredits \in Nat /\ MaxSigned \in Nat

VARIABLES
  accounts,    \* wallet_accounts, by user
  keys,        \* wallet_key_material, by the account's user
  challenges,  \* wallet_link_challenges, by nonce
  credits,     \* wallet_ledger_entries: how many credits
  accessLog,   \* wallet_key_access_log: how many of each outcome
  signed,      \* signatures that sign() has returned
  links,       \* how many links each challenge has been good for
  userLock,    \* who holds the account's row, or its entry in the user index
  nonceLock,   \* who holds the challenge's row
  calls        \* the calls in flight

vars == <<accounts, keys, challenges, credits, accessLog, signed, links,
          userLock, nonceLock, calls>>

\* A keypair is told apart by the user and the call that generated it.
Keypair == Users \X Calls

Account == [custody: {"CUSTODIAL"}, address: Keypair]
             \cup [custody: {"EXTERNAL"}, address: Addresses]
NoAccount == [custody |-> "none", address |-> None]
HasAccount(u) == accounts[u] # NoAccount

Challenge == [user: Users \cup {None}, consumed: BOOLEAN, expired: BOOLEAN]
NoChallenge == [user |-> None, consumed |-> FALSE, expired |-> FALSE]

Labels == {"idle", "done", "insert", "keypair", "commit", "reread", "upsert",
           "write", "fund", "decrypt", "log_success", "log_failure"}
Replies == {"none", "ok", "refused", "conflict", "error", "unique_violation"}

Call == [at: Labels, user: Users \cup {None}, nonce: Nonces \cup {None},
         address: Addresses \cup {None}, key: Keypair \cup {None},
         reply: Replies]
IdleCall == [at |-> "idle", user |-> None, nonce |-> None, address |-> None,
             key |-> None, reply |-> "none"]

WalletsTypeOK ==
  /\ accounts \in [Users -> Account \cup {NoAccount}]
  /\ keys \in [Users -> Keypair \cup {None}]
  /\ challenges \in [Nonces -> Challenge]
  /\ credits \in [Users -> 0..MaxCredits]
  /\ accessLog \in [Users -> [success: Nat, failure: Nat]]
  /\ signed \in [Users -> Nat]
  /\ links \in [Nonces -> Nat]
  /\ userLock \in [Users -> Calls \cup {None}]
  /\ nonceLock \in [Nonces -> Calls \cup {None}]
  /\ calls \in [Calls -> Call]

Init ==
  /\ accounts = [u \in Users |-> NoAccount]
  /\ keys = [u \in Users |-> None]
  /\ challenges = [n \in Nonces |-> NoChallenge]
  /\ credits = [u \in Users |-> 0]
  /\ accessLog = [u \in Users |-> [success |-> 0, failure |-> 0]]
  /\ signed = [u \in Users |-> 0]
  /\ links = [n \in Nonces |-> 0]
  /\ userLock = [u \in Users |-> None]
  /\ nonceLock = [n \in Nonces |-> None]
  /\ calls = [c \in Calls |-> IdleCall]

Suspended(c, label) == calls[c].at = label

Start(c, op, u) == Suspended(c, "idle") /\ <<op, u>> \in Operations

GoTo(c, call) == calls' = [calls EXCEPT ![c] = call]

At(call, label) == [call EXCEPT !.at = label]

Reply(reply) == [IdleCall EXCEPT !.at = "done", !.reply = reply]

Free(lock, x, c) == lock[x] \in {None, c}

\* Mutant: the lock on the challenge is all that is released.
ReleaseChallenge(c) ==
  /\ UNCHANGED userLock
  /\ nonceLock' = [n \in Nonces |-> IF nonceLock[n] = c THEN None ELSE nonceLock[n]]

\* COMMIT and ROLLBACK release what the call holds.
ReleaseLocks(c) ==
  /\ userLock' = [u \in Users |-> IF userLock[u] = c THEN None ELSE userLock[u]]
  /\ nonceLock' = [n \in Nonces |-> IF nonceLock[n] = c THEN None ELSE nonceLock[n]]

tables == <<accounts, keys, challenges, credits, accessLog, signed, links>>

\* A transaction fails: the database, the KMS, or the server.
Rollback(c) ==
  /\ calls[c].at \in {"keypair", "commit", "upsert", "write", "fund"}
  /\ GoTo(c, Reply("error"))
  /\ ReleaseLocks(c)
  /\ UNCHANGED tables

Respond(c) ==
  /\ Suspended(c, "done")
  /\ GoTo(c, IdleCall)
  /\ UNCHANGED <<tables, userLock, nonceLock>>

(***************************************************************************)
(* provisionCustodialWallet.                                               *)
(***************************************************************************)

ProvisionStart(c) ==
  /\ \E u \in Users :
       /\ Start(c, "provision", u)
       /\ GoTo(c, IF HasAccount(u) THEN Reply("ok")
                  ELSE [IdleCall EXCEPT !.at = "insert", !.user = u])
  /\ UNCHANGED <<tables, userLock, nonceLock>>

\* Mutant: there is no unique index on the user.
NoUserIndex(u) == FALSE

\* uq_wallet_accounts_user_id refuses a second account.
UserTaken(u) == HasAccount(u)

\* insertCustodialWallet's INSERT.  It waits for a transaction that has
\* inserted or locked the same user's account.
InsertAccount(c) ==
  LET u == calls[c].user IN
  /\ Suspended(c, "insert")
  /\ Free(userLock, u, c)
  /\ \/ /\ UserTaken(u)
        /\ GoTo(c, At(calls[c], "reread"))
        /\ UNCHANGED userLock
     \/ /\ ~UserTaken(u)
        /\ GoTo(c, At(calls[c], "keypair"))
        /\ userLock' = [userLock EXCEPT ![u] = c]
  /\ UNCHANGED <<tables, nonceLock>>

\* KeyCustodyService.provisionKeypair, in the same transaction.
ProvisionKeypair(c) ==
  /\ Suspended(c, "keypair")
  /\ GoTo(c, [calls[c] EXCEPT !.at = "commit", !.key = <<calls[c].user, c>>])
  /\ UNCHANGED <<tables, userLock, nonceLock>>

\* The account becomes ACTIVE under the key's address; COMMIT.
ProvisionCommit(c) ==
  LET call == calls[c] IN
  /\ Suspended(c, "commit")
  /\ accounts' = [accounts EXCEPT
       ![call.user] = [custody |-> "CUSTODIAL", address |-> call.key]]
  /\ keys' = [keys EXCEPT ![call.user] = call.key]
  /\ GoTo(c, Reply("ok"))
  /\ ReleaseLocks(c)
  /\ UNCHANGED <<challenges, credits, accessLog, signed, links>>

\* The loser of the race returns the winner's account.
RereadWinner(c) ==
  /\ Suspended(c, "reread")
  /\ GoTo(c, Reply(IF HasAccount(calls[c].user) THEN "ok" ELSE "error"))
  /\ UNCHANGED <<tables, userLock, nonceLock>>

(***************************************************************************)
(* createLinkChallenge and verifyAndLinkExternalWallet.                    *)
(***************************************************************************)

CreateLinkChallenge(u) ==
  /\ <<"link", u>> \in Operations
  /\ \E n \in Nonces :
       /\ challenges[n] = NoChallenge
       /\ challenges' = [challenges EXCEPT ![n].user = u]
  /\ UNCHANGED <<accounts, keys, credits, accessLog, signed, links, userLock,
                 nonceLock, calls>>

\* WALLET_LINK_CHALLENGE_TTL_SECONDS pass.
ChallengeExpires(n) ==
  /\ challenges[n].user # None
  /\ ~challenges[n].expired
  /\ challenges' = [challenges EXCEPT ![n].expired = TRUE]
  /\ UNCHANGED <<accounts, keys, credits, accessLog, signed, links, userLock,
                 nonceLock, calls>>

\* Mutant: SELECT without FOR UPDATE.
ReadChallenge(n, c) == UNCHANGED nonceLock

\* claimChallenge's setLock('pessimistic_write').
LockChallenge(n, c) ==
  /\ Free(nonceLock, n, c)
  /\ nonceLock' = [nonceLock EXCEPT ![n] = c]

Usable(n, u) ==
  challenges[n].user = u /\ ~challenges[n].consumed /\ ~challenges[n].expired

\* claimChallenge and verifySignature.  Whoever has an address's key may sign
\* any nonce, and the same body may be sent again; a body with a signature
\* that does not verify, or a challenge that is of no use, changes nothing.
ClaimChallenge(c) ==
  /\ \E u \in Users, n \in Nonces, a \in Addresses :
       /\ Start(c, "link", u)
       /\ Usable(n, u)
       /\ LockChallenge(n, c)
       /\ GoTo(c, [IdleCall EXCEPT !.at = "upsert", !.user = u, !.nonce = n,
                                   !.address = a])
  /\ UNCHANGED <<tables, userLock>>

\* Mutant: an external wallet can be replaced by another one.
NeverLinked(account, a) == FALSE

\* upsertExternalWallet's conflict.
LinkedToAnother(account, a) ==
  account.custody = "EXTERNAL" /\ account.address # a

\* upsertExternalWallet's SELECT FOR UPDATE: it waits for the row's lock, and
\* does not see an account that another transaction is inserting.
FindAccount(c) ==
  LET call == calls[c]
      u == call.user
  IN
  /\ Suspended(c, "upsert")
  /\ \/ /\ ~HasAccount(u)
        /\ GoTo(c, At(call, "write"))
        /\ UNCHANGED <<userLock, nonceLock>>
     \/ /\ HasAccount(u) /\ Free(userLock, u, c)
        /\ \/ /\ LinkedToAnother(accounts[u], call.address)
              /\ GoTo(c, Reply("conflict"))
              /\ ReleaseLocks(c)
           \/ /\ ~LinkedToAnother(accounts[u], call.address)
              /\ GoTo(c, At(call, "write"))
              /\ userLock' = [userLock EXCEPT ![u] = c]
              /\ UNCHANGED nonceLock
  /\ UNCHANGED tables

\* Mutant: any number of accounts may claim an address.
NoAddressIndex(u, a) == FALSE

\* uq_wallet_accounts_external_address refuses the address.
AddressTaken(u, a) ==
  \E v \in Users \ {u} :
    accounts[v].custody = "EXTERNAL" /\ accounts[v].address = a

\* Mutant: the upgrade forgets the custody type.
NewAddress(u, a) ==
  [custody |-> IF HasAccount(u) THEN accounts[u].custody ELSE "EXTERNAL",
   address |-> a]

\* The new row, or the upgraded one: the keys and the ledger stay.
External(u, a) == [custody |-> "EXTERNAL", address |-> a]

\* Mutant: the challenge was consumed in a transaction of its own.
ConsumedAnyway(n) == challenges' = [challenges EXCEPT ![n].consumed = TRUE]

\* A link that is refused is rolled back, and its challenge with it.
GivenBack(n) == UNCHANGED challenges

\* The challenge is consumed, the account inserted or updated, COMMIT.  An
\* INSERT that another transaction was faster with violates the user index.
LinkCommit(c) ==
  LET call == calls[c]
      u == call.user
      inserts == userLock[u] # c
  IN
  /\ Suspended(c, "write")
  /\ Free(userLock, u, c)
  /\ \/ /\ inserts /\ HasAccount(u)
        /\ GoTo(c, Reply("unique_violation"))
        /\ GivenBack(call.nonce)
        /\ UNCHANGED <<accounts, links>>
     \/ /\ ~(inserts /\ HasAccount(u))
        /\ AddressTaken(u, call.address)
        /\ GoTo(c, Reply("conflict"))
        /\ GivenBack(call.nonce)
        /\ UNCHANGED <<accounts, links>>
     \/ /\ ~(inserts /\ HasAccount(u))
        /\ ~AddressTaken(u, call.address)
        /\ accounts' = [accounts EXCEPT ![u] = External(u, call.address)]
        /\ challenges' = [challenges EXCEPT ![call.nonce].consumed = TRUE]
        /\ links' = [links EXCEPT ![call.nonce] = @ + 1]
        /\ GoTo(c, Reply("ok"))
  /\ ReleaseLocks(c)
  /\ UNCHANGED <<keys, credits, accessLog, signed>>

(***************************************************************************)
(* fundCustodialWallet.                                                    *)
(***************************************************************************)

\* Mutant: SELECT without FOR UPDATE.
ReadAccount(u, c) == UNCHANGED userLock

\* setLock('pessimistic_write').
LockAccount(u, c) ==
  /\ Free(userLock, u, c)
  /\ userLock' = [userLock EXCEPT ![u] = c]

FundStart(c) ==
  /\ \E u \in Users :
       /\ Start(c, "fund", u)
       /\ accounts[u].custody = "CUSTODIAL"
       /\ credits[u] < MaxCredits
       /\ LockAccount(u, c)
       /\ GoTo(c, [IdleCall EXCEPT !.at = "fund", !.user = u])
  /\ UNCHANGED <<tables, nonceLock>>

FundCommit(c) ==
  LET u == calls[c].user IN
  /\ Suspended(c, "fund")
  /\ credits' = [credits EXCEPT ![u] = @ + 1]
  /\ GoTo(c, Reply("ok"))
  /\ ReleaseLocks(c)
  /\ UNCHANGED <<accounts, keys, challenges, accessLog, signed, links>>

(***************************************************************************)
(* signPayload and KeyCustodyService.sign.                                 *)
(***************************************************************************)

Accesses(u) == accessLog[u].success + accessLog[u].failure

SignStart(c) ==
  /\ \E u \in Users :
       /\ Start(c, "sign", u)
       /\ Accesses(u) < MaxSigned
       /\ GoTo(c, IF accounts[u].custody = "CUSTODIAL"
                  THEN [IdleCall EXCEPT !.at = "decrypt", !.user = u]
                  ELSE Reply("refused"))
  /\ UNCHANGED <<tables, userLock, nonceLock>>

\* decryptAndSign: the account's key is found and unwrapped, or not.
Decrypt(c) ==
  LET call == calls[c] IN
  /\ Suspended(c, "decrypt")
  /\ \/ /\ keys[call.user] # None
        /\ GoTo(c, [call EXCEPT !.at = "log_success", !.key = keys[call.user]])
     \/ GoTo(c, At(call, "log_failure"))
  /\ UNCHANGED <<tables, userLock, nonceLock>>

\* Mutant: the signature is handed out whether or not it could be logged.
AnyCase(logged) == TRUE

\* A logAccess that fails throws, and sign() throws in turn.
HandsOut(logged) == logged

\* logAccess(true), and the signature is returned.
LogSuccess(c) ==
  LET call == calls[c] IN
  /\ Suspended(c, "log_success")
  /\ \E logged \in BOOLEAN :
       /\ accessLog' = IF logged THEN [accessLog EXCEPT ![call.user].success = @ + 1]
                       ELSE accessLog
       /\ signed' = IF HandsOut(logged) THEN [signed EXCEPT ![call.user] = @ + 1]
                    ELSE signed
       /\ GoTo(c, IF HandsOut(logged) THEN Reply("ok")
                  ELSE [call EXCEPT !.at = "log_failure", !.key = None])
  /\ UNCHANGED <<accounts, keys, challenges, credits, links, userLock, nonceLock>>

\* logAccess(false), which may fail as well; the caller gets an error.
LogFailure(c) ==
  /\ Suspended(c, "log_failure")
  /\ accessLog' \in
       {accessLog, [accessLog EXCEPT ![calls[c].user].failure = @ + 1]}
  /\ GoTo(c, Reply("error"))
  /\ UNCHANGED <<accounts, keys, challenges, credits, signed, links, userLock,
                 nonceLock>>

\* A request arrives, or the Soroban rail asks for a signature.
Begin(c) ==
  \/ ProvisionStart(c) \/ ClaimChallenge(c) \/ FundStart(c) \/ SignStart(c)

\* A call goes on after an await.
Continue(c) ==
  \/ InsertAccount(c) \/ ProvisionKeypair(c) \/ ProvisionCommit(c)
  \/ RereadWinner(c) \/ FindAccount(c) \/ LinkCommit(c) \/ FundCommit(c)
  \/ Decrypt(c) \/ LogSuccess(c) \/ LogFailure(c)

Next ==
  \/ \E c \in Calls : Begin(c) \/ Continue(c) \/ Rollback(c) \/ Respond(c)
  \/ \E u \in Users : CreateLinkChallenge(u)
  \/ \E n \in Nonces : ChallengeExpires(n)

\* The database answers, and those who wait for a lock have it in turn.
Fairness == \A c \in Calls : SF_vars(Continue(c))

Spec == Init /\ [][Next]_vars /\ Fairness
=============================================================================
