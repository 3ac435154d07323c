---------------------------- MODULE WalletsProofs ----------------------------
(***************************************************************************)
(* The wallets module implements WalletCustody, proved for any number of   *)
(* users, challenges, addresses and overlapping calls.                     *)
(*                                                                         *)
(* The argument is what a call may rely on at each await: the locks it     *)
(* holds, and what it has read under them, which nobody else may change    *)
(* (CallRelies).  A call that holds no lock on an account relies on        *)
(* nothing about it, and the unique indexes decide at its commit.          *)
(***************************************************************************)
EXTENDS WalletsProperties, TLAPS

\* Call c has locked no account, and no entry of the user index.
HoldsNoAccount(c) == \A u \in Users : userLock[u] # c

\* What call c may rely on at the await where it is suspended.
CallRelies(c) ==
  LET call == calls[c]
      u == call.user
      n == call.nonce
  IN
  /\ call.at \notin {"idle", "done"} => u \in Users
  /\ call.at \in {"keypair", "commit"} => userLock[u] = c /\ ~HasAccount(u)
  /\ call.at = "commit" => call.key = <<u, c>>
  /\ call.at \in {"upsert", "write"} =>
       /\ n \in Nonces /\ call.address \in Addresses
       /\ nonceLock[n] = c
       /\ challenges[n].user = u /\ ~challenges[n].consumed
  /\ call.at = "write" /\ userLock[u] = c =>
       HasAccount(u) /\ ~LinkedToAnother(accounts[u], call.address)
  /\ call.at = "fund" => userLock[u] = c /\ Custodial(u) /\ credits[u] < MaxCredits
  /\ call.at = "log_success" => keys[u] # None
  /\ call.at \notin {"keypair", "commit", "write", "fund"} => HoldsNoAccount(c)

\* A key belongs to the user it was provisioned for, who has a wallet since.
KeysAreKept ==
  \A u \in Users :
    keys[u] # None => HasAccount(u) /\ \E c \in Calls : keys[u] = <<u, c>>

\* Each challenge has linked once if it is consumed, and never before.
LinksAreCounted ==
  \A n \in Nonces : links[n] = IF challenges[n].consumed THEN 1 ELSE 0

WalletsInv ==
  /\ WalletsTypeOK
  /\ \A c \in Calls : CallRelies(c)
  /\ KeysAreKept
  /\ KeyMatchesAccount
  /\ OneClaimPerAddress
  /\ LinksAreCounted
  /\ SignaturesAreLogged

(***************************************************************************)
(* Helpers.                                                                *)
(***************************************************************************)

\* An account is custodial or linked, or it does not exist.
LEMMA AccountCases ==
  ASSUME WalletsTypeOK, NEW u \in Users
  PROVE  /\ HasAccount(u) <=> Custodial(u) \/ Linked(u)
         /\ ~(Custodial(u) /\ Linked(u))
         /\ Custodial(u) => accounts[u] =
              [custody |-> "CUSTODIAL", address |-> accounts[u].address]
         /\ Linked(u) => accounts[u] =
              [custody |-> "EXTERNAL", address |-> accounts[u].address]
<1>1. accounts[u] \in Account \cup {NoAccount}
  BY DEF WalletsTypeOK
<1> QED
  BY <1>1 DEF HasAccount, Custodial, Linked, Account, NoAccount

\* An answer is a call without user, nonce, address and key.
LEMMA ReplyType ==
  ASSUME NEW reply \in Replies
  PROVE  Reply(reply) \in Call /\ Reply(reply).at = "done"
BY DEF Reply, IdleCall, Call, Labels, Replies

\* GoTo replaces one call.
LEMMA GoToMoves ==
  ASSUME WalletsTypeOK, NEW c \in Calls, NEW call \in Call, GoTo(c, call)
  PROVE  /\ calls' \in [Calls -> Call]
         /\ calls'[c] = call
         /\ \A d \in Calls \ {c} : calls'[d] = calls[d]
BY DEF WalletsTypeOK, GoTo

\* The locks of the calls other than c are what they were.
OthersHold(c) ==
  /\ userLock' \in [Users -> Calls \cup {None}]
  /\ nonceLock' \in [Nonces -> Calls \cup {None}]
  /\ \A d \in Calls \ {c} :
       /\ \A u \in Users : userLock'[u] = d <=> userLock[u] = d
       /\ \A n \in Nonces : nonceLock'[n] = d <=> nonceLock[n] = d

\* A call that releases its locks holds no account, nor does one that is
\* suspended where it holds none and leaves the locks alone.
LEMMA HoldsNoneNow ==
  ASSUME WalletsInv, NEW c \in Calls
  PROVE  /\ ReleaseLocks(c) => HoldsNoAccount(c)'
         /\ /\ calls[c].at \notin {"keypair", "commit", "write", "fund"}
            /\ UNCHANGED userLock
            => HoldsNoAccount(c)'
<1>1. WalletsTypeOK /\ CallRelies(c) /\ None \notin Calls
  BY WalletsAssumption DEF WalletsInv
<1> QED
  BY <1>1 DEF WalletsTypeOK, ReleaseLocks, CallRelies, HoldsNoAccount

\* Releasing, taking a lock that is free, and touching none, are such.
LEMMA LocksOfOthers ==
  ASSUME WalletsTypeOK, NEW c \in Calls
  PROVE  /\ ReleaseLocks(c) => OthersHold(c)
         /\ UNCHANGED <<userLock, nonceLock>> => OthersHold(c)
         /\ \A u \in Users :
              /\ Free(userLock, u, c)
              /\ userLock' = [userLock EXCEPT ![u] = c]
              /\ UNCHANGED nonceLock
              => OthersHold(c)
         /\ \A n \in Nonces :
              LockChallenge(n, c) /\ UNCHANGED userLock => OthersHold(c)
<1>1. /\ userLock \in [Users -> Calls \cup {None}]
      /\ nonceLock \in [Nonces -> Calls \cup {None}]
      /\ None \notin Calls
  BY WalletsAssumption DEF WalletsTypeOK
<1>2. ReleaseLocks(c) => OthersHold(c)
  BY <1>1 DEF ReleaseLocks, OthersHold
<1>3. UNCHANGED <<userLock, nonceLock>> => OthersHold(c)
  BY <1>1 DEF OthersHold
<1>4. ASSUME NEW u \in Users, Free(userLock, u, c),
             userLock' = [userLock EXCEPT ![u] = c], UNCHANGED nonceLock
      PROVE  OthersHold(c)
  BY <1>1, <1>4 DEF Free, OthersHold
<1>5. ASSUME NEW n \in Nonces, LockChallenge(n, c), UNCHANGED userLock
      PROVE  OthersHold(c)
  BY <1>1, <1>5 DEF LockChallenge, Free, OthersHold
<1> QED
  BY <1>2, <1>3, <1>4, <1>5

\* A call that does not move keeps what it relies on, if its locks, and the
\* rows under them, are left alone and keys stay.
LEMMA OthersRely ==
  ASSUME NEW d \in Calls, CallRelies(d), calls'[d] = calls[d],
         \A u \in Users : userLock'[u] = d <=> userLock[u] = d,
         calls[d].user \in Users =>
           /\ userLock[calls[d].user] = d =>
                /\ accounts'[calls[d].user] = accounts[calls[d].user]
                /\ credits'[calls[d].user] = credits[calls[d].user]
           /\ keys[calls[d].user] # None => keys'[calls[d].user] # None,
         calls[d].nonce \in Nonces /\ nonceLock[calls[d].nonce] = d =>
           /\ nonceLock'[calls[d].nonce] = d
           /\ challenges'[calls[d].nonce].user = challenges[calls[d].nonce].user
           /\ challenges'[calls[d].nonce].consumed = challenges[calls[d].nonce].consumed
  PROVE  CallRelies(d)'
BY DEF CallRelies, HoldsNoAccount, HasAccount, Custodial

\* A step that only moves call c and its locks keeps the invariant, if the
\* call may rely on what it goes on with.
LEMMA QuietStep ==
  ASSUME WalletsInv, NEW c \in Calls, NEW call \in Call, GoTo(c, call),
         UNCHANGED tables, OthersHold(c), CallRelies(c)'
  PROVE  WalletsInv'
<1>1. /\ calls' \in [Calls -> Call]
      /\ \A d \in Calls \ {c} : calls'[d] = calls[d]
  BY GoToMoves DEF WalletsInv
<1>2. WalletsTypeOK'
  BY <1>1 DEF WalletsInv, WalletsTypeOK, OthersHold, tables
<1>3. ASSUME NEW d \in Calls \ {c}
      PROVE  CallRelies(d)'
  <2>1. CallRelies(d) /\ calls'[d] = calls[d]
    BY <1>1 DEF WalletsInv
  <2> QED
    BY <2>1, OthersRely DEF OthersHold, tables
<1>4. \A d \in Calls : CallRelies(d)'
  BY <1>3
<1> QED
  BY <1>2, <1>4 DEF WalletsInv, tables, KeysAreKept, KeyMatchesAccount, Custodial,
     OneClaimPerAddress, Linked, LinksAreCounted, SignaturesAreLogged, HasAccount

\* An idle or answered call relies on nothing, but holds no account either.
LEMMA RestingRelies ==
  ASSUME NEW c \in Calls, calls'[c].at \in {"idle", "done"}, HoldsNoAccount(c)'
  PROVE  CallRelies(c)'
BY DEF CallRelies

\* So a call may answer whenever it has released its locks.
LEMMA AnswerKeeps ==
  ASSUME WalletsInv, NEW c \in Calls, NEW reply \in Replies,
         GoTo(c, Reply(reply)), UNCHANGED tables, OthersHold(c),
         HoldsNoAccount(c)'
  PROVE  WalletsInv'
<1>1. Reply(reply) \in Call /\ calls'[c] = Reply(reply) /\ Reply(reply).at = "done"
  BY ReplyType, GoToMoves DEF WalletsInv
<1>2. CallRelies(c)'
  BY <1>1, RestingRelies
<1> HIDE DEF WalletsInv
<1> QED
  BY <1>1, <1>2, QuietStep

\* The fields of a call are of their types.
LEMMA CallFields ==
  ASSUME WalletsTypeOK, NEW c \in Calls
  PROVE  /\ calls[c] \in Call /\ IdleCall \in Call
         /\ IdleCall.at = "idle"
         /\ \A label \in Labels :
              /\ At(calls[c], label) \in Call
              /\ At(calls[c], label).at = label
              /\ At(calls[c], label).user = calls[c].user
              /\ At(calls[c], label).nonce = calls[c].nonce
              /\ At(calls[c], label).address = calls[c].address
              /\ At(calls[c], label).key = calls[c].key
BY DEF WalletsTypeOK, Call, IdleCall, Labels, Replies, At

(***************************************************************************)
(* The steps that change no table.                                         *)
(***************************************************************************)

\* provisionCustodialWallet begins.
LEMMA ProvisionStartKeeps ==
  ASSUME WalletsInv, NEW c \in Calls, ProvisionStart(c)
  PROVE  WalletsInv'
<1>1. PICK u \in Users :
        GoTo(c, IF HasAccount(u) THEN Reply("ok")
                ELSE [IdleCall EXCEPT !.at = "insert", !.user = u])
  BY DEF ProvisionStart
<1>2. UNCHANGED tables /\ OthersHold(c) /\ HoldsNoAccount(c)'
  BY LocksOfOthers, HoldsNoneNow DEF ProvisionStart, Start, Suspended, WalletsInv
<1>3. CASE HasAccount(u)
  BY <1>1, <1>2, <1>3, AnswerKeeps DEF Replies
<1>4. CASE ~HasAccount(u)
  <2> DEFINE call == [IdleCall EXCEPT !.at = "insert", !.user = u]
  <2>1. call \in Call /\ call.at = "insert" /\ call.user = u
    BY DEF IdleCall, Call, Labels, Replies
  <2>2. calls'[c] = call
    BY <1>1, <1>4, <2>1, GoToMoves DEF WalletsInv
  <2>3. CallRelies(c)'
    BY <1>2, <2>1, <2>2 DEF CallRelies, HoldsNoAccount
  <2> QED
    BY <1>1, <1>2, <1>4, <2>1, <2>3, QuietStep
<1> QED
  BY <1>3, <1>4

\* insertCustodialWallet's INSERT.
LEMMA InsertAccountKeeps ==
  ASSUME WalletsInv, NEW c \in Calls, InsertAccount(c)
  PROVE  WalletsInv'
<1> DEFINE u == calls[c].user
<1>1. /\ WalletsTypeOK /\ u \in Users
      /\ UNCHANGED tables
  BY DEF WalletsInv, CallRelies, InsertAccount, Suspended
<1>2. CASE UserTaken(u)
  <2>1. GoTo(c, At(calls[c], "reread")) /\ UNCHANGED <<userLock, nonceLock>>
    BY <1>2 DEF InsertAccount
  <2>2. /\ At(calls[c], "reread") \in Call
        /\ calls'[c].at = "reread" /\ calls'[c].user = u
    BY <1>1, <2>1, CallFields, GoToMoves DEF Labels
  <2>3. HoldsNoAccount(c)'
    BY <2>1, HoldsNoneNow DEF InsertAccount, Suspended
  <2>4. CallRelies(c)'
    BY <1>1, <2>2, <2>3 DEF CallRelies, HoldsNoAccount
  <2> QED
    BY <1>1, <2>1, <2>2, <2>4, QuietStep, LocksOfOthers
<1>3. CASE ~UserTaken(u)
  <2>1. /\ GoTo(c, At(calls[c], "keypair"))
        /\ Free(userLock, u, c) /\ userLock' = [userLock EXCEPT ![u] = c]
        /\ UNCHANGED nonceLock
    BY <1>3 DEF InsertAccount
  <2>2. /\ At(calls[c], "keypair") \in Call
        /\ calls'[c].at = "keypair" /\ calls'[c].user = u
    BY <1>1, <2>1, CallFields, GoToMoves DEF Labels
  <2>3. userLock'[u] = c /\ accounts'[u] = NoAccount
    BY <1>1, <1>3, <2>1 DEF UserTaken, HasAccount, tables, WalletsTypeOK
  <2>4. CallRelies(c)'
    BY <1>1, <2>2, <2>3 DEF CallRelies, HasAccount
  <2> QED
    BY <1>1, <2>1, <2>2, <2>4, QuietStep, LocksOfOthers
<1> QED
  BY <1>2, <1>3

\* provisionKeypair.
LEMMA ProvisionKeypairKeeps ==
  ASSUME WalletsInv, NEW c \in Calls, ProvisionKeypair(c)
  PROVE  WalletsInv'
<1> DEFINE u == calls[c].user
           call == [calls[c] EXCEPT !.at = "commit", !.key = <<u, c>>]
<1>1. /\ WalletsTypeOK /\ u \in Users
      /\ userLock[u] = c /\ ~HasAccount(u)
      /\ UNCHANGED tables /\ UNCHANGED <<userLock, nonceLock>>
      /\ GoTo(c, call)
  BY DEF WalletsInv, CallRelies, ProvisionKeypair, Suspended
<1>2. calls[c] \in Call
  BY <1>1, CallFields
<1>3. /\ call \in Call
      /\ call.at = "commit" /\ call.user = u /\ call.key = <<u, c>>
  BY <1>1, <1>2 DEF Call, Labels, Keypair
<1> HIDE DEF call
<1>4. calls'[c] = call
  BY <1>1, <1>3, GoToMoves
<1>5. CallRelies(c)'
  BY <1>1, <1>3, <1>4 DEF CallRelies, HasAccount, tables
<1> QED
  BY <1>1, <1>3, <1>5, QuietStep, LocksOfOthers

\* The loser of the insert race answers.
LEMMA RereadWinnerKeeps ==
  ASSUME WalletsInv, NEW c \in Calls, RereadWinner(c)
  PROVE  WalletsInv'
<1>1. UNCHANGED tables /\ OthersHold(c) /\ HoldsNoAccount(c)'
  BY LocksOfOthers, HoldsNoneNow DEF RereadWinner, Suspended, WalletsInv
<1>2. \E reply \in Replies : GoTo(c, Reply(reply))
  BY DEF RereadWinner, Replies
<1> QED
  BY <1>1, <1>2, AnswerKeeps

\* claimChallenge: the lock is taken on a challenge that can be used.
LEMMA ClaimChallengeKeeps ==
  ASSUME WalletsInv, NEW c \in Calls, ClaimChallenge(c)
  PROVE  WalletsInv'
<1>1. PICK u \in Users, n \in Nonces, a \in Addresses :
        /\ Usable(n, u)
        /\ LockChallenge(n, c)
        /\ GoTo(c, [IdleCall EXCEPT !.at = "upsert", !.user = u, !.nonce = n,
                                    !.address = a])
  BY DEF ClaimChallenge
<1> DEFINE call == [IdleCall EXCEPT !.at = "upsert", !.user = u, !.nonce = n,
                                    !.address = a]
<1>2. /\ UNCHANGED tables /\ OthersHold(c) /\ HoldsNoAccount(c)'
      /\ WalletsTypeOK
  BY <1>1, LocksOfOthers, HoldsNoneNow
     DEF ClaimChallenge, Start, Suspended, WalletsInv
<1>3. /\ call \in Call
      /\ call.at = "upsert" /\ call.user = u /\ call.nonce = n /\ call.address = a
  BY DEF IdleCall, Call, Labels, Replies
<1>4. GoTo(c, call)
  BY <1>1
<1> HIDE DEF call
<1>5. calls'[c] = call
  BY <1>2, <1>3, <1>4, GoToMoves
<1>6. nonceLock'[n] = c
  BY <1>1, <1>2 DEF LockChallenge, WalletsTypeOK
<1>7. CallRelies(c)'
  BY <1>1, <1>2, <1>3, <1>5, <1>6 DEF CallRelies, HoldsNoAccount, Usable, tables
<1> QED
  BY <1>2, <1>3, <1>4, <1>7, QuietStep

\* upsertExternalWallet's SELECT FOR UPDATE.
LEMMA FindAccountKeeps ==
  ASSUME WalletsInv, NEW c \in Calls, FindAccount(c)
  PROVE  WalletsInv'
<1> DEFINE u == calls[c].user
           n == calls[c].nonce
           a == calls[c].address
<1>1. /\ WalletsTypeOK /\ u \in Users /\ n \in Nonces /\ a \in Addresses
      /\ nonceLock[n] = c
      /\ challenges[n].user = u /\ ~challenges[n].consumed
      /\ UNCHANGED tables
  BY DEF WalletsInv, CallRelies, FindAccount, Suspended
<1>2. CASE ~HasAccount(u)
  <2>1. GoTo(c, At(calls[c], "write")) /\ UNCHANGED <<userLock, nonceLock>>
    BY <1>2 DEF FindAccount
  <2>2. /\ At(calls[c], "write") \in Call
        /\ calls'[c].at = "write" /\ calls'[c].user = u
        /\ calls'[c].nonce = n /\ calls'[c].address = a
    BY <1>1, <2>1, CallFields, GoToMoves DEF Labels
  <2>3. userLock[u] # c
    BY <1>1 DEF WalletsInv, CallRelies, HoldsNoAccount, FindAccount, Suspended
  <2>4. CallRelies(c)'
    BY <1>1, <2>1, <2>2, <2>3 DEF CallRelies, tables
  <2> QED
    BY <1>1, <2>1, <2>2, <2>4, QuietStep, LocksOfOthers
<1>3. CASE HasAccount(u) /\ LinkedToAnother(accounts[u], a)
  BY <1>1, <1>3, AnswerKeeps, LocksOfOthers, HoldsNoneNow DEF FindAccount, Replies
<1>4. CASE HasAccount(u) /\ ~LinkedToAnother(accounts[u], a)
  <2>1. /\ GoTo(c, At(calls[c], "write"))
        /\ Free(userLock, u, c) /\ userLock' = [userLock EXCEPT ![u] = c]
        /\ UNCHANGED nonceLock
    BY <1>4 DEF FindAccount
  <2>2. /\ At(calls[c], "write") \in Call
        /\ calls'[c].at = "write" /\ calls'[c].user = u
        /\ calls'[c].nonce = n /\ calls'[c].address = a
    BY <1>1, <2>1, CallFields, GoToMoves DEF Labels
  <2>3. CallRelies(c)'
    BY <1>1, <1>4, <2>1, <2>2 DEF CallRelies, HasAccount, tables
  <2> QED
    BY <1>1, <2>1, <2>2, <2>3, QuietStep, LocksOfOthers
<1> QED
  BY <1>2, <1>3, <1>4

\* fundCustodialWallet: the lock is taken on a custodial wallet.
LEMMA FundStartKeeps ==
  ASSUME WalletsInv, NEW c \in Calls, FundStart(c)
  PROVE  WalletsInv'
<1>1. PICK u \in Users :
        /\ Custodial(u) /\ credits[u] < MaxCredits
        /\ LockAccount(u, c)
        /\ GoTo(c, [IdleCall EXCEPT !.at = "fund", !.user = u])
  BY DEF FundStart, Custodial
<1> DEFINE call == [IdleCall EXCEPT !.at = "fund", !.user = u]
<1>2. /\ UNCHANGED tables /\ OthersHold(c)
      /\ WalletsTypeOK
  BY <1>1, LocksOfOthers DEF FundStart, LockAccount, WalletsInv
<1>3. call \in Call /\ call.at = "fund" /\ call.user = u
  BY DEF IdleCall, Call, Labels, Replies
<1>4. GoTo(c, call)
  BY <1>1
<1> HIDE DEF call
<1>5. calls'[c] = call
  BY <1>2, <1>3, <1>4, GoToMoves
<1>6. userLock'[u] = c
  BY <1>1, <1>2 DEF LockAccount, WalletsTypeOK
<1>7. CallRelies(c)'
  BY <1>1, <1>2, <1>3, <1>5, <1>6 DEF CallRelies, Custodial, tables
<1> QED
  BY <1>2, <1>3, <1>4, <1>7, QuietStep

\* signPayload begins.
LEMMA SignStartKeeps ==
  ASSUME WalletsInv, NEW c \in Calls, SignStart(c)
  PROVE  WalletsInv'
<1>1. PICK u \in Users :
        GoTo(c, IF accounts[u].custody = "CUSTODIAL"
                THEN [IdleCall EXCEPT !.at = "decrypt", !.user = u]
                ELSE Reply("refused"))
  BY DEF SignStart
<1>2. UNCHANGED tables /\ OthersHold(c) /\ HoldsNoAccount(c)'
  BY LocksOfOthers, HoldsNoneNow DEF SignStart, Start, Suspended, WalletsInv
<1>3. CASE accounts[u].custody # "CUSTODIAL"
  BY <1>1, <1>2, <1>3, AnswerKeeps DEF Replies
<1>4. CASE accounts[u].custody = "CUSTODIAL"
  <2> DEFINE call == [IdleCall EXCEPT !.at = "decrypt", !.user = u]
  <2>1. call \in Call /\ call.at = "decrypt" /\ call.user = u
    BY DEF IdleCall, Call, Labels, Replies
  <2>2. calls'[c] = call
    BY <1>1, <1>4, <2>1, GoToMoves DEF WalletsInv
  <2>3. CallRelies(c)'
    BY <1>2, <2>1, <2>2 DEF CallRelies, HoldsNoAccount
  <2> QED
    BY <1>1, <1>2, <1>4, <2>1, <2>3, QuietStep
<1> QED
  BY <1>3, <1>4

\* decryptAndSign finds the key, or goes on to log a failure.
LEMMA DecryptKeeps ==
  ASSUME WalletsInv, NEW c \in Calls, Decrypt(c)
  PROVE  WalletsInv'
<1> DEFINE u == calls[c].user
           found == [calls[c] EXCEPT !.at = "log_success", !.key = keys[u]]
<1>1. /\ WalletsTypeOK /\ u \in Users
      /\ UNCHANGED tables /\ OthersHold(c) /\ HoldsNoAccount(c)'
  BY LocksOfOthers, HoldsNoneNow DEF WalletsInv, CallRelies, Decrypt, Suspended
<1>2. calls[c] \in Call
  BY <1>1, CallFields
<1>3. CASE keys[u] # None /\ GoTo(c, found)
  <2>1. found \in Call /\ found.at = "log_success" /\ found.user = u
    BY <1>1, <1>2 DEF Call, Labels, WalletsTypeOK
  <2> HIDE DEF found
  <2>2. calls'[c] = found
    BY <1>1, <1>3, <2>1, GoToMoves
  <2>3. CallRelies(c)'
    BY <1>1, <1>3, <2>1, <2>2 DEF CallRelies, HoldsNoAccount, tables
  <2> QED
    BY <1>1, <1>3, <2>1, <2>3, QuietStep
<1>4. CASE GoTo(c, At(calls[c], "log_failure"))
  <2>1. /\ At(calls[c], "log_failure") \in Call
        /\ calls'[c].at = "log_failure" /\ calls'[c].user = u
    BY <1>1, <1>4, CallFields, GoToMoves DEF Labels
  <2>2. CallRelies(c)'
    BY <1>1, <2>1 DEF CallRelies, HoldsNoAccount
  <2> QED
    BY <1>1, <1>4, <2>1, <2>2, QuietStep
<1> QED
  BY <1>3, <1>4 DEF Decrypt

\* A transaction is rolled back.
LEMMA RollbackKeeps ==
  ASSUME WalletsInv, NEW c \in Calls, Rollback(c)
  PROVE  WalletsInv'
BY AnswerKeeps, LocksOfOthers, HoldsNoneNow DEF Rollback, Replies, WalletsInv

\* The response is sent.
LEMMA RespondKeeps ==
  ASSUME WalletsInv, NEW c \in Calls, Respond(c)
  PROVE  WalletsInv'
<1>1. /\ WalletsTypeOK /\ GoTo(c, IdleCall)
      /\ UNCHANGED tables /\ OthersHold(c) /\ HoldsNoAccount(c)'
  BY LocksOfOthers, HoldsNoneNow DEF Respond, Suspended, WalletsInv
<1>2. IdleCall \in Call /\ calls'[c].at = "idle"
  BY <1>1, CallFields, GoToMoves
<1> QED
  BY <1>1, <1>2, RestingRelies, QuietStep

(***************************************************************************)
(* The steps that change tables.                                           *)
(***************************************************************************)

\* A step of call c that changes tables keeps what the others rely on, if it
\* changes no account or credit that another call has locked, consumes no
\* challenge that another call has locked, and takes no key away.
LEMMA AllRely ==
  ASSUME WalletsInv, NEW c \in Calls, OthersHold(c),
         \A d \in Calls \ {c} : calls'[d] = calls[d],
         CallRelies(c)',
         \A u \in Users :
           /\ userLock[u] \in {None, c} \/ /\ accounts'[u] = accounts[u]
                                           /\ credits'[u] = credits[u]
           /\ keys[u] # None => keys'[u] # None,
         \A n \in Nonces :
           nonceLock[n] = c \/ challenges'[n] = challenges[n]
  PROVE  \A d \in Calls : CallRelies(d)'
<1>1. ASSUME NEW d \in Calls \ {c}
      PROVE  CallRelies(d)'
  <2>1. CallRelies(d) /\ calls'[d] = calls[d] /\ d # None
    BY WalletsAssumption DEF WalletsInv
  <2>2. calls[d].user \in Users =>
          /\ userLock[calls[d].user] = d =>
               /\ accounts'[calls[d].user] = accounts[calls[d].user]
               /\ credits'[calls[d].user] = credits[calls[d].user]
          /\ keys[calls[d].user] # None => keys'[calls[d].user] # None
    BY <2>1
  <2>3. calls[d].nonce \in Nonces /\ nonceLock[calls[d].nonce] = d =>
          /\ nonceLock'[calls[d].nonce] = d
          /\ challenges'[calls[d].nonce] = challenges[calls[d].nonce]
    BY DEF OthersHold
  <2>4. \A u \in Users : userLock'[u] = d <=> userLock[u] = d
    BY DEF OthersHold
  <2> QED
    BY <2>1, <2>2, <2>3, <2>4, OthersRely
<1> QED
  BY <1>1

\* provisionCustodialWallet commits.
LEMMA ProvisionCommitKeeps ==
  ASSUME WalletsInv, NEW c \in Calls, ProvisionCommit(c)
  PROVE  WalletsInv'
<1> DEFINE u == calls[c].user
           account == [custody |-> "CUSTODIAL", address |-> <<u, c>>]
<1>1. /\ WalletsTypeOK /\ u \in Users
      /\ userLock[u] = c /\ ~HasAccount(u) /\ calls[c].key = <<u, c>>
  BY DEF WalletsInv, CallRelies, ProvisionCommit, Suspended
<1>2. /\ accounts' = [accounts EXCEPT ![u] = account]
      /\ keys' = [keys EXCEPT ![u] = <<u, c>>]
      /\ GoTo(c, Reply("ok")) /\ ReleaseLocks(c)
      /\ UNCHANGED <<challenges, credits, accessLog, signed, links>>
  BY <1>1 DEF ProvisionCommit
<1>3. <<u, c>> \in Keypair /\ <<u, c>> # None /\ account \in Account
  BY <1>1, WalletsAssumption DEF Keypair, Account
<1>4. /\ calls' \in [Calls -> Call]
      /\ calls'[c].at = "done"
      /\ \A d \in Calls \ {c} : calls'[d] = calls[d]
      /\ OthersHold(c)
      /\ HoldsNoAccount(c)'
  BY <1>1, <1>2, ReplyType, GoToMoves, LocksOfOthers, HoldsNoneNow DEF Replies
<1>5. WalletsTypeOK'
  BY <1>1, <1>2, <1>3, <1>4 DEF WalletsTypeOK, OthersHold
<1>6. /\ accounts'[u] = account /\ keys'[u] = <<u, c>>
      /\ \A v \in Users \ {u} : accounts'[v] = accounts[v] /\ keys'[v] = keys[v]
  BY <1>1, <1>2 DEF WalletsTypeOK
<1>7. \A d \in Calls : CallRelies(d)'
  <2>1. CallRelies(c)'
    BY <1>4, RestingRelies
  <2> QED
    BY <1>1, <1>2, <1>3, <1>4, <1>6, <2>1, AllRely
<1>8. KeysAreKept'
  BY <1>6 DEF WalletsInv, KeysAreKept, HasAccount, NoAccount
<1>9. KeyMatchesAccount' /\ OneClaimPerAddress'
  BY <1>6 DEF WalletsInv, KeyMatchesAccount, OneClaimPerAddress, Custodial, Linked
<1>10. LinksAreCounted' /\ SignaturesAreLogged'
  BY <1>2 DEF WalletsInv, LinksAreCounted, SignaturesAreLogged
<1> QED
  BY <1>5, <1>7, <1>8, <1>9, <1>10 DEF WalletsInv

\* verifyAndLinkExternalWallet commits, or is rolled back.
LEMMA LinkCommitKeeps ==
  ASSUME WalletsInv, NEW c \in Calls, LinkCommit(c)
  PROVE  WalletsInv'
<1> DEFINE u == calls[c].user
           n == calls[c].nonce
           a == calls[c].address
           account == [custody |-> "EXTERNAL", address |-> a]
<1>1. /\ WalletsTypeOK /\ u \in Users /\ n \in Nonces /\ a \in Addresses
      /\ nonceLock[n] = c /\ ~challenges[n].consumed
      /\ Free(userLock, u, c)
      /\ userLock[u] # c \/ HasAccount(u)
      /\ ReleaseLocks(c)
      /\ UNCHANGED <<keys, credits, accessLog, signed>>
  BY DEF WalletsInv, CallRelies, LinkCommit, Suspended
<1>2. OthersHold(c) /\ HoldsNoAccount(c)'
  BY <1>1, LocksOfOthers, HoldsNoneNow
<1>3. CASE UNCHANGED <<accounts, challenges, links>>
  <2>1. \E reply \in Replies : GoTo(c, Reply(reply))
    BY DEF LinkCommit, Replies
  <2> QED
    BY <1>1, <1>2, <1>3, <2>1, AnswerKeeps DEF tables
<1>4. CASE /\ ~AddressTaken(u, a)
           /\ accounts' = [accounts EXCEPT ![u] = account]
           /\ challenges' = [challenges EXCEPT ![n].consumed = TRUE]
           /\ links' = [links EXCEPT ![n] = @ + 1]
           /\ GoTo(c, Reply("ok"))
  <2>1. /\ calls' \in [Calls -> Call]
        /\ calls'[c].at = "done"
        /\ \A d \in Calls \ {c} : calls'[d] = calls[d]
    BY <1>1, <1>4, ReplyType, GoToMoves DEF Replies
  <2>2. account \in Account
    BY <1>1 DEF Account
  <2>3. /\ accounts'[u] = account
        /\ \A v \in Users \ {u} : accounts'[v] = accounts[v]
        /\ challenges'[n] = [challenges[n] EXCEPT !.consumed = TRUE]
        /\ links'[n] = links[n] + 1
        /\ \A m \in Nonces \ {n} : challenges'[m] = challenges[m] /\ links'[m] = links[m]
    BY <1>1, <1>4 DEF WalletsTypeOK
  <2>4. /\ challenges[n] \in Challenge /\ challenges'[n] \in Challenge
        /\ challenges'[n].consumed
        /\ links[n] = 0
    <3>1. challenges[n] \in Challenge /\ links[n] = 0
      BY <1>1 DEF WalletsInv, WalletsTypeOK, LinksAreCounted
    <3>2. [challenges[n] EXCEPT !.consumed = TRUE] \in Challenge
      BY <3>1 DEF Challenge
    <3>3. [challenges[n] EXCEPT !.consumed = TRUE].consumed
      BY <3>1 DEF Challenge
    <3> QED
      BY <2>3, <3>1, <3>2, <3>3
  <2>5. WalletsTypeOK'
    <3>1. /\ accounts' \in [Users -> Account \cup {NoAccount}]
          /\ links' \in [Nonces -> Nat]
      BY <1>1, <1>4, <2>2 DEF WalletsTypeOK
    <3>2. challenges' \in [Nonces -> Challenge]
      BY <1>1, <1>4, <2>3, <2>4 DEF WalletsTypeOK
    <3> QED
      BY <1>1, <1>2, <2>1, <3>1, <3>2 DEF WalletsTypeOK, OthersHold
  <2>6. \A d \in Calls : CallRelies(d)'
    <3>1. CallRelies(c)'
      BY <1>2, <2>1, RestingRelies
    <3> QED
      BY <1>1, <1>2, <2>1, <2>3, <3>1, AllRely DEF Free
  <2>7. KeysAreKept'
    BY <1>1, <2>3 DEF WalletsInv, KeysAreKept, HasAccount, NoAccount
  <2>8. KeyMatchesAccount'
    BY <1>1, <2>3 DEF WalletsInv, KeyMatchesAccount, Custodial
  <2>9. OneClaimPerAddress'
    BY <1>4, <2>3 DEF WalletsInv, OneClaimPerAddress, Linked, AddressTaken
  <2>10. LinksAreCounted'
    <3>1. links'[n] = IF challenges'[n].consumed THEN 1 ELSE 0
      BY <2>3, <2>4
    <3>2. ASSUME NEW m \in Nonces \ {n}
          PROVE  links'[m] = IF challenges'[m].consumed THEN 1 ELSE 0
      BY <2>3 DEF WalletsInv, LinksAreCounted
    <3> QED
      BY <3>1, <3>2 DEF LinksAreCounted
  <2>11. SignaturesAreLogged'
    BY <1>1 DEF WalletsInv, SignaturesAreLogged
  <2> QED
    BY <2>5, <2>6, <2>7, <2>8, <2>9, <2>10, <2>11 DEF WalletsInv
<1> QED
  BY <1>3, <1>4 DEF LinkCommit, GivenBack, External

\* fundCustodialWallet commits.
LEMMA FundCommitKeeps ==
  ASSUME WalletsInv, NEW c \in Calls, FundCommit(c)
  PROVE  WalletsInv'
<1> DEFINE u == calls[c].user
<1>1. /\ WalletsTypeOK /\ u \in Users
      /\ userLock[u] = c /\ credits[u] < MaxCredits
      /\ credits' = [credits EXCEPT ![u] = @ + 1]
      /\ GoTo(c, Reply("ok")) /\ ReleaseLocks(c)
      /\ UNCHANGED <<accounts, keys, challenges, accessLog, signed, links>>
  BY DEF WalletsInv, CallRelies, FundCommit, Suspended
<1>2. /\ calls' \in [Calls -> Call]
      /\ calls'[c].at = "done"
      /\ \A d \in Calls \ {c} : calls'[d] = calls[d]
      /\ OthersHold(c)
      /\ HoldsNoAccount(c)'
  BY <1>1, ReplyType, GoToMoves, LocksOfOthers, HoldsNoneNow DEF Replies
<1>3. WalletsTypeOK'
  <2>1. credits' \in [Users -> 0..MaxCredits]
    BY <1>1, WalletsAssumption DEF WalletsTypeOK
  <2> QED
    BY <1>1, <1>2, <2>1 DEF WalletsTypeOK, OthersHold
<1>4. \A d \in Calls : CallRelies(d)'
  <2>1. CallRelies(c)'
    BY <1>2, RestingRelies
  <2>2. \A v \in Users \ {u} : credits'[v] = credits[v]
    BY <1>1 DEF WalletsTypeOK
  <2> QED
    BY <1>1, <1>2, <2>1, <2>2, AllRely
<1> QED
  BY <1>1, <1>3, <1>4 DEF WalletsInv, KeysAreKept, KeyMatchesAccount, Custodial,
     OneClaimPerAddress, Linked, LinksAreCounted, SignaturesAreLogged, HasAccount

\* logAccess(true): a signature leaves with its entry, or not at all.
LEMMA LogSuccessKeeps ==
  ASSUME WalletsInv, NEW c \in Calls, LogSuccess(c)
  PROVE  WalletsInv'
<1> DEFINE u == calls[c].user
           again == [calls[c] EXCEPT !.at = "log_failure", !.key = None]
<1>1. /\ WalletsTypeOK /\ u \in Users
      /\ UNCHANGED <<accounts, keys, challenges, credits, links>>
      /\ UNCHANGED <<userLock, nonceLock>>
      /\ OthersHold(c) /\ HoldsNoAccount(c)'
  BY LocksOfOthers, HoldsNoneNow
     DEF WalletsInv, CallRelies, LogSuccess, Suspended
<1>2. PICK logged \in BOOLEAN :
        /\ accessLog' = IF logged THEN [accessLog EXCEPT ![u].success = @ + 1]
                        ELSE accessLog
        /\ signed' = IF logged THEN [signed EXCEPT ![u] = @ + 1] ELSE signed
        /\ GoTo(c, IF logged THEN Reply("ok") ELSE again)
  BY DEF LogSuccess, HandsOut
<1>3. CASE ~logged
  <2>1. again \in Call /\ again.at = "log_failure" /\ again.user = u
    <3>1. calls[c] \in Call
      BY <1>1, CallFields
    <3> QED
      BY <3>1 DEF Call, Labels
  <2>2. GoTo(c, again) /\ UNCHANGED tables
    BY <1>1, <1>2, <1>3 DEF tables
  <2> HIDE DEF again
  <2>3. calls'[c] = again
    BY <1>1, <2>1, <2>2, GoToMoves
  <2>4. CallRelies(c)'
    BY <1>1, <2>1, <2>3 DEF CallRelies, HoldsNoAccount
  <2> QED
    BY <1>1, <2>1, <2>2, <2>4, QuietStep
<1>4. CASE logged
  <2>1. /\ accessLog' = [accessLog EXCEPT ![u].success = @ + 1]
        /\ signed' = [signed EXCEPT ![u] = @ + 1]
        /\ GoTo(c, Reply("ok"))
    BY <1>2, <1>4
  <2>2. /\ calls' \in [Calls -> Call]
        /\ calls'[c].at = "done"
        /\ \A d \in Calls \ {c} : calls'[d] = calls[d]
    BY <1>1, <2>1, ReplyType, GoToMoves DEF Replies
  <2>3. /\ accessLog' \in [Users -> [success: Nat, failure: Nat]]
        /\ signed' \in [Users -> Nat]
        /\ accessLog'[u].success = accessLog[u].success + 1
        /\ signed'[u] = signed[u] + 1
        /\ \A v \in Users \ {u} : accessLog'[v] = accessLog[v] /\ signed'[v] = signed[v]
    BY <1>1, <2>1 DEF WalletsTypeOK
  <2>4. WalletsTypeOK'
    BY <1>1, <2>2, <2>3 DEF WalletsTypeOK
  <2>5. \A d \in Calls : CallRelies(d)'
    <3>1. CallRelies(c)'
      BY <1>1, <2>2, RestingRelies
    <3> QED
      BY <1>1, <2>2, <3>1, AllRely
  <2>6. SignaturesAreLogged'
    <3>1. ASSUME NEW v \in Users
          PROVE  signed'[v] <= accessLog'[v].success
      <4>1. /\ signed[v] <= accessLog[v].success
            /\ signed[v] \in Nat /\ accessLog[v].success \in Nat
        BY <1>1 DEF WalletsInv, SignaturesAreLogged, WalletsTypeOK
      <4> QED
        BY <2>3, <4>1
    <3> QED
      BY <3>1 DEF SignaturesAreLogged
  <2> QED
    BY <1>1, <2>4, <2>5, <2>6 DEF WalletsInv, KeysAreKept, KeyMatchesAccount,
       Custodial, OneClaimPerAddress, Linked, LinksAreCounted, HasAccount
<1> QED
  BY <1>3, <1>4

\* logAccess(false).
LEMMA LogFailureKeeps ==
  ASSUME WalletsInv, NEW c \in Calls, LogFailure(c)
  PROVE  WalletsInv'
<1> DEFINE u == calls[c].user
<1>1. /\ WalletsTypeOK /\ u \in Users
      /\ UNCHANGED <<accounts, keys, challenges, credits, signed, links>>
      /\ UNCHANGED <<userLock, nonceLock>>
      /\ OthersHold(c) /\ HoldsNoAccount(c)'
      /\ GoTo(c, Reply("error"))
      /\ accessLog' \in {accessLog, [accessLog EXCEPT ![u].failure = @ + 1]}
  BY LocksOfOthers, HoldsNoneNow
     DEF WalletsInv, CallRelies, LogFailure, Suspended
<1>2. /\ calls' \in [Calls -> Call]
      /\ calls'[c].at = "done"
      /\ \A d \in Calls \ {c} : calls'[d] = calls[d]
  BY <1>1, ReplyType, GoToMoves DEF Replies
<1>3. /\ accessLog' \in [Users -> [success: Nat, failure: Nat]]
      /\ \A v \in Users : accessLog'[v].success = accessLog[v].success
  <2>1. CASE accessLog' = accessLog
    BY <1>1, <2>1 DEF WalletsTypeOK
  <2>2. CASE accessLog' = [accessLog EXCEPT ![u].failure = @ + 1]
    BY <1>1, <2>2 DEF WalletsTypeOK
  <2> QED
    BY <1>1, <2>1, <2>2
<1>4. WalletsTypeOK'
  BY <1>1, <1>2, <1>3 DEF WalletsTypeOK
<1>5. \A d \in Calls : CallRelies(d)'
  <2>1. CallRelies(c)'
    BY <1>1, <1>2, RestingRelies
  <2> QED
    BY <1>1, <1>2, <2>1, AllRely
<1>6. SignaturesAreLogged'
  BY <1>1, <1>3 DEF WalletsInv, SignaturesAreLogged
<1> QED
  BY <1>1, <1>4, <1>5, <1>6 DEF WalletsInv, KeysAreKept, KeyMatchesAccount,
     Custodial, OneClaimPerAddress, Linked, LinksAreCounted, HasAccount

\* createLinkChallenge issues a challenge that no call works on yet.
LEMMA CreateLinkChallengeKeeps ==
  ASSUME WalletsInv, NEW u \in Users, CreateLinkChallenge(u)
  PROVE  WalletsInv'
<1>1. PICK n \in Nonces :
        /\ challenges[n] = NoChallenge
        /\ challenges' = [challenges EXCEPT ![n].user = u]
  BY DEF CreateLinkChallenge
<1>2. /\ WalletsTypeOK
      /\ UNCHANGED <<accounts, keys, credits, accessLog, signed, links, userLock,
                     nonceLock, calls>>
  BY DEF WalletsInv, CreateLinkChallenge
<1>3. /\ challenges' \in [Nonces -> Challenge]
      /\ challenges'[n].consumed = challenges[n].consumed
      /\ \A m \in Nonces \ {n} : challenges'[m] = challenges[m]
  BY <1>1, <1>2 DEF WalletsTypeOK, Challenge
<1>4. ASSUME NEW d \in Calls
      PROVE  CallRelies(d)'
  <2>1. CallRelies(d)
    BY DEF WalletsInv
  <2>2. CASE calls[d].at \in {"upsert", "write"}
    <3>1. calls[d].nonce \in Nonces /\ challenges[calls[d].nonce].user \in Users
      BY <2>1, <2>2 DEF CallRelies
    <3>2. calls[d].nonce # n
      BY <1>1, <3>1, WalletsAssumption DEF NoChallenge
    <3> QED
      BY <1>2, <1>3, <2>1, <3>1, <3>2, OthersRely
  <2>3. CASE calls[d].at \notin {"upsert", "write"}
    BY <1>2, <2>1, <2>3 DEF CallRelies, HasAccount, Custodial, HoldsNoAccount
  <2> QED
    BY <2>2, <2>3
<1>5. LinksAreCounted'
  BY <1>2, <1>3 DEF WalletsInv, LinksAreCounted
<1>6. WalletsTypeOK'
  BY <1>2, <1>3 DEF WalletsTypeOK
<1> QED
  BY <1>2, <1>4, <1>5, <1>6 DEF WalletsInv, KeysAreKept, KeyMatchesAccount,
     Custodial, OneClaimPerAddress, Linked, SignaturesAreLogged, HasAccount

\* A challenge expires, also while a call works on it.
LEMMA ChallengeExpiresKeeps ==
  ASSUME WalletsInv, NEW n \in Nonces, ChallengeExpires(n)
  PROVE  WalletsInv'
<1>1. /\ WalletsTypeOK
      /\ challenges' = [challenges EXCEPT ![n].expired = TRUE]
      /\ UNCHANGED <<accounts, keys, credits, accessLog, signed, links, userLock,
                     nonceLock, calls>>
  BY DEF WalletsInv, ChallengeExpires
<1>2. /\ challenges' \in [Nonces -> Challenge]
      /\ \A m \in Nonces : /\ challenges'[m].user = challenges[m].user
                           /\ challenges'[m].consumed = challenges[m].consumed
  BY <1>1 DEF WalletsTypeOK, Challenge
<1>3. ASSUME NEW d \in Calls
      PROVE  CallRelies(d)'
  <2>1. CallRelies(d)
    BY DEF WalletsInv
  <2> QED
    BY <1>1, <1>2, <2>1, OthersRely
<1>4. WalletsTypeOK' /\ LinksAreCounted'
  BY <1>1, <1>2 DEF WalletsInv, WalletsTypeOK, LinksAreCounted
<1> QED
  BY <1>1, <1>3, <1>4 DEF WalletsInv, KeysAreKept, KeyMatchesAccount,
     Custodial, OneClaimPerAddress, Linked, SignaturesAreLogged, HasAccount

(***************************************************************************)
(* The invariant.                                                          *)
(***************************************************************************)

\* Initially nothing is there, and no call relies on anything.
LEMMA InitInv == Init => WalletsInv
<1> SUFFICES ASSUME Init PROVE WalletsInv
  OBVIOUS
<1>1. WalletsTypeOK
  <2>1. IdleCall \in Call /\ NoChallenge \in Challenge
    BY DEF IdleCall, Call, Labels, Replies, NoChallenge, Challenge
  <2> QED
    BY <2>1, WalletsAssumption DEF Init, WalletsTypeOK
<1>2. ASSUME NEW c \in Calls
      PROVE  CallRelies(c)
  BY WalletsAssumption DEF Init, IdleCall, CallRelies, HoldsNoAccount
<1>3. KeysAreKept /\ KeyMatchesAccount /\ OneClaimPerAddress
  BY DEF Init, NoAccount, KeysAreKept, KeyMatchesAccount, Custodial,
         OneClaimPerAddress, Linked
<1>4. LinksAreCounted /\ SignaturesAreLogged
  BY DEF Init, NoChallenge, LinksAreCounted, SignaturesAreLogged
<1> QED
  BY <1>1, <1>2, <1>3, <1>4 DEF WalletsInv

\* Every step keeps it.
LEMMA StepInv == WalletsInv /\ [Next]_vars => WalletsInv'
<1> SUFFICES ASSUME WalletsInv, [Next]_vars PROVE WalletsInv'
  OBVIOUS
<1>1. CASE UNCHANGED vars
  BY <1>1 DEF WalletsInv, vars, WalletsTypeOK, CallRelies, HoldsNoAccount,
     HasAccount, KeysAreKept, KeyMatchesAccount, Custodial, OneClaimPerAddress,
     Linked, LinksAreCounted, SignaturesAreLogged
<1>2. ASSUME NEW c \in Calls, Begin(c)
      PROVE  WalletsInv'
  BY <1>2, ProvisionStartKeeps, ClaimChallengeKeeps, FundStartKeeps,
     SignStartKeeps DEF Begin
<1>3. ASSUME NEW c \in Calls, Continue(c)
      PROVE  WalletsInv'
  BY <1>3, InsertAccountKeeps, ProvisionKeypairKeeps, ProvisionCommitKeeps,
     RereadWinnerKeeps, FindAccountKeeps, LinkCommitKeeps, FundCommitKeeps,
     DecryptKeeps, LogSuccessKeeps, LogFailureKeeps DEF Continue
<1>4. ASSUME NEW c \in Calls, Rollback(c) \/ Respond(c)
      PROVE  WalletsInv'
  BY <1>4, RollbackKeeps, RespondKeeps
<1> QED
  BY <1>1, <1>2, <1>3, <1>4, CreateLinkChallengeKeeps, ChallengeExpiresKeeps
     DEF Next

\* So it always holds.
LEMMA AlwaysInv == Spec => []WalletsInv
BY InitInv, StepInv, PTL DEF Spec

\* However many calls provision, link, fund and sign, the tables, the locks and
\* the calls in flight are well-typed, and no wallet is funded beyond its bound.
THEOREM WalletsTypeCorrect == Spec => []WalletsTypeOK
<1>1. WalletsInv => WalletsTypeOK
  BY DEF WalletsInv
<1> QED
  BY <1>1, AlwaysInv, PTL

\* However provisioning, links and upgrades overlap, the server keeps the key
\* of every custodial wallet (insertCustodialWallet, upsertExternalWallet).
THEOREM KeysMatchAccounts == Spec => []KeyMatchesAccount
<1>1. WalletsInv => KeyMatchesAccount
  BY DEF WalletsInv
<1> QED
  BY <1>1, AlwaysInv, PTL

\* However many users claim it, an external address has one account.
THEOREM AddressesAreUnique == Spec => []OneClaimPerAddress
<1>1. WalletsInv => OneClaimPerAddress
  BY DEF WalletsInv
<1> QED
  BY <1>1, AlwaysInv, PTL

\* However often a signed challenge is sent, it links once (claimChallenge).
THEOREM ChallengesLinkOnce == Spec => []ChallengeLinksOnce
<1>1. WalletsInv => ChallengeLinksOnce
  BY DEF WalletsInv, LinksAreCounted, ChallengeLinksOnce
<1> QED
  BY <1>1, AlwaysInv, PTL

\* No signature leaves without its entry in the access log.
THEOREM SignaturesAreAudited == Spec => []SignaturesAreLogged
<1>1. WalletsInv => SignaturesAreLogged
  BY DEF WalletsInv
<1> QED
  BY <1>1, AlwaysInv, PTL

(***************************************************************************)
(* The refinement: every step is a step of WalletCustody, or a stutter.    *)
(***************************************************************************)

\* Nothing of the custody is seen of a step that changes none of these.
LEMMA UnseenStep ==
  ASSUME UNCHANGED <<accounts, keys, credits, signed>>,
         \A n \in Nonces : /\ challenges'[n].user = challenges[n].user
                           /\ challenges'[n].consumed = challenges[n].consumed
  PROVE  UNCHANGED Custody!custodyVars
<1>1. /\ [n \in Nonces |-> challenges'[n].user] = [n \in Nonces |-> challenges[n].user]
      /\ {n \in Nonces : challenges'[n].consumed} = {n \in Nonces : challenges[n].consumed}
  OBVIOUS
<1> QED
  BY <1>1 DEF Custody!custodyVars

\* provisionCustodialWallet's commit provides the key that the call made.
LEMMA ProvisionRefines ==
  ASSUME WalletsInv, NEW c \in Calls, ProvisionCommit(c)
  PROVE  Custody!CustodyNext
<1> DEFINE u == calls[c].user
<1>1. /\ WalletsTypeOK /\ u \in Users
      /\ ~HasAccount(u) /\ calls[c].key = <<u, c>>
  BY DEF WalletsInv, CallRelies, ProvisionCommit, Suspended
<1>2. /\ <<u, c>> \in Keypair
      /\ accounts[u].custody = "none"
  BY <1>1 DEF Keypair, HasAccount, NoAccount
<1>3. \A v \in Users : keys[v] # <<u, c>>
  <2>1. <<u, c>> # None
    BY <1>1, WalletsAssumption
  <2> QED
    BY <1>1, <2>1 DEF WalletsInv, KeysAreKept
<1>4. Custody!Provision(u, <<u, c>>)
  BY <1>1, <1>2, <1>3 DEF ProvisionCommit, Custody!Provision
<1> HIDE DEF u
<1> QED
  BY <1>1, <1>2, <1>4 DEF Custody!CustodyNext

\* verifyAndLinkExternalWallet's commit is a link, its rollback a stutter.
LEMMA LinkRefines ==
  ASSUME WalletsInv, NEW c \in Calls, LinkCommit(c)
  PROVE  [Custody!CustodyNext]_Custody!custodyVars
<1> DEFINE u == calls[c].user
           n == calls[c].nonce
           a == calls[c].address
<1>1. /\ WalletsTypeOK /\ u \in Users /\ n \in Nonces /\ a \in Addresses
      /\ challenges[n].user = u /\ ~challenges[n].consumed
      /\ HasAccount(u) /\ userLock[u] = c => ~LinkedToAnother(accounts[u], a)
      /\ UNCHANGED <<keys, credits, signed>>
  BY DEF WalletsInv, CallRelies, LinkCommit, Suspended
<1>2. CASE UNCHANGED <<accounts, challenges>>
  BY <1>1, <1>2, UnseenStep
<1>3. CASE /\ ~(userLock[u] # c /\ HasAccount(u))
           /\ ~AddressTaken(u, a)
           /\ accounts' = [accounts EXCEPT ![u] = External(u, a)]
           /\ challenges' = [challenges EXCEPT ![n].consumed = TRUE]
  <2>1. accounts[u].custody = "EXTERNAL" => accounts[u].address = a
    BY <1>1, <1>3 DEF LinkedToAnother, HasAccount, NoAccount
  <2>2. \A v \in Users \ {u} :
          ~(accounts[v].custody = "EXTERNAL" /\ accounts[v].address = a)
    BY <1>3 DEF AddressTaken
  <2>3. /\ \A m \in Nonces : challenges'[m].user = challenges[m].user
        /\ challenges'[n].consumed
        /\ \A m \in Nonces \ {n} : challenges'[m] = challenges[m]
    BY <1>1, <1>3 DEF WalletsTypeOK, Challenge
  <2>4. {m \in Nonces : challenges'[m].consumed} =
          {m \in Nonces : challenges[m].consumed} \cup {n}
    BY <1>1, <2>3
  <2>5. [m \in Nonces |-> challenges'[m].user] = [m \in Nonces |-> challenges[m].user]
    BY <2>3
  <2>6. PICK v \in Users, m \in Nonces, b \in Addresses : v = u /\ m = n /\ b = a
    BY <1>1
  <2> HIDE DEF u, n, a
  <2>7. Custody!Link(v, m, b)
    BY <1>1, <1>3, <2>1, <2>2, <2>4, <2>5, <2>6 DEF Custody!Link, External
  <2> QED
    BY <2>7 DEF Custody!CustodyNext
<1> QED
  BY <1>2, <1>3 DEF LinkCommit, GivenBack

\* A funding commits, a signature is handed out, a challenge is issued.
LEMMA OthersRefine ==
  ASSUME WalletsInv
  PROVE  /\ \A c \in Calls : FundCommit(c) => Custody!CustodyNext
         /\ \A c \in Calls : LogSuccess(c) => [Custody!CustodyNext]_Custody!custodyVars
         /\ \A u \in Users : CreateLinkChallenge(u) => Custody!CustodyNext
<1>1. ASSUME NEW c \in Calls, FundCommit(c)
      PROVE  Custody!CustodyNext
  <2>1. calls[c].user \in Users /\ Custodial(calls[c].user)
    BY <1>1 DEF WalletsInv, CallRelies, FundCommit, Suspended
  <2>2. Custody!Fund(calls[c].user)
    BY <1>1, <2>1 DEF FundCommit, Custodial, Custody!Fund
  <2> QED
    BY <2>1, <2>2 DEF Custody!CustodyNext
<1>2. ASSUME NEW c \in Calls, LogSuccess(c)
      PROVE  [Custody!CustodyNext]_Custody!custodyVars
  <2>1. calls[c].user \in Users /\ keys[calls[c].user] # None
    BY <1>2 DEF WalletsInv, CallRelies, LogSuccess, Suspended
  <2>2. CASE signed' = signed
    BY <1>2, <2>2, UnseenStep DEF LogSuccess
  <2>3. CASE signed' = [signed EXCEPT ![calls[c].user] = @ + 1]
    <3>1. Custody!Sign(calls[c].user)
      BY <1>2, <2>1, <2>3 DEF LogSuccess, Custody!Sign
    <3> QED
      BY <2>1, <3>1 DEF Custody!CustodyNext
  <2> QED
    BY <1>2, <2>2, <2>3 DEF LogSuccess
<1>3. ASSUME NEW u \in Users, CreateLinkChallenge(u)
      PROVE  Custody!CustodyNext
  <2>1. PICK n \in Nonces :
          /\ challenges[n] = NoChallenge
          /\ challenges' = [challenges EXCEPT ![n].user = u]
    BY <1>3 DEF CreateLinkChallenge
  <2>2. /\ challenges[n].user = None
        /\ challenges \in [Nonces -> Challenge]
    BY <2>1 DEF WalletsInv, WalletsTypeOK, NoChallenge
  <2>3. /\ challenges'[n].user = u
        /\ challenges'[n].consumed = challenges[n].consumed
        /\ \A m \in Nonces \ {n} : challenges'[m] = challenges[m]
    BY <2>1, <2>2 DEF Challenge
  <2>4. [m \in Nonces |-> challenges'[m].user] =
          [[m \in Nonces |-> challenges[m].user] EXCEPT ![n] = u]
    BY <2>3
  <2>5. {m \in Nonces : challenges'[m].consumed} = {m \in Nonces : challenges[m].consumed}
    BY <2>3
  <2>6. Custody!Issue(u, n)
    BY <1>3, <2>2, <2>4, <2>5 DEF CreateLinkChallenge, Custody!Issue
  <2> QED
    BY <2>6 DEF Custody!CustodyNext
<1> QED
  BY <1>1, <1>2, <1>3

\* Nothing else is seen of a step.
LEMMA UnseenSteps ==
  ASSUME WalletsInv
  PROVE  /\ \A c \in Calls :
              \/ Begin(c) \/ InsertAccount(c) \/ ProvisionKeypair(c) \/ RereadWinner(c)
              \/ FindAccount(c) \/ Decrypt(c) \/ LogFailure(c) \/ Rollback(c)
              \/ Respond(c)
              => UNCHANGED Custody!custodyVars
         /\ \A n \in Nonces : ChallengeExpires(n) => UNCHANGED Custody!custodyVars
<1>1. ASSUME UNCHANGED <<accounts, keys, challenges, credits, signed>>
      PROVE  UNCHANGED Custody!custodyVars
  BY <1>1, UnseenStep
<1>2. ASSUME NEW n \in Nonces, ChallengeExpires(n)
      PROVE  UNCHANGED Custody!custodyVars
  <2>1. \A m \in Nonces : /\ challenges'[m].user = challenges[m].user
                          /\ challenges'[m].consumed = challenges[m].consumed
    BY <1>2 DEF ChallengeExpires, WalletsInv, WalletsTypeOK, Challenge
  <2> QED
    BY <1>2, <2>1, UnseenStep DEF ChallengeExpires
<1> QED
  BY <1>1, <1>2 DEF Begin, ProvisionStart, ClaimChallenge, FundStart, SignStart,
     InsertAccount, ProvisionKeypair, RereadWinner, FindAccount, Decrypt,
     LogFailure, Rollback, Respond, tables

\* The initial states map to the initial states.
LEMMA InitRefines == Init => Custody!CustodyInit
<1> SUFFICES ASSUME Init PROVE Custody!CustodyInit
  OBVIOUS
<1>1. /\ [n \in Nonces |-> challenges[n].user] = [n \in Nonces |-> None]
      /\ {n \in Nonces : challenges[n].consumed} = {}
  BY DEF Init, NoChallenge
<1> QED
  BY <1>1 DEF Init, NoAccount, Custody!CustodyInit

\* Every step maps to a step or to a stutter.
LEMMA StepRefines ==
  WalletsInv /\ [Next]_vars => [Custody!CustodyNext]_Custody!custodyVars
<1> SUFFICES ASSUME WalletsInv, [Next]_vars
             PROVE  Custody!CustodyNext \/ UNCHANGED Custody!custodyVars
  OBVIOUS
<1>1. ASSUME NEW c \in Calls, Begin(c) \/ Continue(c) \/ Rollback(c) \/ Respond(c)
      PROVE  Custody!CustodyNext \/ UNCHANGED Custody!custodyVars
  <2>1. CASE ProvisionCommit(c) \/ LinkCommit(c) \/ FundCommit(c) \/ LogSuccess(c)
    BY <2>1, ProvisionRefines, LinkRefines, OthersRefine
  <2>2. CASE ~(ProvisionCommit(c) \/ LinkCommit(c) \/ FundCommit(c) \/ LogSuccess(c))
    BY <1>1, <2>2, UnseenSteps DEF Continue
  <2> QED
    BY <2>1, <2>2
<1>2. CASE UNCHANGED vars
  BY <1>2, UnseenStep DEF vars
<1>3. CASE \/ \E u \in Users : CreateLinkChallenge(u)
           \/ \E n \in Nonces : ChallengeExpires(n)
  BY <1>3, OthersRefine, UnseenSteps
<1> QED
  BY <1>1, <1>2, <1>3 DEF Next

\* However calls overlap, wait and are rolled back, the wallets module keeps
\* the promises of WalletCustody.
THEOREM CustodyIsKept == Spec => ImplementsCustody
BY StepRefines, InitRefines, AlwaysInv, PTL DEF Spec, ImplementsCustody, Custody!CustodySpec

(***************************************************************************)
(* What no step may do, as WalletCustody allows no such step either.       *)
(***************************************************************************)

\* Whichever calls overlap, a key is never replaced (uq_wallet_accounts_user_id).
THEOREM KeysAreFinal == Spec => KeyIsFinal
<1>1. WalletsInv /\ [Next]_vars
      => [\A u \in Users : keys[u] # None => keys'[u] = keys[u]]_vars
  <2> SUFFICES ASSUME WalletsInv, [Next]_vars, NEW u \in Users, keys[u] # None
               PROVE  keys'[u] = keys[u]
    OBVIOUS
  <2>1. [Custody!CustodyNext]_Custody!custodyVars
    BY StepRefines
  <2>2. CASE UNCHANGED Custody!custodyVars
    BY <2>2 DEF Custody!custodyVars
  <2>3. CASE Custody!CustodyNext
    <3>1. ASSUME NEW v \in Users, NEW k \in Keypair, Custody!Provision(v, k)
          PROVE  keys'[u] = keys[u]
      <4>1. ~HasAccount(v)
        BY <3>1, AccountCases DEF Custody!Provision, WalletsInv, Custodial, Linked
      <4>2. v # u
        BY <4>1 DEF WalletsInv, KeysAreKept
      <4> QED
        BY <3>1, <4>2 DEF Custody!Provision, WalletsInv, WalletsTypeOK
    <3> QED
      BY <2>3, <3>1 DEF Custody!CustodyNext, Custody!Issue, Custody!Link,
         Custody!Fund, Custody!Sign
  <2> QED
    BY <2>1, <2>2, <2>3
<1> QED
  BY <1>1, AlwaysInv, PTL DEF Spec, KeyIsFinal

\* Whichever calls overlap, a linked wallet stays the one that was linked.
THEOREM LinksAreFinal == Spec => ExternalIsFinal
<1>1. WalletsInv /\ [Next]_vars
      => [\A u \in Users : Linked(u) => accounts'[u] = accounts[u]]_vars
  <2> SUFFICES ASSUME WalletsInv, [Next]_vars, NEW u \in Users, Linked(u)
               PROVE  accounts'[u] = accounts[u]
    OBVIOUS
  <2>1. [Custody!CustodyNext]_Custody!custodyVars
    BY StepRefines
  <2>2. CASE UNCHANGED Custody!custodyVars
    BY <2>2 DEF Custody!custodyVars
  <2>3. CASE Custody!CustodyNext
    <3>1. accounts[u] = [custody |-> "EXTERNAL", address |-> accounts[u].address]
          /\ WalletsTypeOK
      BY AccountCases DEF WalletsInv
    <3>2. ASSUME NEW v \in Users, NEW k \in Keypair, Custody!Provision(v, k)
          PROVE  accounts'[u] = accounts[u]
      <4>1. v # u
        BY <3>2 DEF Custody!Provision, Linked
      <4> QED
        BY <3>1, <3>2, <4>1 DEF Custody!Provision, WalletsTypeOK
    <3>3. ASSUME NEW v \in Users, NEW n \in Nonces, NEW a \in Addresses,
                 Custody!Link(v, n, a)
          PROVE  accounts'[u] = accounts[u]
      BY <3>1, <3>3 DEF Custody!Link, WalletsTypeOK, Linked
    <3> QED
      BY <2>3, <3>2, <3>3 DEF Custody!CustodyNext, Custody!Issue, Custody!Fund,
         Custody!Sign
  <2> QED
    BY <2>1, <2>2, <2>3
<1> QED
  BY <1>1, AlwaysInv, PTL DEF Spec, ExternalIsFinal

\* Whichever calls overlap, a credit is booked on a custodial wallet only.
THEOREM CreditsAreCustodial == Spec => CreditsOnlyCustodial
<1>1. WalletsInv /\ [Next]_vars
      => [\A u \in Users : credits'[u] # credits[u] => Custodial(u)]_vars
  <2> SUFFICES ASSUME WalletsInv, [Next]_vars, NEW u \in Users, credits'[u] # credits[u]
               PROVE  Custodial(u)
    OBVIOUS
  <2>1. [Custody!CustodyNext]_Custody!custodyVars
    BY StepRefines
  <2>2. CASE UNCHANGED Custody!custodyVars
    BY <2>2 DEF Custody!custodyVars
  <2>3. CASE Custody!CustodyNext
    <3>1. PICK v \in Users : Custody!Fund(v)
      BY <2>3 DEF Custody!CustodyNext, Custody!Provision, Custody!Issue,
         Custody!Link, Custody!Sign
    <3>2. v = u
      BY <3>1 DEF Custody!Fund, WalletsInv, WalletsTypeOK
    <3> QED
      BY <3>1, <3>2 DEF Custody!Fund, Custodial
  <2> QED
    BY <2>1, <2>2, <2>3
<1> QED
  BY <1>1, AlwaysInv, PTL DEF Spec, CreditsOnlyCustodial

(***************************************************************************)
(* Nobody waits for somebody who waits.                                    *)
(***************************************************************************)

\* Call c holds an account of its own user only, and a challenge only while it
\* links with it.
HoldsItsOwn(c) ==
  /\ \A u \in Users : userLock[u] = c => u = calls[c].user
  /\ \A n \in Nonces :
       nonceLock[n] = c => calls[c].at \in {"upsert", "write"} /\ calls[c].nonce = n

LocksInv == WalletsInv /\ \A c \in Calls : HoldsItsOwn(c)

\* A call that is answered, or that is where it holds nothing and moves on.
LEMMA HoldsNothingNow ==
  ASSUME LocksInv, NEW c \in Calls
  PROVE  /\ ReleaseLocks(c) => HoldsItsOwn(c)'
         /\ /\ calls[c].at \notin {"keypair", "commit", "upsert", "write", "fund"}
            /\ UNCHANGED <<userLock, nonceLock>>
            => HoldsItsOwn(c)'
<1>1. CallRelies(c) /\ HoldsItsOwn(c) /\ WalletsTypeOK /\ None \notin Calls
  BY WalletsAssumption DEF LocksInv, WalletsInv
<1>2. ReleaseLocks(c) => HoldsItsOwn(c)'
  BY <1>1 DEF WalletsTypeOK, ReleaseLocks, HoldsItsOwn
<1>3. calls[c].at \notin {"keypair", "commit", "upsert", "write", "fund"} =>
        /\ \A u \in Users : userLock[u] # c
        /\ \A n \in Nonces : nonceLock[n] # c
  BY <1>1 DEF CallRelies, HoldsNoAccount, HoldsItsOwn
<1> QED
  BY <1>2, <1>3 DEF HoldsItsOwn

\* A step of call c, which moves no other call and no lock of another call,
\* keeps the invariant if c holds only its own then.
LEMMA HoldsStep ==
  ASSUME LocksInv, WalletsInv', NEW c \in Calls, NEW call \in Call, GoTo(c, call),
         OthersHold(c), HoldsItsOwn(c)'
  PROVE  LocksInv'
<1>1. ASSUME NEW d \in Calls \ {c}
      PROVE  HoldsItsOwn(d)'
  <2>1. calls'[d] = calls[d] /\ HoldsItsOwn(d)
    BY GoToMoves DEF LocksInv, WalletsInv
  <2> QED
    BY <2>1 DEF OthersHold, HoldsItsOwn
<1> QED
  BY <1>1 DEF LocksInv

\* The steps at whose end a call holds nothing: it answers and releases, or it
\* was where it held nothing.
LEMMA LooseSteps ==
  ASSUME LocksInv, WalletsInv', NEW c \in Calls,
         \/ Rollback(c) \/ Respond(c) \/ ProvisionStart(c) \/ SignStart(c)
         \/ ProvisionCommit(c) \/ RereadWinner(c) \/ LinkCommit(c) \/ FundCommit(c)
         \/ Decrypt(c) \/ LogSuccess(c) \/ LogFailure(c)
  PROVE  LocksInv'
<1>1. WalletsTypeOK /\ WalletsTypeOK'
  BY DEF LocksInv, WalletsInv
<1>2. \E call : GoTo(c, call)
  BY DEF Rollback, Respond, ProvisionStart, SignStart, ProvisionCommit, RereadWinner,
         LinkCommit, FundCommit, Decrypt, LogSuccess, LogFailure
<1>3. PICK call \in Call : GoTo(c, call)
  <2>1. PICK call : calls' = [calls EXCEPT ![c] = call]
    BY <1>2 DEF GoTo
  <2>2. calls'[c] = call /\ calls'[c] \in Call
    BY <1>1, <2>1 DEF WalletsTypeOK
  <2> QED
    BY <2>1, <2>2 DEF GoTo
<1>4. CASE Rollback(c) \/ ProvisionCommit(c) \/ LinkCommit(c) \/ FundCommit(c)
  <2>1. ReleaseLocks(c)
    BY <1>4 DEF Rollback, ProvisionCommit, LinkCommit, FundCommit
  <2>2. HoldsItsOwn(c)' /\ OthersHold(c)
    BY <1>1, <2>1, HoldsNothingNow, LocksOfOthers
  <2> QED
    BY <1>3, <2>2, HoldsStep
<1>5. CASE \/ Respond(c) \/ ProvisionStart(c) \/ SignStart(c) \/ RereadWinner(c)
           \/ Decrypt(c) \/ LogSuccess(c) \/ LogFailure(c)
  <2>1. /\ UNCHANGED <<userLock, nonceLock>>
        /\ calls[c].at \in {"done", "idle", "reread", "decrypt", "log_success",
                            "log_failure"}
    BY <1>5 DEF Respond, ProvisionStart, SignStart, RereadWinner, Decrypt, LogSuccess,
       LogFailure, Suspended, Start
  <2>2. HoldsItsOwn(c)' /\ OthersHold(c)
    BY <1>1, <2>1, HoldsNothingNow, LocksOfOthers
  <2> QED
    BY <1>3, <2>2, HoldsStep
<1> QED
  BY <1>4, <1>5

\* The steps that take a lock, and the one that goes on with it.
LEMMA LockingSteps ==
  ASSUME LocksInv, WalletsInv', NEW c \in Calls,
         \/ InsertAccount(c) \/ ProvisionKeypair(c) \/ ClaimChallenge(c)
         \/ FindAccount(c) \/ FundStart(c)
  PROVE  LocksInv'
<1>1. /\ WalletsTypeOK /\ CallRelies(c) /\ HoldsItsOwn(c)
      /\ userLock \in [Users -> Calls \cup {None}]
      /\ nonceLock \in [Nonces -> Calls \cup {None}]
  BY DEF LocksInv, WalletsInv, WalletsTypeOK
<1> DEFINE u == calls[c].user
<1>2. CASE InsertAccount(c)
  <2>1. PICK label \in {"reread", "keypair"} :
          /\ GoTo(c, At(calls[c], label))
          /\ \/ UNCHANGED userLock
             \/ Free(userLock, u, c) /\ userLock' = [userLock EXCEPT ![u] = c]
    BY <1>2 DEF InsertAccount
  <2>2. u \in Users /\ UNCHANGED nonceLock /\ HoldsNoAccount(c)
        /\ \A n \in Nonces : nonceLock[n] # c
    BY <1>1, <1>2 DEF InsertAccount, Suspended, CallRelies, HoldsItsOwn
  <2>3. At(calls[c], label) \in Call /\ calls'[c].user = u
    BY <1>1, <2>1, CallFields, GoToMoves DEF Labels
  <2>4. OthersHold(c)
    BY <1>1, <2>1, <2>2, LocksOfOthers
  <2>5. HoldsItsOwn(c)'
    BY <1>1, <2>1, <2>2, <2>3 DEF HoldsItsOwn, HoldsNoAccount
  <2> QED
    BY <2>1, <2>3, <2>4, <2>5, HoldsStep
<1>3. CASE ProvisionKeypair(c)
  <2> DEFINE call == [calls[c] EXCEPT !.at = "commit", !.key = <<u, c>>]
  <2>1. GoTo(c, call) /\ UNCHANGED <<userLock, nonceLock>> /\ u \in Users
    BY <1>1, <1>3 DEF ProvisionKeypair, Suspended, CallRelies
  <2>2. \A n \in Nonces : nonceLock[n] # c
    BY <1>1, <1>3 DEF ProvisionKeypair, Suspended, HoldsItsOwn
  <2>3. call \in Call /\ call.user = u
    <3>1. calls[c] \in Call /\ <<u, c>> \in Keypair
      BY <1>1, <2>1, CallFields DEF Keypair
    <3> QED
      BY <3>1 DEF Call, Labels
  <2> HIDE DEF call
  <2>4. calls'[c].user = u
    BY <1>1, <2>1, <2>3, GoToMoves
  <2>5. OthersHold(c)
    BY <1>1, <2>1, LocksOfOthers
  <2>6. HoldsItsOwn(c)'
    BY <1>1, <2>1, <2>2, <2>4 DEF HoldsItsOwn
  <2> QED
    BY <2>1, <2>3, <2>5, <2>6, HoldsStep
<1>4. CASE ClaimChallenge(c)
  <2>1. PICK v \in Users, n \in Nonces, a \in Addresses :
          /\ LockChallenge(n, c)
          /\ GoTo(c, [IdleCall EXCEPT !.at = "upsert", !.user = v, !.nonce = n,
                                      !.address = a])
    BY <1>4 DEF ClaimChallenge
  <2> DEFINE call == [IdleCall EXCEPT !.at = "upsert", !.user = v, !.nonce = n,
                                      !.address = a]
  <2>2. /\ UNCHANGED userLock
        /\ \A w \in Users : userLock[w] # c
        /\ \A m \in Nonces : nonceLock[m] # c
    BY <1>1, <1>4
    DEF ClaimChallenge, Start, Suspended, CallRelies, HoldsNoAccount, HoldsItsOwn
  <2>3. call \in Call /\ call.at = "upsert" /\ call.nonce = n
    BY DEF IdleCall, Call, Labels, Replies
  <2>4. GoTo(c, call)
    BY <2>1
  <2> HIDE DEF call
  <2>5. calls'[c].at = "upsert" /\ calls'[c].nonce = n
    BY <1>1, <2>3, <2>4, GoToMoves
  <2>6. OthersHold(c)
    BY <1>1, <2>1, <2>2, LocksOfOthers
  <2>7. HoldsItsOwn(c)'
    BY <1>1, <2>1, <2>2, <2>5 DEF HoldsItsOwn, LockChallenge
  <2> QED
    BY <2>3, <2>4, <2>6, <2>7, HoldsStep
<1>5. CASE FindAccount(c)
  <2>1. u \in Users /\ calls[c].at = "upsert"
    BY <1>1, <1>5 DEF FindAccount, Suspended, CallRelies
  <2>2. CASE ReleaseLocks(c)
    <3>1. HoldsItsOwn(c)' /\ OthersHold(c)
      BY <1>1, <2>2, HoldsNothingNow, LocksOfOthers
    <3>2. \E call : GoTo(c, call)
      BY <1>5 DEF FindAccount
    <3>3. PICK call \in Call : GoTo(c, call)
      <4>1. PICK call : calls' = [calls EXCEPT ![c] = call]
        BY <3>2 DEF GoTo
      <4>2. calls'[c] = call /\ calls'[c] \in Call
        BY <1>1, <4>1 DEF WalletsInv, WalletsTypeOK
      <4> QED
        BY <4>1, <4>2 DEF GoTo
    <3> QED
      BY <3>1, <3>3, HoldsStep
  <2>3. CASE /\ GoTo(c, At(calls[c], "write"))
             /\ UNCHANGED nonceLock
             /\ \/ UNCHANGED userLock
                \/ Free(userLock, u, c) /\ userLock' = [userLock EXCEPT ![u] = c]
    <3>1. /\ At(calls[c], "write") \in Call
          /\ calls'[c].at = "write" /\ calls'[c].user = u
          /\ calls'[c].nonce = calls[c].nonce
      BY <1>1, <2>3, CallFields, GoToMoves DEF Labels
    <3>2. OthersHold(c)
      BY <1>1, <2>1, <2>3, LocksOfOthers
    <3>3. HoldsItsOwn(c)'
      BY <1>1, <2>1, <2>3, <3>1 DEF HoldsItsOwn
    <3> QED
      BY <2>3, <3>1, <3>2, <3>3, HoldsStep
  <2> QED
    BY <1>5, <2>2, <2>3 DEF FindAccount
<1>6. CASE FundStart(c)
  <2>1. PICK v \in Users :
          /\ LockAccount(v, c)
          /\ GoTo(c, [IdleCall EXCEPT !.at = "fund", !.user = v])
    BY <1>6 DEF FundStart
  <2> DEFINE call == [IdleCall EXCEPT !.at = "fund", !.user = v]
  <2>2. /\ UNCHANGED nonceLock
        /\ \A w \in Users : userLock[w] # c
        /\ \A m \in Nonces : nonceLock[m] # c
    BY <1>1, <1>6
    DEF FundStart, Start, Suspended, CallRelies, HoldsNoAccount, HoldsItsOwn
  <2>3. call \in Call /\ call.user = v
    BY DEF IdleCall, Call, Labels, Replies
  <2>4. GoTo(c, call)
    BY <2>1
  <2> HIDE DEF call
  <2>5. calls'[c].user = v
    BY <1>1, <2>3, <2>4, GoToMoves
  <2>6. OthersHold(c)
    BY <1>1, <2>1, <2>2, LocksOfOthers DEF LockAccount
  <2>7. HoldsItsOwn(c)'
    BY <1>1, <2>1, <2>2, <2>5 DEF HoldsItsOwn, LockAccount
  <2> QED
    BY <2>3, <2>4, <2>6, <2>7, HoldsStep
<1> QED
  BY <1>2, <1>3, <1>4, <1>5, <1>6

LEMMA LocksInit == Init => LocksInv
<1> SUFFICES ASSUME Init PROVE LocksInv
  OBVIOUS
<1>1. /\ \A u \in Users : userLock[u] = None
      /\ \A n \in Nonces : nonceLock[n] = None
      /\ None \notin Calls
  BY WalletsAssumption DEF Init
<1> QED
  BY <1>1, InitInv DEF LocksInv, HoldsItsOwn

LEMMA LocksStep == LocksInv /\ [Next]_vars => LocksInv'
<1> SUFFICES ASSUME LocksInv, [Next]_vars PROVE LocksInv'
  OBVIOUS
<1>1. WalletsInv'
  BY StepInv DEF LocksInv
<1>2. ASSUME UNCHANGED <<userLock, nonceLock, calls>>
      PROVE  LocksInv'
  BY <1>1, <1>2 DEF LocksInv, HoldsItsOwn
<1>3. CASE \/ UNCHANGED vars
           \/ \E u \in Users : CreateLinkChallenge(u)
           \/ \E n \in Nonces : ChallengeExpires(n)
  BY <1>2, <1>3 DEF vars, CreateLinkChallenge, ChallengeExpires
<1>4. ASSUME NEW c \in Calls, Begin(c) \/ Continue(c) \/ Rollback(c) \/ Respond(c)
      PROVE  LocksInv'
  BY <1>1, <1>4, LooseSteps, LockingSteps DEF Begin, Continue
<1> QED
  BY <1>3, <1>4 DEF Next

\* However many calls provision, link and fund, there is no deadlock: whoever
\* waits, waits for a call that waits for nobody and is about to commit or to
\* roll back.  (That the database then lets it go on is a matter of fairness.)
THEOREM WaitsAreShort == Spec => []WaitingIsShort
<1>1. LocksInv => WaitingIsShort
  <2> SUFFICES ASSUME LocksInv PROVE WaitingIsShort
    OBVIOUS
  <2>1. ASSUME NEW c \in Calls, NEW d \in Calls, WaitsFor(c, d)
        PROVE  /\ calls[d].at \in {"keypair", "commit", "write", "fund"}
               /\ \A e \in Calls : ~WaitsFor(d, e)
    <3>1. PICK u \in Users : userLock[u] = d
      BY <2>1 DEF WaitsFor
    <3>2. calls[d].at \in {"keypair", "commit", "write", "fund"}
      BY <3>1 DEF LocksInv, WalletsInv, CallRelies, HoldsNoAccount
    <3>3. u = calls[d].user
      BY <3>1 DEF LocksInv, HoldsItsOwn
    <3> QED
      BY <3>1, <3>2, <3>3 DEF WaitsFor
  <2> QED
    BY <2>1 DEF WaitingIsShort, LocksInv, HoldsItsOwn
<1> QED
  BY <1>1, LocksInit, LocksStep, PTL DEF Spec
==============================================================================
