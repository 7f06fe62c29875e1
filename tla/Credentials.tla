----------------------------- MODULE Credentials -----------------------------
(***************************************************************************)
(* The token cache of one Credentials object in the client credentials     *)
(* flow (src/credentials/credentials.ts:104-247): concurrent calls of      *)
(* getAccessTokenHeader share the pair accessToken / accessTokenExpiryDate *)
(* and nothing keeps two of them from exchanging credentials at once.      *)
(*                                                                         *)
(* Every caller makes one call.  The token issuer and the network are the  *)
(* environment: the issuer answers an attempt when it likes with a token   *)
(* of a lifetime of its choice, and the answer may travel for any time, be *)
(* lost, or be a failure.  The waits between the attempts of an exchange   *)
(* are left out; HttpRequest has them.                                     *)
(***************************************************************************)
EXTENDS SdkErrors, Sequences

CONSTANTS
  Caller,        \* the calls of getAccessTokenHeader
  MaxTime,       \* bound on the clock, for model checking
  Lifetimes,     \* the expires_in the issuer gives; 0 stands for an answer that
                 \* lacks it or access_token, and so never counts as live
  Failures,      \* the failures an exchange can meet
  MaxRetry,      \* retries of an exchange: 3 in the code
  Unset          \* undefined

ASSUME CredentialsAssumption ==
  /\ MaxTime \in Nat
  /\ Lifetimes \subseteq Nat
  /\ Failures \subseteq Failure /\ Answered \notin Failures
  /\ MaxRetry \in Nat

\* A token as the issuer knows it.
Token == [by : Caller, issuedAt : Nat, life : Lifetimes]
ASSUME UnsetAssumption == Unset \notin Token \cup Int \cup [token : Token, at : Nat]

VARIABLES
  now,                   \* the time, the same for client and issuer
  accessToken,           \* the two fields of the Credentials object
  accessTokenExpiryDate,
  pc,                    \* where each caller is in its code
  attempts,              \* attempts its exchange has made
  wire,                  \* the issuer's answer on its way to the caller
  askedAt,               \* when the caller started an exchange
  handed,                \* what it was given, and when
  failure,               \* what it was rejected with
  receipts               \* the tokens received so far, oldest first, each with
                         \* its time and the exchanges then under way (history)

vars == <<now, accessToken, accessTokenExpiryDate, pc, attempts, wire, askedAt,
          handed, failure, receipts>>
cache == <<accessToken, accessTokenExpiryDate>>

PC == {"idle", "building", "exchanging", "served", "failed"}
Refreshing(c) == pc[c] \in {"building", "exchanging"}

-----------------------------------------------------------------------------
\* The clock of the issuer: when a token really ends.
IssuerExpiry(token) == token.issuedAt + token.life

\* Mutant: the date of the first token is kept.
DateOfFirst(token) ==
  IF accessTokenExpiryDate = Unset THEN now + token.life ELSE accessTokenExpiryDate

\* new Date(Date.now() + expires_in * 1000), evaluated when the answer arrives.
ExpiryOnReceipt(token) == now + token.life

\* Mutant: a token is used as long as there is one.
AnyCachedToken == accessToken # Unset

\* The condition of getAccessTokenValue for using the cache.
CachedTokenIsLive == accessToken # Unset /\ accessTokenExpiryDate > now

Init ==
  /\ now = 0
  /\ accessToken = Unset
  /\ accessTokenExpiryDate = Unset
  /\ pc       = [c \in Caller |-> "idle"]
  /\ attempts = [c \in Caller |-> 0]
  /\ wire     = [c \in Caller |-> Unset]
  /\ askedAt  = [c \in Caller |-> Unset]
  /\ handed   = [c \in Caller |-> Unset]
  /\ failure  = [c \in Caller |-> NoError]
  /\ receipts = <<>>

Tick ==
  /\ now < MaxTime
  /\ now' = now + 1
  /\ UNCHANGED <<cache, pc, attempts, wire, askedAt, handed, failure, receipts>>

\* getAccessTokenValue finds a token it may use.
UseCache(c) ==
  /\ pc[c] = "idle"
  /\ CachedTokenIsLive
  /\ pc'     = [pc EXCEPT ![c] = "served"]
  /\ handed' = [handed EXCEPT ![c] = [token |-> accessToken, at |-> now]]
  /\ UNCHANGED <<now, cache, attempts, wire, askedAt, failure, receipts>>

\* It does not: refreshAccessToken starts building its request.
StartRefresh(c) ==
  /\ pc[c] = "idle"
  /\ ~CachedTokenIsLive
  /\ pc'      = [pc EXCEPT ![c] = "building"]
  /\ askedAt' = [askedAt EXCEPT ![c] = now]
  /\ UNCHANGED <<now, cache, attempts, wire, handed, failure, receipts>>

\* buildClientAuthenticationPayload is done (it signs an assertion) ...
SendExchange(c) ==
  /\ pc[c] = "building"
  /\ pc'       = [pc EXCEPT ![c] = "exchanging"]
  /\ attempts' = [attempts EXCEPT ![c] = 1]
  /\ UNCHANGED <<now, cache, wire, askedAt, handed, failure, receipts>>

\* ... or it threw: a signing key that cannot be imported.
BuildFails(c) ==
  /\ pc[c] = "building"
  /\ pc'      = [pc EXCEPT ![c] = "failed"]
  /\ failure' = [failure EXCEPT ![c] = ErrorOf("Error")]
  /\ UNCHANGED <<now, cache, attempts, wire, askedAt, handed, receipts>>

\* The issuer issues a token; the answer is on its way.
Issue(c) ==
  /\ pc[c] = "exchanging"
  /\ wire[c] = Unset
  /\ \E l \in Lifetimes :
       wire' = [wire EXCEPT ![c] = [by |-> c, issuedAt |-> now, life |-> l]]
  /\ UNCHANGED <<now, cache, pc, attempts, askedAt, handed, failure, receipts>>

Receipt(c) ==
  [token |-> wire[c], at |-> now, overlapping |-> {d \in Caller \ {c} : Refreshing(d)}]

\* return this.accessToken, which has just been assigned.
ReturnedToken(c) == wire[c]

\* The answer arrives: both fields are set, and returned, without a wait in between.
Receive(c) ==
  /\ pc[c] = "exchanging"
  /\ wire[c] # Unset
  /\ accessToken'           = wire[c]
  /\ accessTokenExpiryDate' = ExpiryOnReceipt(wire[c])
  /\ receipts' = Append(receipts, Receipt(c))
  /\ handed'   = [handed EXCEPT ![c] = [token |-> ReturnedToken(c), at |-> now]]
  /\ pc'       = [pc EXCEPT ![c] = "served"]
  /\ wire'     = [wire EXCEPT ![c] = Unset]
  /\ UNCHANGED <<now, attempts, askedAt, failure>>

\* The attempt fails, its answer lost if there was one, and is repeated.
Retry(c, err) ==
  /\ pc[c] = "exchanging"
  /\ CheckIfRetryableError(err, attempts[c], MaxRetry)
  /\ attempts' = [attempts EXCEPT ![c] = @ + 1]
  /\ wire'     = [wire EXCEPT ![c] = Unset]
  /\ UNCHANGED <<now, cache, pc, askedAt, handed, failure, receipts>>

\* Mutant: the catch clears the cache.
ExchangeFailsAndClears(c, err) ==
  /\ pc[c] = "exchanging"
  /\ ~CheckIfRetryableError(err, attempts[c], MaxRetry)
  /\ pc'      = [pc EXCEPT ![c] = "failed"]
  /\ wire'    = [wire EXCEPT ![c] = Unset]
  /\ failure' = [failure EXCEPT ![c] = RenamedExchangeError(ErrorOf(ErrorClassOf(err)))]
  /\ accessToken' = Unset /\ accessTokenExpiryDate' = Unset
  /\ UNCHANGED <<now, attempts, askedAt, handed, receipts>>

\* The exchange fails for good: the catch of refreshAccessToken.
ExchangeFails(c, err) ==
  /\ pc[c] = "exchanging"
  /\ ~CheckIfRetryableError(err, attempts[c], MaxRetry)
  /\ pc'      = [pc EXCEPT ![c] = "failed"]
  /\ wire'    = [wire EXCEPT ![c] = Unset]
  /\ failure' = [failure EXCEPT ![c] = RenamedExchangeError(ErrorOf(ErrorClassOf(err)))]
  /\ UNCHANGED <<now, cache, attempts, askedAt, handed, receipts>>

Exchange(c) ==
  \/ Issue(c)
  \/ Receive(c)
  \/ \E err \in Failures : Retry(c, err) \/ ExchangeFails(c, err)

Next ==
  \/ Tick
  \/ \E c \in Caller :
       UseCache(c) \/ StartRefresh(c) \/ SendExchange(c) \/ BuildFails(c) \/ Exchange(c)

Spec == Init /\ [][Next]_vars
-----------------------------------------------------------------------------
Receipts == [token : Token, at : 0 .. MaxTime, overlapping : SUBSET Caller]

\* Every variable stays in its range (credentials.ts:41-42, and the locals of the
\* exchanges under way).
TypeOK ==
  /\ now \in 0 .. MaxTime
  /\ accessToken \in Token \cup {Unset}
  /\ accessTokenExpiryDate \in Nat \cup {Unset}
  /\ pc \in [Caller -> PC]
  /\ attempts \in [Caller -> 0 .. MaxRetry + 1]
  /\ wire \in [Caller -> Token \cup {Unset}]
  /\ askedAt \in [Caller -> 0 .. MaxTime \cup {Unset}]
  /\ handed \in [Caller -> [token : Token, at : 0 .. MaxTime] \cup {Unset}]
  /\ failure \in [Caller -> ErrorObject \cup {NoError}]
  /\ receipts \in Seq(Receipts)

\* The two fields always belong together: the cached token and its date come from
\* one answer, the last that arrived, whatever exchanges overlapped
\* (credentials.ts:168-169).
CacheIsLastReceipt ==
  IF receipts = <<>>
  THEN accessToken = Unset /\ accessTokenExpiryDate = Unset
  ELSE LET last == receipts[Len(receipts)]
       IN  /\ accessToken = last.token
           /\ accessTokenExpiryDate = last.at + last.token.life

\* A caller that had to wait for an exchange gets the token of its own exchange: one
\* issued after it asked, although the field it is read from is shared with
\* exchanges that started earlier and end later (credentials.ts:168, 196).
RefreshedTokenIsOwn ==
  \A c \in Caller :
    pc[c] = "served" /\ askedAt[c] # Unset =>
      handed[c].token.by = c /\ handed[c].token.issuedAt >= askedAt[c]

\* A token is never handed out longer past its end at the issuer than its answer
\* took to arrive: the client counts expires_in from the receipt
\* (credentials.ts:133, 169).
OvershootWithinLatency ==
  \A c \in Caller : pc[c] = "served" =>
    \E i \in DOMAIN receipts :
      /\ receipts[i].token = handed[c].token
      /\ LET latency == receipts[i].at - receipts[i].token.issuedAt
         IN  handed[c].at - IssuerExpiry(handed[c].token) < latency
             \/ handed[c].at = receipts[i].at

\* An answer without a usable token, which is cached and returned like any other
\* ("Bearer undefined"), reaches no caller but the one that received it, whatever
\* overlaps: the next one exchanges again (credentials.ts:121, 133, 168-169, 196).
UselessAnswerStaysWithItsCaller ==
  \A c \in Caller :
    pc[c] = "served" /\ handed[c].token.life = 0 => handed[c].token.by = c

\* An exchange starts while a received token is still live by the client's own clock
\* only if that token was overwritten by the answer of an exchange that was under
\* way when it arrived: failures, and anything else, never cost the cache a live
\* token (credentials.ts:133-137, 197-207).
LiveTokenLostOnlyToOverlap ==
  [][\A c \in Caller :
       pc[c] = "idle" /\ pc'[c] = "building" =>
         \A i \in DOMAIN receipts :
           receipts[i].at + receipts[i].token.life > now =>
             \E j \in DOMAIN receipts :
               j > i /\ receipts[j].token.by \in receipts[i].overlapping]_vars

\* What the exchanges under way know, and the live receipts are owed: the inductive
\* invariant the theorems of CredentialsProofs rest on (credentials.ts:126-208).
IdleHasNotAsked ==
  \A c \in Caller : pc[c] = "idle" => askedAt[c] = Unset
RefreshingHasAsked ==
  \A c \in Caller : Refreshing(c) => askedAt[c] \in Nat /\ askedAt[c] <= now
WireIsOwn ==
  \A c \in Caller : wire[c] # Unset =>
    /\ pc[c] = "exchanging"
    /\ wire[c].by = c
    /\ wire[c].issuedAt >= askedAt[c] /\ wire[c].issuedAt <= now
ReceiptsArePast ==
  \A i \in DOMAIN receipts : receipts[i].at <= now
LastLiveReceipt ==
  receipts # <<>> /\ CachedTokenIsLive =>
    \A c \in Caller : Refreshing(c) => c \in receipts[Len(receipts)].overlapping
EarlierLiveReceipts ==
  \A i \in DOMAIN receipts :
    i < Len(receipts) /\ receipts[i].at + receipts[i].token.life > now =>
      \E j \in DOMAIN receipts : j > i /\ receipts[j].token.by \in receipts[i].overlapping
TokenInvariant ==
  /\ TypeOK
  /\ CacheIsLastReceipt
  /\ IdleHasNotAsked
  /\ RefreshingHasAsked
  /\ WireIsOwn
  /\ ReceiptsArePast
  /\ LastLiveReceipt
  /\ EarlierLiveReceipts
  /\ RefreshedTokenIsOwn
  /\ OvershootWithinLatency
  /\ UselessAnswerStaysWithItsCaller
=============================================================================
