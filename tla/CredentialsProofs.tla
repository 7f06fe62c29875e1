-------------------------- MODULE CredentialsProofs --------------------------
(***************************************************************************)
(* Theorems about Credentials, for every number of callers, every set of   *)
(* lifetimes and of failures, and every bound on the clock.                *)
(***************************************************************************)
EXTENDS Credentials, TLAPS

-----------------------------------------------------------------------------
\* What an exchange is rejected with is an error object.
LEMMA ExchangeErrorType ==
  \A err : RenamedExchangeError(ErrorOf(ErrorClassOf(err))) \in ErrorObject
<1>1. \A err : ErrorOf(ErrorClassOf(err)) \in ErrorObject
  BY DEF ErrorClassOf, ErrorOf, ErrorObject, ErrorClass, Superclass
<1>2. \A e \in ErrorObject : RenamedExchangeError(e) \in ErrorObject
  <2>1. "FgaApiAuthenticationError" \in ErrorClass
    BY DEF ErrorClass, Superclass
  <2> QED BY <2>1 DEF RenamedExchangeError, ErrorObject
<1> QED BY <1>1, <1>2

\* A retry leaves the number of attempts within its range.
LEMMA RetryWithinBudget ==
  ASSUME NEW err, NEW n \in Nat, CheckIfRetryableError(err, n, MaxRetry)
  PROVE  n + 1 \in 0 .. MaxRetry + 1
  BY CredentialsAssumption DEF CheckIfRetryableError

\* What Token says of a token's fields.
LEMMA TokenFields ==
  ASSUME NEW t \in Token
  PROVE  t.by \in Caller /\ t.issuedAt \in Nat /\ t.life \in Nat /\ t # Unset
  BY CredentialsAssumption, UnsetAssumption DEF Token

-----------------------------------------------------------------------------
\* Type correctness is preserved by every step.
LEMMA TypeInit == Init => TypeOK
<1> SUFFICES ASSUME Init PROVE TypeOK
  OBVIOUS
<1> QED BY CredentialsAssumption DEF Init, TypeOK, PC

LEMMA TypeStep == TypeOK /\ [Next]_vars => TypeOK'
<1> SUFFICES ASSUME TypeOK, [Next]_vars PROVE TypeOK'
  OBVIOUS
<1> USE CredentialsAssumption, UnsetAssumption DEF TypeOK, PC
<1>1. CASE Tick
  BY <1>1 DEF Tick, cache
<1>2. ASSUME NEW c \in Caller, UseCache(c) PROVE TypeOK'
  <2>1. [token |-> accessToken, at |-> now] \in [token : Token, at : 0 .. MaxTime]
    BY <1>2 DEF UseCache, CachedTokenIsLive
  <2> QED BY <1>2, <2>1 DEF UseCache, cache
<1>3. ASSUME NEW c \in Caller, StartRefresh(c) PROVE TypeOK'
  BY <1>3 DEF StartRefresh, cache
<1>4. ASSUME NEW c \in Caller, SendExchange(c) PROVE TypeOK'
  BY <1>4 DEF SendExchange, cache
<1>5. ASSUME NEW c \in Caller, BuildFails(c) PROVE TypeOK'
  <2>1. ErrorOf("Error") \in ErrorObject
    BY DEF ErrorOf, ErrorObject, ErrorClass, Superclass
  <2> QED BY <1>5, <2>1 DEF BuildFails, cache
<1>6. ASSUME NEW c \in Caller, Issue(c) PROVE TypeOK'
  <2>1. PICK l \in Lifetimes : wire' = [wire EXCEPT ![c] = [by |-> c, issuedAt |-> now, life |-> l]]
    BY <1>6 DEF Issue
  <2>2. [by |-> c, issuedAt |-> now, life |-> l] \in Token
    BY DEF Token
  <2> QED BY <1>6, <2>1, <2>2 DEF Issue, cache
<1>7. ASSUME NEW c \in Caller, Receive(c) PROVE TypeOK'
  <2>1. wire[c] \in Token /\ now \in 0 .. MaxTime
    BY <1>7 DEF Receive
  <2>2. ExpiryOnReceipt(wire[c]) \in Nat
    BY <2>1, TokenFields DEF ExpiryOnReceipt
  <2>3. Receipt(c) \in Receipts
    BY <2>1 DEF Receipt, Receipts
  <2>4. [token |-> ReturnedToken(c), at |-> now] \in [token : Token, at : 0 .. MaxTime]
    BY <2>1 DEF ReturnedToken
  <2>5. receipts' \in Seq(Receipts)
    BY <1>7, <2>3 DEF Receive
  <2> QED BY <1>7, <2>1, <2>2, <2>4, <2>5 DEF Receive
<1>8. ASSUME NEW c \in Caller, NEW err \in Failures, Retry(c, err) PROVE TypeOK'
  <2>1. attempts[c] + 1 \in 0 .. MaxRetry + 1
    BY <1>8, RetryWithinBudget DEF Retry
  <2> QED BY <1>8, <2>1 DEF Retry, cache
<1>9. ASSUME NEW c \in Caller, NEW err \in Failures, ExchangeFails(c, err) PROVE TypeOK'
  BY <1>9, ExchangeErrorType DEF ExchangeFails, cache
<1>10. CASE UNCHANGED vars
  BY <1>10 DEF vars, cache
<1> QED BY <1>1, <1>2, <1>3, <1>4, <1>5, <1>6, <1>7, <1>8, <1>9, <1>10 DEF Next, Exchange

-----------------------------------------------------------------------------
\* The inductive invariant.  The cache is the last receipt; nothing but a receipt
\* changes it, and while it is live no exchange starts.

\* The elements of receipts, in the types of TypeOK.
LEMMA ReceiptFields ==
  ASSUME TypeOK, NEW i \in DOMAIN receipts
  PROVE  /\ i \in 1 .. Len(receipts) /\ Len(receipts) \in Nat
         /\ receipts[i].token \in Token
         /\ receipts[i].at \in Nat
         /\ receipts[i].overlapping \subseteq Caller
<1>1. receipts \in Seq(Receipts)
  BY DEF TypeOK
<1>2. receipts[i] \in Receipts /\ i \in 1 .. Len(receipts) /\ Len(receipts) \in Nat
  BY <1>1
<1> QED BY <1>2, CredentialsAssumption DEF Receipts

\* The last receipt is one of them.
LEMMA LastIsReceipt ==
  ASSUME TypeOK, receipts # <<>>
  PROVE  Len(receipts) \in DOMAIN receipts
<1>1. receipts \in Seq(Receipts)
  BY DEF TypeOK
<1> QED BY <1>1

LEMMA TokenInvariantInit == Init => TokenInvariant
<1> SUFFICES ASSUME Init PROVE TokenInvariant
  OBVIOUS
<1>1. TypeOK
  BY TypeInit
<1>2. CacheIsLastReceipt /\ ReceiptsArePast /\ LastLiveReceipt /\ EarlierLiveReceipts
  BY DEF Init, CacheIsLastReceipt, ReceiptsArePast, LastLiveReceipt, EarlierLiveReceipts
<1>3. IdleHasNotAsked /\ RefreshingHasAsked /\ WireIsOwn
  BY DEF Init, IdleHasNotAsked, RefreshingHasAsked, WireIsOwn, Refreshing
<1>4. RefreshedTokenIsOwn /\ OvershootWithinLatency /\ UselessAnswerStaysWithItsCaller
  BY DEF Init, RefreshedTokenIsOwn, OvershootWithinLatency, UselessAnswerStaysWithItsCaller
<1> QED BY <1>1, <1>2, <1>3, <1>4 DEF TokenInvariant

\* The steps that leave the cache, the receipts and the clock alone, and let no caller
\* start an exchange or be served, keep what the cache and the receipts are owed.
LEMMA CacheUntouched ==
  ASSUME TokenInvariant,
         UNCHANGED <<now, accessToken, accessTokenExpiryDate, receipts>>,
         \A c \in Caller : Refreshing(c)' => Refreshing(c)
  PROVE  CacheIsLastReceipt' /\ ReceiptsArePast' /\ LastLiveReceipt' /\ EarlierLiveReceipts'
<1>1. CacheIsLastReceipt'
  BY DEF TokenInvariant, CacheIsLastReceipt
<1>2. LastLiveReceipt'
  BY DEF TokenInvariant, LastLiveReceipt, CachedTokenIsLive
<1>3. ReceiptsArePast' /\ EarlierLiveReceipts'
  BY DEF TokenInvariant, ReceiptsArePast, EarlierLiveReceipts
<1> QED BY <1>1, <1>2, <1>3

\* What the callers have been given is not touched by a step that serves nobody.
LEMMA NobodyServed ==
  ASSUME TokenInvariant,
         UNCHANGED <<receipts, handed>>,
         \A c \in Caller : pc'[c] = "served" => pc[c] = "served" /\ askedAt'[c] = askedAt[c]
  PROVE  RefreshedTokenIsOwn' /\ OvershootWithinLatency' /\ UselessAnswerStaysWithItsCaller'
<1>1. RefreshedTokenIsOwn'
  BY DEF TokenInvariant, RefreshedTokenIsOwn
<1>2. OvershootWithinLatency'
  BY DEF TokenInvariant, OvershootWithinLatency, IssuerExpiry
<1>3. UselessAnswerStaysWithItsCaller'
  BY DEF TokenInvariant, UselessAnswerStaysWithItsCaller
<1> QED BY <1>1, <1>2, <1>3

\* The clock.
LEMMA TickStep == TokenInvariant /\ Tick => TokenInvariant'
<1> SUFFICES ASSUME TokenInvariant, Tick PROVE TokenInvariant'
  OBVIOUS
<1>0. TypeOK /\ TypeOK' /\ now \in Nat /\ now' = now + 1
  BY TypeStep, CredentialsAssumption DEF TokenInvariant, Tick, TypeOK, Next
<1>1. CacheIsLastReceipt'
  BY DEF TokenInvariant, Tick, cache, CacheIsLastReceipt
<1>2. LastLiveReceipt'
  <2> SUFFICES ASSUME receipts # <<>>, CachedTokenIsLive', NEW c \in Caller, Refreshing(c)
               PROVE  c \in receipts[Len(receipts)].overlapping
    BY DEF Tick, cache, LastLiveReceipt, Refreshing
  <2>1. accessTokenExpiryDate \in Int
    BY <1>0, LastIsReceipt, ReceiptFields, TokenFields DEF TokenInvariant, CacheIsLastReceipt
  <2>2. CachedTokenIsLive
    BY <1>0, <2>1 DEF CachedTokenIsLive, Tick, cache
  <2> QED BY <2>2 DEF TokenInvariant, LastLiveReceipt
<1>3. EarlierLiveReceipts'
  <2> SUFFICES ASSUME NEW i \in DOMAIN receipts, i < Len(receipts),
                      receipts[i].at + receipts[i].token.life > now'
               PROVE  \E j \in DOMAIN receipts :
                        j > i /\ receipts[j].token.by \in receipts[i].overlapping
    BY DEF Tick, EarlierLiveReceipts
  <2>1. receipts[i].at \in Nat /\ receipts[i].token.life \in Nat
    BY <1>0, ReceiptFields, TokenFields
  <2>2. receipts[i].at + receipts[i].token.life > now
    BY <1>0, <2>1
  <2> QED BY <2>2 DEF TokenInvariant, EarlierLiveReceipts
<1>4. IdleHasNotAsked' /\ RefreshingHasAsked'
  BY <1>0 DEF TokenInvariant, Tick, IdleHasNotAsked, RefreshingHasAsked, Refreshing
<1>5. WireIsOwn'
  <2> SUFFICES ASSUME NEW c \in Caller, wire[c] # Unset
               PROVE  /\ pc[c] = "exchanging" /\ wire[c].by = c
                      /\ wire[c].issuedAt >= askedAt[c] /\ wire[c].issuedAt <= now'
    BY DEF Tick, WireIsOwn
  <2>1. wire[c] \in Token
    BY <1>0 DEF TypeOK
  <2> QED BY <1>0, <2>1, TokenFields DEF TokenInvariant, WireIsOwn
<1>6. RefreshedTokenIsOwn' /\ OvershootWithinLatency' /\ UselessAnswerStaysWithItsCaller'
  BY NobodyServed DEF Tick
<1>7. ReceiptsArePast'
  <2> SUFFICES ASSUME NEW i \in DOMAIN receipts PROVE receipts[i].at <= now'
    BY DEF Tick, ReceiptsArePast
  <2> QED BY <1>0, ReceiptFields DEF TokenInvariant, ReceiptsArePast
<1> QED BY <1>0, <1>1, <1>2, <1>3, <1>4, <1>5, <1>6, <1>7 DEF TokenInvariant

\* A caller is served from the cache.
LEMMA UseCacheStep ==
  ASSUME TokenInvariant, NEW c \in Caller, UseCache(c)
  PROVE  TokenInvariant'
<1>0. TypeOK /\ TypeOK' /\ now \in Nat
  BY TypeStep, CredentialsAssumption DEF TokenInvariant, TypeOK, Next
<1>1. CacheIsLastReceipt' /\ ReceiptsArePast' /\ LastLiveReceipt' /\ EarlierLiveReceipts'
  BY <1>0, CacheUntouched DEF UseCache, cache, Refreshing, TypeOK
<1>2. IdleHasNotAsked' /\ RefreshingHasAsked' /\ WireIsOwn'
  BY <1>0 DEF TokenInvariant, UseCache, IdleHasNotAsked, RefreshingHasAsked, WireIsOwn,
              Refreshing, TypeOK
<1>3. RefreshedTokenIsOwn'
  BY <1>0 DEF TokenInvariant, UseCache, RefreshedTokenIsOwn, IdleHasNotAsked, TypeOK
<1>4. OvershootWithinLatency'
  <2> DEFINE last == receipts[Len(receipts)]
  <2>1. receipts # <<>> /\ accessToken = last.token
        /\ accessTokenExpiryDate = last.at + last.token.life
    BY DEF TokenInvariant, CacheIsLastReceipt, UseCache, CachedTokenIsLive
  <2>2. /\ Len(receipts) \in DOMAIN receipts
        /\ last.at \in Nat /\ last.token.issuedAt \in Nat /\ last.token.life \in Nat
    BY <1>0, <2>1, LastIsReceipt, ReceiptFields, TokenFields
  <2>3. last.at + last.token.life > now
    BY <2>1 DEF UseCache, CachedTokenIsLive
  <2>4. now - (last.token.issuedAt + last.token.life) < last.at - last.token.issuedAt
    BY <1>0, <2>2, <2>3
  <2>5. handed' = [handed EXCEPT ![c] = [token |-> last.token, at |-> now]]
    BY <2>1 DEF UseCache
  <2> HIDE DEF last
  <2> SUFFICES ASSUME NEW d \in Caller, pc'[d] = "served"
               PROVE  \E i \in DOMAIN receipts :
                        /\ receipts[i].token = handed'[d].token
                        /\ \/ handed'[d].at - IssuerExpiry(handed'[d].token)
                                < receipts[i].at - receipts[i].token.issuedAt
                           \/ handed'[d].at = receipts[i].at
    BY DEF UseCache, OvershootWithinLatency, IssuerExpiry
  <2>6. CASE d = c
    <3>1. handed'[d] = [token |-> last.token, at |-> now]
      BY <1>0, <2>5, <2>6 DEF TypeOK
    <3> QED BY <2>2, <2>4, <3>1 DEF last, IssuerExpiry
  <2>7. CASE d # c
    <3>1. handed'[d] = handed[d] /\ pc[d] = "served"
      BY <1>0, <2>7 DEF TypeOK, UseCache
    <3> QED BY <3>1 DEF TokenInvariant, OvershootWithinLatency
  <2> QED BY <2>6, <2>7
<1>5. UselessAnswerStaysWithItsCaller'
  <2>1. receipts # <<>> /\ accessToken = receipts[Len(receipts)].token
        /\ receipts[Len(receipts)].at + accessToken.life > now
    BY DEF TokenInvariant, CacheIsLastReceipt, UseCache, CachedTokenIsLive
  <2>2. /\ receipts[Len(receipts)].at \in Nat /\ receipts[Len(receipts)].at <= now
        /\ accessToken.life \in Nat
    BY <1>0, <2>1, LastIsReceipt, ReceiptFields, TokenFields DEF TokenInvariant, ReceiptsArePast
  <2>3. accessToken.life # 0
    BY <1>0, <2>1, <2>2
  <2>4. handed'[c].token = accessToken
    BY <1>0 DEF UseCache, TypeOK
  <2>5. \A d \in Caller : d # c => pc'[d] = pc[d] /\ handed'[d] = handed[d]
    BY <1>0 DEF UseCache, TypeOK
  <2> QED BY <2>3, <2>4, <2>5 DEF TokenInvariant, UselessAnswerStaysWithItsCaller
<1> QED BY <1>0, <1>1, <1>2, <1>3, <1>4, <1>5 DEF TokenInvariant

\* An exchange starts: the cache is not live.
LEMMA StartRefreshStep ==
  ASSUME TokenInvariant, NEW c \in Caller, StartRefresh(c)
  PROVE  TokenInvariant'
<1>0. TypeOK /\ TypeOK' /\ now \in Nat
  BY TypeStep, CredentialsAssumption DEF TokenInvariant, TypeOK, Next
<1>1. CacheIsLastReceipt' /\ ReceiptsArePast' /\ EarlierLiveReceipts'
  BY DEF TokenInvariant, StartRefresh, cache, CacheIsLastReceipt, ReceiptsArePast,
         EarlierLiveReceipts
<1>2. LastLiveReceipt'
  BY DEF StartRefresh, cache, LastLiveReceipt, CachedTokenIsLive
<1>3. IdleHasNotAsked' /\ RefreshingHasAsked'
  BY <1>0 DEF TokenInvariant, StartRefresh, IdleHasNotAsked, RefreshingHasAsked,
              Refreshing, TypeOK
<1>4. WireIsOwn'
  BY <1>0 DEF TokenInvariant, StartRefresh, WireIsOwn, TypeOK
<1>5. RefreshedTokenIsOwn' /\ OvershootWithinLatency' /\ UselessAnswerStaysWithItsCaller'
  BY <1>0, NobodyServed DEF StartRefresh, TypeOK
<1> QED BY <1>0, <1>1, <1>2, <1>3, <1>4, <1>5 DEF TokenInvariant

\* The steps of an exchange that bring no token.
LEMMA ExchangeStep ==
  ASSUME TokenInvariant, NEW c \in Caller,
         \/ SendExchange(c) \/ BuildFails(c) \/ Issue(c)
         \/ \E err \in Failures : Retry(c, err) \/ ExchangeFails(c, err)
  PROVE  TokenInvariant'
<1>0. TypeOK /\ TypeOK' /\ now \in Nat
  BY TypeStep, CredentialsAssumption, SMTT(30) DEF TokenInvariant, TypeOK, Next, Exchange
<1>1. /\ UNCHANGED <<now, accessToken, accessTokenExpiryDate, receipts, handed, askedAt>>
      /\ Refreshing(c)
      /\ \A d \in Caller : d # c => pc'[d] = pc[d] /\ wire'[d] = wire[d]
      /\ pc'[c] \in {"exchanging", "failed"}
  BY <1>0 DEF SendExchange, BuildFails, Issue, Retry, ExchangeFails, cache, Refreshing, TypeOK
<1>2. \/ wire'[c] = Unset
      \/ \E l \in Lifetimes : wire'[c] = [by |-> c, issuedAt |-> now, life |-> l] /\ pc'[c] = "exchanging"
  BY <1>0 DEF TokenInvariant, WireIsOwn, SendExchange, BuildFails, Issue, Retry,
              ExchangeFails, TypeOK
<1>3. CacheIsLastReceipt' /\ ReceiptsArePast' /\ LastLiveReceipt' /\ EarlierLiveReceipts'
  BY <1>1, CacheUntouched DEF Refreshing
<1>4. IdleHasNotAsked' /\ RefreshingHasAsked'
  BY <1>1 DEF TokenInvariant, IdleHasNotAsked, RefreshingHasAsked, Refreshing
<1>5. WireIsOwn'
  <2> SUFFICES ASSUME NEW d \in Caller, wire'[d] # Unset
               PROVE  /\ pc'[d] = "exchanging" /\ wire'[d].by = d
                      /\ wire'[d].issuedAt >= askedAt[d] /\ wire'[d].issuedAt <= now
    BY <1>1 DEF WireIsOwn
  <2>1. CASE d # c
    BY <1>1, <2>1 DEF TokenInvariant, WireIsOwn
  <2>2. CASE d = c
    <3>1. askedAt[c] \in Nat /\ askedAt[c] <= now
      BY <1>1 DEF TokenInvariant, RefreshingHasAsked
    <3>2. PICK l \in Lifetimes :
            wire'[d] = [by |-> c, issuedAt |-> now, life |-> l] /\ pc'[c] = "exchanging"
      BY <1>2, <2>2
    <3>3. wire'[d].by = c /\ wire'[d].issuedAt = now
      BY <3>2
    <3>4. now >= askedAt[c] /\ now <= now
      BY <1>0, <3>1
    <3> QED BY <2>2, <3>2, <3>3, <3>4
  <2> QED BY <2>1, <2>2
<1>6. RefreshedTokenIsOwn' /\ OvershootWithinLatency' /\ UselessAnswerStaysWithItsCaller'
  BY <1>1, NobodyServed
<1> QED BY <1>0, <1>3, <1>4, <1>5, <1>6 DEF TokenInvariant

\* A token arrives.
LEMMA ReceiveStep ==
  ASSUME TokenInvariant, NEW c \in Caller, Receive(c)
  PROVE  TokenInvariant'
<1> DEFINE n == Len(receipts)
<1>0. TypeOK /\ TypeOK' /\ now \in Nat /\ receipts \in Seq(Receipts)
  BY TypeStep, CredentialsAssumption DEF TokenInvariant, TypeOK, Next, Exchange
<1>1. wire[c] \in Token /\ Receipt(c) \in Receipts
  BY <1>0 DEF Receive, TypeOK, Receipt, Receipts
<1>2. /\ n \in Nat /\ Len(receipts') = n + 1
      /\ DOMAIN receipts = 1 .. n /\ DOMAIN receipts' = 1 .. (n + 1)
      /\ \A i \in 1 .. n : receipts'[i] = receipts[i]
      /\ receipts'[n + 1] = Receipt(c)
  BY <1>0, <1>1 DEF Receive
<1>3. /\ pc'[c] = "served" /\ \A d \in Caller : d # c => pc'[d] = pc[d]
      /\ handed'[c] = [token |-> wire[c], at |-> now]
      /\ \A d \in Caller : d # c => handed'[d] = handed[d]
      /\ wire'[c] = Unset /\ \A d \in Caller : d # c => wire'[d] = wire[d]
      /\ UNCHANGED <<now, askedAt>>
  BY <1>0 DEF Receive, ReturnedToken, TypeOK
<1> HIDE DEF n
<1>4. CacheIsLastReceipt'
  <2>1. receipts' # <<>>
    BY <1>0, <1>1 DEF Receive
  <2> QED BY <1>2, <2>1 DEF Receive, CacheIsLastReceipt, ExpiryOnReceipt, Receipt
<1>5. LastLiveReceipt'
  <2> SUFFICES ASSUME NEW d \in Caller, Refreshing(d)'
               PROVE  d \in Receipt(c).overlapping
    BY <1>2 DEF LastLiveReceipt
  <2>1. d # c /\ Refreshing(d)
    BY <1>3 DEF Refreshing
  <2> QED BY <2>1 DEF Receipt
<1>6. EarlierLiveReceipts'
  <2> SUFFICES ASSUME NEW i \in 1 .. n, receipts[i].at + receipts[i].token.life > now
               PROVE  \E j \in 1 .. (n + 1) :
                        j > i /\ receipts'[j].token.by \in receipts[i].overlapping
    BY <1>2, <1>3 DEF EarlierLiveReceipts
  <2>1. CASE i < n
    <3>1. PICK j \in 1 .. n : j > i /\ receipts[j].token.by \in receipts[i].overlapping
      BY <1>2, <2>1 DEF TokenInvariant, EarlierLiveReceipts, n
    <3> QED BY <1>2, <3>1
  <2>2. CASE i = n
    <3>1. receipts # <<>> /\ i = Len(receipts)
      BY <1>0, <1>2, <2>2 DEF n
    <3>2. CachedTokenIsLive
      BY <1>0, <1>2, <3>1, ReceiptFields, TokenFields
         DEF TokenInvariant, CacheIsLastReceipt, CachedTokenIsLive
    <3>3. Refreshing(c)
      BY DEF Receive, Refreshing
    <3>4. c \in receipts[i].overlapping
      BY <3>1, <3>2, <3>3 DEF TokenInvariant, LastLiveReceipt
    <3>5. receipts'[n + 1].token.by = c
      BY <1>2 DEF TokenInvariant, WireIsOwn, Receive, Receipt
    <3> QED BY <1>2, <2>2, <3>4, <3>5
  <2> QED BY <1>2, <2>1, <2>2
<1>7. IdleHasNotAsked' /\ RefreshingHasAsked' /\ WireIsOwn'
  BY <1>3 DEF TokenInvariant, IdleHasNotAsked, RefreshingHasAsked, WireIsOwn, Refreshing
<1>8. RefreshedTokenIsOwn'
  <2>1. wire[c].by = c /\ wire[c].issuedAt >= askedAt[c]
    BY DEF TokenInvariant, WireIsOwn, Receive
  <2> QED BY <1>3, <2>1 DEF TokenInvariant, RefreshedTokenIsOwn
<1>9. OvershootWithinLatency'
  <2> SUFFICES ASSUME NEW d \in Caller, pc'[d] = "served"
               PROVE  \E i \in 1 .. (n + 1) :
                        /\ receipts'[i].token = handed'[d].token
                        /\ \/ handed'[d].at - IssuerExpiry(handed'[d].token)
                                < receipts'[i].at - receipts'[i].token.issuedAt
                           \/ handed'[d].at = receipts'[i].at
    BY <1>2 DEF OvershootWithinLatency, IssuerExpiry
  <2>1. CASE d = c
    BY <1>2, <1>3, <2>1 DEF Receipt
  <2>2. CASE d # c
    <3>1. PICK i \in 1 .. n :
            /\ receipts[i].token = handed[d].token
            /\ \/ handed[d].at - IssuerExpiry(handed[d].token)
                    < receipts[i].at - receipts[i].token.issuedAt
               \/ handed[d].at = receipts[i].at
      BY <1>2, <1>3, <2>2 DEF TokenInvariant, OvershootWithinLatency
    <3> QED BY <1>2, <1>3, <2>2, <3>1
  <2> QED BY <2>1, <2>2
<1>10. UselessAnswerStaysWithItsCaller'
  <2>1. wire[c].by = c
    BY DEF TokenInvariant, WireIsOwn, Receive
  <2> QED BY <1>3, <2>1 DEF TokenInvariant, UselessAnswerStaysWithItsCaller
<1>11. ReceiptsArePast'
  <2> SUFFICES ASSUME NEW i \in 1 .. (n + 1) PROVE receipts'[i].at <= now
    BY <1>2, <1>3 DEF ReceiptsArePast
  <2>1. CASE i = n + 1
    BY <1>0, <1>2, <2>1 DEF Receipt
  <2>2. CASE i # n + 1
    BY <1>2, <2>2 DEF TokenInvariant, ReceiptsArePast
  <2> QED BY <2>1, <2>2
<1> QED BY <1>0, <1>4, <1>5, <1>6, <1>7, <1>8, <1>9, <1>10, <1>11 DEF TokenInvariant

LEMMA TokenInvariantStep == TokenInvariant /\ [Next]_vars => TokenInvariant'
<1> SUFFICES ASSUME TokenInvariant, [Next]_vars PROVE TokenInvariant'
  OBVIOUS
<1>1. CASE Tick
  BY <1>1, TickStep
<1>2. ASSUME NEW c \in Caller, UseCache(c) PROVE TokenInvariant'
  BY <1>2, UseCacheStep
<1>3. ASSUME NEW c \in Caller, StartRefresh(c) PROVE TokenInvariant'
  BY <1>3, StartRefreshStep
<1>4. ASSUME NEW c \in Caller,
             \/ SendExchange(c) \/ BuildFails(c) \/ Issue(c)
             \/ \E err \in Failures : Retry(c, err) \/ ExchangeFails(c, err)
      PROVE TokenInvariant'
  BY <1>4, ExchangeStep
<1>5. ASSUME NEW c \in Caller, Receive(c) PROVE TokenInvariant'
  BY <1>5, ReceiveStep
<1>6. CASE UNCHANGED vars
  <2>1. TypeOK'
    BY <1>6, TypeStep DEF TokenInvariant
  <2>2. CacheIsLastReceipt' /\ ReceiptsArePast' /\ LastLiveReceipt' /\ EarlierLiveReceipts'
    BY <1>6, CacheUntouched DEF vars, cache, Refreshing
  <2>3. IdleHasNotAsked' /\ RefreshingHasAsked' /\ WireIsOwn'
    BY <1>6 DEF TokenInvariant, vars, IdleHasNotAsked, RefreshingHasAsked, WireIsOwn, Refreshing
  <2>4. RefreshedTokenIsOwn' /\ OvershootWithinLatency' /\ UselessAnswerStaysWithItsCaller'
    BY <1>6, NobodyServed DEF vars
  <2> QED BY <2>1, <2>2, <2>3, <2>4 DEF TokenInvariant
<1> QED BY <1>1, <1>2, <1>3, <1>4, <1>5, <1>6 DEF Next, Exchange

-----------------------------------------------------------------------------
\* The inductive invariant holds in every reachable state, for every number of callers
\* (credentials.ts:126-208).
THEOREM CacheCorrect == Spec => []TokenInvariant
<1> QED BY TokenInvariantInit, TokenInvariantStep, PTL DEF Spec

\* Type correctness of the cache and of the callers' locals (credentials.ts:41-42).
THEOREM CredentialsTypeCorrect == Spec => []TypeOK
<1>1. TokenInvariant => TypeOK
  BY DEF TokenInvariant
<1> QED BY <1>1, CacheCorrect, PTL

\* The token and its date always come from one answer, the last (credentials.ts:168-169).
THEOREM CacheIsConsistent == Spec => []CacheIsLastReceipt
<1>1. TokenInvariant => CacheIsLastReceipt
  BY DEF TokenInvariant
<1> QED BY <1>1, CacheCorrect, PTL

\* A caller that waited is given the token of its own exchange (credentials.ts:168, 196).
THEOREM OwnTokenIsReturned == Spec => []RefreshedTokenIsOwn
<1>1. TokenInvariant => RefreshedTokenIsOwn
  BY DEF TokenInvariant
<1> QED BY <1>1, CacheCorrect, PTL

\* A token outlives its end at the issuer by less than its answer took to arrive
\* (credentials.ts:133, 169).
THEOREM OvershootIsBounded == Spec => []OvershootWithinLatency
<1>1. TokenInvariant => OvershootWithinLatency
  BY DEF TokenInvariant
<1> QED BY <1>1, CacheCorrect, PTL

\* An answer without a usable token is handed to nobody but the caller that received it
\* (credentials.ts:133, 168-169, 196).
THEOREM UselessAnswersAreNotShared == Spec => []UselessAnswerStaysWithItsCaller
<1>1. TokenInvariant => UselessAnswerStaysWithItsCaller
  BY DEF TokenInvariant
<1> QED BY <1>1, CacheCorrect, PTL

\* A live token is lost to nothing but an exchange that was under way when it arrived
\* (credentials.ts:133-137, 197-207).
THEOREM LiveTokensAreKept == Spec => LiveTokenLostOnlyToOverlap
<1>1. TokenInvariant /\ [Next]_vars =>
        [\A c \in Caller :
           pc[c] = "idle" /\ pc'[c] = "building" =>
             \A i \in DOMAIN receipts :
               receipts[i].at + receipts[i].token.life > now =>
                 \E j \in DOMAIN receipts :
                   j > i /\ receipts[j].token.by \in receipts[i].overlapping]_vars
  <2> SUFFICES ASSUME TokenInvariant, Next,
                      NEW c \in Caller, pc[c] = "idle", pc'[c] = "building",
                      NEW i \in DOMAIN receipts,
                      receipts[i].at + receipts[i].token.life > now
               PROVE  \E j \in DOMAIN receipts :
                        j > i /\ receipts[j].token.by \in receipts[i].overlapping
    OBVIOUS
  <2>1. TypeOK
    BY DEF TokenInvariant
  <2>2. StartRefresh(c)
    BY <2>1 DEF TypeOK, Next, Exchange, Tick, UseCache, StartRefresh, SendExchange,
                BuildFails, Issue, Receive, Retry, ExchangeFails
  <2>3. i \in 1 .. Len(receipts) /\ Len(receipts) \in Nat /\ receipts # <<>>
    BY <2>1, ReceiptFields DEF TypeOK
  <2>4. i # Len(receipts)
    <3> SUFFICES ASSUME i = Len(receipts) PROVE FALSE
      OBVIOUS
    <3>1. accessToken \in Token /\ accessTokenExpiryDate > now
      BY <2>1, <2>3, ReceiptFields DEF TokenInvariant, CacheIsLastReceipt
    <3> QED BY <2>2, <3>1, TokenFields DEF StartRefresh, CachedTokenIsLive
  <2> QED BY <2>3, <2>4 DEF TokenInvariant, EarlierLiveReceipts
<1> QED BY <1>1, CacheCorrect, PTL DEF Spec, LiveTokenLostOnlyToOverlap
=============================================================================
