--------------------------- MODULE AsyncPoolProofs ---------------------------
(***************************************************************************)
(* Theorems about how the client runs many requests: the pool (AsyncPool), *)
(* for every finite set of items and every integer limit, and the chunks   *)
(* it is given (Chunks), for every sequence and every size of at least one.*)
(***************************************************************************)
EXTENDS AsyncPool, Chunks, FiniteSetTheorems, TLAPS

\* The items of a sequence.
Items(s) == {s[k] : k \in DOMAIN s}

-----------------------------------------------------------------------------
\* Lemmas about sequences and sets.

\* What taking the head off a sequence leaves.
LEMMA TailItems ==
  ASSUME NEW S, NEW s \in Seq(S), s # <<>>,
         \A j, k \in DOMAIN s : s[j] = s[k] => j = k
  PROVE  /\ Head(s) \in S /\ Tail(s) \in Seq(S)
         /\ Items(Tail(s)) = Items(s) \ {Head(s)} /\ Head(s) \in Items(s)
         /\ \A j, k \in DOMAIN Tail(s) : Tail(s)[j] = Tail(s)[k] => j = k
<1>1. /\ Len(s) \in Nat \ {0} /\ DOMAIN s = 1 .. Len(s)
      /\ Head(s) = s[1] /\ Head(s) \in S
      /\ Tail(s) \in Seq(S) /\ DOMAIN Tail(s) = 1 .. (Len(s) - 1)
      /\ \A k \in 1 .. (Len(s) - 1) : Tail(s)[k] = s[k + 1]
  OBVIOUS
<1>2. Items(Tail(s)) \subseteq Items(s) \ {Head(s)}
  <2> SUFFICES ASSUME NEW k \in 1 .. (Len(s) - 1)
               PROVE  Tail(s)[k] \in Items(s) /\ Tail(s)[k] # s[1]
    BY <1>1 DEF Items
  <2>1. k + 1 \in 1 .. Len(s) /\ 1 \in 1 .. Len(s) /\ k + 1 # 1
    BY <1>1
  <2> QED BY <1>1, <2>1 DEF Items
<1>3. Items(s) \ {Head(s)} \subseteq Items(Tail(s))
  <2> SUFFICES ASSUME NEW k \in 1 .. Len(s), s[k] # s[1]
               PROVE  s[k] \in Items(Tail(s))
    BY <1>1 DEF Items
  <2>1. k - 1 \in 1 .. (Len(s) - 1) /\ (k - 1) + 1 = k
    BY <1>1
  <2>2. s[k] = Tail(s)[k - 1]
    BY <1>1, <2>1
  <2> QED BY <1>1, <2>1, <2>2 DEF Items
<1>4. Head(s) \in Items(s)
  BY <1>1 DEF Items
<1>5. ASSUME NEW j \in DOMAIN Tail(s), NEW k \in DOMAIN Tail(s), Tail(s)[j] = Tail(s)[k]
      PROVE  j = k
  <2>1. j + 1 \in DOMAIN s /\ k + 1 \in DOMAIN s /\ s[j + 1] = s[k + 1]
    BY <1>1, <1>5
  <2>2. j + 1 = k + 1 /\ j \in Int /\ k \in Int
    BY <1>1, <2>1
  <2> QED BY <2>2
<1> QED BY <1>1, <1>2, <1>3, <1>4, <1>5

\* What appending a new item adds.
LEMMA AppendItems ==
  ASSUME NEW S, NEW s \in Seq(S), NEW x \in S, x \notin Items(s),
         \A j, k \in DOMAIN s : s[j] = s[k] => j = k
  PROVE  /\ Append(s, x) \in Seq(S)
         /\ Items(Append(s, x)) = Items(s) \cup {x}
         /\ \A j, k \in DOMAIN Append(s, x) : Append(s, x)[j] = Append(s, x)[k] => j = k
<1> DEFINE t == Append(s, x)
<1>1. /\ Len(s) \in Nat /\ DOMAIN s = 1 .. Len(s)
      /\ t \in Seq(S) /\ DOMAIN t = 1 .. (Len(s) + 1)
      /\ \A k \in 1 .. Len(s) : t[k] = s[k]
      /\ t[Len(s) + 1] = x
  OBVIOUS
<1> HIDE DEF t
<1>2. \A k \in DOMAIN t : k \in DOMAIN s \/ k = Len(s) + 1
  BY <1>1
<1>3. Items(t) = Items(s) \cup {x}
  BY <1>1, <1>2 DEF Items
<1>4. \A j, k \in DOMAIN t : t[j] = t[k] => j = k
  BY <1>1, <1>2 DEF Items
<1> QED BY <1>1, <1>3, <1>4 DEF t

\* A sequence in which nothing occurs twice has as many places as items.
LEMMA InjectiveLength ==
  ASSUME NEW S, IsFiniteSet(S), NEW s \in Seq(S), Items(s) = S,
         \A j, k \in DOMAIN s : s[j] = s[k] => j = k
  PROVE  Len(s) = Cardinality(S)
<1>1. Len(s) \in Nat /\ DOMAIN s = 1 .. Len(s) /\ s \in [1 .. Len(s) -> S]
  OBVIOUS
<1>2. IsFiniteSet(1 .. Len(s)) /\ Cardinality(1 .. Len(s)) = Len(s)
  BY <1>1, FS_Interval, SMTT(30)
<1>3. s \in Bijection(1 .. Len(s), S)
  BY <1>1 DEF Bijection, Injection, Surjection, Items, IsInjective
<1>4. ExistsBijection(1 .. Len(s), S)
  BY <1>3 DEF ExistsBijection
<1> QED BY <1>2, <1>4, FS_Bijection

\* The limit is a positive number.
LEMMA LimitType == Limit \in Nat \ {0} /\ (Concurrency <= Limit)
  BY AsyncPoolAssumption DEF Limit

\* A subset of the items is finite.
LEMMA ExecutingFinite == TypeOK => IsFiniteSet(executing) /\ Cardinality(executing) \in Nat
  BY AsyncPoolAssumption, FS_Subset, FS_CardinalityType DEF TypeOK

-----------------------------------------------------------------------------
\* The inductive invariant.  Each lemma takes one step of the generator; none but
\* Settle changes an outcome.

LEMMA PoolInvariantInit == Init => PoolInvariant
<1> SUFFICES ASSUME Init PROVE PoolInvariant
  OBVIOUS
<1>1. PICK items \in [1 .. Cardinality(Item) -> Item] :
        (\A j, k \in DOMAIN items : items[j] = items[k] => j = k) /\ Fresh(items)
  BY DEF Init
<1>2. Cardinality(Item) \in Nat
  BY AsyncPoolAssumption, FS_CardinalityType
<1>3. items \in Seq(Item) /\ DOMAIN items = 1 .. Cardinality(Item)
  BY <1>2
<1>4. TypeOK
  BY <1>1, <1>3 DEF Init, Fresh, TypeOK
<1>5. EveryItemIsSomewhere
  <2>1. IsFiniteSet(1 .. Cardinality(Item)) /\ Cardinality(1 .. Cardinality(Item)) = Cardinality(Item)
    BY <1>2, FS_Interval
  <2>2. items \in Injection(1 .. Cardinality(Item), Item)
    BY <1>1, <1>3 DEF Injection, IsInjective
  <2>3. items \in Surjection(1 .. Cardinality(Item), Item)
    BY <2>1, <2>2, FS_Injection, AsyncPoolAssumption
  <2>4. \A i \in Item : \E k \in DOMAIN items : items[k] = i
    BY <1>3, <2>3 DEF Surjection
  <2>5. started = {}
    BY <1>1, <2>4 DEF started, Fresh
  <2> QED BY <1>1, <2>5 DEF EveryItemIsSomewhere, Fresh
<1>6. ExecutingWithinLimit
  BY <1>1, FS_EmptySet, LimitType DEF Fresh, ExecutingWithinLimit
<1>7. WaitingOnce /\ YieldedFulfilled /\ DoneMeansEmpty
  BY <1>1 DEF Fresh, WaitingOnce, YieldedFulfilled, DoneMeansEmpty
<1> QED BY <1>4, <1>5, <1>6, <1>7 DEF PoolInvariant

LEMMA LaunchStep == PoolInvariant /\ Launch /\ UNCHANGED outcome => PoolInvariant'
<1> SUFFICES ASSUME PoolInvariant, Launch, UNCHANGED outcome PROVE PoolInvariant'
  OBVIOUS
<1> DEFINE x == Head(waiting)
<1>1. TypeOK /\ waiting \in Seq(Item) /\ waiting # <<>>
  BY DEF PoolInvariant, TypeOK, Launch
<1>2. /\ x \in Item /\ waiting' \in Seq(Item)
      /\ Items(waiting') = Items(waiting) \ {x} /\ x \in Items(waiting)
      /\ WaitingOnce'
  BY <1>1, TailItems DEF PoolInvariant, WaitingOnce, Launch
<1>3. executing' = executing \cup {x} /\ yielded' = yielded /\ generator' = generator
      /\ generator = "running"
  BY DEF Launch
<1> HIDE DEF x
<1>4. TypeOK'
  BY <1>1, <1>2, <1>3 DEF TypeOK
<1>5. EveryItemIsSomewhere'
  <2>1. started' = started \cup {x} /\ x \notin started
    BY <1>2 DEF started, Items
  <2> QED BY <1>3, <2>1 DEF PoolInvariant, EveryItemIsSomewhere
<1>6. ExecutingWithinLimit'
  <2>1. IsFiniteSet(executing) /\ Cardinality(executing) \in Nat
    BY <1>1, ExecutingFinite
  <2>2. Cardinality(executing') <= Cardinality(executing) + 1
    BY <1>3, <2>1, FS_AddElement
  <2>3. CASE executing = {}
    BY <1>3, <2>2, <2>3, FS_EmptySet, FS_AddElement, LimitType DEF ExecutingWithinLimit
  <2>4. CASE executing # {}
    <3>1. Cardinality(executing) < Concurrency
      BY <2>1, <2>4, AsyncPoolAssumption DEF Launch, Full
    <3>2. Cardinality(executing') \in Nat
      BY <1>4, ExecutingFinite, <1>3, <2>1, FS_AddElement, SMTT(30)
    <3> QED BY <2>1, <2>2, <3>1, <3>2, LimitType, AsyncPoolAssumption DEF ExecutingWithinLimit
  <2> QED BY <2>3, <2>4
<1>7. YieldedFulfilled' /\ DoneMeansEmpty'
  BY <1>3 DEF PoolInvariant, YieldedFulfilled, DoneMeansEmpty
<1> QED BY <1>2, <1>4, <1>5, <1>6, <1>7 DEF PoolInvariant

LEMMA YieldStep ==
  ASSUME PoolInvariant, NEW i \in Item, Yield(i), UNCHANGED outcome
  PROVE  PoolInvariant'
<1>1. TypeOK /\ yielded \in Seq(Item) /\ i \in executing /\ generator = "running"
  BY DEF PoolInvariant, TypeOK, Yield, Waits
<1>2. i \notin Items(yielded) /\ \A j, k \in DOMAIN yielded : yielded[j] = yielded[k] => j = k
  BY <1>1 DEF PoolInvariant, EveryItemIsSomewhere, Items
<1>3. /\ yielded' \in Seq(Item) /\ Items(yielded') = Items(yielded) \cup {i}
      /\ \A j, k \in DOMAIN yielded' : yielded'[j] = yielded'[k] => j = k
  BY <1>1, <1>2, AppendItems DEF Yield
<1>4. executing' = executing \ {i} /\ waiting' = waiting /\ generator' = generator
  BY DEF Yield
<1>5. TypeOK'
  BY <1>1, <1>3, <1>4 DEF TypeOK
<1>6. EveryItemIsSomewhere'
  <2>1. started' = started
    BY <1>4 DEF started
  <2>2. started = executing \cup Items(yielded) /\ executing \cap Items(yielded) = {}
    BY DEF PoolInvariant, EveryItemIsSomewhere, Items
  <2>3. started' = executing' \cup Items(yielded') /\ executing' \cap Items(yielded') = {}
    BY <1>1, <1>3, <1>4, <2>1, <2>2
  <2> QED BY <1>3, <2>3 DEF EveryItemIsSomewhere, Items
<1>7. ExecutingWithinLimit'
  <2>1. IsFiniteSet(executing) /\ Cardinality(executing) \in Nat
    BY <1>1, ExecutingFinite
  <2>2. Cardinality(executing') = Cardinality(executing) - 1
    BY <1>1, <1>4, <2>1, FS_RemoveElement
  <2> QED BY <2>1, <2>2, LimitType DEF PoolInvariant, ExecutingWithinLimit
<1>8. YieldedFulfilled'
  <2> SUFFICES ASSUME NEW k \in DOMAIN yielded' PROVE outcome[yielded'[k]] = "fulfilled"
    BY DEF YieldedFulfilled
  <2>1. yielded'[k] \in Items(yielded) \cup {i}
    BY <1>3 DEF Items
  <2> QED BY <2>1 DEF PoolInvariant, YieldedFulfilled, Yield, Items
<1>9. WaitingOnce' /\ DoneMeansEmpty'
  BY <1>1, <1>4 DEF PoolInvariant, WaitingOnce, DoneMeansEmpty
<1> QED BY <1>5, <1>6, <1>7, <1>8, <1>9 DEF PoolInvariant

LEMMA SettleStep ==
  ASSUME PoolInvariant, NEW i \in Item, Settle(i)
  PROVE  PoolInvariant'
<1>1. TypeOK'
  BY DEF PoolInvariant, TypeOK, Settle, poolVars
<1>2. EveryItemIsSomewhere' /\ WaitingOnce' /\ ExecutingWithinLimit' /\ DoneMeansEmpty'
  BY DEF PoolInvariant, EveryItemIsSomewhere, started, WaitingOnce, ExecutingWithinLimit,
         DoneMeansEmpty, Settle, poolVars
<1>3. YieldedFulfilled'
  <2> SUFFICES ASSUME NEW k \in DOMAIN yielded PROVE outcome'[yielded[k]] = "fulfilled"
    BY DEF YieldedFulfilled, Settle, poolVars
  <2>1. outcome[yielded[k]] = "fulfilled" /\ outcome[i] = "pending"
    BY DEF PoolInvariant, YieldedFulfilled, Settle
  <2>2. yielded[k] \in Item
    BY DEF PoolInvariant, TypeOK
  <2> QED BY <2>1, <2>2 DEF PoolInvariant, TypeOK, Settle
<1> QED BY <1>1, <1>2, <1>3 DEF PoolInvariant

LEMMA PoolInvariantStep == PoolInvariant /\ [Next]_vars => PoolInvariant'
<1> SUFFICES ASSUME PoolInvariant, [Next]_vars PROVE PoolInvariant'
  OBVIOUS
<1> USE DEF PoolInvariant, TypeOK, EveryItemIsSomewhere, started, WaitingOnce,
            ExecutingWithinLimit, YieldedFulfilled, DoneMeansEmpty
<1>1. CASE Launch /\ UNCHANGED outcome
  BY <1>1, LaunchStep
<1>2. ASSUME NEW i \in Item, Yield(i), UNCHANGED outcome PROVE PoolInvariant'
  BY <1>2, YieldStep
<1>3. ASSUME NEW i \in Item, Throw(i), UNCHANGED outcome PROVE PoolInvariant'
  BY <1>3 DEF Throw
<1>4. CASE Finish /\ UNCHANGED outcome
  BY <1>4 DEF Finish
<1>5. ASSUME NEW i \in Item, Settle(i) PROVE PoolInvariant'
  BY <1>5, SettleStep
<1>6. CASE UNCHANGED vars
  BY <1>6 DEF vars, poolVars
<1> QED BY <1>1, <1>2, <1>3, <1>4, <1>5, <1>6 DEF Next, Step

-----------------------------------------------------------------------------
\* The inductive invariant holds in every reachable state (client.ts:550, 682, 771).
THEOREM PoolCorrect == Spec => []PoolInvariant
<1> QED BY PoolInvariantInit, PoolInvariantStep, PTL DEF Spec

\* Type correctness of the generator (client.ts:550-588).
THEOREM PoolTypeCorrect == Spec => []TypeOK
<1>1. PoolInvariant => TypeOK
  BY DEF PoolInvariant
<1> QED BY <1>1, PoolCorrect, PTL

\* The limit holds at any time, also after the generator threw (client.ts:550).
THEOREM LimitIsKept == Spec => []InFlightWithinLimit
<1>1. PoolInvariant => InFlightWithinLimit
  <2> SUFFICES ASSUME PoolInvariant
               PROVE  Cardinality({i \in started : outcome[i] = "pending"}) <= Limit
    BY DEF InFlightWithinLimit
  <2> DEFINE unsettled == {i \in started : outcome[i] = "pending"}
  <2>1. unsettled \subseteq executing
    BY DEF PoolInvariant, EveryItemIsSomewhere, YieldedFulfilled
  <2>2. IsFiniteSet(executing) /\ Cardinality(executing) \in Nat
    BY ExecutingFinite DEF PoolInvariant
  <2>3. Cardinality(unsettled) <= Cardinality(executing) /\ Cardinality(unsettled) \in Nat
    BY <2>1, <2>2, FS_Subset, FS_CardinalityType
  <2>4. Cardinality(executing) <= Limit /\ Limit \in Nat
    BY LimitType DEF PoolInvariant, ExecutingWithinLimit
  <2> QED BY <2>2, <2>3, <2>4
<1> QED BY <1>1, PoolCorrect, PTL

\* Nothing is lost and nothing comes twice (client.ts:564, 584, 699).
THEOREM NothingIsLost == Spec => []EveryItemIsSomewhere
<1>1. PoolInvariant => EveryItemIsSomewhere
  BY DEF PoolInvariant
<1> QED BY <1>1, PoolCorrect, PTL

\* A loop that ended normally had a fulfilled call for every item (client.ts:588).
THEOREM DoneIsComplete == Spec => []DoneMeansAllFulfilled
<1>1. PoolInvariant => DoneMeansAllFulfilled
  <2> SUFFICES ASSUME PoolInvariant, generator = "done"
               PROVE  Len(yielded) = Cardinality(Item) /\ \A i \in Item : outcome[i] = "fulfilled"
    BY DEF DoneMeansAllFulfilled
  <2>1. waiting = <<>> /\ executing = {} /\ yielded \in Seq(Item)
    BY DEF PoolInvariant, DoneMeansEmpty, TypeOK
  <2>2. started = Item
    BY <2>1 DEF started
  <2>3. Items(yielded) = Item
    BY <2>1, <2>2 DEF PoolInvariant, EveryItemIsSomewhere, Items
  <2>4. Len(yielded) = Cardinality(Item)
    BY <2>1, <2>3, InjectiveLength, AsyncPoolAssumption DEF PoolInvariant, EveryItemIsSomewhere
  <2>5. \A i \in Item : outcome[i] = "fulfilled"
    BY <2>3 DEF PoolInvariant, YieldedFulfilled, Items
  <2> QED BY <2>4, <2>5
<1> QED BY <1>1, PoolCorrect, PTL
-----------------------------------------------------------------------------
\* The chunks: utils/chunk-array.ts takes the items apart and loses none.

\* Division of natural numbers, as far as it is needed here.
LEMMA Quotient ==
  ASSUME NEW n \in Nat, NEW size \in Nat \ {0}
  PROVE  /\ n \div size \in Nat
         /\ (n \div size) * size <= n /\ n < ((n \div size) + 1) * size
  BY Z3

\* A product tells its factor, one too many being out of reach.
LEMMA LessTimes ==
  ASSUME NEW a \in Int, NEW b \in Int, NEW size \in Nat \ {0}, a * size < (b + 1) * size
  PROVE  a <= b
<1> SUFFICES ASSUME a >= b + 1 PROVE FALSE
  OBVIOUS
<1>1. PICK d \in Nat : a = b + 1 + d
  <2> WITNESS a - (b + 1) \in Nat
  <2> QED OBVIOUS
<1>2. a * size = (b + 1) * size + d * size
  BY <1>1
<1>3. d * size >= 0
  OBVIOUS
<1> QED BY <1>2, <1>3

\* The number of chunks.
Count(items, size) == (Len(items) + size - 1) \div size

\* The k-th chunk holds the items from the place (k - 1) * size + 1 on, at least one
\* and at most size of them.
IsPiece(chunk, items, size, k) ==
  /\ Len(chunk) \in 1 .. size /\ DOMAIN chunk = 1 .. Len(chunk)
  /\ Len(chunk) = size \/ (k - 1) * size + Len(chunk) = Len(items)
  /\ \A j \in DOMAIN chunk :
       /\ (k - 1) * size + j \in DOMAIN items
       /\ chunk[j] = items[(k - 1) * size + j]

\* No item is left out: the item at place i is in the chunk it belongs to.
Covers(chunks, items, size) ==
  \A i \in DOMAIN items :
    \E k \in DOMAIN chunks : \E j \in DOMAIN chunks[k] : i = (k - 1) * size + j

\* Every chunk is such a piece.
LEMMA ChunkIsPiece ==
  ASSUME NEW S, NEW items \in Seq(S), NEW size \in Nat \ {0},
         NEW k \in 1 .. Count(items, size)
  PROVE  /\ ChunkArray(items, size)[k] \in Seq(S)
         /\ IsPiece(ChunkArray(items, size)[k], items, size, k)
<1> DEFINE n     == Len(items)
           skip  == (k - 1) * size
           last  == IF k * size <= n THEN k * size ELSE n
           chunk == ChunkArray(items, size)[k]
<1>1. n \in Nat /\ k \in Nat \ {0} /\ Count(items, size) \in Nat
  BY Quotient DEF Count
<1>2. skip \in Nat /\ k * size = skip + size
  BY <1>1
<1>3. skip < n
  <2>1. Count(items, size) * size <= n + size - 1
    BY <1>1, Quotient DEF Count
  <2>2. k * size <= Count(items, size) * size
    <3>1. PICK d \in Nat : Count(items, size) = k + d
      <4> DEFINE d == Count(items, size) - k
      <4>1. d \in Nat /\ Count(items, size) = k + d
        BY <1>1
      <4> QED BY <4>1
    <3>2. Count(items, size) * size = k * size + d * size /\ d * size >= 0
      BY <1>1, <3>1
    <3> QED BY <1>1, <3>2
  <2> HIDE DEF skip, n
  <2> QED BY <1>1, <1>2, <2>1, <2>2
<1>4. chunk = SubSeq(items, skip + 1, last)
  BY DEF ChunkArray, Count
<1> HIDE DEF skip, chunk
<1>5. /\ last \in Nat /\ last <= n /\ skip + 1 <= last /\ last - skip <= size
      /\ last - skip = size \/ last = n
  BY <1>1, <1>2, <1>3
<1> HIDE DEF last
<1>6. /\ chunk \in Seq(S) /\ Len(chunk) = last - skip
      /\ \A j \in 1 .. (last - skip) : chunk[j] = items[skip + j]
  BY <1>2, <1>4, <1>5
<1>7. \A j \in 1 .. Len(chunk) : skip + j \in 1 .. n
  BY <1>1, <1>2, <1>5, <1>6
<1>8. DOMAIN chunk = 1 .. Len(chunk) /\ DOMAIN items = 1 .. n
  BY <1>6
<1>9. Len(chunk) \in 1 .. size /\ (Len(chunk) = size \/ skip + Len(chunk) = n)
  BY <1>2, <1>5, <1>6
<1>10. \A j \in DOMAIN chunk : skip + j \in DOMAIN items /\ chunk[j] = items[skip + j]
  BY <1>6, <1>7, <1>8
<1>11. IsPiece(chunk, items, size, k)
  BY <1>8, <1>9, <1>10 DEF skip, IsPiece
<1> QED BY <1>6, <1>11 DEF chunk

\* chunkArray takes its argument apart: every chunk but the last has size items, the
\* last at least one, and the item at place i is in the chunk it belongs to, once
\* (utils/chunk-array.ts:1-12).
THEOREM ChunksAreThePieces ==
  ASSUME NEW S, NEW items \in Seq(S), NEW size \in Nat \ {0}
  PROVE  LET chunks == ChunkArray(items, size)
         IN  /\ chunks \in Seq(Seq(S))
             /\ \A k \in DOMAIN chunks : IsPiece(chunks[k], items, size, k)
             /\ Covers(chunks, items, size)
<1> DEFINE n == Len(items)
           count == Count(items, size)
           chunks == ChunkArray(items, size)
<1>1. n \in Nat /\ count \in Nat /\ n + size - 1 < (count + 1) * size
  BY Quotient DEF Count
<1>2. DOMAIN chunks = 1 .. count
  BY DEF ChunkArray, Count
<1>3. \A k \in 1 .. count : chunks[k] \in Seq(S) /\ IsPiece(chunks[k], items, size, k)
  BY ChunkIsPiece
<1>4. chunks \in Seq(Seq(S))
  <2> DEFINE f == [k \in 1 .. count |-> chunks[k]]
  <2>1. chunks = f
    BY DEF ChunkArray, Count
  <2>2. \A k \in 1 .. count : chunks[k] \in Seq(S)
    BY <1>3
  <2> HIDE DEF chunks, count
  <2>3. f \in [1 .. count -> Seq(S)]
    BY <2>2
  <2>4. f \in Seq(Seq(S))
    BY <1>1, <2>3
  <2> QED BY <2>1, <2>4
<1>5. ASSUME NEW i \in 1 .. n
      PROVE  \E k \in 1 .. count : \E j \in 1 .. Len(chunks[k]) : i = (k - 1) * size + j
  <2> DEFINE q == (i - 1) \div size
             k == q + 1
             j == i - q * size
  <2>0. i - 1 \in Nat
    BY <1>1
  <2>1. q \in Nat /\ q * size <= i - 1 /\ i - 1 < (q + 1) * size
    BY <2>0, Quotient
  <2> HIDE DEF q, count, chunks
  <2>2. k \in Nat /\ (k - 1) * size = q * size /\ k * size = q * size + size
    BY <2>1
  <2>3. j \in 1 .. size /\ i = (k - 1) * size + j
    BY <2>1, <2>2
  <2>4. k <= count
    <3>1. k * size < (count + 1) * size
      BY <1>1, <2>1, <2>2
    <3> QED BY <1>1, <2>2, <3>1, LessTimes
  <2>5. k \in 1 .. count
    BY <1>1, <2>1, <2>4
  <2>6. IsPiece(chunks[k], items, size, k)
    BY <1>3, <2>5
  <2>7. q * size \in Nat
    BY <2>1
  <2> HIDE DEF k, j
  <2>8. /\ Len(chunks[k]) \in 1 .. size
        /\ Len(chunks[k]) = size \/ q * size + Len(chunks[k]) = n
    BY <2>2, <2>6 DEF IsPiece
  <2>9. j \in 1 .. Len(chunks[k])
    <3>1. i = q * size + j
      BY <2>2, <2>3
    <3> QED BY <1>1, <2>3, <2>7, <2>8, <3>1
  <2> QED BY <2>3, <2>5, <2>9
<1> HIDE DEF chunks, count
<1>6. \A k \in DOMAIN chunks : DOMAIN chunks[k] = 1 .. Len(chunks[k])
  BY <1>2, <1>3
<1>7. DOMAIN items = 1 .. n
  OBVIOUS
<1>8. Covers(chunks, items, size)
  BY <1>2, <1>5, <1>6, <1>7 DEF Covers
<1> QED BY <1>2, <1>3, <1>4, <1>8 DEF chunks
=============================================================================
