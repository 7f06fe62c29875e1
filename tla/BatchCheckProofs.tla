---------------------------- MODULE BatchCheckProofs ----------------------------
(***************************************************************************)
(* Theorems about BatchCheck, for every list of checks, every sequence of  *)
(* ids the application gives them, every batch size of at least one and    *)
(* every limit, with and without a source of random numbers, whatever the  *)
(* server answers and in whatever order.                                   *)
(***************************************************************************)
EXTENDS BatchCheck, FiniteSetTheorems, TLAPS

PP == INSTANCE AsyncPoolProofs
        WITH Item <- Batch, Concurrency <- MaxParallelRequests, outcome <- Outcome

-----------------------------------------------------------------------------
\* The inductive invariant.

Injective(s) == \A j, k \in DOMAIN s : s[j] = s[k] => j = k

BatchItem == [object : Object, id : Id]
CheckResult == [request : Object, correlationId : Id, verdict : Verdict]

Types ==
  /\ checks \in Bodies
  /\ batchModelId \in ModelIds \cup {Unset}
  /\ givenId \in [Object -> {Given(id) : id \in GivenId} \cup {NoId}]
  /\ correlationId \in [Object -> Id \cup {NoId}]
  /\ stage \in {"called", "checking", "resolved", "rejected"}
  /\ transformed \in Seq(BatchItem)
  /\ batches \in Seq(Seq(BatchItem))
  /\ results \in Seq(CheckResult)
  /\ thrown \in ErrorObject \cup {NoError}
  /\ promise \in [Batch -> {"none", "pending", "fulfilled", "rejected"}]
  /\ sentModelId \in [Batch -> ModelIds \cup {Unset}]
  /\ error \in [Batch -> ErrorObject \cup {NoError}]
  /\ waiting \in Seq(Batch) /\ executing \subseteq Batch /\ yielded \in Seq(Batch)
  /\ generator \in {"running", "done", "thrown"}

\* The id an object has in the end, whatever the order of the loop over the checks.
IdFor(o) ==
  IF givenId[o] # NoId THEN givenId[o] ELSE IF randomness THEN Random(o) ELSE Fallback

\* An object has the id it was given, or its own.
IdsSettled == \A o \in Object : correlationId[o] \in {givenId[o], IdFor(o)}

\* The items prepared are the first checks, each with its own id, no id twice.
ItemsMatch ==
  /\ Len(transformed) <= Len(checks)
  /\ \A k \in DOMAIN transformed :
       /\ transformed[k] = [object |-> checks[k], id |-> IdFor(checks[k])]
       /\ correlationId[checks[k]] = IdFor(checks[k])
  /\ \A j, k \in DOMAIN transformed : transformed[j].id = transformed[k].id => j = k

\* Before the batches are cut nothing has begun.
BeforeTheLoop ==
  stage = "called" =>
    /\ executing = {} /\ yielded = <<>> /\ results = <<>> /\ generator = "running"
    /\ \A b \in Batch : promise[b] = "none"

\* All the items have been cut.
AllCut == Len(transformed) = Len(checks) /\ batches = ChunkArray(transformed, MaxBatchSize)

\* Then the batches are those of all the items, and what has begun is one of them.
BatchesMatch ==
  /\ stage \in {"checking", "resolved"} => AllCut
  /\ \A b \in Batch : promise[b] # "none" => AllCut /\ b \in 1 .. Len(batches)

\* In the loop each batch is in one place, once, and what has begun the pool has started;
\* at its end all have been taken.
InOnePlace ==
  /\ stage = "checking" =>
       /\ Range(waiting) \cup executing \cup Range(yielded) = 1 .. Len(batches)
       /\ Range(waiting) \cap executing = {}
       /\ Range(waiting) \cap Range(yielded) = {}
       /\ executing \cap Range(yielded) = {}
       /\ Injective(waiting) /\ Injective(yielded)
       /\ generator = "running"
       /\ \A b \in Batch : promise[b] # "none" => b \in executing \cup Range(yielded)
  /\ stage = "resolved" =>
       \A b \in Batch : promise[b] # "none" => b \in Range(yielded)
  /\ \A b \in Range(yielded) : promise[b] = "fulfilled"

\* A response is there when its request is fulfilled; an entry of it is one of an item of
\* the batch, or of no item.
AnswersMatch ==
  /\ DOMAIN answer = Batch
  /\ \A b \in Batch :
       /\ promise[b] # "fulfilled" => DOMAIN answer[b] = {}
       /\ DOMAIN answer[b] \subseteq Id /\ Range(answer[b]) \subseteq Verdict
       /\ \A id \in DOMAIN answer[b] : id \in IdsOf(b) \/ ~Prepared(id)

\* The results are the entries of the responses taken that have a check, each once.
ResultsMatch ==
  /\ \A j \in DOMAIN results :
       \E b \in Range(yielded) : \E id \in KnownIdsIn(b) : results[j] = Entry(b, id)
  /\ \A b \in Range(yielded) : \A id \in KnownIdsIn(b) :
       \E j \in DOMAIN results : results[j] = Entry(b, id)
  /\ \A i, j \in DOMAIN results : results[i].correlationId = results[j].correlationId => i = j

\* What the application did when an id comes twice.
SameIdTwice ==
  \/ ~randomness
  \/ \E j, k \in DOMAIN checks :
       j # k /\ (checks[j] = checks[k] \/
                 (givenId[checks[j]] # NoId /\ givenId[checks[j]] = givenId[checks[k]]))

\* A call that is rejected has sent a batch, or was given one id twice.
Refusals == stage = "rejected" => SameIdTwice \/ \E b \in Batch : promise[b] # "none"

BatchInvariant ==
  /\ Types /\ IdsSettled /\ ItemsMatch /\ BeforeTheLoop /\ BatchesMatch /\ InOnePlace
  /\ AnswersMatch /\ ResultsMatch /\ Refusals

-----------------------------------------------------------------------------
\* Lemmas about ids and sequences.

\* Ids of different origins differ, and none is the lack of an id.
LEMMA IdsApart ==
  /\ NoId \notin Id /\ Fallback \in Id
  /\ \A id \in GivenId : Given(id) \in Id /\ Given(id) # NoId
  /\ \A o \in Object : Random(o) \in Id
  /\ \A id \in GivenId, o \in Object : Given(id) # Random(o)
  /\ \A o, p \in Object : Random(o) = Random(p) => o = p
  BY DEF NoId, Fallback, Given, Random, Id

\* What is known of the id of an object.
LEMMA IdForIs ==
  ASSUME Types, NEW o \in Object
  PROVE  /\ IdFor(o) \in Id /\ IdFor(o) # NoId
         /\ givenId[o] = NoId \/ \E id \in GivenId : givenId[o] = Given(id)
<1>1. givenId[o] = NoId \/ \E id \in GivenId : givenId[o] = Given(id)
  BY DEF Types
<1> QED BY <1>1, IdsApart DEF IdFor

\* The loop gives an object its own id, whether it has been prepared or not.
LEMMA IdOfIs ==
  ASSUME Types, IdsSettled, NEW o \in Object
  PROVE  IdOf(o) = IdFor(o)
<1>1. correlationId[o] \in {givenId[o], IdFor(o)} /\ IdFor(o) # NoId
  BY IdForIs DEF IdsSettled
<1> QED BY <1>1 DEF IdOf, IdFor

\* Two objects of one id are the application's doing.
LEMMA SameIdMeans ==
  ASSUME Types, NEW j \in DOMAIN checks, NEW k \in DOMAIN checks, j # k,
         IdFor(checks[j]) = IdFor(checks[k])
  PROVE  SameIdTwice
<1> SUFFICES ASSUME randomness, checks[j] # checks[k]
             PROVE  givenId[checks[j]] # NoId /\ givenId[checks[j]] = givenId[checks[k]]
  BY DEF SameIdTwice
<1>1. checks \in Seq(Object)
  BY BatchCheckAssumption DEF Types
<1>2. checks[j] \in Object /\ checks[k] \in Object
  BY <1>1
<1> DEFINE o == checks[j]  p == checks[k]
<1>3. o \in Object /\ p \in Object /\ o # p
  BY <1>2
<1> HIDE DEF o, p
<1>4. IdFor(o) = IdFor(p)
  BY DEF o, p
<1>5. givenId[o] = NoId \/ \E id \in GivenId : givenId[o] = Given(id)
  BY <1>3, IdForIs
<1>6. givenId[p] = NoId \/ \E id \in GivenId : givenId[p] = Given(id)
  BY <1>3, IdForIs
<1>7. givenId[o] # NoId /\ givenId[o] = givenId[p]
  BY <1>3, <1>4, <1>5, <1>6, IdsApart DEF IdFor
<1> QED BY <1>7 DEF o, p

\* The empty sequence has no items.
LEMMA EmptyRange == Range(<<>>) = {} /\ Injective(<<>>)
  BY DEF Range, Injective

\* The pool's batches are finitely many.
LEMMA PoolAssumption ==
  PP!IsFiniteSet(Batch) /\ IsFiniteSet(Batch) /\ MaxParallelRequests \in Int
<1>1. IsFiniteSet(Batch)
  BY BatchCheckAssumption, FS_Interval DEF Batch
<1> QED BY <1>1, BatchCheckAssumption DEF IsFiniteSet, PP!IsFiniteSet

\* What the pool's two operations on its queues do.
LEMMA TailRange ==
  ASSUME NEW s \in Seq(Batch), s # <<>>, Injective(s)
  PROVE  /\ Head(s) \in Batch /\ Head(s) \in Range(s) /\ Tail(s) \in Seq(Batch)
         /\ Range(Tail(s)) = Range(s) \ {Head(s)} /\ Injective(Tail(s))
<1>1. /\ Head(s) \in Batch /\ Tail(s) \in Seq(Batch)
      /\ PP!Items(Tail(s)) = PP!Items(s) \ {Head(s)} /\ Head(s) \in PP!Items(s)
      /\ \A j, k \in DOMAIN Tail(s) : Tail(s)[j] = Tail(s)[k] => j = k
  BY PoolAssumption, PP!TailItems DEF Injective
<1> QED BY <1>1 DEF PP!Items, Range, Injective

LEMMA AppendRange ==
  ASSUME NEW s \in Seq(Batch), NEW b \in Batch, b \notin Range(s), Injective(s)
  PROVE  /\ Append(s, b) \in Seq(Batch)
         /\ Range(Append(s, b)) = Range(s) \cup {b} /\ Injective(Append(s, b))
<1>1. b \notin PP!Items(s)
  BY DEF PP!Items, Range
<1>2. /\ Append(s, b) \in Seq(Batch)
      /\ PP!Items(Append(s, b)) = PP!Items(s) \cup {b}
      /\ \A j, k \in DOMAIN Append(s, b) : Append(s, b)[j] = Append(s, b)[k] => j = k
  BY <1>1, PoolAssumption, PP!AppendItems DEF Injective
<1> QED BY <1>2 DEF PP!Items, Range, Injective

\* Two sequences, one after the other.
LEMMA ConcatIs ==
  ASSUME NEW S, NEW s \in Seq(S), NEW t \in Seq(S), NEW m, NEW n, Len(s) = m, Len(t) = n
  PROVE  /\ m \in Nat /\ n \in Nat /\ DOMAIN s = 1 .. m
         /\ s \o t \in Seq(S) /\ DOMAIN (s \o t) = 1 .. (m + n)
         /\ \A j \in 1 .. m : (s \o t)[j] = s[j]
         /\ \A k \in 1 .. n : (s \o t)[m + k] = t[k]
  OBVIOUS

\* A finite set written as a sequence: every member, once.
LEMMA SetToSeqIs ==
  ASSUME NEW S, IsFiniteSet(S)
  PROVE  SetToSeq(S) \in Seq(S) /\ Range(SetToSeq(S)) = S /\ Injective(SetToSeq(S))
<1> DEFINE n == Cardinality(S)
<1>1. n \in Nat /\ Bijection(1 .. n, S) # {}
  BY FS_CardinalityType DEF ExistsBijection
<1>2. PICK f : f \in Bijection(1 .. n, S)
  BY <1>1
<1>3. f \in [1 .. n -> S] /\ IsInjective(f)
  BY <1>2 DEF Bijection, Injection
<1>4. SetToSeq(S) \in [1 .. n -> S] /\ IsInjective(SetToSeq(S))
  BY <1>3 DEF SetToSeq
<1> DEFINE s == SetToSeq(S)
<1> HIDE DEF s
<1>5. s \in Injection(1 .. n, S)
  BY <1>4 DEF s, Injection
<1>6. IsFiniteSet(1 .. n) /\ Cardinality(1 .. n) = n
  BY <1>1, FS_Interval
<1>7. s \in Surjection(1 .. n, S)
  BY <1>5, <1>6, FS_Injection
<1>8. s \in [1 .. n -> S] /\ \A x \in S : \E k \in 1 .. n : s[k] = x
  BY <1>7 DEF Surjection
<1> HIDE DEF n
<1>9. s \in Seq(S)
  BY <1>1, <1>8
<1>10. Range(s) = S
  BY <1>8 DEF Range
<1>11. Injective(s)
  BY <1>5 DEF Injection, IsInjective, Injective
<1> QED BY <1>9, <1>10, <1>11 DEF s

-----------------------------------------------------------------------------
\* Lemmas about the batches and their answers.

LEMMA SameChunks == \A items, size : PP!ChunkArray(items, size) = ChunkArray(items, size)
  BY DEF PP!ChunkArray, ChunkArray

\* There are no more batches than the bound.
LEMMA BatchesCounted ==
  ASSUME Types, Len(transformed) <= Len(checks)
  PROVE  LET cut == ChunkArray(transformed, MaxBatchSize)
         IN  Len(cut) \in Nat /\ DOMAIN cut = 1 .. Len(cut) /\ 1 .. Len(cut) \subseteq Batch
<1> DEFINE n == Len(transformed)
           count == (n + MaxBatchSize - 1) \div MaxBatchSize
           cut == ChunkArray(transformed, MaxBatchSize)
<1>1. /\ n \in Nat /\ MaxBatchSize \in Nat \ {0} /\ MaxBatches \in Nat
      /\ n <= MaxBatches * MaxBatchSize
  <2>1. Len(checks) \in Nat /\ Len(checks) <= MaxBatches * MaxBatchSize
    BY BatchCheckAssumption DEF Types
  <2>2. n \in Nat
    BY DEF Types
  <2> QED BY <2>1, <2>2, BatchCheckAssumption
<1>2. n + MaxBatchSize - 1 \in Nat
  BY <1>1
<1>3. count \in Nat /\ count * MaxBatchSize <= n + MaxBatchSize - 1
  BY <1>1, <1>2, PoolAssumption, PP!Quotient
<1>4. count <= MaxBatches
  <2>1. count * MaxBatchSize < (MaxBatches + 1) * MaxBatchSize
    <3>1. (MaxBatches + 1) * MaxBatchSize = MaxBatches * MaxBatchSize + MaxBatchSize
      BY <1>1
    <3>2. MaxBatches * MaxBatchSize \in Int /\ count * MaxBatchSize \in Int
      BY <1>1, <1>3
    <3> QED BY <1>1, <1>3, <3>1, <3>2
  <2> QED BY <1>1, <1>3, <2>1, PoolAssumption, PP!LessTimes
<1> HIDE DEF n
<1>5. DOMAIN cut = 1 .. count
  BY DEF ChunkArray, n
<1> HIDE DEF count, cut
<1>6. Len(cut) = count
  <2>1. cut = [k \in 1 .. count |-> cut[k]]
    BY DEF cut, ChunkArray, count, n
  <2> QED BY <1>3, <2>1
<1>7. 1 .. count \subseteq Batch
  BY <1>1, <1>3, <1>4 DEF Batch
<1> QED BY <1>3, <1>5, <1>6, <1>7 DEF cut

\* Every place of a batch is a place of the items.
LEMMA BatchIsPiece ==
  ASSUME Types, AllCut, NEW b \in 1 .. Len(batches)
  PROVE  /\ b \in Batch /\ DOMAIN batches[b] = 1 .. Len(batches[b])
                /\ Len(batches[b]) \in 1 .. MaxBatchSize
         /\ \A j \in DOMAIN batches[b] :
              /\ (b - 1) * MaxBatchSize + j \in DOMAIN transformed
              /\ batches[b][j] = transformed[(b - 1) * MaxBatchSize + j]
<1>1. transformed \in Seq(BatchItem) /\ MaxBatchSize \in Nat \ {0}
  BY BatchCheckAssumption DEF Types
<1>2. Len(transformed) <= Len(checks)
  <2>1. Len(transformed) \in Int
    BY <1>1
  <2> QED BY <2>1 DEF AllCut
<1>3. b \in DOMAIN batches /\ b \in Batch
  BY <1>2, BatchesCounted DEF AllCut
<1>4. PP!IsPiece(batches[b], transformed, MaxBatchSize, b)
  BY <1>1, <1>3, PoolAssumption, PP!ChunksAreThePieces, SameChunks DEF AllCut
<1> QED BY <1>3, <1>4 DEF PP!IsPiece

\* No id is in two places of the batches.
LEMMA NoIdTwice ==
  ASSUME Types, ItemsMatch, AllCut, NEW b \in 1 .. Len(batches), NEW c \in 1 .. Len(batches),
         NEW j \in DOMAIN batches[b], NEW k \in DOMAIN batches[c],
         batches[b][j].id = batches[c][k].id
  PROVE  b = c /\ j = k
<1> DEFINE size == MaxBatchSize
<1>1. /\ size \in Nat \ {0} /\ b \in Nat /\ c \in Nat
      /\ j \in 1 .. size /\ k \in 1 .. size
  <2>1. Len(batches[b]) \in 1 .. size /\ Len(batches[c]) \in 1 .. size
    BY BatchIsPiece
  <2>2. j \in 1 .. Len(batches[b]) /\ k \in 1 .. Len(batches[c])
    BY BatchIsPiece
  <2>3. size \in Nat \ {0} /\ b \in Nat /\ c \in Nat
    BY BatchCheckAssumption, BatchIsPiece DEF Batch
  <2> HIDE DEF size
  <2> QED BY <2>1, <2>2, <2>3
<1>2. (b - 1) * size + j = (c - 1) * size + k
  BY BatchIsPiece, SMTT(30) DEF ItemsMatch
<1> HIDE DEF size
<1>3. b <= c
  <2>1. (b - 1) * size < (c - 1 + 1) * size
    <3>1. (c - 1 + 1) * size = (c - 1) * size + size
      BY <1>1
    <3>2. (b - 1) * size \in Int /\ (c - 1) * size \in Int
      BY <1>1
    <3> QED BY <1>1, <1>2, <3>1, <3>2
  <2>2. b - 1 \in Int /\ c - 1 \in Int
    BY <1>1
  <2>3. b - 1 <= c - 1
    BY <1>1, <2>1, <2>2, PoolAssumption, PP!LessTimes
  <2> QED BY <1>1, <2>3
<1>4. c <= b
  <2>1. (c - 1) * size < (b - 1 + 1) * size
    <3>1. (b - 1 + 1) * size = (b - 1) * size + size
      BY <1>1
    <3>2. (b - 1) * size \in Int /\ (c - 1) * size \in Int
      BY <1>1
    <3> QED BY <1>1, <1>2, <3>1, <3>2
  <2>2. b - 1 \in Int /\ c - 1 \in Int
    BY <1>1
  <2>3. c - 1 <= b - 1
    BY <1>1, <2>1, <2>2, PoolAssumption, PP!LessTimes
  <2> QED BY <1>1, <2>3
<1>5. b = c
  BY <1>1, <1>3, <1>4
<1>6. (b - 1) * size \in Int
  BY <1>1
<1> QED BY <1>1, <1>2, <1>5, <1>6

\* The ids of a batch are finitely many ids.
LEMMA IdsOfAre ==
  ASSUME Types, AllCut, NEW b \in 1 .. Len(batches)
  PROVE  IsFiniteSet(IdsOf(b)) /\ IdsOf(b) \subseteq Id
<1>1. /\ Len(batches[b]) \in Nat /\ DOMAIN batches[b] = 1 .. Len(batches[b])
      /\ \A j \in DOMAIN batches[b] :
           /\ (b - 1) * MaxBatchSize + j \in DOMAIN transformed
           /\ batches[b][j] = transformed[(b - 1) * MaxBatchSize + j]
  BY BatchIsPiece
<1> DEFINE D == DOMAIN batches[b]
           f == [k \in D |-> batches[b][k].id]
<1>2. f \in Surjection(D, IdsOf(b))
  BY DEF Surjection, IdsOf
<1>3. IsFiniteSet(D)
  BY <1>1, FS_Interval
<1>4. \A k \in DOMAIN transformed : transformed[k].id \in Id
  <2>1. \A item \in BatchItem : item.id \in Id
    BY DEF BatchItem
  <2>2. \A k \in DOMAIN transformed : transformed[k] \in BatchItem
    BY DEF Types
  <2> QED BY <2>1, <2>2
<1> QED BY <1>1, <1>2, <1>3, <1>4, FS_Surjection DEF IdsOf

\* correlationIdToCheck gives the check an id was prepared for.
LEMMA CheckOfIs ==
  ASSUME Types, ItemsMatch, NEW k \in DOMAIN transformed
  PROVE  /\ CheckOf(transformed[k].id) = checks[k] /\ transformed[k].id = IdFor(checks[k])
         /\ k \in DOMAIN checks /\ checks[k] \in Object /\ IdFor(checks[k]) \in Id
<1>1. k \in DOMAIN checks /\ checks[k] \in Object
  <2>1. checks \in Seq(Object) /\ transformed \in Seq(BatchItem)
    BY BatchCheckAssumption DEF Types
  <2>2. k \in 1 .. Len(transformed) /\ Len(transformed) \in Nat /\ Len(checks) \in Nat
    BY <2>1
  <2>3. k \in 1 .. Len(checks)
    BY <2>2 DEF ItemsMatch
  <2> QED BY <2>1, <2>3
<1>2. transformed[k] = [object |-> checks[k], id |-> IdFor(checks[k])]
  BY DEF ItemsMatch
<1>3. \A j \in DOMAIN transformed : transformed[j].id = transformed[k].id => j = k
  BY DEF ItemsMatch
<1>4. (CHOOSE j \in DOMAIN transformed : transformed[j].id = transformed[k].id) = k
  BY <1>3
<1>5. CheckOf(transformed[k].id) = checks[k]
  <2>1. CheckOf(transformed[k].id) = transformed[k].object
    BY <1>4, Zenon DEF CheckOf
  <2> QED BY <1>2, <2>1
<1> QED BY <1>1, <1>2, <1>5, IdForIs

\* An entry of a response that has a check is the one of that check.
LEMMA EntryIs ==
  ASSUME Types, ItemsMatch, AnswersMatch, NEW b \in Batch, NEW id \in KnownIdsIn(b)
  PROVE  /\ Entry(b, id) \in CheckResult
         /\ Entry(b, id).correlationId = id /\ Entry(b, id).verdict = answer[b][id]
         /\ id \in IdsOf(b) /\ promise[b] = "fulfilled"
         /\ \E k \in DOMAIN checks : Entry(b, id).request = checks[k] /\ id = IdFor(checks[k])
<1>1. id \in DOMAIN answer[b] /\ Prepared(id)
  BY DEF KnownIdsIn
<1>2. PICK k \in DOMAIN transformed : transformed[k].id = id
  BY <1>1 DEF Prepared
<1>3. /\ CheckOf(id) = checks[k] /\ id = IdFor(checks[k]) /\ id \in Id
      /\ k \in DOMAIN checks /\ checks[k] \in Object
  BY <1>2, CheckOfIs
<1>4. answer[b][id] \in Verdict
  BY <1>1 DEF AnswersMatch, Range
<1>5. id \in IdsOf(b) /\ promise[b] = "fulfilled"
  BY <1>1 DEF AnswersMatch
<1> QED BY <1>3, <1>4, <1>5 DEF Entry, CheckResult

\* What stays when the items stay.
LEMMA ItemsStay ==
  ASSUME BatchInvariant, UNCHANGED <<checks, givenId, randomness, correlationId, transformed,
             batches>>
  PROVE  /\ IdsSettled' /\ ItemsMatch' /\ (AllCut' <=> AllCut) /\ (SameIdTwice' <=> SameIdTwice)
         /\ \A b : IdsOf(b)' = IdsOf(b)
         /\ \A id : Prepared(id)' <=> Prepared(id)
<1>1. IdsSettled'
  BY DEF BatchInvariant, IdsSettled, IdFor
<1>2. ItemsMatch'
  <2>1. \A o : IdFor(o)' = IdFor(o)
    BY DEF IdFor
  <2> QED BY <2>1 DEF BatchInvariant, ItemsMatch
<1>3. (AllCut' <=> AllCut) /\ (SameIdTwice' <=> SameIdTwice)
  BY DEF AllCut, SameIdTwice
<1>4. \A b : IdsOf(b)' = IdsOf(b)
  BY DEF IdsOf
<1>5. \A id : Prepared(id)' <=> Prepared(id)
  BY DEF Prepared
<1> QED BY <1>1, <1>2, <1>3, <1>4, <1>5

\* What is known of the results stays when the responses taken stay.
LEMMA ResultsStay ==
  ASSUME ResultsMatch, UNCHANGED <<transformed, results, yielded>>,
         \A b \in Range(yielded) : answer'[b] = answer[b]
  PROVE  ResultsMatch'
<1>1. \A id : (Prepared(id)' <=> Prepared(id)) /\ CheckOf(id)' = CheckOf(id)
  BY DEF Prepared, CheckOf
<1>2. \A b \in Range(yielded) :
        KnownIdsIn(b)' = KnownIdsIn(b) /\ \A id : Entry(b, id)' = Entry(b, id)
  BY <1>1 DEF KnownIdsIn, Entry
<1> QED BY <1>2 DEF ResultsMatch

-----------------------------------------------------------------------------
\* The invariant is inductive.

LEMMA BatchInvariantInit == Init => BatchInvariant
<1> SUFFICES ASSUME Init PROVE BatchInvariant
  OBVIOUS
<1>1. waiting = <<>> /\ executing = {} /\ yielded = <<>> /\ generator = "running"
  BY DEF Init, Pool!Fresh
<1>2. Types
  <2>1. correlationId \in [Object -> Id \cup {NoId}]
    <3>1. \A id \in GivenId : Given(id) \in Id
      BY IdsApart
    <3>2. givenId \in [Object -> {Given(id) : id \in GivenId} \cup {NoId}]
              /\ correlationId = givenId
      BY DEF Init
    <3>3. {Given(id) : id \in GivenId} \subseteq Id
      BY <3>1
    <3> QED BY <3>2, <3>3
  <2>2. thrown \in ErrorObject \cup {NoError} /\ error \in [Batch -> ErrorObject \cup {NoError}]
    BY DEF Init
  <2> QED BY <1>1, <2>1, <2>2 DEF Init, Types
<1>3. IdsSettled
  BY DEF Init, IdsSettled
<1>4. ItemsMatch /\ BeforeTheLoop
  <2>1. checks \in Seq(Object)
    BY BatchCheckAssumption DEF Init
  <2> QED BY <1>1, <2>1 DEF Init, ItemsMatch, BeforeTheLoop
<1>5. BatchesMatch /\ InOnePlace /\ Refusals
  BY <1>1, EmptyRange DEF Init, BatchesMatch, InOnePlace, Refusals
<1>6. AnswersMatch
  BY DEF Init, AnswersMatch, Range
<1>7. ResultsMatch
  BY <1>1, EmptyRange DEF Init, ResultsMatch
<1> QED BY <1>2, <1>3, <1>4, <1>5, <1>6, <1>7 DEF BatchInvariant

\* A turn of the loop over the checks: the next one is prepared, or the call is refused.
LEMMA PrepareStep ==
  ASSUME BatchInvariant, Prepare
  PROVE  BatchInvariant'
<1> USE DEF BatchInvariant, inputVars, requestVars, poolVars
<1> DEFINE n == Len(transformed)
           o == checks[n + 1]
           item == [object |-> o, id |-> IdFor(o)]
<1>1. /\ stage = "called" /\ n < Len(checks)
      /\ executing = {} /\ yielded = <<>> /\ results = <<>> /\ generator = "running"
      /\ \A b \in Batch : promise[b] = "none"
      /\ UNCHANGED <<inputVars, batches, results, requestVars, poolVars>>
  BY DEF Prepare, BeforeTheLoop
<1>2. /\ n \in Nat /\ DOMAIN transformed = 1 .. n /\ transformed \in Seq(BatchItem)
      /\ Len(checks) \in Nat /\ DOMAIN checks = 1 .. Len(checks) /\ checks \in Seq(Object)
  BY BatchCheckAssumption DEF Types
<1>3. n + 1 \in DOMAIN checks
  BY <1>1, <1>2
<1>4. o \in Object
  BY <1>2, <1>3
<1>5. IdOf(o) = IdFor(o) /\ IdFor(o) \in Id
  BY <1>4, IdOfIs, IdForIs
<1>6. /\ correlationId' = [correlationId EXCEPT ![o] = IdFor(o)]
      /\ \/ /\ Prepared(IdFor(o)) /\ stage' = "rejected"
            /\ thrown' = ErrorOf("FgaValidationError") /\ UNCHANGED transformed
         \/ /\ ~Prepared(IdFor(o)) /\ transformed' = Append(transformed, item)
            /\ UNCHANGED <<stage, thrown>>
  BY <1>5 DEF Prepare
<1>7. item \in BatchItem
  BY <1>4, <1>5 DEF BatchItem
<1> HIDE DEF n, item, o
<1>8. /\ \A p : IdFor(p)' = IdFor(p)
      /\ \A p \in Object : correlationId'[p] = IF p = o THEN IdFor(o) ELSE correlationId[p]
      /\ correlationId' \in [Object -> Id \cup {NoId}]
  <2>1. \A p : IdFor(p)' = IdFor(p)
    BY <1>1 DEF IdFor
  <2> QED BY <1>4, <1>5, <1>6, <2>1 DEF Types
<1>9. Types'
  <2>1. ErrorOf("FgaValidationError") \in ErrorObject
    BY DEF ErrorOf, ErrorObject, ErrorClass, Superclass
  <2>2. transformed' \in Seq(BatchItem)
    BY <1>2, <1>6, <1>7
  <2>3. stage' \in {"called", "rejected"} /\ thrown' \in ErrorObject \cup {NoError}
    BY <1>1, <1>6, <2>1 DEF Types
  <2> QED BY <1>1, <1>8, <2>2, <2>3 DEF Types
<1>10. IdsSettled'
  BY <1>1, <1>8 DEF IdsSettled
<1>11. ItemsMatch'
  <2>1. \A k \in 1 .. n :
          /\ transformed[k] = [object |-> checks[k], id |-> IdFor(checks[k])]
          /\ checks[k] \in Object /\ correlationId'[checks[k]] = IdFor(checks[k])
    <3>1. \A k \in 1 .. n : k \in DOMAIN checks
      BY <1>1, <1>2 DEF n
    <3>2. \A k \in 1 .. n : checks[k] \in Object
      BY <1>2, <3>1
    <3> QED BY <1>2, <1>8, <3>2 DEF ItemsMatch
  <2>2. CASE UNCHANGED transformed
    BY <1>1, <1>2, <1>8, <2>1, <2>2 DEF ItemsMatch, n
  <2>3. CASE ~Prepared(IdFor(o)) /\ transformed' = Append(transformed, item)
    <3>1. /\ Len(transformed') = n + 1 /\ DOMAIN transformed' = 1 .. (n + 1)
          /\ \A k \in 1 .. n : transformed'[k] = transformed[k]
          /\ transformed'[n + 1] = item
      BY <1>2, <1>7, <2>3 DEF n
    <3>2. \A k \in 1 .. (n + 1) : k \in 1 .. n \/ k = n + 1
      BY <1>2
    <3>3. \A k \in DOMAIN transformed' :
            /\ transformed'[k] = [object |-> checks[k], id |-> IdFor(checks[k])]
            /\ correlationId'[checks[k]] = IdFor(checks[k])
      BY <1>4, <1>8, <2>1, <3>1, <3>2 DEF item, o
    <3>4. \A k \in 1 .. n : transformed[k].id # IdFor(o)
      BY <1>2, <2>3 DEF Prepared
    <3>5. item.id = IdFor(o)
      BY DEF item
    <3>6. \A j, k \in DOMAIN transformed' : transformed'[j].id = transformed'[k].id => j = k
      BY <1>2, <3>1, <3>2, <3>4, <3>5 DEF ItemsMatch
    <3>7. Len(transformed') <= Len(checks)
      BY <1>1, <1>2, <3>1
    <3> QED BY <1>1, <1>8, <3>3, <3>6, <3>7 DEF ItemsMatch
  <2> QED BY <1>6, <2>2, <2>3
<1>12. BeforeTheLoop' /\ BatchesMatch' /\ InOnePlace'
  BY <1>1, <1>6, EmptyRange DEF BeforeTheLoop, BatchesMatch, InOnePlace
<1>13. AnswersMatch'
  BY <1>1 DEF AnswersMatch
<1>14. ResultsMatch'
  BY <1>1, EmptyRange DEF ResultsMatch
<1>15. Refusals'
  <2>1. CASE Prepared(IdFor(o))
    <3>1. PICK k \in DOMAIN transformed : transformed[k].id = IdFor(o)
      BY <2>1 DEF Prepared
    <3>2. IdFor(checks[k]) = IdFor(checks[n + 1]) /\ k \in DOMAIN checks /\ k # n + 1
      BY <1>2, <3>1, CheckOfIs DEF o
    <3>3. SameIdTwice
      BY <1>3, <3>2, SameIdMeans
    <3> QED BY <1>1, <3>3 DEF Refusals, SameIdTwice
  <2>2. CASE ~Prepared(IdFor(o))
    BY <1>1, <1>6, <2>2 DEF Refusals
  <2> QED BY <2>1, <2>2
<1> QED BY <1>9, <1>10, <1>11, <1>12, <1>13, <1>14, <1>15

\* The batches are cut.
LEMMA StartBatchesStep ==
  ASSUME BatchInvariant, StartBatches
  PROVE  BatchInvariant'
<1> USE DEF BatchInvariant, inputVars, requestVars
<1> DEFINE cut == ChunkArray(transformed, MaxBatchSize)
<1>1. /\ stage = "called" /\ stage' = "checking" /\ Len(transformed) = Len(checks)
      /\ batches' = cut /\ waiting' = [b \in 1 .. Len(cut) |-> b]
      /\ executing = {} /\ yielded = <<>> /\ results = <<>> /\ generator = "running"
      /\ \A b \in Batch : promise[b] = "none"
      /\ UNCHANGED <<inputVars, correlationId, transformed, results, thrown, requestVars,
                     executing, yielded, generator>>
  BY DEF StartBatches, BeforeTheLoop
<1>2. transformed \in Seq(BatchItem) /\ MaxBatchSize \in Nat \ {0}
  BY BatchCheckAssumption DEF Types
<1>3. Len(cut) \in Nat /\ 1 .. Len(cut) \subseteq Batch
  <2>1. Len(transformed) <= Len(checks)
    <3>1. Len(transformed) \in Int
      BY <1>2
    <3> QED BY <1>1, <3>1
  <2> QED BY <2>1, BatchesCounted
<1>4. cut \in Seq(Seq(BatchItem))
  BY <1>2, PoolAssumption, PP!ChunksAreThePieces, SameChunks
<1> HIDE DEF cut
<1>5. waiting' \in Seq(Batch) /\ Range(waiting') = 1 .. Len(cut) /\ Injective(waiting')
  <2>1. waiting' \in [1 .. Len(cut) -> Batch]
    BY <1>1, <1>3
  <2>2. waiting' \in Seq(Batch)
    BY <1>3, <2>1
  <2>3. Range(waiting') = 1 .. Len(cut)
    BY <1>1 DEF Range
  <2>4. Injective(waiting')
    BY <1>1 DEF Injective
  <2> QED BY <2>2, <2>3, <2>4
<1>6. Types'
  BY <1>1, <1>4, <1>5 DEF Types
<1>7. IdsSettled' /\ ItemsMatch'
  <2>1. \A o : IdFor(o)' = IdFor(o)
    BY <1>1 DEF IdFor
  <2> QED BY <1>1, <2>1 DEF IdsSettled, ItemsMatch
<1>8. BeforeTheLoop' /\ BatchesMatch' /\ Refusals'
  BY <1>1 DEF BeforeTheLoop, BatchesMatch, AllCut, Refusals, cut
<1>9. InOnePlace'
  BY <1>1, <1>5, EmptyRange DEF InOnePlace
<1>10. AnswersMatch'
  BY <1>1 DEF AnswersMatch
<1>11. ResultsMatch'
  BY <1>1, EmptyRange DEF ResultsMatch
<1> QED BY <1>6, <1>7, <1>8, <1>9, <1>10, <1>11

\* A batch leaves the queue and is sent.
LEMMA LaunchBatchStep ==
  ASSUME BatchInvariant, LaunchBatch
  PROVE  BatchInvariant'
<1> USE DEF BatchInvariant, inputVars
<1> DEFINE x == Head(waiting)
<1>1. /\ stage = "checking" /\ generator = "running" /\ waiting # <<>>
      /\ executing' = executing \cup {x} /\ waiting' = Tail(waiting)
      /\ promise' = [promise EXCEPT ![x] = "pending"]
      /\ sentModelId' = [sentModelId EXCEPT ![x] = batchModelId]
      /\ UNCHANGED <<yielded, generator, inputVars, correlationId, stage, transformed, batches,
                     results, thrown, answer, error>>
  BY DEF LaunchBatch, Pool!Launch
<1>2. waiting \in Seq(Batch) /\ Injective(waiting)
  BY <1>1 DEF Types, InOnePlace
<1>3. /\ x \in Batch /\ x \in Range(waiting) /\ waiting' \in Seq(Batch)
      /\ Range(waiting') = Range(waiting) \ {x} /\ Injective(waiting')
  BY <1>1, <1>2, TailRange
<1> HIDE DEF x
<1>4. promise[x] = "none" /\ x \notin Range(yielded) /\ x \notin executing
          /\ x \in 1 .. Len(batches)
  BY <1>1, <1>3 DEF InOnePlace
<1>5. /\ promise' \in [Batch -> {"none", "pending", "fulfilled", "rejected"}]
      /\ promise'[x] = "pending" /\ \A b \in Batch \ {x} : promise'[b] = promise[b]
      /\ sentModelId' \in [Batch -> ModelIds \cup {Unset}]
  BY <1>1, <1>3 DEF Types
<1>6. Types'
  BY <1>1, <1>3, <1>5 DEF Types
<1>7. /\ IdsSettled' /\ ItemsMatch' /\ (AllCut' <=> AllCut) /\ (SameIdTwice' <=> SameIdTwice)
      /\ \A b : IdsOf(b)' = IdsOf(b)
      /\ \A id : Prepared(id)' <=> Prepared(id)
  BY <1>1, ItemsStay
<1>8. BeforeTheLoop' /\ Refusals'
  BY <1>1 DEF BeforeTheLoop, Refusals
<1>9. BatchesMatch'
  BY <1>1, <1>4, <1>5, <1>7 DEF BatchesMatch
<1>10. InOnePlace'
  <2>1. Range(yielded) \subseteq Batch
    BY DEF Types, Range
  <2> QED BY <1>1, <1>3, <1>4, <1>5, <2>1 DEF InOnePlace
<1>11. AnswersMatch'
  BY <1>1, <1>4, <1>5, <1>7 DEF AnswersMatch
<1>12. ResultsMatch'
  BY <1>1, ResultsStay
<1> QED BY <1>6, <1>7, <1>8, <1>9, <1>10, <1>11, <1>12

\* The results of a batch, after those of the others.
LEMMA CollectResults ==
  ASSUME BatchInvariant, AllCut, NEW b \in 1 .. Len(batches), b \notin Range(yielded),
         Range(yielded) \subseteq 1 .. Len(batches),
         yielded' = Append(yielded, b), Range(yielded') = Range(yielded) \cup {b},
         UNCHANGED <<transformed, answer>>,
         results' = results \o [k \in DOMAIN SetToSeq(KnownIdsIn(b)) |->
                                  Entry(b, SetToSeq(KnownIdsIn(b))[k])]
  PROVE  results' \in Seq(CheckResult) /\ ResultsMatch'
<1> USE DEF BatchInvariant
<1> DEFINE ids == SetToSeq(KnownIdsIn(b))
           more == [k \in DOMAIN ids |-> Entry(b, ids[k])]
           m == Len(results)
           n == Len(ids)
<1>1. /\ b \in Batch /\ 1 .. Len(batches) \subseteq Batch
  <2>1. \A c \in 1 .. Len(batches) : c \in Batch
    BY BatchIsPiece
  <2> QED BY <2>1
<1>2. \A c \in Batch : \A id \in KnownIdsIn(c) : id \in IdsOf(c)
  BY EntryIs
<1>3. IsFiniteSet(KnownIdsIn(b))
  <2>1. KnownIdsIn(b) \subseteq IdsOf(b)
    BY <1>1, <1>2
  <2> QED BY <2>1, IdsOfAre, FS_Subset
<1>4. ids \in Seq(KnownIdsIn(b)) /\ Range(ids) = KnownIdsIn(b) /\ Injective(ids)
  BY <1>3, SetToSeqIs
<1>5. results' = results \o more
  OBVIOUS
<1> HIDE DEF ids
<1>6. n \in Nat /\ DOMAIN ids = 1 .. n /\ \A k \in 1 .. n : ids[k] \in KnownIdsIn(b)
  BY <1>4
<1>7. \A k \in 1 .. n : more[k] = Entry(b, ids[k]) /\ Entry(b, ids[k]) \in CheckResult
  BY <1>1, <1>6, EntryIs
<1> HIDE DEF n
<1>8. more \in Seq(CheckResult) /\ Len(more) = n
  <2>1. more = [k \in 1 .. n |-> Entry(b, ids[k])]
    BY <1>6
  <2>2. more \in [1 .. n -> CheckResult]
    BY <1>7, <2>1
  <2> HIDE DEF more
  <2> QED BY <1>6, <2>2
<1>9. results \in Seq(CheckResult) /\ m \in Nat /\ DOMAIN results = 1 .. m
  BY DEF Types
<1> HIDE DEF more
<1>10. /\ results' \in Seq(CheckResult) /\ DOMAIN results' = 1 .. (m + n)
       /\ \A j \in 1 .. m : results'[j] = results[j]
       /\ \A k \in 1 .. n : results'[m + k] = more[k]
  <2>1. results \in Seq(CheckResult) /\ Len(results) = m
    BY <1>9
  <2> HIDE DEF m
  <2> DEFINE s == results  t == more
  <2>2. s \in Seq(CheckResult) /\ t \in Seq(CheckResult) /\ Len(s) = m /\ Len(t) = n
    BY <1>8, <2>1
  <2>3. results' = s \o t
    BY <1>5
  <2> HIDE DEF s, t
  <2>4. /\ m \in Nat /\ n \in Nat /\ DOMAIN s = 1 .. m
        /\ s \o t \in Seq(CheckResult) /\ DOMAIN (s \o t) = 1 .. (m + n)
        /\ \A j \in 1 .. m : (s \o t)[j] = s[j]
        /\ \A k \in 1 .. n : (s \o t)[m + k] = t[k]
    BY <2>2, ConcatIs, SMTT(30)
  <2>5. results' \in Seq(CheckResult) /\ DOMAIN results' = 1 .. (m + n)
    BY <2>3, <2>4
  <2>6. \A j \in 1 .. m : results'[j] = s[j]
    BY <2>3, <2>4
  <2>7. \A k \in 1 .. n : results'[m + k] = t[k]
    BY <2>3, <2>4
  <2> QED BY <2>5, <2>6, <2>7 DEF s, t
<1> HIDE DEF m
<1>11. \A j \in 1 .. (m + n) : j \in 1 .. m \/ \E k \in 1 .. n : j = m + k
  <2> SUFFICES ASSUME NEW j \in 1 .. (m + n), j \notin 1 .. m
               PROVE  \E k \in 1 .. n : j = m + k
    OBVIOUS
  <2>1. j - m \in 1 .. n /\ j = m + (j - m)
    BY <1>6, <1>9
  <2> QED BY <2>1
<1>12. \A j \in 1 .. m : j \in 1 .. (m + n)
  BY <1>6, <1>9
<1>13. \A k \in 1 .. n : m + k \in 1 .. (m + n)
  BY <1>6, <1>9
<1>14. \A k \in 1 .. n : results'[m + k] = Entry(b, ids[k])
  BY <1>7, <1>10
<1>15. \A c : KnownIdsIn(c)' = KnownIdsIn(c)
  BY DEF KnownIdsIn, Prepared
<1>16. \A c, id : Entry(c, id)' = Entry(c, id)
  <2>1. \A id : CheckOf(id)' = CheckOf(id)
    BY DEF CheckOf
  <2> QED BY <2>1 DEF Entry
<1>17. ASSUME NEW j \in DOMAIN results'
       PROVE  \E c \in Range(yielded') : \E id \in KnownIdsIn(c) : results'[j] = Entry(c, id)
  <2>1. CASE j \in 1 .. m
    BY <1>9, <1>10, <2>1 DEF ResultsMatch
  <2>2. ASSUME NEW k \in 1 .. n, j = m + k
        PROVE  \E c \in Range(yielded') : \E id \in KnownIdsIn(c) : results'[j] = Entry(c, id)
    BY <1>6, <1>14, <2>2
  <2> QED BY <1>10, <1>11, <2>1, <2>2
<1>18. ASSUME NEW c \in Range(yielded'), NEW id \in KnownIdsIn(c)
       PROVE  \E j \in DOMAIN results' : results'[j] = Entry(c, id)
  <2>1. CASE c \in Range(yielded)
    <3>1. PICK j \in DOMAIN results : results[j] = Entry(c, id)
      BY <2>1 DEF ResultsMatch
    <3> QED BY <1>9, <1>10, <1>12, <3>1
  <2>2. CASE c = b
    <3>1. PICK k \in DOMAIN ids : ids[k] = id
      BY <1>4, <2>2 DEF Range
    <3> QED BY <1>6, <1>10, <1>13, <1>14, <2>2, <3>1
  <2> QED BY <2>1, <2>2
<1>19. \A j \in 1 .. m : results[j].correlationId \notin KnownIdsIn(b)
  <2> SUFFICES ASSUME NEW j \in 1 .. m, results[j].correlationId \in KnownIdsIn(b)
               PROVE  FALSE
    OBVIOUS
  <2>1. PICK c \in Range(yielded) : \E id \in KnownIdsIn(c) : results[j] = Entry(c, id)
    BY <1>9 DEF ResultsMatch
  <2>2. PICK id \in KnownIdsIn(c) : results[j] = Entry(c, id)
    BY <2>1
  <2>3. c \in 1 .. Len(batches) /\ c \in Batch /\ c # b
    BY <1>1
  <2>4. id \in IdsOf(c) /\ results[j].correlationId = id
    BY <2>2, <2>3, EntryIs
  <2>5. id \in IdsOf(b)
    BY <1>1, <1>2, <2>4
  <2>6. PICK i \in DOMAIN batches[b] : batches[b][i].id = id
    BY <2>5 DEF IdsOf
  <2>7. PICK k \in DOMAIN batches[c] : batches[c][k].id = id
    BY <2>4 DEF IdsOf
  <2> QED BY <2>3, <2>6, <2>7, NoIdTwice
<1>20. \A k \in 1 .. n : results'[m + k].correlationId = ids[k] /\ ids[k] \in KnownIdsIn(b)
  <2> SUFFICES ASSUME NEW k \in 1 .. n
               PROVE  results'[m + k].correlationId = ids[k] /\ ids[k] \in KnownIdsIn(b)
    OBVIOUS
  <2>1. ids[k] \in KnownIdsIn(b) /\ results'[m + k] = Entry(b, ids[k])
    BY <1>6, <1>14
  <2>2. Entry(b, ids[k]).correlationId = ids[k]
    BY <1>1, <2>1, EntryIs
  <2> QED BY <2>1, <2>2
<1>21. ASSUME NEW i \in DOMAIN results', NEW j \in DOMAIN results',
              results'[i].correlationId = results'[j].correlationId
       PROVE  i = j
  <2>1. CASE i \in 1 .. m /\ j \in 1 .. m
    BY <1>9, <1>10, <1>21, <2>1 DEF ResultsMatch
  <2>2. CASE i \in 1 .. m /\ j \notin 1 .. m
    <3>1. PICK k \in 1 .. n : j = m + k
      BY <1>10, <1>11, <2>2
    <3> QED BY <1>10, <1>19, <1>20, <1>21, <2>2, <3>1
  <2>3. CASE i \notin 1 .. m /\ j \in 1 .. m
    <3>1. PICK k \in 1 .. n : i = m + k
      BY <1>10, <1>11, <2>3
    <3> QED BY <1>10, <1>19, <1>20, <1>21, <2>3, <3>1
  <2>4. CASE i \notin 1 .. m /\ j \notin 1 .. m
    <3>1. PICK k \in 1 .. n : i = m + k
      BY <1>10, <1>11, <2>4
    <3>2. PICK l \in 1 .. n : j = m + l
      BY <1>10, <1>11, <2>4
    <3>3. ids[k] = ids[l]
      BY <1>20, <1>21, <3>1, <3>2
    <3>4. k = l
      BY <1>4, <1>6, <3>3 DEF Injective
    <3> QED BY <3>1, <3>2, <3>4
  <2> QED BY <2>1, <2>2, <2>3, <2>4
<1>22. ResultsMatch'
  <2>1. \A j \in DOMAIN results' :
          \E c \in Range(yielded') : \E id \in KnownIdsIn(c)' : results'[j] = Entry(c, id)'
    BY <1>15, <1>16, <1>17
  <2>2. \A c \in Range(yielded') : \A id \in KnownIdsIn(c)' :
          \E j \in DOMAIN results' : results'[j] = Entry(c, id)'
    BY <1>15, <1>16, <1>18
  <2>3. \A i, j \in DOMAIN results' :
          results'[i].correlationId = results'[j].correlationId => i = j
    BY <1>21
  <2> QED BY <2>1, <2>2, <2>3 DEF ResultsMatch
<1> QED BY <1>10, <1>22

\* The loop takes a response.
LEMMA CollectStep ==
  ASSUME BatchInvariant, NEW b \in Batch, Collect(b)
  PROVE  BatchInvariant'
<1> USE DEF BatchInvariant, inputVars, requestVars
<1>1. /\ stage = "checking" /\ b \in executing /\ Outcome[b] = "fulfilled"
      /\ executing' = executing \ {b} /\ yielded' = Append(yielded, b)
      /\ results' = results \o [k \in DOMAIN SetToSeq(KnownIdsIn(b)) |->
                                  Entry(b, SetToSeq(KnownIdsIn(b))[k])]
      /\ UNCHANGED <<waiting, generator, inputVars, correlationId, stage, transformed, batches,
                     thrown, requestVars>>
  BY DEF Collect, Pool!Yield, Pool!Waits
<1>2. yielded \in Seq(Batch) /\ Injective(yielded) /\ b \notin Range(yielded)
  BY <1>1 DEF Types, InOnePlace
<1>3. /\ yielded' \in Seq(Batch) /\ Range(yielded') = Range(yielded) \cup {b}
      /\ Injective(yielded')
  BY <1>1, <1>2, AppendRange
<1>4. promise[b] = "fulfilled"
  BY <1>1 DEF Outcome, Types
<1>5. /\ AllCut /\ b \in 1 .. Len(batches) /\ Range(yielded) \subseteq 1 .. Len(batches)
  BY <1>1 DEF InOnePlace, BatchesMatch
<1>6. results' \in Seq(CheckResult) /\ ResultsMatch'
  BY <1>1, <1>2, <1>3, <1>5, CollectResults
<1>7. Types'
  BY <1>1, <1>3, <1>6 DEF Types
<1>8. /\ IdsSettled' /\ ItemsMatch' /\ (AllCut' <=> AllCut) /\ (SameIdTwice' <=> SameIdTwice)
      /\ \A c : IdsOf(c)' = IdsOf(c)
      /\ \A id : Prepared(id)' <=> Prepared(id)
  BY <1>1, ItemsStay
<1>9. BeforeTheLoop' /\ BatchesMatch' /\ Refusals'
  BY <1>1, <1>8 DEF BeforeTheLoop, BatchesMatch, Refusals
<1>10. InOnePlace'
  BY <1>1, <1>3, <1>4 DEF InOnePlace
<1>11. AnswersMatch'
  BY <1>1, <1>8 DEF AnswersMatch
<1> QED BY <1>6, <1>7, <1>8, <1>9, <1>10, <1>11

\* The pool throws what a batch failed with, or has no batch left.
LEMMA EndStep ==
  ASSUME BatchInvariant, Return \/ \E b \in Batch : Abort(b)
  PROVE  BatchInvariant'
<1> USE DEF BatchInvariant, inputVars, requestVars
<1>1. /\ stage = "checking" /\ stage' \in {"resolved", "rejected"}
      /\ thrown' \in ErrorObject \cup {NoError} /\ generator' \in {"done", "thrown"}
      /\ UNCHANGED <<waiting, executing, yielded, inputVars, correlationId, transformed, batches,
                     results, requestVars>>
      /\ stage' = "resolved" => waiting = <<>> /\ executing = {}
      /\ stage' = "rejected" => \E b \in Batch : promise[b] = "rejected"
  <2>1. CASE Return
    BY <2>1 DEF Return, Pool!Finish, Types
  <2>2. ASSUME NEW b \in Batch, Abort(b)
        PROVE  /\ stage = "checking" /\ stage' = "rejected" /\ thrown' = error[b]
               /\ generator' = "thrown" /\ promise[b] = "rejected"
               /\ UNCHANGED <<waiting, executing, yielded, inputVars, correlationId, transformed,
                              batches, results, requestVars>>
    <3>1. Outcome[b] = "rejected"
      BY <2>2 DEF Abort, Pool!Throw
    <3>2. promise[b] = "rejected"
      BY <3>1 DEF Outcome, Types
    <3> QED BY <2>2, <3>2 DEF Abort, Pool!Throw
  <2>3. \A b \in Batch : error[b] \in ErrorObject \cup {NoError}
    BY DEF Types
  <2>4. CASE \E b \in Batch : Abort(b)
    <3>1. PICK b \in Batch : Abort(b)
      BY <2>4
    <3> QED BY <2>2, <2>3, <3>1
  <2> QED BY <2>1, <2>4
<1>2. Types'
  BY <1>1 DEF Types
<1>3. /\ IdsSettled' /\ ItemsMatch' /\ (AllCut' <=> AllCut) /\ (SameIdTwice' <=> SameIdTwice)
      /\ \A c : IdsOf(c)' = IdsOf(c)
      /\ \A id : Prepared(id)' <=> Prepared(id)
  BY <1>1, ItemsStay
<1>4. BeforeTheLoop' /\ BatchesMatch' /\ Refusals'
  BY <1>1, <1>3 DEF BeforeTheLoop, BatchesMatch, Refusals
<1>5. InOnePlace'
  BY <1>1 DEF InOnePlace
<1>6. AnswersMatch'
  BY <1>1, <1>3 DEF AnswersMatch
<1>7. ResultsMatch'
  BY <1>1, ResultsStay
<1> QED BY <1>2, <1>3, <1>4, <1>5, <1>6, <1>7

\* A request ends, or nothing happens: what the loop has taken stays.
LEMMA SettleStep ==
  ASSUME BatchInvariant, NEW b \in Batch, Settle(b)
  PROVE  BatchInvariant'
<1> USE DEF BatchInvariant, inputVars, poolVars
<1>1. /\ promise[b] = "pending" /\ promise' = [promise EXCEPT ![b] = promise'[b]]
      /\ promise'[b] \in {"fulfilled", "rejected"}
      /\ UNCHANGED <<inputVars, correlationId, stage, transformed, batches, results, thrown,
                     sentModelId, poolVars>>
  BY DEF Settle, Respond, Fail, Types
<1>2. AllCut /\ b \in 1 .. Len(batches) /\ b \notin Range(yielded)
  BY <1>1 DEF BatchesMatch, InOnePlace
<1>3. error' \in [Batch -> ErrorObject \cup {NoError}]
  BY BatchCheckAssumption DEF Settle, Respond, Fail, Types
<1>4. /\ DOMAIN answer' = Batch /\ \A c \in Batch \ {b} : answer'[c] = answer[c]
      /\ promise'[b] # "fulfilled" => DOMAIN answer'[b] = {}
      /\ DOMAIN answer'[b] \subseteq Id /\ Range(answer'[b]) \subseteq Verdict
      /\ \A id \in DOMAIN answer'[b] : id \in IdsOf(b) \/ ~Prepared(id)
  <2>1. CASE Respond(b)
    <3>1. PICK left \in SUBSET IdsOf(b), more \in {{}, Strays} :
            \E verdicts \in [left \cup more -> Verdict] :
                answer' = [answer EXCEPT ![b] = verdicts]
      BY <2>1 DEF Respond
    <3>2. PICK verdicts \in [left \cup more -> Verdict] :
                   answer' = [answer EXCEPT ![b] = verdicts]
      BY <3>1
    <3>3. /\ DOMAIN answer' = Batch /\ answer'[b] = verdicts
          /\ \A c \in Batch \ {b} : answer'[c] = answer[c]
      BY <3>2 DEF AnswersMatch
    <3>4. /\ IdsOf(b) \subseteq Id /\ Strays \subseteq Id /\ \A id \in Strays : ~Prepared(id)
      BY <1>2, IdsOfAre DEF Strays
    <3>5. DOMAIN verdicts = left \cup more /\ Range(verdicts) \subseteq Verdict
      BY DEF Range
    <3>6. promise'[b] = "fulfilled"
      BY <2>1 DEF Respond, Types
    <3> QED BY <3>1, <3>3, <3>4, <3>5, <3>6
  <2>2. CASE Fail(b)
    <3>1. UNCHANGED answer
      BY <2>2 DEF Fail
    <3>2. promise[b] # "fulfilled"
      BY <1>1
    <3> QED BY <3>1, <3>2 DEF AnswersMatch
  <2> QED BY <2>1, <2>2 DEF Settle
<1>5. /\ promise' \in [Batch -> {"none", "pending", "fulfilled", "rejected"}]
      /\ \A c \in Batch \ {b} : promise'[c] = promise[c]
      /\ promise'[b] # "none"
  BY <1>1 DEF Types
<1>6. Types'
  BY <1>1, <1>3, <1>5 DEF Types
<1>7. /\ IdsSettled' /\ ItemsMatch' /\ (AllCut' <=> AllCut) /\ (SameIdTwice' <=> SameIdTwice)
      /\ \A c : IdsOf(c)' = IdsOf(c)
      /\ \A id : Prepared(id)' <=> Prepared(id)
  BY <1>1, ItemsStay
<1>8. BeforeTheLoop' /\ BatchesMatch' /\ Refusals'
  <2>1. stage # "called"
    BY <1>1 DEF BeforeTheLoop
  <2>2. BeforeTheLoop' /\ Refusals'
    BY <1>1, <1>5, <2>1 DEF BeforeTheLoop, Refusals
  <2>3. BatchesMatch'
    BY <1>1, <1>2, <1>5, <1>7 DEF BatchesMatch
  <2> QED BY <2>2, <2>3
<1>9. Range(yielded) \subseteq Batch \ {b}
  BY <1>2 DEF Types, Range
<1>10. InOnePlace'
  BY <1>1, <1>5, <1>9 DEF InOnePlace
<1>11. AnswersMatch'
  BY <1>4, <1>5, <1>7 DEF AnswersMatch
<1>12. ResultsMatch'
  BY <1>1, <1>4, <1>9, ResultsStay
<1> QED BY <1>6, <1>7, <1>8, <1>10, <1>11, <1>12

LEMMA BatchInvariantStep == BatchInvariant /\ [Next]_vars => BatchInvariant'
<1> SUFFICES ASSUME BatchInvariant, [Next]_vars PROVE BatchInvariant'
  OBVIOUS
<1>1. CASE Client
  BY <1>1, PrepareStep, StartBatchesStep, LaunchBatchStep, CollectStep, EndStep DEF Client
<1>2. ASSUME NEW b \in Batch, Settle(b) PROVE BatchInvariant'
  BY <1>2, SettleStep
<1>3. CASE UNCHANGED vars
  <2> USE <1>3 DEF vars, inputVars, requestVars, poolVars, BatchInvariant
  <2>1. Types'
    BY DEF Types
  <2>2. /\ IdsSettled' /\ ItemsMatch' /\ (AllCut' <=> AllCut) /\ (SameIdTwice' <=> SameIdTwice)
        /\ \A c : IdsOf(c)' = IdsOf(c)
        /\ \A id : Prepared(id)' <=> Prepared(id)
    BY ItemsStay
  <2>3. BeforeTheLoop' /\ BatchesMatch' /\ Refusals'
    BY <2>2 DEF BeforeTheLoop, BatchesMatch, Refusals
  <2>4. InOnePlace'
    BY DEF InOnePlace
  <2>5. AnswersMatch'
    BY <2>2 DEF AnswersMatch
  <2>6. ResultsMatch'
    BY ResultsStay
  <2> QED BY <2>1, <2>2, <2>3, <2>4, <2>5, <2>6
<1> QED BY <1>1, <1>2, <1>3 DEF Next

\* What holds at each place of batchCheck (client.ts:725-800), for any checks and ids, any
\* batch size and limit and any answers: the inductive invariant.
THEOREM BatchCheckCorrect == Spec => []BatchInvariant
  BY BatchInvariantInit, BatchInvariantStep, PTL DEF Spec

-----------------------------------------------------------------------------
\* What the invariant gives.

\* Type correctness of the call, its requests and its pool (client.ts:725-800).
THEOREM BatchCheckTypeCorrect == Spec => []TypeOK
<1>1. BatchInvariant => TypeOK
  <2> SUFFICES ASSUME BatchInvariant PROVE TypeOK
    OBVIOUS
  <2>1. Outcome \in [Batch -> {"pending", "fulfilled", "rejected"}]
    BY DEF Outcome, BatchInvariant, Types
  <2>2. Pool!TypeOK
    BY <2>1 DEF BatchInvariant, Types, Pool!TypeOK
  <2> QED BY <2>2 DEF BatchInvariant, Types, AnswersMatch, TypeOK, BatchItem, CheckResult
<1> QED BY <1>1, BatchCheckCorrect, PTL

\* When batchCheck returns, each check has exactly the answer the server gave to its id,
\* once, or none when the response left it out (client.ts:741-799).
THEOREM ChecksHaveTheirAnswers == Spec => []EveryCheckIsAnswered
<1>1. BatchInvariant => EveryCheckIsAnswered
  <2> SUFFICES ASSUME BatchInvariant, stage = "resolved" PROVE EveryCheckIsAnswered
    BY DEF EveryCheckIsAnswered
  <2> USE DEF BatchInvariant
  <2>1. Range(yielded) \subseteq Batch
    BY DEF Types, Range
  <2>2. ASSUME NEW j \in DOMAIN results
        PROVE  \E b \in Batch : \E id \in KnownIdsIn(b) : \E k \in DOMAIN checks :
                 /\ results[j].correlationId = id /\ results[j].verdict = answer[b][id]
                 /\ results[j].request = checks[k] /\ id = IdFor(checks[k])
    <3>1. PICK b \in Range(yielded) : \E id \in KnownIdsIn(b) : results[j] = Entry(b, id)
      BY DEF ResultsMatch
    <3>2. PICK id \in KnownIdsIn(b) : results[j] = Entry(b, id)
      BY <3>1
    <3> QED BY <2>1, <3>2, EntryIs
  <2>3. \A j \in DOMAIN results : results[j].correlationId = IdFor(results[j].request)
    BY <2>2
  <2>4. \A j \in DOMAIN results : results[j].request \in Range(checks)
    BY <2>2 DEF Range
  <2>5. \A i, j \in DOMAIN results : results[i].request = results[j].request => i = j
    BY <2>3 DEF ResultsMatch
  <2>6. ASSUME NEW k \in DOMAIN checks
        PROVE  LET id    == correlationId[checks[k]]
                   given == {answer[b][id] : b \in {c \in Batch : id \in DOMAIN answer[c]}}
               IN  {results[j].verdict : j \in {i \in DOMAIN results :
                       results[i].request = checks[k] /\ results[i].correlationId = id}} = given
    <3> DEFINE id    == correlationId[checks[k]]
               given == {answer[b][id] : b \in {c \in Batch : id \in DOMAIN answer[c]}}
               mine  == {i \in DOMAIN results :
                           results[i].request = checks[k] /\ results[i].correlationId = id}
    <3>1. k \in DOMAIN transformed
      <4>1. checks \in Seq(Object) /\ transformed \in Seq(BatchItem)
        BY BatchCheckAssumption DEF Types
      <4>2. Len(transformed) = Len(checks)
        BY DEF BatchesMatch, AllCut
      <4> QED BY <4>1, <4>2
    <3>2. /\ id = IdFor(checks[k]) /\ transformed[k].id = id
          /\ CheckOf(id) = checks[k] /\ Prepared(id)
      <4>1. id = IdFor(checks[k])
        BY <3>1 DEF ItemsMatch
      <4>2. transformed[k].id = IdFor(checks[k]) /\ CheckOf(transformed[k].id) = checks[k]
        BY <3>1, CheckOfIs
      <4> QED BY <3>1, <4>1, <4>2 DEF Prepared
    <3> HIDE DEF id
    <3>3. ASSUME NEW j \in mine PROVE results[j].verdict \in given
      <4>1. PICK b \in Batch : id \in KnownIdsIn(b) /\ results[j].verdict = answer[b][id]
        BY <2>2, <3>3
      <4> QED BY <4>1 DEF KnownIdsIn
    <3>4. ASSUME NEW b \in Batch, id \in DOMAIN answer[b]
          PROVE  \E j \in mine : results[j].verdict = answer[b][id]
      <4>1. id \in KnownIdsIn(b)
        BY <3>2, <3>4 DEF KnownIdsIn
      <4>2. promise[b] = "fulfilled"
        BY <4>1, EntryIs
      <4>3. b \in Range(yielded)
        BY <4>2 DEF InOnePlace
      <4>4. PICK j \in DOMAIN results : results[j] = Entry(b, id)
        BY <4>1, <4>3 DEF ResultsMatch
      <4> QED BY <3>2, <4>4 DEF Entry
    <3>5. {results[j].verdict : j \in mine} = given
      BY <3>3, <3>4
    <3> QED BY <3>5 DEF id
  <2> QED BY <2>4, <2>5, <2>6 DEF EveryCheckIsAnswered
<1> QED BY <1>1, BatchCheckCorrect, PTL

\* No id is sent twice, and a call is refused before anything is sent only for an id given
\* twice, an object passed twice, or the lack of random numbers (client.ts:743-752).
THEOREM DuplicatesAreRefused == Spec => []OnlyDuplicatesAreRefused
<1>1. BatchInvariant => OnlyDuplicatesAreRefused
  <2> SUFFICES ASSUME BatchInvariant PROVE OnlyDuplicatesAreRefused
    OBVIOUS
  <2> USE DEF BatchInvariant
  <2>1. ASSUME NEW b \in Batch, NEW c \in Batch, promise[b] # "none", promise[c] # "none",
               NEW j \in DOMAIN batches[b], NEW k \in DOMAIN batches[c],
               batches[b][j].id = batches[c][k].id
        PROVE  b = c /\ j = k
    <3>1. AllCut /\ b \in 1 .. Len(batches) /\ c \in 1 .. Len(batches)
      BY <2>1 DEF BatchesMatch
    <3> QED BY <2>1, <3>1, NoIdTwice
  <2>2. ASSUME stage = "rejected", \A b \in Batch : promise[b] = "none" PROVE SameIdTwice
    BY <2>2 DEF Refusals
  <2> QED BY <2>1, <2>2 DEF OnlyDuplicatesAreRefused, SameIdTwice
<1> QED BY <1>1, BatchCheckCorrect, PTL
=============================================================================
