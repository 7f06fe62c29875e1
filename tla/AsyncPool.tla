------------------------------ MODULE AsyncPool ------------------------------
(***************************************************************************)
(* The generator of the tiny-async-pool package as the client consumes it, *)
(* in `for await (const x of asyncPool(limit, items, fn))`                 *)
(* (src/client.ts:550, 570, 682, 771).  External code, modelled from its   *)
(* use: fn is started on the items in order while fewer than `limit` calls *)
(* are being executed, at least one; otherwise, and when no item is left,  *)
(* the generator waits for one of the calls being executed.  A fulfilled   *)
(* one is yielded; a rejected one ends the generator with an exception,    *)
(* and the calls still executing go on without anybody waiting for them.   *)
(*                                                                         *)
(* Of several settled calls any may be taken first.                        *)
(***************************************************************************)
EXTENDS Integers, Sequences, FiniteSets

CONSTANTS Item, Concurrency

ASSUME AsyncPoolAssumption == IsFiniteSet(Item) /\ Concurrency \in Int

VARIABLES
  waiting,   \* the items not started yet, in order
  executing, \* those started and not yet taken out by the generator
  yielded,   \* those handed to the consumer, in that order
  generator, \* running, done or thrown
  outcome    \* what has become of fn(item): pending, fulfilled or rejected

poolVars == <<waiting, executing, yielded, generator>>

Full == Cardinality(executing) >= Concurrency /\ executing # {}

\* The generator as it is when it has been called with a sequence of items.
Fresh(items) ==
  /\ waiting   = items
  /\ executing = {}
  /\ yielded   = <<>>
  /\ generator = "running"

\* Mutants: all the items left are started as one; one more than the limit is.
LaunchAll ==
  /\ generator = "running"
  /\ waiting # <<>>
  /\ ~Full
  /\ executing' = executing \cup {waiting}
  /\ waiting'   = <<>>
  /\ UNCHANGED <<yielded, generator>>
LaunchOneMore ==
  /\ generator = "running"
  /\ waiting # <<>>
  /\ Cardinality(executing) <= Concurrency
  /\ executing' = executing \cup {Head(waiting)}
  /\ waiting'   = Tail(waiting)
  /\ UNCHANGED <<yielded, generator>>

Launch ==
  /\ generator = "running"
  /\ waiting # <<>>
  /\ ~Full
  /\ executing' = executing \cup {Head(waiting)}
  /\ waiting'   = Tail(waiting)
  /\ UNCHANGED <<yielded, generator>>

Waits == generator = "running" /\ executing # {} /\ (Full \/ waiting = <<>>)

Yield(i) ==
  /\ Waits
  /\ i \in executing /\ outcome[i] = "fulfilled"
  /\ executing' = executing \ {i}
  /\ yielded'   = Append(yielded, i)
  /\ UNCHANGED <<waiting, generator>>

Throw(i) ==
  /\ Waits
  /\ i \in executing /\ outcome[i] = "rejected"
  /\ generator' = "thrown"
  /\ UNCHANGED <<waiting, executing, yielded>>

\* Mutant: the calls still executing at the end are not waited for.
FinishEarly ==
  /\ generator = "running"
  /\ waiting = <<>>
  /\ generator' = "done"
  /\ UNCHANGED <<waiting, executing, yielded>>

Finish ==
  /\ generator = "running"
  /\ waiting = <<>> /\ executing = {}
  /\ generator' = "done"
  /\ UNCHANGED <<waiting, executing, yielded>>

Step == Launch \/ (\E i \in Item : Yield(i) \/ Throw(i)) \/ Finish

-----------------------------------------------------------------------------
\* The pool on its own: any call may be fulfilled or rejected at any time after it
\* was started, also after the generator has thrown.
started == Item \ {waiting[k] : k \in DOMAIN waiting}

Init ==
  /\ \E items \in [1 .. Cardinality(Item) -> Item] :
       /\ \A j, k \in DOMAIN items : items[j] = items[k] => j = k
       /\ Fresh(items)
  /\ outcome = [i \in Item |-> "pending"]

Settle(i) ==
  /\ i \in started
  /\ outcome[i] = "pending"
  /\ \E how \in {"fulfilled", "rejected"} : outcome' = [outcome EXCEPT ![i] = how]
  /\ UNCHANGED poolVars

Next == (Step /\ UNCHANGED outcome) \/ \E i \in Item : Settle(i)

vars == <<poolVars, outcome>>
Spec == Init /\ [][Next]_vars

-----------------------------------------------------------------------------
\* Every variable stays in its range (the use of asyncPool in client.ts:550-588).
TypeOK ==
  /\ waiting \in Seq(Item)
  /\ executing \subseteq Item
  /\ yielded \in Seq(Item)
  /\ generator \in {"running", "done", "thrown"}
  /\ outcome \in [Item -> {"pending", "fulfilled", "rejected"}]

\* What a limit amounts to: at least one.
Limit == IF Concurrency > 1 THEN Concurrency ELSE 1

\* maxParallelRequests holds: no more calls than the limit, and never more than one
\* for a limit below one, are unsettled at any time, also after the generator threw
\* (client.ts:550, 682, 771).
InFlightWithinLimit ==
  LET unsettled == {i \in started : outcome[i] = "pending"}
  IN  Cardinality(unsettled) <= Limit

\* Nothing is lost and nothing comes twice: every item is waiting, being executed or
\* yielded, and only one of the three, once (the results client.ts:564, 584, 699
\* collects).
EveryItemIsSomewhere ==
  /\ executing \cap {yielded[k] : k \in DOMAIN yielded} = {}
  /\ started = executing \cup {yielded[k] : k \in DOMAIN yielded}
  /\ \A j, k \in DOMAIN yielded : yielded[j] = yielded[k] => j = k

\* A loop over the pool that ends normally has had an answer for every item, and none
\* of the calls was rejected (client.ts:588 builds its result from that).
DoneMeansAllFulfilled ==
  generator = "done" =>
    Len(yielded) = Cardinality(Item) /\ \A i \in Item : outcome[i] = "fulfilled"

\* What the generator knows of the calls it has started: the inductive invariant the
\* theorems of AsyncPoolProofs rest on (client.ts:550, 682, 771).
WaitingOnce          == \A j, k \in DOMAIN waiting : waiting[j] = waiting[k] => j = k
ExecutingWithinLimit == Cardinality(executing) <= Limit
YieldedFulfilled     == \A k \in DOMAIN yielded : outcome[yielded[k]] = "fulfilled"
DoneMeansEmpty       == generator = "done" => waiting = <<>> /\ executing = {}
PoolInvariant ==
  /\ TypeOK
  /\ EveryItemIsSomewhere
  /\ WaitingOnce
  /\ ExecutingWithinLimit
  /\ YieldedFulfilled
  /\ DoneMeansEmpty
=============================================================================
