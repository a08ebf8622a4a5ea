--------------------------- MODULE KeyedTaskQueue ---------------------------
(***************************************************************************)
(* createKeyedTaskQueue (lib/keyed-task-queue.ts), which runs the fan-out  *)
(* of feed notifications: at most Concurrency keys run at once, never the  *)
(* same key twice, and a key that is enqueued again while it waits keeps   *)
(* its place and only its newest value.  A key waits exactly while its     *)
(* newest value has not been started, so the values are left out.          *)
(***************************************************************************)
EXTENDS Naturals, FiniteSets

CONSTANTS Keys, Concurrency

ASSUME ConcurrencyAssumption == Concurrency \in Nat \ {0}

VARIABLES
  waitingKeys, \* the keys of pending
  aheadOf,     \* a Map keeps the order of insertion: the keys ahead of each
  activeKeys   \* the keys whose task runs

keyedVars == <<waitingKeys, aheadOf, activeKeys>>

KeyedInit ==
  /\ waitingKeys = {} /\ activeKeys = {}
  /\ aheadOf = [k \in Keys |-> {}]

\* drain's loop: the first pending keys that are not active, while there is room.
Started(pending, order, active) ==
  {k \in pending \ active :
     Cardinality(order[k] \ active) + Cardinality(active) < Concurrency}

\* drain.
Drained(pending, order, active) ==
  LET started == Started(pending, order, active)
  IN /\ waitingKeys' = pending \ started
     /\ aheadOf' = [k \in Keys |-> IF k \in started THEN {} ELSE order[k] \ started]
     /\ activeKeys' = active \cup started

\* Slip: a key that is enqueued again goes to the back.
EnqueueToBack(k) ==
  Drained(waitingKeys \cup {k},
          [j \in Keys |-> IF j = k THEN waitingKeys \ {k} ELSE aheadOf[j] \ {k}],
          activeKeys)

\* Map.set: a key that waits keeps its place.
EnqueueKey(k) ==
  Drained(waitingKeys \cup {k},
          IF k \in waitingKeys THEN aheadOf ELSE [aheadOf EXCEPT ![k] = waitingKeys],
          activeKeys)

\* The task settles, well or not; the finally block drains again.
KeyedTaskSettles(k) ==
  k \in activeKeys /\ Drained(waitingKeys, aheadOf, activeKeys \ {k})

KeyedNext == \E k \in Keys : EnqueueKey(k) \/ KeyedTaskSettles(k)

\* A fan-out that has begun settles; nobody has to enqueue anything.
KeyedFairness == \A k \in Keys : WF_keyedVars(KeyedTaskSettles(k))

KeyedSafe == KeyedInit /\ [][KeyedNext]_keyedVars

KeyedSpec == KeyedSafe /\ KeyedFairness

-----------------------------------------------------------------------------
KeyedTypeOK ==
  /\ waitingKeys \subseteq Keys /\ activeKeys \subseteq Keys
  /\ aheadOf \in [Keys -> SUBSET Keys]

\* However often the other keys are enqueued again, the newest value of a key
\* is started, in the end (keyed-task-queue.ts:12-25).
EveryKeyHasItsTurn == \A k \in Keys : k \in waitingKeys ~> k \notin waitingKeys

\* The bound of keyed-task-queue.ts:1 is kept and not wasted: a key that is not
\* running waits only while every slot is taken.
RoomIsUsed ==
  /\ Cardinality(activeKeys) <= Concurrency
  /\ waitingKeys \subseteq activeKeys \/ Cardinality(activeKeys) = Concurrency

\* Once a key waits nobody gets ahead of it, however often it or another is set
\* again; and whoever is started before it was ahead of it, unless its own task
\* was still running: the safety beneath EveryKeyHasItsTurn.
NobodyCutsIn ==
  [][\A k \in waitingKeys \cap waitingKeys' :
       /\ aheadOf'[k] \subseteq aheadOf[k]
       /\ (activeKeys' \ activeKeys) \subseteq aheadOf[k] \/ k \in activeKeys']_keyedVars
=============================================================================
