--------------------------- MODULE PriorityQueue ---------------------------
(***************************************************************************)
(* One person's "Up next" queue (modules/card-priorities): entries at      *)
(* fractional positions (lib/position.ts), renumbered when the gap between *)
(* two of them is used up (lib/rebalance.ts).  Every write holds the       *)
(* queue's advisory lock throughout, so its transaction is one step; but a *)
(* request to add has found its card live before it takes the lock.        *)
(*                                                                         *)
(* A position counts units of the column's last digit, so that a midpoint  *)
(* may be rounded.  What the writer may see decides which anchors it can   *)
(* name: any live ones.                                                    *)
(***************************************************************************)
EXTENDS Integers, SequencesExt

CONSTANTS
  Entries,    \* the cards that may be queued
  Spacing, Eps,  \* STEP and EPS of position.ts, in units of the last digit
  LiveCap,    \* MAX_CARD_PRIORITIES_PER_USER
  MaxPosition \* bound: no write beyond it

ASSUME PositionAssumption ==
  /\ Entries \subseteq Nat
  /\ {Spacing, Eps, LiveCap, MaxPosition} \subseteq Nat
  /\ 1 < Eps /\ Eps <= Spacing

VARIABLES
  position, \* the queue: a function from the queued cards
  live,     \* cards assigned to the person, neither completed nor archived
  adding    \* cards that a request has found live and is about to add

queueVars == <<position, live, adding>>

QueueInit == position = <<>> /\ live \in SUBSET Entries /\ adding = {}

\* lockedQueue: by position, then by card.
Rank(q, S, c) == Cardinality({d \in S : q[d] < q[c] \/ (q[d] = q[c] /\ d <= c)})

InOrder(q, S) == [i \in 1..Cardinality(S) |-> CHOOSE c \in S : Rank(q, S, c) = i]

\* The entries a card is placed among.
Others(q, c) == InOrder(q, (DOMAIN q) \ {c})

-----------------------------------------------------------------------------
(* positionForAnchors and between.                                         *)

Anchors(S) == {<<"head">>, <<"tail">>} \cup ({"after", "before"} \X S)

\* How many entries stay below the slot that an anchor names.
Below(order, a) ==
  CASE a[1] = "head" -> 0
    [] a[1] = "tail" -> Len(order)
    [] a[1] = "after" -> CHOOSE i \in 1..Len(order) : order[i] = a[2]
    [] a[1] = "before" -> (CHOOSE i \in 1..Len(order) : order[i] = a[2]) - 1

Between(q, order, i) ==
  CASE order = <<>> -> Spacing
    [] order # <<>> /\ i = 0 -> q[order[1]] - Spacing
    [] order # <<>> /\ i = Len(order) -> q[order[i]] + Spacing
    [] OTHER -> (q[order[i]] + q[order[i + 1]]) \div 2

\* Slip: the gap may be used up to the last digit.
NeverExhausted(q, order, i) ==
  /\ 0 < i /\ i < Len(order)
  /\ q[order[i + 1]] - q[order[i]] < 0

Exhausted(q, order, i) ==
  /\ 0 < i /\ i < Len(order)
  /\ q[order[i + 1]] - q[order[i]] < Eps

\* rebalanceCardPriorities: the whole queue, one step apart.
Rebalanced(q) == [c \in DOMAIN q |-> Spacing * Rank(q, DOMAIN q, c)]

\* The card is placed, after a rebalance where the gap is used up.
Place(c, a) ==
  LET order == Others(position, c)
      i == Below(order, a)
      q == IF Exhausted(position, order, i) THEN Rebalanced(position) ELSE position
      at == Between(q, order, i)
  IN /\ -MaxPosition <= at /\ at <= MaxPosition
     /\ position' = [d \in (DOMAIN q) \cup {c} |-> IF d = c THEN at ELSE q[d]]
-----------------------------------------------------------------------------
(* The requests.                                                           *)

\* addPriority reads the candidate before it takes the lock.
FindLive(c) ==
  /\ c \in live \ adding
  /\ adding' = adding \cup {c}
  /\ UNCHANGED <<position, live>>

Add(c, a) ==
  /\ c \in adding \ DOMAIN position
  /\ Cardinality(live \cap DOMAIN position) < LiveCap
  /\ Place(c, a)
  /\ adding' = adding \ {c}
  /\ UNCHANGED live

\* In the queue already, the queue is full, or the anchor has gone.
RefuseAdd(c) ==
  /\ c \in adding
  /\ adding' = adding \ {c}
  /\ UNCHANGED <<position, live>>

Move(c, a) ==
  /\ c \in DOMAIN position
  /\ Place(c, a)
  /\ UNCHANGED <<live, adding>>

RemoveEntry(c) ==
  /\ c \in DOMAIN position
  /\ position' = [d \in (DOMAIN position) \ {c} |-> position[d]]
  /\ UNCHANGED <<live, adding>>

\* A card is completed, archived or unassigned, or the reverse; its row stays.
CardChanges(c) ==
  /\ live' = IF c \in live THEN live \ {c} ELSE live \cup {c}
  /\ UNCHANGED <<position, adding>>

PriorityNext ==
  \E c \in Entries :
    \/ FindLive(c) \/ RefuseAdd(c) \/ RemoveEntry(c) \/ CardChanges(c)
    \/ \E a \in Anchors((live \cap DOMAIN position) \ {c}) : Add(c, a) \/ Move(c, a)

PrioritySpec == QueueInit /\ [][PriorityNext]_queueVars

-----------------------------------------------------------------------------
PriorityTypeOK ==
  /\ DOMAIN position \subseteq Entries
  /\ \A c \in DOMAIN position : position[c] \in Int
  /\ live \subseteq Entries
  /\ adding \subseteq Entries

\* The order is what the writer said, hidden and dormant entries included: the
\* card comes to stand directly at its anchor, and no two others change places,
\* however often the same gap was halved before (rebalance.ts:119-125).
OrderIsWhatWasSaid ==
  [][\A c \in DOMAIN position' :
       \A a \in Anchors((live \cap DOMAIN position) \ {c}) :
       Add(c, a) \/ Move(c, a) =>
         LET order == Others(position, c) IN
         InOrder(position', DOMAIN position') = InsertAt(order, Below(order, a) + 1, c)]_queueVars
=============================================================================
