------------------------------- MODULE MCBoard -------------------------------
(***************************************************************************)
(* Small instances of what a write to a board goes through: the lock and   *)
(* the dependencies of its cards, their creation and keys, a person's      *)
(* queue of cards, and the outbox of its events.  They share no row that   *)
(* either decides by, so one initial state per module checks what their    *)
(* product would, but for one wait between two of them: a change of prefix *)
(* locks the workspace and then its cards, while a write to a card locks   *)
(* the card and then, by the foreign key of its activity, the workspace.   *)
(***************************************************************************)
EXTENDS EventOutbox, CardDependencies, CardCreation, PriorityQueue

CONSTANTS w1, w2, r1, r2, c1, c2, c3

TwoEvents == {1, 2}
TwoWorkers == {w1, w2}
FourCards == 1..4
TwoRequests == {r1, r2}
ThreeEntries == {1, 2, 3}
ThreeWriters == {c1, c2, c3}
Symmetry == Permutations(TwoWorkers) \cup Permutations(TwoRequests)

VARIABLE active \* the module under check; it never changes

boardVars == <<vars, depVars, creationVars, queueVars, active>>

\* A card alone, a blocker, two of them, a chain; open, completed, archived;
\* and rules on the middle card.
Scenes ==
  {[edges |-> {}, flags |-> {}, rules |-> {}],
   [edges |-> {<<1, 2>>}, flags |-> {}, rules |-> {<<"unblocked", 2>>}],
   [edges |-> {<<1, 2>>, <<3, 2>>}, flags |-> {}, rules |-> {}],
   [edges |-> {<<1, 2>>, <<3, 2>>}, flags |-> {<<"done", 1>>}, rules |-> {}],
   [edges |-> {<<1, 2>>}, flags |-> {<<"done", 1>>}, rules |-> {<<"blocked", 2>>}],
   [edges |-> {<<3, 2>>, <<2, 1>>}, flags |-> {}, rules |-> {<<"unblocked", 2>>}],
   [edges |-> {<<1, 2>>}, flags |-> {<<"archived", 1>>}, rules |-> {}],
   [edges |-> {<<1, 2>>, <<3, 2>>}, flags |-> {<<"archived", 1>>}, rules |-> {}]}

\* Two relations whose ends two requests may join, sharing no card.
BothEnds == [edges |-> {<<1, 2>>, <<3, 4>>}, flags |-> {}, rules |-> {}]

\* One workspace, and one to be founded.
OneFounded == [w \in Workspaces |-> IF w = 1 THEN "ABC" ELSE NoPrefix]

MCInit ==
  /\ active \in {"outbox", "cards", "ends", "creation", "priority"}
  /\ \E s \in IF active = "ends" THEN {BothEnds} ELSE Scenes :
       edges = s.edges /\ flags = s.flags /\ rules = s.rules
  /\ active \notin {"cards", "ends"} => edges = {}
  /\ live = {}
  /\ prefixOf = OneFounded
  /\ Init /\ DepInit /\ CreationInit /\ QueueInit

\* Cards 1 to 3, two at a time, or only relations.
TaskBounds ==
  \A r \in Requests : \A t \in UNION {agenda'[r][i] : i \in DOMAIN agenda'[r]} \cup {task'[r]} :
    IF active = "ends" THEN t.do \in Link \cup {"none"}
    ELSE t.on \subseteq 1..3 /\ Cardinality(t.on) <= 2

\* What PurgesBlockNothing says; run purge shows that it can be otherwise.
PurgesInTime == doomed # {} /\ doomed' = {} => \A c \in doomed : Is(Committed, "archived", c)

\* Writers are named in the order in which they arrive; where a card is matters
\* to the retries of its token only.
CreationBounds ==
  /\ writerAt'[c1] = "idle" => writerAt'[c2] = "idle"
  /\ writerAt'[c2] = "idle" => writerAt'[c3] = "idle"
  /\ \A r \in Writers :
       /\ ask'[r].do \in {"create", "copy"} /\ ask'[r].token = NoToken => ask'[r].place = "here"
       /\ cardRow'[r].at = "here" /\ cardRow'[r].token = NoToken => cardRow'[r].place = "here"

\* One failure or request; and one event that is quiet, dropped or the operator's.
OutboxBounds ==
  /\ faults' + interventions' <= 1
  /\ interventions' + Cardinality(quiet') + Cardinality(dropped') <= 1

MCNext ==
  /\ UNCHANGED active
  /\ \/ /\ active = "outbox" /\ Next /\ OutboxBounds
        /\ UNCHANGED <<depVars, creationVars, queueVars>>
     \/ /\ active \in {"cards", "ends"} /\ DepNext /\ TaskBounds /\ PurgesInTime
        /\ UNCHANGED <<vars, creationVars, queueVars>>
     \/ /\ active = "creation" /\ CreationNext /\ CreationBounds
        /\ UNCHANGED <<vars, depVars, queueVars>>
     \/ /\ active = "priority" /\ PriorityNext /\ Cardinality(adding') <= 1
        /\ UNCHANGED <<vars, depVars, creationVars>>

PurgeNext ==
  /\ active = "cards" /\ DepNext /\ TaskBounds
  /\ UNCHANGED <<vars, creationVars, queueVars, active>>

PurgeSpec == MCInit /\ [][PurgeNext]_boardVars

MCSpec == MCInit /\ [][MCNext]_boardVars

\* The cards' relations, locks and identities, the queue's positions, and the
\* outbox's rows and runs stay within their types.
BoardTypeOK == TypeOK /\ DepTypeOK /\ CreationTypeOK /\ PriorityTypeOK
=============================================================================
