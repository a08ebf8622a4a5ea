-------------------------- MODULE CardDependencies --------------------------
(***************************************************************************)
(* The dependency graph of one workspace (lib/card-relations.ts) and every *)
(* request that closes, opens, links or deletes its cards.  Each request   *)
(* is one transaction.  It takes the workspace's graph lock, then the rows *)
(* of the cards it will write, in id order (lib/card-write-lock.ts);       *)
(* writes; records each dependent that crossed the line between blocked    *)
(* and ready; and runs the workspace's rules on those crossings, which may *)
(* close further cards in the same transaction.  Bulk comments lock cards  *)
(* without the graph, and the purge of old archived cards locks neither.   *)
(*                                                                         *)
(* A card is a number: its id, in the order the locks are taken.           *)
(***************************************************************************)
EXTENDS Naturals, Sequences, FiniteSets

CONSTANTS Cards, Requests

ASSUME CardsAssumption == Cards \subseteq Nat /\ IsFiniteSet(Cards)
ASSUME RequestsAssumption == "free" \notin Requests

VARIABLES
  flags,    \* what has happened to each card: <<"done" | "archived" | "gone", card>>
  edges,    \* the stored `blocks` relations: <<blocker, dependent>>
  rules,    \* <<"unblocked" | "blocked", card>>: that crossing completes the card
  doomed,   \* the cards the purge has selected for deletion
  graph,    \* the request that holds the graph lock, or "free"
  phase,    \* of each request: idle, graph, next, lock, over
  agenda,   \* the tasks it has left: a stack of sets, in no order within a set
  task,     \* the task it is at
  want,     \* the rows that task must hold
  held,     \* the rows it holds
  plus,     \* the flags its transaction has set and not committed
  minus,    \* the flags its transaction has cleared and not committed
  link,     \* the edges it has stored and not committed
  unlink,   \* the edges it has removed and not committed
  news,     \* the crossings it has recorded in the event outbox
  chained   \* the requests that deleted cards or ran a rule

work == <<agenda, task, want, held>>
writes == <<plus, minus, link, unlink, news>>
depVars == <<flags, edges, rules, doomed, graph, phase, work, writes, chained>>

Flag == {"done", "archived", "gone"}
Crossing == {"unblocked", "blocked"}
Edge == {e \in Cards \X Cards : e[1] # e[2]}

\* A selection or a list; one card; both ends of a relation.
Many == {"completeAll", "reopenAll", "archive", "restore", "delete", "comment"}
One == {"complete", "reopen"}
Link == {"relate", "unrelate"}
Tasks ==
  {[do |-> k, on |-> S, edge |-> <<>>] : k \in Many, S \in SUBSET Cards \ {{}}}
    \cup {[do |-> k, on |-> {c}, edge |-> <<>>] : k \in One, c \in Cards}
    \cup {[do |-> k, on |-> {e[1], e[2]}, edge |-> e] : k \in Link, e \in Edge}

NoTask == [do |-> "none", on |-> {}, edge |-> <<>>]

-----------------------------------------------------------------------------
(* What a request sees: the committed rows under its own writes.           *)

Committed == [flags |-> flags, edges |-> edges]
View(r) == [flags |-> (flags \ minus[r]) \cup plus[r],
            edges |-> (edges \ unlink[r]) \cup link[r]]

Is(v, f, c) == <<f, c>> \in v.flags
Active(v, c) == \A f \in Flag : ~Is(v, f, c)

\* blockedByCounts: an open blocker is neither completed nor archived.
Blockers(v, d) == {b \in Cards : <<b, d>> \in v.edges /\ Active(v, b)}

\* captureBlockedDependents: the active cards that an open card of S blocks.
Waiting(v, S) ==
  {d \in Cards : Active(v, d) /\ \E b \in S : <<b, d>> \in v.edges /\ Active(v, b)}

\* captureUnblockedDependents: the cards S would block, blocked by none now.
Ready(v, S) ==
  {d \in Cards : Blockers(v, d) = {} /\ \E b \in S : <<b, d>> \in v.edges}

\* assertNoBlockingCycle: b is downstream of d.
Downstream(E, d, b) ==
  \A D \in SUBSET Cards :
    (d \in D /\ \A e \in E : e[1] \in D => e[2] \in D) => b \in D

\* The cards whose state the task changes, as the guard under the lock reads it.
Changing(v, t) ==
  {c \in t.on :
     /\ ~Is(v, "gone", c)
     /\ t.do \in {"complete", "auto"} => ~Is(v, "archived", c) /\ ~Is(v, "done", c)
     /\ t.do = "reopen" => ~Is(v, "archived", c) /\ Is(v, "done", c)
     /\ t.do = "archive" => ~Is(v, "archived", c)
     /\ t.do = "restore" => Is(v, "archived", c)}

\* Nothing to do: no card changes, the relation is there already, or is not.
NothingToDo(v, t) ==
  \/ t.do \in One \cup {"auto", "archive", "restore", "delete"} /\ Changing(v, t) = {}
  \/ t.do = "relate" /\ t.edge \in v.edges
  \/ t.do = "unrelate" /\ t.edge \notin v.edges

\* The rows lockCardsForWrite is given, or the statement itself locks.
Wanted(v, t) ==
  LET S == IF t.do \in {"completeAll", "reopenAll"} THEN t.on ELSE Changing(v, t) IN
  S \cup (IF t.do \in {"completeAll", "reopenAll", "complete", "auto", "reopen", "archive"}
          THEN Waiting(v, S) ELSE {})
    \cup (IF t.do \in {"reopenAll", "reopen", "restore"} THEN Ready(v, S) ELSE {})

\* An upfront lock is taken in id order; a cascade or an activity row, not.
Unordered == {"delete", "tell"}

-----------------------------------------------------------------------------
Acyclic(E) ==
  \A S \in SUBSET Cards \ {{}} : \E c \in S : \A b \in S : <<b, c>> \notin E

DepInit ==
  /\ flags \in SUBSET ({"done", "archived"} \X Cards)
  /\ edges \in SUBSET Edge
  /\ Acyclic(edges)
  /\ rules \in SUBSET (Crossing \X Cards)
  /\ doomed = {}
  /\ graph = "free"
  /\ phase = [r \in Requests |-> "idle"]
  /\ agenda = [r \in Requests |-> <<>>]
  /\ task = [r \in Requests |-> NoTask]
  /\ want = [r \in Requests |-> {}]
  /\ held = [r \in Requests |-> {}]
  /\ plus = [r \in Requests |-> {}]
  /\ minus = [r \in Requests |-> {}]
  /\ link = [r \in Requests |-> {}]
  /\ unlink = [r \in Requests |-> {}]
  /\ news = [r \in Requests |-> {}]
  /\ chained = {}

\* What the routes require of the rows they read before the transaction.
Admits(v, t) ==
  /\ \A c \in t.on : ~Is(v, "gone", c)
  /\ t.do \in {"complete", "completeAll"} => \A c \in t.on : Active(v, c)
  /\ t.do \in {"reopen", "reopenAll"} =>
       \A c \in t.on : Is(v, "done", c) /\ ~Is(v, "archived", c)
  /\ t.do = "comment" => \A c \in t.on : ~Is(v, "archived", c)
  /\ t.do = "unrelate" => \E c \in t.on : ~Is(v, "archived", c)

Begin(r) ==
  /\ phase[r] = "idle"
  /\ \E t \in Tasks :
       /\ Admits(Committed, t)
       /\ IF t.do = "comment"
          THEN /\ phase' = [phase EXCEPT ![r] = "lock"]
               /\ task' = [task EXCEPT ![r] = t]
               /\ want' = [want EXCEPT ![r] = t.on]
               /\ UNCHANGED agenda
          ELSE /\ phase' = [phase EXCEPT ![r] = "graph"]
               /\ agenda' = [agenda EXCEPT ![r] = <<{t}>>]
               /\ UNCHANGED <<task, want>>
  /\ UNCHANGED <<flags, edges, rules, doomed, graph, held, writes, chained>>

\* Slip: the writers are not serialised.
TakeGraphAny(r) ==
  /\ phase[r] = "graph"
  /\ graph' = r
  /\ phase' = [phase EXCEPT ![r] = "next"]
  /\ UNCHANGED <<flags, edges, rules, doomed, work, writes, chained>>

\* lockWorkspaceRelations: an advisory lock of the transaction.
TakeGraph(r) ==
  /\ phase[r] = "graph"
  /\ graph = "free"
  /\ graph' = r
  /\ phase' = [phase EXCEPT ![r] = "next"]
  /\ UNCHANGED <<flags, edges, rules, doomed, work, writes, chained>>

\* Read under the lock: skip the task, or go on to its rows.
NextTask(r) ==
  /\ phase[r] = "next"
  /\ agenda[r] # <<>>
  /\ \E t \in Head(agenda[r]) :
       LET rest == Head(agenda[r]) \ {t} IN
       /\ agenda' = [agenda EXCEPT ![r] =
                       (IF rest = {} THEN <<>> ELSE <<rest>>) \o Tail(@)]
       /\ \/ NothingToDo(View(r), t) /\ UNCHANGED <<phase, task, want, chained>>
          \/ /\ ~NothingToDo(View(r), t)
             /\ phase' = [phase EXCEPT ![r] = "lock"]
             /\ task' = [task EXCEPT ![r] = t]
             /\ want' = [want EXCEPT ![r] = Wanted(View(r), t)]
             /\ chained' = IF t.do \in {"delete", "auto"} THEN chained \cup {r} ELSE chained
  /\ UNCHANGED <<flags, edges, rules, doomed, graph, held, writes>>

\* The rows it may ask for now.
Due(r) ==
  {c \in want[r] \ held[r] :
     task[r].do \in Unordered \/ \A e \in want[r] \ held[r] : c <= e}

Free(c) == \A s \in Requests : c \notin held[s]

\* Slip: the rows are locked in the order the request named them.
TakeCardAny(r) ==
  /\ phase[r] = "lock"
  /\ \E c \in want[r] \ held[r] : Free(c) /\ held' = [held EXCEPT ![r] = @ \cup {c}]
  /\ UNCHANGED <<flags, edges, rules, doomed, graph, phase, agenda, task, want, writes, chained>>

TakeCard(r) ==
  /\ phase[r] = "lock"
  /\ \E c \in Due(r) : Free(c) /\ held' = [held EXCEPT ![r] = @ \cup {c}]
  /\ UNCHANGED <<flags, edges, rules, doomed, graph, phase, agenda, task, want, writes, chained>>

-----------------------------------------------------------------------------
(* The writes.  Each happens with every row of the task held.              *)

Holding(r, kinds) ==
  /\ phase[r] = "lock"
  /\ want[r] \subseteq held[r]
  /\ task[r].do \in kinds
  /\ phase' = [phase EXCEPT ![r] = "next"]
  /\ UNCHANGED <<flags, edges, rules, doomed, graph, task, want, held, chained>>

\* Slip: a captured dependent is told without a second count.
ToldUncounted(r, way, captured, v) ==
  {d \in captured : Active(v, d) /\ <<way, d>> \notin news[r]}

\* recordBlockersCleared and runCardBlockedAutomations: of the captured cards,
\* the active ones that are ready now (or blocked now), once per transaction.
Told(r, way, captured, v) ==
  {d \in captured :
     /\ Active(v, d)
     /\ way = "unblocked" <=> Blockers(v, d) = {}
     /\ <<way, d>> \notin news[r]}

\* The outbox row of each crossing, and the rule it sets off.
HandOff(r, way, told) ==
  LET ruled == {d \in told : <<way, d>> \in rules} IN
  /\ news' = [news EXCEPT ![r] = @ \cup ({way} \X told)]
  /\ agenda' = [agenda EXCEPT ![r] =
       (IF ruled = {} THEN <<>>
        ELSE <<{[do |-> "auto", on |-> {d}, edge |-> <<>>] : d \in ruled}>>) \o @]

With(v, S, f) == [v EXCEPT !.flags = @ \cup ({f} \X S)]
Without(v, S, f) == [v EXCEPT !.flags = @ \ ({f} \X S)]

\* applyCompletionTransition and applyCardArchiveTransition, closing.
Close(r) ==
  LET v == View(r)
      t == task[r]
      S == Changing(v, t)
      f == IF t.do = "archive" THEN "archived" ELSE "done"
  IN /\ Holding(r, {"complete", "auto", "archive"})
     /\ plus' = [plus EXCEPT ![r] = @ \cup ({f} \X S)]
     /\ minus' = [minus EXCEPT ![r] = @ \ ({f} \X S)]
     /\ HandOff(r, "unblocked", Told(r, "unblocked", Waiting(v, S), With(v, S, f)))
     /\ UNCHANGED <<link, unlink>>

\* The same two, opening: the dependents that were ready are blocked again.  Of
\* several restored cards the code tells them one by one, with the rules that
\* one sets off before the next; here all are told, and then the rules run.
Open(r) ==
  LET v == View(r)
      t == task[r]
      S == Changing(v, t)
      f == IF t.do = "restore" THEN "archived" ELSE "done"
  IN /\ Holding(r, {"reopen", "restore"})
     /\ plus' = [plus EXCEPT ![r] = @ \ ({f} \X S)]
     /\ minus' = [minus EXCEPT ![r] = @ \cup ({f} \X S)]
     /\ HandOff(r, "blocked", Told(r, "blocked", Ready(v, S), Without(v, S, f)))
     /\ UNCHANGED <<link, unlink>>

\* setListCardsCompletion: the batch is locked, then completed card by card.
Batch(r) ==
  /\ Holding(r, {"completeAll", "reopenAll"})
  /\ agenda' = [agenda EXCEPT ![r] =
       <<{[do |-> IF task[r].do = "completeAll" THEN "complete" ELSE "reopen",
           on |-> {c}, edge |-> <<>>] : c \in task[r].on}>> \o @]
  /\ UNCHANGED writes

\* Lifecycle and cycle are judged on rows read under the graph lock.
MayRelate(v, e) ==
  /\ \A i \in {1, 2} : ~Is(v, "gone", e[i]) /\ ~Is(v, "archived", e[i])
  /\ ~Is(v, "done", e[1])
  /\ ~Downstream(v.edges, e[2], e[1])

Relate(r) ==
  LET v == View(r)
      e == task[r].edge
      ready == {d \in {e[2]} : Blockers(v, d) = {}}
      after == [v EXCEPT !.edges = @ \cup {e}]
  IN /\ Holding(r, {"relate"})
     /\ MayRelate(v, e)
     /\ link' = [link EXCEPT ![r] = @ \cup {e}]
     /\ HandOff(r, "blocked", Told(r, "blocked", ready, after))
     /\ UNCHANGED <<plus, minus, unlink>>

Unrelate(r) ==
  LET v == View(r)
      e == task[r].edge
      after == [v EXCEPT !.edges = @ \ {e}]
  IN /\ Holding(r, {"unrelate"})
     /\ unlink' = [unlink EXCEPT ![r] = @ \cup {e}]
     /\ HandOff(r, "unblocked", Told(r, "unblocked", Waiting(v, {e[1]}) \cap {e[2]}, after))
     /\ UNCHANGED <<plus, minus, link>>

\* The cascade of a list's or a board's delete; the handoffs are recorded
\* after it, on cards whose rows nobody locked first.
Delete(r) ==
  LET v == View(r)
      S == Changing(v, task[r])
      lost == {e \in v.edges : e[1] \in S \/ e[2] \in S}
      after == [With(v, S, "gone") EXCEPT !.edges = @ \ lost]
      told == Told(r, "unblocked", Waiting(v, S), after)
  IN /\ Holding(r, {"delete"})
     /\ plus' = [plus EXCEPT ![r] = @ \cup ({"gone"} \X S)]
     /\ unlink' = [unlink EXCEPT ![r] = @ \cup lost]
     /\ agenda' = [agenda EXCEPT ![r] =
          (IF told = {} THEN <<>>
           ELSE <<{[do |-> "tell", on |-> told, edge |-> <<>>]}>>) \o @]
     /\ UNCHANGED <<minus, link, news>>

Tell(r) ==
  /\ Holding(r, {"tell"})
  /\ HandOff(r, "unblocked", task[r].on)
  /\ UNCHANGED <<plus, minus, link, unlink>>

\* The comments' rows bump the cards, which are held.
Comment(r) ==
  /\ Holding(r, {"comment"})
  /\ UNCHANGED <<agenda, writes>>

-----------------------------------------------------------------------------
\* Slip: the graph lock is one of the session, not of the transaction.
EndKeepsGraph(r) ==
  /\ phase' = [phase EXCEPT ![r] = "over"]
  /\ agenda' = [agenda EXCEPT ![r] = <<>>]
  /\ task' = [task EXCEPT ![r] = NoTask]
  /\ UNCHANGED <<graph, rules, doomed, want, held, writes, chained>>

\* The transaction ends: its locks go, and nothing of it is left.
End(r) ==
  /\ phase' = [phase EXCEPT ![r] = "over"]
  /\ graph' = IF graph = r THEN "free" ELSE graph
  /\ agenda' = [agenda EXCEPT ![r] = <<>>]
  /\ task' = [task EXCEPT ![r] = NoTask]
  /\ want' = [want EXCEPT ![r] = {}]
  /\ held' = [held EXCEPT ![r] = {}]
  /\ plus' = [plus EXCEPT ![r] = {}]
  /\ minus' = [minus EXCEPT ![r] = {}]
  /\ link' = [link EXCEPT ![r] = {}]
  /\ unlink' = [unlink EXCEPT ![r] = {}]
  /\ news' = [news EXCEPT ![r] = {}]
  /\ chained' = chained \ {r}
  /\ UNCHANGED <<rules, doomed>>

Commit(r) ==
  /\ phase[r] = "next"
  /\ agenda[r] = <<>>
  /\ flags' = View(r).flags
  /\ edges' = View(r).edges
  /\ End(r)

\* A refused relation, a deadlock's victim, a lost connection or process.
Abort(r) ==
  /\ phase[r] \in {"graph", "next", "lock"}
  /\ UNCHANGED <<flags, edges>>
  /\ End(r)

\* runArchivedCardCleanup: the ids first, then one delete by id.
SelectDoomed ==
  /\ doomed = {}
  /\ doomed' \in SUBSET {c \in Cards : Is(Committed, "archived", c)
                                    /\ ~Is(Committed, "gone", c)}
  /\ doomed' # {}
  /\ UNCHANGED <<flags, edges, rules, graph, phase, work, writes, chained>>

Purge ==
  /\ doomed # {}
  /\ \A c \in doomed : Free(c)
  /\ flags' = flags \cup ({"gone"} \X doomed)
  /\ edges' = {e \in edges : e[1] \notin doomed /\ e[2] \notin doomed}
  /\ doomed' = {}
  /\ UNCHANGED <<rules, graph, phase, work, writes, chained>>

Write(r) ==
  \/ Close(r) \/ Open(r) \/ Batch(r) \/ Relate(r) \/ Unrelate(r)
  \/ Delete(r) \/ Tell(r) \/ Comment(r)

DepNext ==
  \/ \E r \in Requests :
       \/ Begin(r) \/ TakeGraph(r) \/ NextTask(r) \/ TakeCard(r)
       \/ Write(r) \/ Commit(r) \/ Abort(r)
  \/ SelectDoomed
  \/ Purge

DepSpec == DepInit /\ [][DepNext]_depVars

-----------------------------------------------------------------------------
(* Properties.                                                             *)

\* The stored relations never form a loop, which nobody could ever clear:
\* two requests cannot close one from its two ends (card-relations.ts:41-44).
AcyclicBlocking == Acyclic(edges)

\* A transaction tells integrations about the cards it carried over the line:
\* every active card whose last open blocker it closed, unlinked or deleted and
\* every active card it gave a first open blocker.  A card told of one crossing
\* only has made it, unless a rule of the transaction moved that very card.
Freed(v, w, d) == Blockers(v, d) # {} /\ Blockers(w, d) = {}
HandoffsAreTold ==
  [][\A r \in Requests : Commit(r) =>
       \A d \in Cards : Active(Committed, d) /\ Active(Committed', d) =>
         LET way == {k \in Crossing : <<k, d>> \in news[r]}
             only(k) == way = {k} /\ <<k, d>> \notin rules
         IN /\ Freed(Committed, Committed', d) => "unblocked" \in way
            /\ Freed(Committed', Committed, d) => "blocked" \in way
            /\ only("unblocked") => Freed(Committed, Committed', d)
            /\ only("blocked") => Freed(Committed', Committed, d)]_depVars

\* r can go on only when s ends.
WaitsFor(r, s) ==
  /\ r # s
  /\ \/ phase[r] = "graph" /\ graph = s
     \/ phase[r] = "lock" /\ Due(r) # {} /\ Due(r) \subseteq held[s]

Deadlocked(S) == S # {} /\ \A r \in S : \E s \in S : WaitsFor(r, s)

\* Requests that lock every card up front, in one order, never wait for each
\* other in a ring: a ring has a request in it that deletes cards or ran a rule
\* (card-write-lock.ts:7-13).
PlainWritesNeverDeadlock ==
  \A S \in SUBSET Requests : Deadlocked(S) => S \cap chained # {}

\* The purge deletes archived cards, which block nothing, so nobody has to be
\* told (archived-card-cleanup.ts:49).
PurgesBlockNothing ==
  [][Purge => \A c \in doomed : Is(Committed, "archived", c)]_depVars

DepTypeOK ==
  /\ flags \subseteq Flag \X Cards
  /\ edges \subseteq Edge
  /\ rules \subseteq Crossing \X Cards
  /\ doomed \subseteq Cards
  /\ graph \in Requests \cup {"free"}
  /\ phase \in [Requests -> {"idle", "graph", "next", "lock", "over"}]
  /\ want \in [Requests -> SUBSET Cards]
  /\ held \in [Requests -> SUBSET Cards]
  /\ plus \in [Requests -> SUBSET (Flag \X Cards)]
  /\ minus \in [Requests -> SUBSET (Flag \X Cards)]
  /\ link \in [Requests -> SUBSET Edge]
  /\ unlink \in [Requests -> SUBSET Edge]
  /\ news \in [Requests -> SUBSET (Crossing \X Cards)]
  /\ chained \subseteq Requests
  /\ \A r \in Requests : phase[r] \in {"idle", "over"} => graph # r /\ held[r] = {}
=============================================================================
