-------------------------- MODULE DependencyProofs --------------------------
(***************************************************************************)
(* Theorems about CardDependencies, for every finite set of cards, every   *)
(* set of requests, of rules and of relations stored before.               *)
(***************************************************************************)
EXTENDS CardDependencies, FiniteSetTheorems, WellFoundedInduction, TLAPS

-----------------------------------------------------------------------------
(* Dependencies. *)

ViewEdges(r) == (edges \ unlink[r]) \cup link[r]

\* Whoever changes relations holds the graph lock from before it judges them
\* until its transaction ends.  A comment takes no graph lock, and has no
\* other task to go on to.
GraphInv ==
  /\ phase = [r \in Requests |-> phase[r]]
  /\ agenda = [r \in Requests |-> agenda[r]]
  /\ task = [r \in Requests |-> task[r]]
  /\ link = [r \in Requests |-> link[r]]
  /\ unlink = [r \in Requests |-> unlink[r]]
  /\ \A r \in Requests :
       /\ phase[r] \in {"idle", "graph", "over"} => link[r] = {} /\ unlink[r] = {}
       /\ phase[r] = "idle" => agenda[r] = <<>>
       /\ phase[r] = "next" => graph = r \/ agenda[r] = <<>>
       /\ phase[r] = "lock" => graph = r \/ (task[r].do = "comment" /\ agenda[r] = <<>>)
       /\ link[r] # {} \/ unlink[r] # {} => graph = r

\* The graph is acyclic, and so is what each request would leave of it.
GuardedGraph ==
  /\ GraphInv
  /\ Acyclic(edges)
  /\ \A r \in Requests : Acyclic(ViewEdges(r))

-----------------------------------------------------------------------------
\* Removing relations closes no cycle.
LEMMA FewerStayAcyclic ==
  ASSUME NEW E, NEW F, Acyclic(E), F \subseteq E
  PROVE  Acyclic(F)
BY DEF Acyclic

\* assertNoBlockingCycle is right: a relation whose blocker is not downstream
\* of its dependent closes no cycle.  Every set of cards keeps a member that
\* none of it blocks: one outside D, the cards downstream, if the set has one;
\* else it lies in D, and the new relation comes from outside D.
LEMMA CheckedEdgeStaysAcyclic ==
  ASSUME NEW E, NEW e, Acyclic(E), ~Downstream(E, e[2], e[1])
  PROVE  Acyclic(E \cup {e})
<1>1. PICK D \in SUBSET Cards :
        e[2] \in D /\ e[1] \notin D /\ \A f \in E : f[1] \in D => f[2] \in D
  BY DEF Downstream
<1>2. SUFFICES ASSUME NEW S \in SUBSET Cards \ {{}}
               PROVE  \E c \in S : \A a \in S : <<a, c>> \notin E \cup {e}
  BY DEF Acyclic
<1>3. CASE S \subseteq D
  <2>1. PICK c \in S : \A a \in S : <<a, c>> \notin E
    BY DEF Acyclic
  <2>2. ASSUME NEW a \in S, <<a, c>> = e
        PROVE  FALSE
    <3>1. e[1] = a
      BY <2>2
    <3> QED
      BY <1>1, <1>3, <3>1
  <2> QED
    BY <2>1, <2>2
<1>4. CASE ~(S \subseteq D)
  <2>1. S \ D \in SUBSET Cards \ {{}}
    BY <1>4
  <2>2. PICK c \in S \ D : \A a \in S \ D : <<a, c>> \notin E
    BY <2>1 DEF Acyclic
  <2>3. ASSUME NEW a \in S \cap D, <<a, c>> \in E
        PROVE  FALSE
    <3>1. <<a, c>>[1] = a /\ <<a, c>>[2] = c
      OBVIOUS
    <3> QED
      BY <1>1, <2>2, <2>3, <3>1
  <2>4. ASSUME NEW a \in S, <<a, c>> = e
        PROVE  FALSE
    <3>1. e[2] = c
      BY <2>4
    <3> QED
      BY <1>1, <2>2, <3>1
  <2> QED
    BY <2>2, <2>3, <2>4
<1> QED
  BY <1>3, <1>4

LEMMA InitHolds ==
  ASSUME DepInit
  PROVE  GuardedGraph
<1>1. GraphInv
  BY DEF DepInit, GraphInv
<1>2. \A r \in Requests : ViewEdges(r) = edges
  BY DEF DepInit, ViewEdges
<1> QED
  BY <1>1, <1>2 DEF DepInit, GuardedGraph

-----------------------------------------------------------------------------
\* Steps that leave every relation alone, stored or not.
LEMMA SameEdges ==
  ASSUME GuardedGraph, GraphInv', UNCHANGED <<edges, link, unlink>>
  PROVE  GuardedGraph'
<1>1. \A r \in Requests : ViewEdges(r)' = ViewEdges(r)
  BY DEF ViewEdges
<1> QED
  BY <1>1 DEF GuardedGraph

LEMMA BeginKeeps ==
  ASSUME GuardedGraph, NEW r \in Requests, Begin(r)
  PROVE  GuardedGraph'
<1>1. PICK t \in Tasks :
        IF t.do = "comment"
        THEN /\ phase' = [phase EXCEPT ![r] = "lock"]
             /\ task' = [task EXCEPT ![r] = t]
             /\ UNCHANGED agenda
        ELSE /\ phase' = [phase EXCEPT ![r] = "graph"]
             /\ agenda' = [agenda EXCEPT ![r] = <<{t}>>]
             /\ UNCHANGED task
  BY DEF Begin
<1>2. phase[r] = "idle" /\ UNCHANGED <<edges, graph, link, unlink>>
  BY DEF Begin, writes
<1>3. CASE t.do = "comment"
  <2>1. GraphInv'
    BY <1>1, <1>2, <1>3 DEF GuardedGraph, GraphInv
  <2> QED
    BY <1>2, <2>1, SameEdges
<1>4. CASE t.do # "comment"
  <2>1. GraphInv'
    BY <1>1, <1>2, <1>4 DEF GuardedGraph, GraphInv
  <2> QED
    BY <1>2, <2>1, SameEdges
<1> QED
  BY <1>3, <1>4

LEMMA TakeGraphKeeps ==
  ASSUME GuardedGraph, NEW r \in Requests, TakeGraph(r)
  PROVE  GuardedGraph'
<1>1. GraphInv'
  BY RequestsAssumption DEF GuardedGraph, GraphInv, TakeGraph, work, writes
<1> QED
  BY <1>1, SameEdges DEF TakeGraph, writes

LEMMA NextTaskKeeps ==
  ASSUME GuardedGraph, NEW r \in Requests, NextTask(r)
  PROVE  GuardedGraph'
<1>1. graph = r
  BY DEF GuardedGraph, GraphInv, NextTask
<1>2. UNCHANGED <<edges, graph, link, unlink>> /\ phase[r] = "next"
  BY DEF NextTask, writes
<1>3. PICK t :
        /\ \E a : agenda' = [agenda EXCEPT ![r] = a]
        /\ \/ UNCHANGED <<phase, task>>
           \/ /\ phase' = [phase EXCEPT ![r] = "lock"]
              /\ task' = [task EXCEPT ![r] = t]
  BY DEF NextTask
<1>4. GraphInv'
  BY <1>1, <1>2, <1>3 DEF GuardedGraph, GraphInv
<1> QED
  BY <1>2, <1>4, SameEdges

LEMMA TakeCardKeeps ==
  ASSUME GuardedGraph, NEW r \in Requests, TakeCard(r)
  PROVE  GuardedGraph'
<1>1. UNCHANGED <<phase, agenda, task, graph, edges, link, unlink>>
  BY DEF TakeCard, writes
<1>2. GraphInv'
  BY <1>1 DEF GuardedGraph, GraphInv
<1> QED
  BY <1>1, <1>2, SameEdges

\* The shape of a write: its request holds the graph, or only comments.
LEMMA WriteShape ==
  ASSUME GuardedGraph, NEW r \in Requests, Write(r)
  PROVE  /\ phase' = [phase EXCEPT ![r] = "next"]
         /\ UNCHANGED <<edges, graph, task>>
         /\ phase[r] = "lock"
         /\ \/ graph = r /\ \E a : agenda' = [agenda EXCEPT ![r] = a]
            \/ agenda[r] = <<>> /\ UNCHANGED <<agenda, link, unlink>>
<1>1. CASE Comment(r)
  <2>1. /\ phase' = [phase EXCEPT ![r] = "next"]
        /\ UNCHANGED <<edges, graph, task, agenda, link, unlink>>
        /\ phase[r] = "lock"
    BY <1>1 DEF Comment, Holding, writes
  <2>2. graph = r \/ agenda[r] = <<>>
    BY <2>1 DEF GuardedGraph, GraphInv
  <2>3. agenda' = [agenda EXCEPT ![r] = agenda[r]]
    BY <2>1 DEF GuardedGraph, GraphInv
  <2> QED
    BY <2>1, <2>2, <2>3
<1>2. ASSUME Close(r) \/ Open(r) \/ Relate(r) \/ Unrelate(r) \/ Tell(r)
      PROVE  \E a : agenda' = [agenda EXCEPT ![r] = a]
  BY <1>2 DEF Close, Open, Relate, Unrelate, Tell, HandOff
<1>3. ASSUME Batch(r) \/ Delete(r)
      PROVE  \E a : agenda' = [agenda EXCEPT ![r] = a]
  BY <1>3 DEF Batch, Delete
<1>4. ASSUME NEW K, "comment" \notin K, Holding(r, K)
      PROVE  /\ phase' = [phase EXCEPT ![r] = "next"]
             /\ UNCHANGED <<edges, graph, task>>
             /\ phase[r] = "lock"
             /\ graph = r
  BY <1>4 DEF Holding, GuardedGraph, GraphInv
<1>5. CASE Close(r)
  <2>1. Holding(r, {"complete", "auto", "archive"})
    BY <1>5 DEF Close
  <2> QED
    BY <1>2, <1>4, <1>5, <2>1
<1>6. CASE Open(r)
  <2>1. Holding(r, {"reopen", "restore"})
    BY <1>6 DEF Open
  <2> QED
    BY <1>2, <1>4, <1>6, <2>1
<1>7. CASE Batch(r)
  <2>1. Holding(r, {"completeAll", "reopenAll"})
    BY <1>7 DEF Batch
  <2> QED
    BY <1>3, <1>4, <1>7, <2>1
<1>8. CASE Relate(r)
  <2>1. Holding(r, {"relate"})
    BY <1>8 DEF Relate
  <2> QED
    BY <1>2, <1>4, <1>8, <2>1
<1>9. CASE Unrelate(r)
  <2>1. Holding(r, {"unrelate"})
    BY <1>9 DEF Unrelate
  <2> QED
    BY <1>2, <1>4, <1>9, <2>1
<1>10. CASE Delete(r)
  <2>1. Holding(r, {"delete"})
    BY <1>10 DEF Delete
  <2> QED
    BY <1>3, <1>4, <1>10, <2>1
<1>11. CASE Tell(r)
  <2>1. Holding(r, {"tell"})
    BY <1>11 DEF Tell
  <2> QED
    BY <1>2, <1>4, <1>11, <2>1
<1> QED
  BY <1>1, <1>5, <1>6, <1>7, <1>8, <1>9, <1>10, <1>11 DEF Write

\* What a write does to the relations: nothing, one more that was checked, or
\* some fewer.
LEMMA WriteEdges ==
  ASSUME GuardedGraph, NEW r \in Requests, Write(r)
  PROVE  \/ UNCHANGED <<link, unlink>>
         \/ /\ MayRelate(View(r), task[r].edge)
            /\ link' = [link EXCEPT ![r] = @ \cup {task[r].edge}]
            /\ UNCHANGED unlink
         \/ \E X : unlink' = [unlink EXCEPT ![r] = @ \cup X] /\ UNCHANGED link
BY DEF Write, Close, Open, Batch, Relate, Unrelate, Delete, Tell, Comment, writes

LEMMA WriteKeeps ==
  ASSUME GuardedGraph, NEW r \in Requests, Write(r)
  PROVE  GuardedGraph'
<1>1. /\ phase' = [phase EXCEPT ![r] = "next"]
      /\ UNCHANGED <<edges, graph, task>>
      /\ phase[r] = "lock"
      /\ \/ graph = r /\ \E a : agenda' = [agenda EXCEPT ![r] = a]
         \/ agenda[r] = <<>> /\ UNCHANGED <<agenda, link, unlink>>
  BY WriteShape
<1>2. CASE UNCHANGED <<link, unlink>>
  <2>1. GraphInv'
    BY <1>1, <1>2 DEF GuardedGraph, GraphInv
  <2> QED
    BY <1>1, <1>2, <2>1, SameEdges
<1>3. CASE graph = r /\ ~UNCHANGED <<link, unlink>>
  <2>1. \/ /\ MayRelate(View(r), task[r].edge)
           /\ link' = [link EXCEPT ![r] = @ \cup {task[r].edge}]
           /\ UNCHANGED unlink
        \/ \E X : unlink' = [unlink EXCEPT ![r] = @ \cup X] /\ UNCHANGED link
    BY <1>3, WriteEdges
  <2>2. GraphInv'
    <3>1. PICK a : agenda' = [agenda EXCEPT ![r] = a]
      BY <1>1, <1>3
    <3>2. \E L, U : link' = [link EXCEPT ![r] = L] /\ unlink' = [unlink EXCEPT ![r] = U]
      BY <2>1 DEF GuardedGraph, GraphInv
    <3> QED
      BY <1>1, <1>3, <3>1, <3>2 DEF GuardedGraph, GraphInv
  <2>3. ASSUME NEW s \in Requests, s # r
        PROVE  ViewEdges(s)' = ViewEdges(s)
    BY <1>1, <2>1, <2>3 DEF ViewEdges, GuardedGraph, GraphInv
  <2>4. Acyclic(ViewEdges(r)')
    <3>1. CASE /\ MayRelate(View(r), task[r].edge)
               /\ link' = [link EXCEPT ![r] = @ \cup {task[r].edge}]
               /\ UNCHANGED unlink
      <4> DEFINE e == task[r].edge
      <4>1. ViewEdges(r)' = ViewEdges(r) \cup {e}
        BY <1>1, <3>1 DEF ViewEdges, GuardedGraph, GraphInv
      <4>2. ~Downstream(ViewEdges(r), e[2], e[1])
        BY <3>1 DEF MayRelate, View, ViewEdges
      <4>3. Acyclic(ViewEdges(r))
        BY DEF GuardedGraph
      <4> HIDE DEF e
      <4> QED
        BY <4>1, <4>2, <4>3, CheckedEdgeStaysAcyclic
    <3>2. CASE \E X : unlink' = [unlink EXCEPT ![r] = @ \cup X] /\ UNCHANGED link
      <4>1. ViewEdges(r)' \subseteq ViewEdges(r)
        BY <1>1, <3>2 DEF ViewEdges, GuardedGraph, GraphInv
      <4>2. Acyclic(ViewEdges(r))
        BY DEF GuardedGraph
      <4> QED
        BY <4>1, <4>2, FewerStayAcyclic
    <3> QED
      BY <2>1, <3>1, <3>2
  <2>5. Acyclic(edges)'
    BY <1>1 DEF GuardedGraph
  <2>6. \A s \in Requests : Acyclic(ViewEdges(s)')
    BY <2>3, <2>4 DEF GuardedGraph
  <2> QED
    BY <2>2, <2>5, <2>6 DEF GuardedGraph, Acyclic
<1> QED
  BY <1>1, <1>2, <1>3

\* The end of a transaction, whatever became of its writes.
LEMMA EndShape ==
  ASSUME GuardedGraph, NEW r \in Requests, End(r)
  PROVE  /\ GraphInv'
         /\ link'[r] = {} /\ unlink'[r] = {}
         /\ \A s \in Requests \ {r} : link'[s] = link[s] /\ unlink'[s] = unlink[s]
BY DEF End, GuardedGraph, GraphInv

LEMMA CommitKeeps ==
  ASSUME GuardedGraph, NEW r \in Requests, Commit(r)
  PROVE  GuardedGraph'
<1>1. End(r) /\ edges' = ViewEdges(r)
  BY DEF Commit, View, ViewEdges
<1>2. /\ GraphInv'
      /\ link'[r] = {} /\ unlink'[r] = {}
      /\ \A s \in Requests \ {r} : link'[s] = link[s] /\ unlink'[s] = unlink[s]
  BY <1>1, EndShape
<1>3. CASE graph = r
  <2>1. \A s \in Requests : link'[s] = {} /\ unlink'[s] = {}
    BY <1>2, <1>3 DEF GuardedGraph, GraphInv
  <2>2. \A s \in Requests : ViewEdges(s)' = ViewEdges(r)
    BY <1>1, <2>1 DEF ViewEdges
  <2> QED
    BY <1>1, <1>2, <2>2 DEF GuardedGraph
<1>4. CASE graph # r
  <2>1. edges' = edges /\ link[r] = {} /\ unlink[r] = {}
    BY <1>1, <1>4 DEF GuardedGraph, GraphInv, ViewEdges
  <2>2. \A s \in Requests : ViewEdges(s)' = ViewEdges(s)
    BY <1>2, <2>1 DEF ViewEdges
  <2> QED
    BY <1>2, <2>1, <2>2 DEF GuardedGraph
<1> QED
  BY <1>3, <1>4

LEMMA AbortKeeps ==
  ASSUME GuardedGraph, NEW r \in Requests, Abort(r)
  PROVE  GuardedGraph'
<1>1. End(r) /\ edges' = edges
  BY DEF Abort
<1>2. /\ GraphInv'
      /\ link'[r] = {} /\ unlink'[r] = {}
      /\ \A s \in Requests \ {r} : link'[s] = link[s] /\ unlink'[s] = unlink[s]
  BY <1>1, EndShape
<1>3. ViewEdges(r)' = edges
  BY <1>1, <1>2 DEF ViewEdges
<1>4. \A s \in Requests \ {r} : ViewEdges(s)' = ViewEdges(s)
  BY <1>1, <1>2 DEF ViewEdges
<1> QED
  BY <1>1, <1>2, <1>3, <1>4 DEF GuardedGraph

\* The purge takes no lock, but it only removes relations.
LEMMA PurgeKeeps ==
  ASSUME GuardedGraph, Purge
  PROVE  GuardedGraph'
<1>1. edges' \subseteq edges /\ UNCHANGED <<graph, phase, agenda, task, link, unlink>>
  BY DEF Purge, work, writes
<1>2. GraphInv'
  BY <1>1 DEF GuardedGraph, GraphInv
<1>3. Acyclic(edges')
  BY <1>1, FewerStayAcyclic DEF GuardedGraph
<1>4. ASSUME NEW r \in Requests
      PROVE  Acyclic(ViewEdges(r)')
  <2>1. ViewEdges(r)' \subseteq ViewEdges(r)
    BY <1>1 DEF ViewEdges
  <2> QED
    BY <2>1, FewerStayAcyclic DEF GuardedGraph
<1> QED
  BY <1>2, <1>3, <1>4 DEF GuardedGraph, Acyclic

LEMMA StepKeeps ==
  ASSUME GuardedGraph, [DepNext]_depVars
  PROVE  GuardedGraph'
<1>1. CASE UNCHANGED depVars \/ SelectDoomed
  <2>1. UNCHANGED <<edges, graph, phase, agenda, task, link, unlink>>
    BY <1>1 DEF depVars, SelectDoomed, work, writes
  <2>2. GraphInv'
    BY <2>1 DEF GuardedGraph, GraphInv
  <2> QED
    BY <2>1, <2>2, SameEdges
<1>2. CASE Purge
  BY <1>2, PurgeKeeps
<1>3. ASSUME NEW r \in Requests,
             Begin(r) \/ TakeGraph(r) \/ NextTask(r) \/ TakeCard(r)
               \/ Write(r) \/ Commit(r) \/ Abort(r)
      PROVE  GuardedGraph'
  BY <1>3, BeginKeeps, TakeGraphKeeps, NextTaskKeeps, TakeCardKeeps, WriteKeeps,
     CommitKeeps, AbortKeeps
<1> QED
  BY <1>1, <1>2, <1>3 DEF DepNext

\* The relations stay acyclic and their writers hold the graph lock.
THEOREM GraphInvariance == DepSpec => []GuardedGraph
<1>1. DepInit => GuardedGraph
  BY InitHolds
<1>2. GuardedGraph /\ [DepNext]_depVars => GuardedGraph'
  BY StepKeeps
<1> QED
  BY <1>1, <1>2, PTL DEF DepSpec

\* The stored relations are acyclic, whatever requests interleave: no two of
\* them can close a cycle from its two ends (card-relations.ts:41-44).
THEOREM BlockingStaysAcyclic == DepSpec => []AcyclicBlocking
<1>1. GuardedGraph => AcyclicBlocking
  BY DEF GuardedGraph, AcyclicBlocking
<1> QED
  BY <1>1, GraphInvariance, PTL
-----------------------------------------------------------------------------
(* Types, with the tasks on the agendas. *)

\* What an agenda may hold: requests' tasks, a rule's and a delete's handoff.
Job ==
  Tasks \cup {[do |-> "auto", on |-> {c}, edge |-> <<>>] : c \in Cards}
        \cup {[do |-> "tell", on |-> S, edge |-> <<>>] : S \in SUBSET Cards}

RunTypeOK ==
  /\ DepTypeOK
  /\ agenda \in [Requests -> Seq(SUBSET Job)]
  /\ task \in [Requests -> Job \cup {NoTask}]

LEMMA JobShape ==
  ASSUME NEW t \in Job
  PROVE  /\ t.on \subseteq Cards
         /\ t.do \in Many \cup One \cup Link \cup {"auto", "tell"}
         /\ t.do \in Link => t.edge \in Edge /\ t.on = {t.edge[1], t.edge[2]}
         /\ t.do \in One \cup {"auto"} => \E c \in Cards : t.on = {c}
BY DEF Job, Tasks, Many, One, Link, Edge

LEMMA ViewShape ==
  ASSUME RunTypeOK, NEW r \in Requests
  PROVE  View(r).flags \subseteq Flag \X Cards /\ View(r).edges \subseteq Edge
BY DEF RunTypeOK, DepTypeOK, View

\* The tasks on an agenda, one of its sets put in front, one of its tasks taken.
Listed(s) == UNION {s[i] : i \in 1..Len(s)}

LEMMA ListedNone == Listed(<<>>) = {}
BY DEF Listed

Push(A, s) == <<A>> \o s

LEMMA ListedPush ==
  ASSUME NEW J, NEW s \in Seq(SUBSET J), NEW A \in SUBSET J
  PROVE  Push(A, s) \in Seq(SUBSET J) /\ Listed(Push(A, s)) = A \cup Listed(s)
<1> DEFINE q == Push(A, s)
<1>1. /\ q \in Seq(SUBSET J) /\ Len(q) = 1 + Len(s) /\ Len(s) \in Nat
      /\ q[1] = A /\ \A i \in 1..Len(s) : q[i + 1] = s[i]
  BY DEF Push
<1> HIDE DEF q
<1>2. \A x : x \in Listed(q) => x \in A \cup Listed(s)
  <2> SUFFICES ASSUME NEW i \in 1..Len(q), NEW x \in q[i]
               PROVE  x \in A \cup Listed(s)
    BY DEF Listed
  <2>1. CASE i = 1
    BY <1>1, <2>1
  <2>2. CASE i # 1
    <3>1. i - 1 \in 1..Len(s) /\ q[(i - 1) + 1] = s[i - 1] /\ (i - 1) + 1 = i
      BY <1>1, <2>2
    <3> QED
      BY <3>1 DEF Listed
  <2> QED
    BY <2>1, <2>2
<1>3. \A x : x \in A \cup Listed(s) => x \in Listed(q)
  <2>1. A \subseteq Listed(q)
    BY <1>1 DEF Listed
  <2>2. ASSUME NEW i \in 1..Len(s), NEW x \in s[i]
        PROVE  x \in Listed(q)
    <3>1. i + 1 \in 1..Len(q) /\ q[i + 1] = s[i]
      BY <1>1
    <3> QED
      BY <3>1, <2>2 DEF Listed
  <2> QED
    BY <2>1, <2>2 DEF Listed
<1> QED
  BY <1>1, <1>2, <1>3 DEF q

LEMMA ListedTake ==
  ASSUME NEW J, NEW s \in Seq(SUBSET J), s # <<>>, NEW rest \in SUBSET Head(s)
  PROVE  LET q == (IF rest = {} THEN <<>> ELSE <<rest>>) \o Tail(s) IN
         /\ q \in Seq(SUBSET J)
         /\ Listed(q) \subseteq Listed(s)
         /\ Head(s) \subseteq Listed(s)
<1> DEFINE u == Tail(s)
<1>1. /\ Head(s) \subseteq J /\ u \in Seq(SUBSET J)
      /\ Len(u) = Len(s) - 1 /\ Len(s) \in Nat \ {0}
      /\ \A i \in 1..Len(u) : u[i] = s[i + 1]
      /\ Head(s) = s[1]
      /\ <<>> \o u = u
  OBVIOUS
<1> HIDE DEF u
<1>2. Listed(u) \subseteq Listed(s)
  <2> SUFFICES ASSUME NEW i \in 1..Len(u), NEW x \in u[i]
               PROVE  x \in Listed(s)
    BY DEF Listed
  <2>1. i + 1 \in 1..Len(s) /\ x \in s[i + 1]
    BY <1>1
  <2> QED
    BY <2>1 DEF Listed
<1>3. Head(s) \subseteq Listed(s)
  BY <1>1 DEF Listed
<1>4. rest \in SUBSET J
  BY <1>1
<1>5. Push(rest, u) \in Seq(SUBSET J) /\ Listed(Push(rest, u)) = rest \cup Listed(u)
  BY <1>1, <1>4, ListedPush
<1>6. (IF rest = {} THEN <<>> ELSE <<rest>>) \o u = IF rest = {} THEN u ELSE Push(rest, u)
  BY <1>1 DEF Push
<1>7. Head(s) \subseteq Listed(s) /\ rest \subseteq Head(s)
  BY <1>3
<1> QED
  BY <1>1, <1>2, <1>5, <1>6, <1>7 DEF u

\* What a handoff leaves on the agenda: the rules it sets off, and the rest.
Autos(way, told) ==
  {[do |-> "auto", on |-> {d}, edge |-> <<>>] : d \in {c \in told : <<way, c>> \in rules}}

LEMMA HandOffEffect ==
  ASSUME RunTypeOK, NEW r \in Requests, NEW way \in Crossing, NEW told \in SUBSET Cards,
         HandOff(r, way, told)
  PROVE  /\ news' \in [Requests -> SUBSET (Crossing \X Cards)]
         /\ news'[r] = news[r] \cup ({way} \X told)
         /\ agenda' \in [Requests -> Seq(SUBSET Job)]
         /\ Listed(agenda'[r]) = Autos(way, told) \cup Listed(agenda[r])
         /\ \A s \in Requests \ {r} : agenda'[s] = agenda[s] /\ news'[s] = news[s]
<1> DEFINE A == Autos(way, told)
<1>1. A \in SUBSET Job
  BY DEF Autos, Job
<1>2. agenda \in [Requests -> Seq(SUBSET Job)] /\ agenda[r] \in Seq(SUBSET Job)
  BY DEF RunTypeOK
<1>3. A = {} <=> {d \in told : <<way, d>> \in rules} = {}
  BY DEF Autos
<1>4. agenda' = [agenda EXCEPT ![r] = (IF A = {} THEN <<>> ELSE <<A>>) \o @]
  BY <1>3 DEF HandOff, Autos
<1> HIDE DEF A
<1>5. <<>> \o agenda[r] = agenda[r]
  BY <1>2
<1>6. agenda'[r] = IF A = {} THEN agenda[r] ELSE Push(A, agenda[r])
  BY <1>2, <1>4, <1>5 DEF Push
<1>7. Push(A, agenda[r]) \in Seq(SUBSET Job) /\ Listed(Push(A, agenda[r])) = A \cup Listed(agenda[r])
  BY <1>1, <1>2, ListedPush
<1>8. agenda'[r] \in Seq(SUBSET Job) /\ Listed(agenda'[r]) = A \cup Listed(agenda[r])
  BY <1>2, <1>6, <1>7
<1>9. /\ agenda' \in [Requests -> Seq(SUBSET Job)]
      /\ \A s \in Requests \ {r} : agenda'[s] = agenda[s]
  BY <1>2, <1>4, <1>8
<1>10. /\ news' \in [Requests -> SUBSET (Crossing \X Cards)]
       /\ news'[r] = news[r] \cup ({way} \X told)
       /\ \A s \in Requests \ {r} : news'[s] = news[s]
  BY DEF HandOff, RunTypeOK, DepTypeOK
<1> QED
  BY <1>8, <1>9, <1>10 DEF A

LEMMA InitTyped ==
  ASSUME DepInit
  PROVE  RunTypeOK
<1>1. DepTypeOK
  BY RequestsAssumption DEF DepInit, DepTypeOK, Flag
<1>2. <<>> \in Seq(SUBSET Job)
  OBVIOUS
<1> QED
  BY <1>1, <1>2 DEF DepInit, RunTypeOK

\* The rows and the writes of the request that takes a step.
LEMMA WantedIsCards ==
  ASSUME RunTypeOK, NEW r \in Requests, NEW t \in Job
  PROVE  Wanted(View(r), t) \subseteq Cards /\ Changing(View(r), t) \subseteq t.on
BY JobShape DEF Wanted, Waiting, Ready, Changing

\* Every write leaves its request with the lock it had and rows it holds.
LEMMA HoldingTyped ==
  ASSUME RunTypeOK, NEW r \in Requests, NEW K, Holding(r, K)
  PROVE  /\ phase' \in [Requests -> {"idle", "graph", "next", "lock", "over"}]
         /\ \A s \in Requests : phase'[s] \in {"idle", "over"} => graph' # s /\ held'[s] = {}
         /\ UNCHANGED <<flags, edges, rules, doomed, graph, task, want, held, chained>>
BY DEF Holding, RunTypeOK, DepTypeOK

\* Types are kept by a step that ends in these.
LEMMA TypedAfter ==
  ASSUME RunTypeOK,
         UNCHANGED <<flags, edges, rules, doomed, graph, task, want, held, chained>>,
         phase' \in [Requests -> {"idle", "graph", "next", "lock", "over"}],
         \A s \in Requests : phase'[s] \in {"idle", "over"} => graph' # s /\ held'[s] = {},
         agenda' \in [Requests -> Seq(SUBSET Job)],
         plus' \in [Requests -> SUBSET (Flag \X Cards)],
         minus' \in [Requests -> SUBSET (Flag \X Cards)],
         link' \in [Requests -> SUBSET Edge],
         unlink' \in [Requests -> SUBSET Edge],
         news' \in [Requests -> SUBSET (Crossing \X Cards)]
  PROVE  RunTypeOK'
BY DEF RunTypeOK, DepTypeOK

LEMMA CloseOpenTyped ==
  ASSUME RunTypeOK, NEW r \in Requests, Close(r) \/ Open(r)
  PROVE  RunTypeOK'
<1> DEFINE S == Changing(View(r), task[r])
<1>1. task[r] \in Job
  <2>1. task[r] \in Job \cup {NoTask} /\ task[r].do # "none"
    BY DEF RunTypeOK, Close, Open, Holding
  <2> QED
    BY <2>1 DEF NoTask
<1>2. S \in SUBSET Cards
  BY <1>1, JobShape, WantedIsCards
<1>3. PICK f \in Flag :
        \/ /\ plus' = [plus EXCEPT ![r] = @ \cup ({f} \X S)]
           /\ minus' = [minus EXCEPT ![r] = @ \ ({f} \X S)]
        \/ /\ plus' = [plus EXCEPT ![r] = @ \ ({f} \X S)]
           /\ minus' = [minus EXCEPT ![r] = @ \cup ({f} \X S)]
  BY DEF Close, Open, Flag
<1>4. PICK K : Holding(r, K)
  BY DEF Close, Open
<1>5. PICK way \in Crossing, told \in SUBSET Cards : HandOff(r, way, told)
  <2>1. \A v, w, way, C : C \subseteq Cards => Told(r, way, C, w) \in SUBSET Cards
    BY DEF Told
  <2>2. \A v : Waiting(v, S) \subseteq Cards /\ Ready(v, S) \subseteq Cards
    BY DEF Waiting, Ready
  <2> QED
    BY <2>1, <2>2 DEF Close, Open, Crossing
<1> HIDE DEF S
<1>6. agenda' \in [Requests -> Seq(SUBSET Job)] /\ news' \in [Requests -> SUBSET (Crossing \X Cards)]
  BY <1>5, HandOffEffect
<1>7. plus' \in [Requests -> SUBSET (Flag \X Cards)] /\ minus' \in [Requests -> SUBSET (Flag \X Cards)]
  <2> DEFINE X == {f} \X S
  <2>1. X \subseteq Flag \X Cards
    BY <1>2
  <2>2. plus \in [Requests -> SUBSET (Flag \X Cards)] /\ minus \in [Requests -> SUBSET (Flag \X Cards)]
    BY DEF RunTypeOK, DepTypeOK
  <2>3. \/ plus' = [plus EXCEPT ![r] = @ \cup X] /\ minus' = [minus EXCEPT ![r] = @ \ X]
        \/ plus' = [plus EXCEPT ![r] = @ \ X] /\ minus' = [minus EXCEPT ![r] = @ \cup X]
    BY <1>3
  <2> HIDE DEF X
  <2> QED
    BY <2>1, <2>2, <2>3
<1>8. link' \in [Requests -> SUBSET Edge] /\ unlink' \in [Requests -> SUBSET Edge]
  BY DEF RunTypeOK, DepTypeOK, Close, Open
<1> QED
  BY <1>4, <1>6, <1>7, <1>8, HoldingTyped, TypedAfter

LEMMA RelateTyped ==
  ASSUME RunTypeOK, NEW r \in Requests, Relate(r) \/ Unrelate(r)
  PROVE  RunTypeOK'
<1>1. task[r] \in Job /\ task[r].do \in Link
  <2>1. task[r] \in Job \cup {NoTask} /\ task[r].do \in Link
    BY DEF RunTypeOK, Relate, Unrelate, Holding, Link
  <2> QED
    BY <2>1 DEF NoTask, Link
<1>2. task[r].edge \in Edge /\ task[r].edge[1] \in Cards /\ task[r].edge[2] \in Cards
  BY <1>1, JobShape DEF Edge
<1>3. PICK K : Holding(r, K)
  BY DEF Relate, Unrelate
<1>4. PICK way \in Crossing, told \in SUBSET Cards : HandOff(r, way, told)
  BY <1>2 DEF Relate, Unrelate, Told, Waiting, Crossing
<1>5. agenda' \in [Requests -> Seq(SUBSET Job)] /\ news' \in [Requests -> SUBSET (Crossing \X Cards)]
  BY <1>4, HandOffEffect
<1>6. /\ plus' \in [Requests -> SUBSET (Flag \X Cards)]
      /\ minus' \in [Requests -> SUBSET (Flag \X Cards)]
      /\ link' \in [Requests -> SUBSET Edge]
      /\ unlink' \in [Requests -> SUBSET Edge]
  <2> DEFINE e == task[r].edge
  <2>1. \/ link' = [link EXCEPT ![r] = @ \cup {e}] /\ UNCHANGED unlink
        \/ unlink' = [unlink EXCEPT ![r] = @ \cup {e}] /\ UNCHANGED link
    BY DEF Relate, Unrelate
  <2>2. e \in Edge
    BY <1>2
  <2>3. UNCHANGED <<plus, minus>>
    BY DEF Relate, Unrelate
  <2>4. /\ plus \in [Requests -> SUBSET (Flag \X Cards)]
        /\ minus \in [Requests -> SUBSET (Flag \X Cards)]
        /\ link \in [Requests -> SUBSET Edge] /\ unlink \in [Requests -> SUBSET Edge]
    BY DEF RunTypeOK, DepTypeOK
  <2> HIDE DEF e
  <2> QED
    BY <2>1, <2>2, <2>3, <2>4
<1> QED
  BY <1>3, <1>5, <1>6, HoldingTyped, TypedAfter

\* The handoffs of a delete, and the cards of a batch, go first.
LEMMA PushEffect ==
  ASSUME RunTypeOK, NEW r \in Requests, NEW A \in SUBSET Job,
         agenda' = [agenda EXCEPT ![r] = (IF A = {} THEN <<>> ELSE <<A>>) \o @]
  PROVE  /\ agenda' \in [Requests -> Seq(SUBSET Job)]
         /\ Listed(agenda'[r]) = A \cup Listed(agenda[r])
         /\ \A s \in Requests \ {r} : agenda'[s] = agenda[s]
<1>1. agenda \in [Requests -> Seq(SUBSET Job)] /\ agenda[r] \in Seq(SUBSET Job)
  BY DEF RunTypeOK
<1>2. <<>> \o agenda[r] = agenda[r]
  BY <1>1
<1>3. agenda'[r] = IF A = {} THEN agenda[r] ELSE Push(A, agenda[r])
  BY <1>1, <1>2 DEF Push
<1>4. Push(A, agenda[r]) \in Seq(SUBSET Job) /\ Listed(Push(A, agenda[r])) = A \cup Listed(agenda[r])
  BY <1>1, ListedPush
<1>5. agenda'[r] \in Seq(SUBSET Job) /\ Listed(agenda'[r]) = A \cup Listed(agenda[r])
  BY <1>1, <1>3, <1>4
<1> QED
  BY <1>1, <1>5

\* The tasks of a batch's cards, and the handoff of a delete.
Cardwise(t) ==
  {[do |-> IF t.do = "completeAll" THEN "complete" ELSE "reopen", on |-> {c}, edge |-> <<>>] : c \in t.on}
Handoffs(told) == {[do |-> "tell", on |-> T, edge |-> <<>>] : T \in {told} \ {{}}}

LEMMA BatchEffect ==
  ASSUME RunTypeOK, NEW r \in Requests, Batch(r)
  PROVE  /\ agenda' \in [Requests -> Seq(SUBSET Job)]
         /\ Listed(agenda'[r]) = Cardwise(task[r]) \cup Listed(agenda[r])
         /\ \A s \in Requests \ {r} : agenda'[s] = agenda[s]
<1>1. task[r] \in Job
  <2>1. task[r] \in Job \cup {NoTask} /\ task[r].do \in {"completeAll", "reopenAll"}
    BY DEF RunTypeOK, Batch, Holding
  <2> QED
    BY <2>1 DEF NoTask
<1>2. Cardwise(task[r]) \in SUBSET Job
  BY <1>1, JobShape DEF Cardwise, Job, Tasks, One
<1>3. agenda' = [agenda EXCEPT ![r] = <<Cardwise(task[r])>> \o @]
  BY DEF Batch, Cardwise
<1>4. agenda \in [Requests -> Seq(SUBSET Job)] /\ agenda[r] \in Seq(SUBSET Job)
  BY DEF RunTypeOK
<1>5. agenda'[r] = Push(Cardwise(task[r]), agenda[r])
  BY <1>3, <1>4 DEF Push
<1>6. agenda'[r] \in Seq(SUBSET Job)
      /\ Listed(agenda'[r]) = Cardwise(task[r]) \cup Listed(agenda[r])
  <2>1. PICK A : A = Cardwise(task[r])
    OBVIOUS
  <2>2. PICK s : s = agenda[r]
    OBVIOUS
  <2>3. Push(A, s) \in Seq(SUBSET Job) /\ Listed(Push(A, s)) = A \cup Listed(s)
    BY <1>2, <1>4, <2>1, <2>2, ListedPush
  <2> QED
    BY <1>5, <2>1, <2>2, <2>3
<1> QED
  BY <1>3, <1>4, <1>6

\* What a delete takes: its cards and every relation of theirs.
Lost(r) ==
  {e \in View(r).edges : e[1] \in Changing(View(r), task[r]) \/ e[2] \in Changing(View(r), task[r])}
AfterDelete(r) ==
  [With(View(r), Changing(View(r), task[r]), "gone") EXCEPT !.edges = @ \ Lost(r)]
ToldByDelete(r) ==
  Told(r, "unblocked", Waiting(View(r), Changing(View(r), task[r])), AfterDelete(r))

LEMMA DeleteEffect ==
  ASSUME RunTypeOK, NEW r \in Requests, Delete(r)
  PROVE  /\ agenda' \in [Requests -> Seq(SUBSET Job)]
         /\ Listed(agenda'[r]) = Handoffs(ToldByDelete(r)) \cup Listed(agenda[r])
         /\ \A s \in Requests \ {r} : agenda'[s] = agenda[s]
         /\ agenda[r] = <<>> => \A t \in Handoffs(ToldByDelete(r)) : agenda'[r] = <<{t}>>
<1> DEFINE told == ToldByDelete(r)
<1>1. agenda' = [agenda EXCEPT ![r] =
          (IF told = {} THEN <<>>
           ELSE <<{[do |-> "tell", on |-> told, edge |-> <<>>]}>>) \o @]
  BY DEF Delete, ToldByDelete, AfterDelete, Lost
<1>2. told \in SUBSET Cards
  BY DEF ToldByDelete, Told, Waiting
<1> HIDE DEF told
<1>3. Handoffs(told) = IF told = {} THEN {} ELSE {[do |-> "tell", on |-> told, edge |-> <<>>]}
  BY DEF Handoffs
<1>4. Handoffs(told) \in SUBSET Job
  BY <1>2 DEF Handoffs, Job
<1>5. agenda' = [agenda EXCEPT ![r] = (IF Handoffs(told) = {} THEN <<>> ELSE <<Handoffs(told)>>) \o @]
  BY <1>1, <1>3
<1>6. /\ agenda' \in [Requests -> Seq(SUBSET Job)]
      /\ Listed(agenda'[r]) = Handoffs(told) \cup Listed(agenda[r])
      /\ \A s \in Requests \ {r} : agenda'[s] = agenda[s]
  BY <1>4, <1>5, PushEffect
<1>7. ASSUME agenda[r] = <<>>, NEW t \in Handoffs(told)
      PROVE  agenda'[r] = <<{t}>>
  <2>1. Handoffs(told) = {t}
    BY <1>3, <1>7
  <2>2. agenda'[r] = <<Handoffs(told)>> \o agenda[r]
    BY <1>5, <2>1 DEF RunTypeOK
  <2> QED
    BY <1>7, <2>1, <2>2
<1> QED
  BY <1>6, <1>7 DEF told

LEMMA BatchDeleteTyped ==
  ASSUME RunTypeOK, NEW r \in Requests, Batch(r) \/ Delete(r)
  PROVE  RunTypeOK'
<1>1. PICK K : Holding(r, K)
  BY DEF Batch, Delete
<1>2. agenda' \in [Requests -> Seq(SUBSET Job)]
  BY BatchEffect, DeleteEffect
<1>3. CASE Batch(r)
  <2>1. UNCHANGED <<plus, minus, link, unlink, news>>
    BY <1>3 DEF Batch, writes
  <2> QED
    BY <1>1, <1>2, <2>1, HoldingTyped, TypedAfter DEF RunTypeOK, DepTypeOK
<1>4. CASE Delete(r)
  <2> DEFINE S == Changing(View(r), task[r])
             X == {"gone"} \X S
             L == Lost(r)
  <2>1. task[r] \in Job
    <3>1. task[r] \in Job \cup {NoTask} /\ task[r].do = "delete"
      BY <1>4 DEF RunTypeOK, Delete, Holding
    <3> QED
      BY <3>1 DEF NoTask
  <2>2. X \subseteq Flag \X Cards
    BY <2>1, JobShape, WantedIsCards DEF Flag
  <2>3. L \subseteq Edge
    BY ViewShape DEF Lost
  <2>4. /\ plus' = [plus EXCEPT ![r] = @ \cup X]
        /\ unlink' = [unlink EXCEPT ![r] = @ \cup L]
        /\ UNCHANGED <<minus, link, news>>
    BY <1>4 DEF Delete, Lost
  <2> HIDE DEF X, L
  <2>5. /\ plus' \in [Requests -> SUBSET (Flag \X Cards)]
        /\ unlink' \in [Requests -> SUBSET Edge]
    BY <2>2, <2>3, <2>4 DEF RunTypeOK, DepTypeOK
  <2> QED
    BY <1>1, <1>2, <2>4, <2>5, HoldingTyped, TypedAfter DEF RunTypeOK, DepTypeOK
<1> QED
  BY <1>3, <1>4

LEMMA TellCommentTyped ==
  ASSUME RunTypeOK, NEW r \in Requests, Tell(r) \/ Comment(r)
  PROVE  RunTypeOK'
<1>1. PICK K : Holding(r, K)
  BY DEF Tell, Comment
<1>2. UNCHANGED <<plus, minus, link, unlink>>
  BY DEF Tell, Comment, writes
<1>3. agenda' \in [Requests -> Seq(SUBSET Job)] /\ news' \in [Requests -> SUBSET (Crossing \X Cards)]
  <2>1. CASE Tell(r)
    <3>1. task[r] \in Job
      <4>1. task[r] \in Job \cup {NoTask} /\ task[r].do = "tell"
        BY <2>1 DEF RunTypeOK, Tell, Holding
      <4> QED
        BY <4>1 DEF NoTask
    <3>2. task[r].on \in SUBSET Cards /\ "unblocked" \in Crossing
      BY <3>1, JobShape DEF Crossing
    <3> QED
      BY <2>1, <3>2, HandOffEffect DEF Tell
  <2>2. CASE Comment(r)
    BY <2>2 DEF Comment, writes, RunTypeOK, DepTypeOK
  <2> QED
    BY <2>1, <2>2
<1> QED
  BY <1>1, <1>2, <1>3, HoldingTyped, TypedAfter DEF RunTypeOK, DepTypeOK

LEMMA BeginTyped ==
  ASSUME RunTypeOK, NEW r \in Requests, Begin(r)
  PROVE  RunTypeOK'
<1>1. PICK t \in Tasks :
        IF t.do = "comment"
        THEN /\ phase' = [phase EXCEPT ![r] = "lock"]
             /\ task' = [task EXCEPT ![r] = t]
             /\ want' = [want EXCEPT ![r] = t.on]
             /\ UNCHANGED agenda
        ELSE /\ phase' = [phase EXCEPT ![r] = "graph"]
             /\ agenda' = [agenda EXCEPT ![r] = <<{t}>>]
             /\ UNCHANGED <<task, want>>
  BY DEF Begin
<1>2. t \in Job /\ t.on \subseteq Cards /\ <<{t}>> \in Seq(SUBSET Job)
  BY JobShape DEF Job
<1>3. UNCHANGED <<flags, edges, rules, doomed, graph, held, plus, minus, link, unlink, news, chained>>
  BY DEF Begin, writes
<1>4. /\ phase' \in [Requests -> {"idle", "graph", "next", "lock", "over"}]
      /\ task' \in [Requests -> Job \cup {NoTask}]
      /\ want' \in [Requests -> SUBSET Cards]
      /\ agenda' \in [Requests -> Seq(SUBSET Job)]
  <2>1. /\ phase \in [Requests -> {"idle", "graph", "next", "lock", "over"}]
        /\ task \in [Requests -> Job \cup {NoTask}]
        /\ want \in [Requests -> SUBSET Cards]
        /\ agenda \in [Requests -> Seq(SUBSET Job)]
    BY DEF RunTypeOK, DepTypeOK
  <2>2. CASE t.do = "comment"
    BY <1>1, <1>2, <2>1, <2>2
  <2>3. CASE t.do # "comment"
    BY <1>1, <1>2, <2>1, <2>3
  <2> QED
    BY <2>2, <2>3
<1>5. \A s \in Requests : phase'[s] \in {"idle", "over"} => phase[s] \in {"idle", "over"}
  BY <1>1 DEF RunTypeOK, DepTypeOK
<1> QED
  BY <1>3, <1>4, <1>5 DEF RunTypeOK, DepTypeOK

LEMMA NextTaskTyped ==
  ASSUME RunTypeOK, NEW r \in Requests, NextTask(r)
  PROVE  RunTypeOK'
<1>1. PICK t \in Head(agenda[r]) :
        LET rest == Head(agenda[r]) \ {t} IN
        /\ agenda' = [agenda EXCEPT ![r] = (IF rest = {} THEN <<>> ELSE <<rest>>) \o Tail(@)]
        /\ \/ UNCHANGED <<phase, task, want, chained>>
           \/ /\ phase' = [phase EXCEPT ![r] = "lock"]
              /\ task' = [task EXCEPT ![r] = t]
              /\ want' = [want EXCEPT ![r] = Wanted(View(r), t)]
              /\ chained' = IF t.do \in {"delete", "auto"} THEN chained \cup {r} ELSE chained
  BY DEF NextTask
<1>2. agenda \in [Requests -> Seq(SUBSET Job)] /\ agenda[r] \in Seq(SUBSET Job) /\ agenda[r] # <<>>
  BY DEF RunTypeOK, NextTask
<1>3. t \in Job
  BY <1>2
<1>4. Wanted(View(r), t) \in SUBSET Cards
  BY <1>3, WantedIsCards
<1>5. agenda'[r] \in Seq(SUBSET Job)
  <2>1. Head(agenda[r]) \ {t} \in SUBSET Head(agenda[r])
    OBVIOUS
  <2> QED
    BY <1>1, <1>2, <2>1, ListedTake
<1>6. agenda' \in [Requests -> Seq(SUBSET Job)]
  BY <1>1, <1>2, <1>5
<1>7. UNCHANGED <<flags, edges, rules, doomed, graph, held, plus, minus, link, unlink, news>>
  BY DEF NextTask, writes
<1>8. /\ phase' \in [Requests -> {"idle", "graph", "next", "lock", "over"}]
      /\ task' \in [Requests -> Job \cup {NoTask}]
      /\ want' \in [Requests -> SUBSET Cards]
      /\ chained' \subseteq Requests
      /\ \A s \in Requests : phase'[s] \in {"idle", "over"} => phase[s] \in {"idle", "over"}
  <2>1. /\ phase \in [Requests -> {"idle", "graph", "next", "lock", "over"}]
        /\ task \in [Requests -> Job \cup {NoTask}]
        /\ want \in [Requests -> SUBSET Cards]
        /\ chained \subseteq Requests
    BY DEF RunTypeOK, DepTypeOK
  <2>2. PICK W : W = Wanted(View(r), t)
    OBVIOUS
  <2>3. \/ UNCHANGED <<phase, task, want, chained>>
        \/ /\ phase' = [phase EXCEPT ![r] = "lock"]
           /\ task' = [task EXCEPT ![r] = t]
           /\ want' = [want EXCEPT ![r] = W]
           /\ chained' \subseteq chained \cup {r}
    BY <1>1, <2>2
  <2> QED
    BY <1>3, <1>4, <2>1, <2>2, <2>3
<1> QED
  BY <1>6, <1>7, <1>8 DEF RunTypeOK, DepTypeOK

LEMMA LocksTyped ==
  ASSUME RunTypeOK, NEW r \in Requests, TakeGraph(r) \/ TakeCard(r)
  PROVE  RunTypeOK'
<1>1. CASE TakeGraph(r)
  BY <1>1 DEF TakeGraph, RunTypeOK, DepTypeOK, work, writes
<1>2. CASE TakeCard(r)
  <2>1. PICK c \in Cards : held' = [held EXCEPT ![r] = @ \cup {c}]
    BY <1>2 DEF TakeCard, Due, RunTypeOK, DepTypeOK
  <2> QED
    BY <1>2, <2>1 DEF TakeCard, RunTypeOK, DepTypeOK, work, writes
<1> QED
  BY <1>1, <1>2

LEMMA EndTyped ==
  ASSUME RunTypeOK, NEW r \in Requests, End(r),
         flags' \subseteq Flag \X Cards, edges' \subseteq Edge
  PROVE  RunTypeOK'
<1>1. <<>> \in Seq(SUBSET Job)
  OBVIOUS
<1> QED
  BY <1>1, RequestsAssumption DEF End, RunTypeOK, DepTypeOK

LEMMA StepTyped ==
  ASSUME RunTypeOK, [DepNext]_depVars
  PROVE  RunTypeOK'
<1>1. CASE UNCHANGED depVars
  BY <1>1 DEF depVars, work, writes, RunTypeOK, DepTypeOK
<1>2. CASE SelectDoomed
  BY <1>2 DEF SelectDoomed, work, writes, RunTypeOK, DepTypeOK
<1>3. CASE Purge
  BY <1>3 DEF Purge, work, writes, RunTypeOK, DepTypeOK, Flag
<1>4. ASSUME NEW r \in Requests, Begin(r) \/ TakeGraph(r) \/ NextTask(r) \/ TakeCard(r)
      PROVE  RunTypeOK'
  BY <1>4, BeginTyped, LocksTyped, NextTaskTyped
<1>5. ASSUME NEW r \in Requests, Write(r)
      PROVE  RunTypeOK'
  BY <1>5, CloseOpenTyped, RelateTyped, BatchDeleteTyped, TellCommentTyped DEF Write
<1>6. ASSUME NEW r \in Requests, Commit(r)
      PROVE  RunTypeOK'
  BY <1>6, ViewShape, EndTyped DEF Commit
<1>7. ASSUME NEW r \in Requests, Abort(r)
      PROVE  RunTypeOK'
  <2>1. flags' \subseteq Flag \X Cards /\ edges' \subseteq Edge
    BY <1>7 DEF Abort, RunTypeOK, DepTypeOK
  <2> QED
    BY <1>7, <2>1, EndTyped DEF Abort
<1> QED
  BY <1>1, <1>2, <1>3, <1>4, <1>5, <1>6, <1>7 DEF DepNext

\* The rows, the locks and the writes of every request stay within their types,
\* and only a transaction under way holds a lock.
THEOREM DependenciesTyped == DepSpec => []DepTypeOK
<1>1. DepInit => RunTypeOK
  BY InitTyped
<1>2. RunTypeOK /\ [DepNext]_depVars => RunTypeOK'
  BY StepTyped
<1>3. RunTypeOK => DepTypeOK
  BY DEF RunTypeOK
<1> QED
  BY <1>1, <1>2, <1>3, PTL DEF DepSpec

-----------------------------------------------------------------------------
(* What holds of a request under way, between its tasks. *)

\* The tasks a request still has, with the one it is at.
Todo(r) == Listed(agenda[r]) \cup {t \in {task[r]} : phase[r] = "lock"}
Lone(r, t) ==
  \/ phase[r] \in {"graph", "next"} /\ agenda[r] = <<{t}>>
  \/ phase[r] = "lock" /\ agenda[r] = <<>> /\ task[r] = t

Clean(r) == plus[r] = {} /\ minus[r] = {} /\ link[r] = {} /\ unlink[r] = {} /\ news[r] = {}

\* A request's own task comes first and alone; a batch becomes its cards' tasks.
Root == {"completeAll", "reopenAll", "archive", "restore", "delete", "relate", "unrelate"}
Single == {"complete", "reopen"}

\* The rows it holds come before those it still wants.
LocksInOrder(r) ==
  want[r] \subseteq held[r] \/ \A a \in held[r] : \A b \in want[r] \ held[r] : a < b

\* What the tasks left stand for.  One that opens or closes a single card adds
\* no relation; closing and opening do not mix; a rule's task was set off by a
\* crossing that was told; a delete's handoff comes before any other.
Disciplined(r) ==
  /\ phase[r] \in {"next", "lock"}
  /\ \A t \in Todo(r) :
       /\ t.do # "comment"
       /\ t.do \in Root => Clean(r) /\ Lone(r, t)
       /\ t.do \in Single => link[r] = {} /\ unlink[r] = {}
       /\ t.do = "complete" => \A u \in Todo(r) : u.do # "reopen"
       /\ t.do = "auto" => \A d \in t.on : \E k \in Crossing : <<k, d>> \in news[r] \cap rules
       /\ t.do = "tell" => Lone(r, t) /\ news[r] = {} /\ r \in chained
  /\ phase[r] = "lock" /\ task[r].do \in {"delete", "auto"} => r \in chained

\* What the guard under the lock reads stays within the rows the task was
\* promised, and what the request has opened, it holds.
Fresh(r) == phase[r] = "lock" => Wanted(View(r), task[r]) \subseteq want[r]
Own(r) == \A m \in minus[r] : m[2] \in held[r]

\* The tasks left want rows that are held, unless nothing has been locked yet.
Ahead(r) ==
  r \notin chained =>
    /\ phase[r] = "lock" => LocksInOrder(r)
    /\ \A t \in Listed(agenda[r]) :
         /\ t.do \in Root => held[r] = {}
         /\ t.do \in Single => Wanted(View(r), t) \subseteq held[r] \/ (held[r] = {} /\ Lone(r, t))

\* The crossings that d was told of, or will be by a delete's handoff.
Way(r, d) ==
  {k \in Crossing : <<k, d>> \in news[r]}
    \cup {k \in {"unblocked"} : \E t \in Todo(r) : t.do = "tell" /\ d \in t.on}

\* From the committed rows v to the request's own w, a card that was told of
\* one crossing has made it if no rule moved it, one told of none made none.
Right(v, w, d, way) ==
  /\ way = {"unblocked"} => Blockers(v, d) # {}
  /\ way = {"blocked"} => Blockers(v, d) = {}
  /\ Active(w, d) /\ (\A k \in way : <<k, d>> \notin rules) =>
       /\ way = {} => (Blockers(v, d) = {} <=> Blockers(w, d) = {})
       /\ way = {"unblocked"} => Blockers(w, d) = {}
       /\ way = {"blocked"} => Blockers(w, d) # {}

NewsRight(r) ==
  \A d \in Cards : Active(Committed, d) => Right(Committed, View(r), d, Way(r, d))

\* While cards are left to reopen, only a rule has closed one.
RulesClose(r) ==
  (\E t \in Todo(r) : t.do = "reopen") =>
    \A d \in Cards : Active(Committed, d) /\ ~Active(View(r), d) =>
      \E k \in Crossing : <<k, d>> \in news[r] \cap rules

Holder(r) ==
  /\ Disciplined(r)
  /\ Fresh(r)
  /\ Own(r)
  /\ Ahead(r)
  /\ NewsRight(r)
  /\ RulesClose(r)

Bystander(r) ==
  /\ Clean(r)
  /\ phase[r] = "graph" =>
       held[r] = {} /\ \E t \in Tasks : t.do # "comment" /\ agenda[r] = <<{t}>>
  /\ phase[r] = "lock" => LocksInOrder(r)

Underway(r) == IF graph = r THEN Holder(r) ELSE Bystander(r)
RunInv == \A r \in Requests : Underway(r)

-----------------------------------------------------------------------------
\* A step of another request leaves this one as it was.
Untouched(r) ==
  /\ UNCHANGED <<flags, edges, rules>>
  /\ UNCHANGED <<phase[r], agenda[r], task[r], want[r], held[r]>>
  /\ UNCHANGED <<plus[r], minus[r], link[r], unlink[r], news[r]>>
  /\ (r \in chained') = (r \in chained)
  /\ (graph' = r) = (graph = r)

LEMMA UntouchedKeeps ==
  ASSUME NEW r \in Requests, Underway(r), Untouched(r)
  PROVE  Underway(r)'
<1>1. Todo(r)' = Todo(r) /\ Listed(agenda'[r]) = Listed(agenda[r])
  BY DEF Untouched, Todo
<1>2. \A t : Lone(r, t)' <=> Lone(r, t)
  BY DEF Untouched, Lone
<1>3. View(r)' = View(r) /\ Committed' = Committed
  BY DEF Untouched, View, Committed
<1>4. \A d : Way(r, d)' = Way(r, d)
  BY <1>1 DEF Untouched, Way
<1>5. (Clean(r)' <=> Clean(r)) /\ (LocksInOrder(r)' <=> LocksInOrder(r))
  BY DEF Untouched, Clean, LocksInOrder
<1>6. CASE graph = r
  <2>1. Holder(r)
    BY <1>6 DEF Underway
  <2>2. Disciplined(r)'
    BY <1>1, <1>2, <1>5, <2>1 DEF Untouched, Holder, Disciplined
  <2>3. Fresh(r)' /\ Own(r)'
    BY <1>3, <2>1 DEF Untouched, Holder, Fresh, Own
  <2>4. Ahead(r)'
    BY <1>1, <1>2, <1>3, <1>5, <2>1 DEF Untouched, Holder, Ahead
  <2>5. NewsRight(r)'
    BY <1>3, <1>4, <2>1 DEF Untouched, Holder, NewsRight, Right
  <2>6. RulesClose(r)'
    BY <1>1, <1>3, <2>1 DEF Untouched, Holder, RulesClose
  <2> QED
    BY <1>6, <2>2, <2>3, <2>4, <2>5, <2>6 DEF Untouched, Underway, Holder
<1>7. CASE graph # r
  <2>1. Bystander(r)
    BY <1>7 DEF Underway
  <2>2. Bystander(r)'
    BY <1>5, <2>1 DEF Untouched, Bystander
  <2> QED
    BY <1>7, <2>2 DEF Untouched, Underway
<1> QED
  BY <1>6, <1>7

\* How a card's news follow the request's rows from v to w: it is told of the
\* crossing it makes, and told nothing else.
LEMMA CrossingIsRight ==
  ASSUME NEW c, NEW v, NEW w, NEW d, NEW way, NEW K \in SUBSET Crossing,
         way \subseteq Crossing,
         Right(c, v, d, way),
         Active(w, d) => Active(v, d) \/ \E k \in way : <<k, d>> \in rules,
         "unblocked" \in K \ way => Active(w, d) /\ Blockers(v, d) # {} /\ Blockers(w, d) = {},
         "blocked" \in K \ way => Active(w, d) /\ Blockers(v, d) = {} /\ Blockers(w, d) # {},
         Active(v, d) /\ Active(w, d) /\ Freed(v, w, d) => "unblocked" \in way \cup K,
         Active(v, d) /\ Active(w, d) /\ Freed(w, v, d) => "blocked" \in way \cup K
  PROVE  Right(c, w, d, way \cup K)
<1> DEFINE bc == Blockers(c, d) = {}
           bv == Blockers(v, d) = {}
           bw == Blockers(w, d) = {}
           av == Active(v, d)
           aw == Active(w, d)
           u == <<"unblocked", d>> \in rules
           b == <<"blocked", d>> \in rules
<1>1. /\ way = {} \/ way = {"unblocked"} \/ way = {"blocked"} \/ way = Crossing
      /\ K = {} \/ K = {"unblocked"} \/ K = {"blocked"} \/ K = Crossing
  BY DEF Crossing
<1>2. /\ way = {"unblocked"} => ~bc
      /\ way = {"blocked"} => bc
      /\ av /\ way = {} => (bc <=> bv)
      /\ av /\ way = {"unblocked"} /\ ~u => bv
      /\ av /\ way = {"blocked"} /\ ~b => ~bv
  BY DEF Right
<1>3. /\ way = {} => (aw => av)
      /\ way = {"unblocked"} /\ ~u => (aw => av)
      /\ way = {"blocked"} /\ ~b => (aw => av)
  OBVIOUS
<1>4. /\ "unblocked" \in K \ way => aw /\ ~bv /\ bw
      /\ "blocked" \in K \ way => aw /\ bv /\ ~bw
      /\ av /\ aw /\ ~bv /\ bw => "unblocked" \in way \cup K
      /\ av /\ aw /\ bv /\ ~bw => "blocked" \in way \cup K
  BY DEF Freed
<1>5. SUFFICES
        LET both == way \cup K IN
        /\ both = {"unblocked"} => ~bc
        /\ both = {"blocked"} => bc
        /\ aw /\ (\A k \in both : <<k, d>> \notin rules) =>
             /\ both = {} => (bc <=> bw)
             /\ both = {"unblocked"} => bw
             /\ both = {"blocked"} => ~bw
  BY DEF Right
<1> HIDE DEF bc, bv, bw, av, aw
<1>6. CASE way = {}
  BY <1>1, <1>2, <1>3, <1>4, <1>6 DEF Crossing
<1>7. CASE way = {"unblocked"}
  BY <1>1, <1>2, <1>3, <1>4, <1>7 DEF Crossing
<1>8. CASE way = {"blocked"}
  BY <1>1, <1>2, <1>3, <1>4, <1>8 DEF Crossing
<1>9. CASE way = Crossing
  BY <1>1, <1>9 DEF Crossing
<1> QED
  BY <1>1, <1>6, <1>7, <1>8, <1>9

-----------------------------------------------------------------------------
(* One request's step leaves the others as they were. *)

LEMMA CleanView ==
  ASSUME NEW r \in Requests, Clean(r)
  PROVE  View(r) = Committed
BY DEF Clean, View, Committed

LEMMA WriteElsewhere ==
  ASSUME RunTypeOK, NEW s \in Requests, Write(s), NEW r \in Requests, r # s
  PROVE  Untouched(r)
<1>1. PICK K : Holding(s, K)
  BY DEF Write, Close, Open, Batch, Relate, Unrelate, Delete, Tell, Comment
<1>2. /\ UNCHANGED <<flags, edges, rules, graph, chained>>
      /\ UNCHANGED <<phase[r], task[r], want[r], held[r]>>
  BY <1>1 DEF Holding, RunTypeOK, DepTypeOK
<1>3. UNCHANGED agenda[r]
  BY DEF Write, Close, Open, Batch, Relate, Unrelate, Delete, Tell, Comment, HandOff, RunTypeOK
<1>4. UNCHANGED <<plus[r], minus[r]>>
  BY DEF Write, Close, Open, Batch, Relate, Unrelate, Delete, Tell, Comment, writes, RunTypeOK, DepTypeOK
<1>5. UNCHANGED <<link[r], unlink[r], news[r]>>
  BY DEF Write, Close, Open, Batch, Relate, Unrelate, Delete, Tell, Comment, HandOff, writes,
         RunTypeOK, DepTypeOK
<1> QED
  BY <1>2, <1>3, <1>4, <1>5 DEF Untouched

LEMMA LockElsewhere ==
  ASSUME RunTypeOK, NEW s \in Requests, NEW r \in Requests, r # s,
         Begin(s) \/ TakeGraph(s) \/ NextTask(s) \/ TakeCard(s)
  PROVE  Untouched(r)
<1>1. CASE Begin(s)
  <2>1. UNCHANGED <<agenda[r], task[r], want[r], phase[r]>>
    BY <1>1 DEF Begin, RunTypeOK, DepTypeOK
  <2> QED
    BY <1>1, <2>1 DEF Begin, writes, Untouched
<1>2. CASE TakeGraph(s)
  BY <1>2, RequestsAssumption DEF TakeGraph, work, writes, Untouched, RunTypeOK, DepTypeOK
<1>3. CASE NextTask(s)
  <2>1. UNCHANGED <<agenda[r], task[r], want[r], phase[r]>> /\ (r \in chained') = (r \in chained)
    BY <1>3 DEF NextTask, RunTypeOK, DepTypeOK
  <2> QED
    BY <1>3, <2>1 DEF NextTask, writes, Untouched
<1>4. CASE TakeCard(s)
  BY <1>4 DEF TakeCard, writes, Untouched, RunTypeOK, DepTypeOK
<1> QED
  BY <1>1, <1>2, <1>3, <1>4

\* The end of a transaction that wrote nothing changes no row; while the holder
\* of the graph ends, nobody else has written anything.
LEMMA EndElsewhere ==
  ASSUME RunTypeOK, RunInv, NEW s \in Requests, NEW r \in Requests, r # s,
         Commit(s) \/ Abort(s)
  PROVE  Underway(r)'
<1>1. /\ UNCHANGED <<agenda[r], task[r], want[r], phase[r], held[r]>>
      /\ UNCHANGED <<plus[r], minus[r], link[r], unlink[r], news[r]>>
      /\ (r \in chained') = (r \in chained)
      /\ (graph' = r) = (graph = r)
      /\ UNCHANGED rules
  BY RequestsAssumption DEF Commit, Abort, End, RunTypeOK, DepTypeOK
<1>2. Underway(r) /\ Underway(s)
  BY DEF RunInv
<1>3. CASE graph = s
  <2>1. Bystander(r)
    BY <1>2, <1>3 DEF Underway
  <2>2. Bystander(r)'
    BY <1>1, <2>1 DEF Bystander, Clean, LocksInOrder
  <2> QED
    BY <1>1, <1>3, <2>2 DEF Underway
<1>4. CASE graph # s
  <2>1. View(s) = Committed
    BY <1>2, <1>4, CleanView DEF Underway, Bystander
  <2>2. UNCHANGED <<flags, edges>>
    BY <2>1 DEF Commit, Abort, Committed
  <2> QED
    BY <1>1, <1>2, <2>2, UntouchedKeeps DEF Untouched
<1> QED
  BY <1>3, <1>4

-----------------------------------------------------------------------------
(* Its own steps: the locks. *)

LEMMA BeginOwn ==
  ASSUME RunTypeOK, NEW r \in Requests, Underway(r), Begin(r)
  PROVE  Underway(r)'
<1>1. phase[r] = "idle" /\ graph # r /\ held[r] = {} /\ Bystander(r)
  BY DEF Begin, RunTypeOK, DepTypeOK, Underway
<1>2. UNCHANGED <<graph, held, plus, minus, link, unlink, news>>
  BY DEF Begin, writes
<1>3. \/ phase'[r] = "lock"
      \/ phase'[r] = "graph" /\ \E t \in Tasks : t.do # "comment" /\ agenda'[r] = <<{t}>>
  BY DEF Begin, RunTypeOK, DepTypeOK
<1>4. Bystander(r)'
  BY <1>1, <1>2, <1>3 DEF Bystander, Clean, LocksInOrder
<1> QED
  BY <1>1, <1>2, <1>4 DEF Underway

LEMMA TakeGraphOwn ==
  ASSUME RunTypeOK, NEW r \in Requests, Underway(r), TakeGraph(r)
  PROVE  Underway(r)'
<1>1. graph # r /\ graph' = r /\ phase[r] = "graph" /\ phase'[r] = "next"
  BY RequestsAssumption DEF TakeGraph, RunTypeOK, DepTypeOK
<1>2. UNCHANGED <<flags, edges, rules, agenda, task, want, held, plus, minus, link, unlink, news, chained>>
  BY DEF TakeGraph, work, writes
<1>3. Clean(r) /\ held[r] = {}
  BY <1>1 DEF Underway, Bystander
<1>4. PICK t \in Tasks : t.do # "comment" /\ agenda[r] = <<{t}>>
  BY <1>1 DEF Underway, Bystander
<1>5. Listed(agenda'[r]) = {t} /\ Todo(r)' = {t}
  <2>1. Listed(<<{t}>>) = {t}
    BY DEF Listed
  <2> QED
    BY <1>1, <1>2, <1>4, <2>1 DEF Todo
<1>6. t.do \notin {"auto", "tell"} /\ Lone(r, t)' /\ Clean(r)'
  BY <1>1, <1>2, <1>3, <1>4 DEF Tasks, Many, One, Link, Lone, Clean
<1>7. View(r)' = Committed'
  BY <1>2, <1>3 DEF Clean, View, Committed
<1>8. Disciplined(r)'
  <2>1. link'[r] = {} /\ unlink'[r] = {}
    BY <1>6 DEF Clean
  <2>2. t.do \notin {"comment", "auto", "tell"} /\ phase'[r] = "next"
    BY <1>1, <1>4, <1>6
  <2> QED
    BY <1>5, <1>6, <2>1, <2>2 DEF Disciplined
<1>9. Fresh(r)' /\ Own(r)' /\ Ahead(r)'
  BY <1>1, <1>2, <1>3, <1>5, <1>6 DEF Fresh, Own, Ahead, Clean
<1>10. NewsRight(r)'
  <2>1. \A d : Way(r, d)' = {}
    BY <1>5, <1>6 DEF Way, Clean
  <2> QED
    BY <1>7, <2>1 DEF NewsRight, Right
<1>11. RulesClose(r)'
  BY <1>7 DEF RulesClose
<1> QED
  BY <1>1, <1>8, <1>9, <1>10, <1>11 DEF Underway, Holder

\* The least row still wanted comes after those held and before the others.
LEMMA OrderGrows ==
  ASSUME RunTypeOK, NEW r \in Requests, LocksInOrder(r),
         NEW c \in want[r] \ held[r], \A e \in want[r] \ held[r] : c <= e,
         held' = [held EXCEPT ![r] = @ \cup {c}], UNCHANGED want
  PROVE  LocksInOrder(r)'
<1>1. want[r] \subseteq Nat /\ held[r] \subseteq Nat /\ c \in Nat
  BY CardsAssumption DEF RunTypeOK, DepTypeOK
<1>2. held'[r] = held[r] \cup {c} /\ want'[r] = want[r]
  BY DEF RunTypeOK, DepTypeOK
<1>3. ASSUME NEW a \in held'[r], NEW b \in want'[r] \ held'[r]
      PROVE  a < b
  <2>1. b \in want[r] \ held[r] /\ b # c /\ b \in Nat /\ c <= b
    BY <1>1, <1>2, <1>3
  <2>2. CASE a = c
    BY <1>1, <2>1, <2>2
  <2>3. CASE a \in held[r]
    BY <2>1, <2>3 DEF LocksInOrder
  <2> QED
    BY <1>2, <1>3, <2>2, <2>3
<1> QED
  BY <1>3 DEF LocksInOrder

LEMMA TakeCardOwn ==
  ASSUME RunTypeOK, GraphInv, NEW r \in Requests, Underway(r), TakeCard(r)
  PROVE  Underway(r)'
<1>1. PICK c \in Due(r) : held' = [held EXCEPT ![r] = @ \cup {c}]
  BY DEF TakeCard
<1>2. /\ phase[r] = "lock"
      /\ UNCHANGED <<flags, edges, rules, graph, phase, agenda, task, want>>
      /\ UNCHANGED <<plus, minus, link, unlink, news, chained>>
  BY DEF TakeCard, writes
<1>3. c \in want[r] \ held[r] /\ held'[r] = held[r] \cup {c}
  BY <1>1 DEF Due, RunTypeOK, DepTypeOK
<1>4. task[r].do \notin Unordered /\ LocksInOrder(r) => LocksInOrder(r)'
  BY <1>1, <1>2, <1>3, OrderGrows DEF Due
<1>5. CASE graph # r
  <2>1. Bystander(r) /\ task[r].do = "comment"
    BY <1>2, <1>5 DEF Underway, GraphInv
  <2>2. LocksInOrder(r)'
    BY <1>2, <1>4, <2>1 DEF Unordered, Bystander
  <2> QED
    BY <1>2, <1>5, <2>1, <2>2 DEF Underway, Bystander, Clean
<1>6. CASE graph = r
  <2>1. Holder(r)
    BY <1>6 DEF Underway
  <2>2. Todo(r)' = Todo(r) /\ Listed(agenda'[r]) = Listed(agenda[r])
    BY <1>2 DEF Todo
  <2>3. (\A t : Lone(r, t)' <=> Lone(r, t)) /\ (Clean(r)' <=> Clean(r))
    BY <1>2 DEF Lone, Clean
  <2>4. View(r)' = View(r) /\ Committed' = Committed
    BY <1>2 DEF View, Committed
  <2>5. \A d : Way(r, d)' = Way(r, d)
    BY <1>2, <2>2 DEF Way
  <2>6. Disciplined(r)'
    BY <1>2, <2>1, <2>2, <2>3 DEF Holder, Disciplined
  <2>7. Fresh(r)' /\ Own(r)'
    BY <1>2, <1>3, <2>1, <2>4 DEF Holder, Fresh, Own
  <2>8. Ahead(r)'
    <3>1. ASSUME r \notin chained
          PROVE  LocksInOrder(r)'
      <4>1. task[r] \in Todo(r) /\ task[r].do \notin Unordered
        BY <1>2, <2>1, <3>1 DEF Holder, Disciplined, Todo, Unordered
      <4> QED
        BY <1>2, <1>4, <2>1, <3>1, <4>1 DEF Holder, Ahead
    <3>2. \A t \in Listed(agenda[r]) : ~Lone(r, t)
      BY <1>2, ListedNone DEF Lone
    <3>3. \A t \in Listed(agenda[r]) : t.do \notin Root
      BY <2>1, <3>2 DEF Holder, Disciplined, Todo
    <3>4. ASSUME NEW t \in Listed(agenda[r]), r \notin chained, t.do \in Single
          PROVE  Wanted(View(r), t) \subseteq held'[r]
      BY <1>3, <2>1, <3>2, <3>4 DEF Holder, Ahead
    <3> QED
      BY <1>2, <2>2, <2>4, <3>1, <3>3, <3>4 DEF Ahead
  <2>9. NewsRight(r)'
    BY <1>2, <2>1, <2>4, <2>5 DEF Holder, NewsRight, Right
  <2>10. RulesClose(r)'
    BY <1>2, <2>1, <2>2, <2>4 DEF Holder, RulesClose
  <2> QED
    BY <1>2, <1>6, <2>6, <2>7, <2>8, <2>9, <2>10 DEF Underway, Holder
<1> QED
  BY <1>5, <1>6

\* A task is taken off the agenda, to be skipped or to be done.
LEMMA NextTaskOwn ==
  ASSUME RunTypeOK, GraphInv, NEW r \in Requests, Underway(r), NextTask(r)
  PROVE  Underway(r)'
<1>1. graph = r /\ phase[r] = "next" /\ agenda[r] # <<>>
  BY DEF NextTask, GraphInv
<1>2. Holder(r)
  BY <1>1 DEF Underway
<1>3. PICK t \in Head(agenda[r]) :
        LET rest == Head(agenda[r]) \ {t} IN
        /\ agenda' = [agenda EXCEPT ![r] = (IF rest = {} THEN <<>> ELSE <<rest>>) \o Tail(@)]
        /\ \/ NothingToDo(View(r), t) /\ UNCHANGED <<phase, task, want, chained>>
           \/ /\ phase' = [phase EXCEPT ![r] = "lock"]
              /\ task' = [task EXCEPT ![r] = t]
              /\ want' = [want EXCEPT ![r] = Wanted(View(r), t)]
              /\ chained' = IF t.do \in {"delete", "auto"} THEN chained \cup {r} ELSE chained
  BY DEF NextTask
<1>4. UNCHANGED <<flags, edges, rules, graph, held, plus, minus, link, unlink, news>>
  BY DEF NextTask, writes
<1>5. View(r)' = View(r) /\ Committed' = Committed /\ (Clean(r)' <=> Clean(r))
  BY <1>4 DEF View, Committed, Clean
<1>6. Listed(agenda'[r]) \subseteq Listed(agenda[r]) /\ t \in Listed(agenda[r])
  <2>1. agenda \in [Requests -> Seq(SUBSET Job)] /\ agenda[r] \in Seq(SUBSET Job)
    BY DEF RunTypeOK
  <2>2. Head(agenda[r]) \ {t} \in SUBSET Head(agenda[r])
    OBVIOUS
  <2> QED
    BY <1>1, <1>3, <2>1, <2>2, ListedTake
<1>7. Todo(r) = Listed(agenda[r])
  BY <1>1 DEF Todo
<1>8. ASSUME NEW u, Lone(r, u)
      PROVE  u = t /\ agenda'[r] = <<>>
  <2>1. agenda[r] = <<{u}>>
    BY <1>1, <1>8 DEF Lone
  <2>2. Head(agenda[r]) = {u} /\ Tail(agenda[r]) = <<>>
    BY <2>1
  <2>3. agenda'[r] = <<>> \o <<>>
    BY <1>3, <2>2 DEF RunTypeOK
  <2> QED
    BY <2>2, <2>3
<1>9. \A u \in Listed(agenda'[r]) : ~Lone(r, u)
  BY <1>8, ListedNone
<1>10. /\ \A u \in Listed(agenda'[r]) : u.do \notin Root \cup {"tell"}
       /\ \A u \in Listed(agenda'[r]) : u.do \in Single =>
            link[r] = {} /\ unlink[r] = {} /\ (r \notin chained => Wanted(View(r), u) \subseteq held[r])
  BY <1>2, <1>6, <1>7, <1>9 DEF Holder, Disciplined, Ahead
<1>11. CASE NothingToDo(View(r), t) /\ UNCHANGED <<phase, task, want, chained>>
  <2>1. Todo(r)' = Listed(agenda'[r]) /\ Todo(r)' \subseteq Todo(r)
    BY <1>1, <1>6, <1>7, <1>11 DEF Todo
  <2>2. Disciplined(r)'
    BY <1>1, <1>2, <1>4, <1>5, <1>10, <1>11, <2>1 DEF Holder, Disciplined
  <2>3. Fresh(r)' /\ Own(r)'
    BY <1>1, <1>2, <1>4, <1>11 DEF Holder, Fresh, Own
  <2>4. Ahead(r)'
    BY <1>1, <1>4, <1>5, <1>10, <1>11 DEF Ahead
  <2>5. \A u \in Todo(r) \cup Todo(r)' : u.do # "tell"
    <3>1. t.do # "tell"
      BY <1>11 DEF NothingToDo, One
    <3>2. \A u \in Todo(r) : u.do = "tell" => u = t
      BY <1>2, <1>8 DEF Holder, Disciplined
    <3> QED
      BY <2>1, <3>1, <3>2
  <2>6. \A d : Way(r, d)' = Way(r, d)
    BY <1>4, <2>5 DEF Way
  <2>7. NewsRight(r)'
    BY <1>2, <1>4, <1>5, <2>6 DEF Holder, NewsRight, Right
  <2>8. RulesClose(r)'
    BY <1>2, <1>4, <1>5, <2>1 DEF Holder, RulesClose
  <2> QED
    BY <1>1, <1>4, <2>2, <2>3, <2>4, <2>7, <2>8 DEF Underway, Holder
<1>12. CASE /\ phase' = [phase EXCEPT ![r] = "lock"]
            /\ task' = [task EXCEPT ![r] = t]
            /\ want' = [want EXCEPT ![r] = Wanted(View(r), t)]
            /\ chained' = IF t.do \in {"delete", "auto"} THEN chained \cup {r} ELSE chained
  <2>1. /\ phase'[r] = "lock" /\ task'[r] = t /\ want'[r] = Wanted(View(r), t)
        /\ r \in chained' <=> (r \in chained \/ t.do \in {"delete", "auto"})
    BY <1>12 DEF RunTypeOK, DepTypeOK
  <2>2. Todo(r)' = Listed(agenda'[r]) \cup {t} /\ Todo(r)' \subseteq Todo(r) /\ t \in Todo(r)
    BY <1>6, <1>7, <2>1 DEF Todo
  <2>3. Lone(r, t) => Lone(r, t)'
    BY <1>8, <2>1 DEF Lone
  <2>4. Disciplined(r)'
    <3>1. ASSUME NEW u \in Todo(r)'
          PROVE  /\ u.do # "comment"
                 /\ u.do \in Root => Clean(r)' /\ Lone(r, u)'
                 /\ u.do \in Single => link'[r] = {} /\ unlink'[r] = {}
                 /\ u.do = "complete" => \A x \in Todo(r)' : x.do # "reopen"
                 /\ u.do = "auto" => \A d \in u.on : \E k \in Crossing : <<k, d>> \in news'[r] \cap rules'
                 /\ u.do = "tell" => Lone(r, u)' /\ news'[r] = {} /\ r \in chained'
      <4>1. u \in Todo(r)
        BY <2>2, <3>1
      <4>2. u.do \in Root \cup {"tell"} => Lone(r, u) /\ u = t
        BY <1>2, <1>8, <4>1 DEF Holder, Disciplined
      <4> QED
        BY <1>2, <1>4, <1>5, <2>1, <2>2, <2>3, <4>1, <4>2 DEF Holder, Disciplined
    <3> QED
      BY <2>1, <3>1 DEF Disciplined
  <2>5. Fresh(r)' /\ Own(r)'
    BY <1>2, <1>4, <1>5, <2>1 DEF Holder, Fresh, Own
  <2>6. Ahead(r)'
    <3>1. ASSUME r \notin chained'
          PROVE  LocksInOrder(r)'
      <4>1. r \notin chained /\ t.do \notin {"comment", "delete", "auto", "tell"}
        BY <1>2, <2>1, <2>2, <3>1 DEF Holder, Disciplined
      <4>2. t.do \in Root \cup Single
        <5>1. t \in Job
          BY <1>1 DEF RunTypeOK
        <5> QED
          BY <4>1, <5>1, JobShape DEF Root, Single, Many, One, Link
      <4>3. held[r] = {} \/ Wanted(View(r), t) \subseteq held[r]
        BY <1>2, <1>6, <4>1, <4>2 DEF Holder, Ahead
      <4> QED
        BY <1>4, <2>1, <4>3 DEF LocksInOrder
    <3> QED
      BY <1>4, <1>5, <1>10, <2>1, <3>1 DEF Ahead
  <2>7. \A d : Way(r, d)' = Way(r, d)
    <3>1. \A u \in Todo(r) : u.do = "tell" => u \in Todo(r)'
      <4>1. \A u \in Todo(r) : u.do = "tell" => u = t
        BY <1>2, <1>8 DEF Holder, Disciplined
      <4> QED
        BY <2>2, <4>1
    <3> QED
      BY <1>4, <2>2, <3>1 DEF Way
  <2>8. NewsRight(r)'
    BY <1>2, <1>4, <1>5, <2>7 DEF Holder, NewsRight, Right
  <2>9. RulesClose(r)'
    BY <1>2, <1>4, <1>5, <2>2 DEF Holder, RulesClose
  <2> QED
    BY <1>1, <1>4, <2>4, <2>5, <2>6, <2>8, <2>9 DEF Underway, Holder
<1> QED
  BY <1>3, <1>11, <1>12

-----------------------------------------------------------------------------
(* Its own steps: the writes. *)

\* What closing and opening cards does to who is active and who blocks whom.
LEMMA ClosingShuts ==
  ASSUME NEW v, NEW S \in SUBSET Cards, NEW f \in Flag
  PROVE  LET w == With(v, S, f) IN
         /\ \A d : Active(w, d) <=> Active(v, d) /\ d \notin S
         /\ \A d : Blockers(w, d) = Blockers(v, d) \ S
         /\ w.edges = v.edges
<1> DEFINE w == With(v, S, f)
<1>1. w.flags = v.flags \cup ({f} \X S) /\ w.edges = v.edges
  BY DEF With
<1>2. \A d : Active(w, d) <=> Active(v, d) /\ d \notin S
  BY <1>1 DEF Active, Is
<1> HIDE DEF w
<1>3. \A d : Blockers(w, d) = Blockers(v, d) \ S
  BY <1>1, <1>2 DEF Blockers
<1> QED
  BY <1>1, <1>2, <1>3 DEF w

LEMMA OpeningOpens ==
  ASSUME NEW v, NEW S \in SUBSET Cards, NEW f \in Flag
  PROVE  LET w == Without(v, S, f) IN
         /\ \A d : Active(v, d) => Active(w, d)
         /\ \A d : Active(w, d) => Active(v, d) \/ d \in S
         /\ \A d : Blockers(v, d) \subseteq Blockers(w, d)
         /\ \A d : \A b \in Blockers(w, d) : b \in Blockers(v, d) \/ (b \in S /\ <<b, d>> \in v.edges)
         /\ w.edges = v.edges
<1> DEFINE w == Without(v, S, f)
<1>1. w.flags = v.flags \ ({f} \X S) /\ w.edges = v.edges
  BY DEF Without
<1>2. \A d : Active(v, d) => Active(w, d)
  BY <1>1 DEF Active, Is
<1>3. \A d : Active(w, d) => Active(v, d) \/ d \in S
  BY <1>1 DEF Active, Is
<1> HIDE DEF w
<1>4. \A d : Blockers(v, d) \subseteq Blockers(w, d)
  BY <1>1, <1>2 DEF Blockers
<1>5. \A d : \A b \in Blockers(w, d) : b \in Blockers(v, d) \/ (b \in S /\ <<b, d>> \in v.edges)
  BY <1>1, <1>3 DEF Blockers
<1> QED
  BY <1>1, <1>2, <1>3, <1>4, <1>5 DEF w

\* A card's task wants no more rows after others of the same kind were done.
LEMMA ClosingWantsLess ==
  ASSUME NEW v, NEW S \in SUBSET Cards, NEW f \in Flag, NEW t, t.do = "complete"
  PROVE  Wanted(With(v, S, f), t) \subseteq Wanted(v, t)
<1> DEFINE w == With(v, S, f)
<1>1. /\ \A d : Active(w, d) <=> Active(v, d) /\ d \notin S
      /\ w.edges = v.edges
  BY ClosingShuts
<1>2. v.flags \subseteq w.flags
  BY DEF With
<1> HIDE DEF w
<1>3. Changing(w, t) \subseteq Changing(v, t)
  BY <1>2 DEF Changing, Is
<1>4. \A A, B : A \subseteq B => Waiting(w, A) \subseteq Waiting(v, B)
  BY <1>1 DEF Waiting
<1>5. /\ Wanted(w, t) = Changing(w, t) \cup Waiting(w, Changing(w, t))
      /\ Wanted(v, t) = Changing(v, t) \cup Waiting(v, Changing(v, t))
  BY DEF Wanted
<1> QED
  BY <1>3, <1>4, <1>5 DEF w

LEMMA OpeningWantsLess ==
  ASSUME NEW v, NEW S \in SUBSET Cards, NEW t, t.do = "reopen"
  PROVE  Wanted(Without(v, S, "done"), t) \subseteq Wanted(v, t)
<1> DEFINE w == Without(v, S, "done")
<1>1. /\ \A d : Blockers(v, d) \subseteq Blockers(w, d)
      /\ w.edges = v.edges
  BY OpeningOpens DEF Flag
<1>2. w.flags = v.flags \ ({"done"} \X S)
  BY DEF Without
<1>3. Changing(w, t) \subseteq Changing(v, t)
  BY <1>2 DEF Changing, Is
<1>4. \A c \in Changing(w, t) : ~Active(w, c)
  BY DEF Changing, Active, Flag
<1> HIDE DEF w
<1>5. Waiting(w, Changing(w, t)) = {}
  BY <1>4 DEF Waiting
<1>6. Ready(w, Changing(w, t)) \subseteq Ready(v, Changing(v, t))
  BY <1>1, <1>3 DEF Ready
<1>7. /\ Wanted(w, t) = Changing(w, t) \cup Waiting(w, Changing(w, t)) \cup Ready(w, Changing(w, t))
      /\ Changing(v, t) \cup Ready(v, Changing(v, t)) \subseteq Wanted(v, t)
  BY DEF Wanted
<1> QED
  BY <1>3, <1>5, <1>6, <1>7 DEF w

\* Where a write finds its request: it holds the graph and the rows it wants.
LEMMA BeforeWrite ==
  ASSUME RunTypeOK, GraphInv, NEW r \in Requests, Underway(r), NEW K, Holding(r, K),
         "comment" \notin K, "none" \notin K
  PROVE  /\ graph = r /\ Holder(r) /\ phase[r] = "lock" /\ phase'[r] = "next"
         /\ UNCHANGED <<flags, edges, rules, graph, task, want, held, chained>>
         /\ task[r] \in Todo(r) /\ task[r] \in Job /\ task[r].do \in K
         /\ want[r] \subseteq held[r]
         /\ Changing(View(r), task[r]) \subseteq held[r]
         /\ task[r].do \in Root \cup {"tell"} => agenda[r] = <<>>
         /\ \A t \in Listed(agenda[r]) : t.do \notin Root \cup {"tell"}
         /\ \A t \in Listed(agenda[r]) : t.do \in Single =>
              /\ link[r] = {} /\ unlink[r] = {}
              /\ r \notin chained => Wanted(View(r), t) \subseteq held[r]
         /\ Todo(r)' = Listed(agenda'[r])
         /\ Todo(r) = Listed(agenda[r]) \cup {task[r]}
<1>1. /\ phase[r] = "lock" /\ phase'[r] = "next" /\ task[r].do \in K /\ want[r] \subseteq held[r]
      /\ UNCHANGED <<flags, edges, rules, graph, task, want, held, chained>>
  BY DEF Holding, RunTypeOK, DepTypeOK
<1>2. graph = r
  BY <1>1 DEF GraphInv
<1>3. Holder(r)
  BY <1>2 DEF Underway
<1>4. task[r] \in Job
  <2>1. task[r] \in Job \cup {NoTask} /\ task[r].do # "none"
    BY <1>1 DEF RunTypeOK
  <2> QED
    BY <2>1 DEF NoTask
<1>5. Todo(r) = Listed(agenda[r]) \cup {task[r]} /\ Todo(r)' = Listed(agenda'[r])
  BY <1>1 DEF Todo
<1>6. Changing(View(r), task[r]) \subseteq held[r]
  <2>1. Changing(View(r), task[r]) \subseteq Wanted(View(r), task[r])
    BY DEF Wanted, Changing
  <2> QED
    BY <1>1, <1>3, <2>1 DEF Holder, Fresh
<1>7. \A u : Lone(r, u) => agenda[r] = <<>>
  BY <1>1 DEF Lone
<1>8. \A t \in Listed(agenda[r]) : ~Lone(r, t)
  BY <1>7, ListedNone
<1>9. task[r].do \in Root \cup {"tell"} => agenda[r] = <<>>
  BY <1>3, <1>5, <1>7 DEF Holder, Disciplined
<1>10. /\ \A t \in Listed(agenda[r]) : t.do \notin Root \cup {"tell"}
       /\ \A t \in Listed(agenda[r]) : t.do \in Single =>
            /\ link[r] = {} /\ unlink[r] = {}
            /\ r \notin chained => Wanted(View(r), t) \subseteq held[r]
  BY <1>3, <1>5, <1>8 DEF Holder, Disciplined, Ahead
<1> QED
  BY <1>1, <1>2, <1>3, <1>4, <1>5, <1>6, <1>9, <1>10

\* The news of card d follow its rows when the request writes and tells of K.
Carried(r, d, K) ==
  /\ Active(View(r)', d) => Active(View(r), d) \/ \E k \in Way(r, d) : <<k, d>> \in rules
  /\ "unblocked" \in K \ Way(r, d) =>
       Active(View(r)', d) /\ Blockers(View(r), d) # {} /\ Blockers(View(r)', d) = {}
  /\ "blocked" \in K \ Way(r, d) =>
       Active(View(r)', d) /\ Blockers(View(r), d) = {} /\ Blockers(View(r)', d) # {}
  /\ Active(View(r), d) /\ Active(View(r)', d) =>
       /\ Freed(View(r), View(r)', d) => "unblocked" \in Way(r, d) \cup K
       /\ Freed(View(r)', View(r), d) => "blocked" \in Way(r, d) \cup K

LEMMA CarriedIsRight ==
  ASSUME NEW r \in Requests, NEW d, NEW K \in SUBSET Crossing, Carried(r, d, K),
         Right(Committed, View(r), d, Way(r, d))
  PROVE  Right(Committed, View(r)', d, Way(r, d) \cup K)
<1>1. Way(r, d) \subseteq Crossing
  BY DEF Way, Crossing
<1> QED
  BY <1>1, CrossingIsRight DEF Carried

\* What a write that hands off must show of its rows.
LEMMA AfterHandOff ==
  ASSUME RunTypeOK, GraphInv, NEW r \in Requests, Underway(r), NEW K, Holding(r, K),
         K \cap {"comment", "none", "tell"} = {},
         NEW way \in Crossing, NEW told \in SUBSET Cards, HandOff(r, way, told),
         Own(r)',
         \A t \in Listed(agenda[r]) : t.do \in Single =>
           /\ UNCHANGED <<link[r], unlink[r]>>
           /\ r \notin chained => Wanted(View(r)', t) \subseteq Wanted(View(r), t),
         (\E t \in Listed(agenda[r]) : t.do = "reopen") =>
           \A d \in Cards : Active(Committed, d) /\ Active(View(r), d) /\ ~Active(View(r)', d) =>
             \E k \in Crossing : <<k, d>> \in news[r] \cap rules,
         \A d \in Cards : Active(Committed, d) => Carried(r, d, {k \in {way} : d \in told})
  PROVE  Underway(r)'
<1>1. /\ graph = r /\ Holder(r) /\ phase[r] = "lock" /\ phase'[r] = "next"
      /\ UNCHANGED <<flags, edges, rules, graph, task, want, held, chained>>
      /\ task[r] \in Todo(r) /\ task[r] \in Job /\ task[r].do \in K
      /\ \A t \in Listed(agenda[r]) : t.do \notin Root \cup {"tell"}
      /\ \A t \in Listed(agenda[r]) : t.do \in Single =>
           /\ link[r] = {} /\ unlink[r] = {}
           /\ r \notin chained => Wanted(View(r), t) \subseteq held[r]
      /\ Todo(r)' = Listed(agenda'[r])
      /\ Todo(r) = Listed(agenda[r]) \cup {task[r]}
  <2>1. "comment" \notin K /\ "none" \notin K
    OBVIOUS
  <2> QED
    BY <2>1, BeforeWrite
<1>2. news'[r] = news[r] \cup ({way} \X told) /\ Listed(agenda'[r]) = Autos(way, told) \cup Listed(agenda[r])
  BY HandOffEffect
<1>3. \A t \in Autos(way, told) : t.do = "auto" /\ \A d \in t.on : d \in told /\ <<way, d>> \in rules
  <2> SUFFICES ASSUME NEW t \in Autos(way, told)
               PROVE  t.do = "auto" /\ \A d \in t.on : d \in told /\ <<way, d>> \in rules
    OBVIOUS
  <2>1. PICK c \in {x \in told : <<way, x>> \in rules} : t = [do |-> "auto", on |-> {c}, edge |-> <<>>]
    BY DEF Autos
  <2> QED
    BY <2>1
<1>4. Committed' = Committed
  BY <1>1 DEF Committed
<1>5. Disciplined(r)'
  <2>1. ASSUME NEW u \in Todo(r)'
        PROVE  /\ u.do \notin Root \cup {"comment", "tell"}
               /\ u.do \in Single => link'[r] = {} /\ unlink'[r] = {}
               /\ u.do = "complete" => \A x \in Todo(r)' : x.do # "reopen"
               /\ u.do = "auto" => \A d \in u.on : \E k \in Crossing : <<k, d>> \in news'[r] \cap rules'
    <3>1. CASE u \in Autos(way, told)
      BY <1>1, <1>2, <1>3, <3>1 DEF Root, Single
    <3>2. CASE u \in Listed(agenda[r])
      <4>1. u \in Todo(r)
        BY <1>1, <3>2
      <4>2. u.do = "complete" => \A x \in Todo(r)' : x.do # "reopen"
        BY <1>1, <1>2, <1>3, <4>1 DEF Holder, Disciplined
      <4>3. u.do = "auto" => \A d \in u.on : \E k \in Crossing : <<k, d>> \in news'[r] \cap rules'
        BY <1>1, <1>2, <4>1 DEF Holder, Disciplined
      <4>4. u.do \notin Root \cup {"comment", "tell"}
        BY <1>1, <3>2, <4>1 DEF Holder, Disciplined
      <4>5. u.do \in Single => link'[r] = {} /\ unlink'[r] = {}
        BY <1>1, <3>2
      <4> QED
        BY <4>2, <4>3, <4>4, <4>5
    <3> QED
      BY <1>1, <1>2, <2>1, <3>1, <3>2
  <2> QED
    BY <1>1, <2>1 DEF Disciplined
<1>6. Fresh(r)'
  BY <1>1 DEF Fresh
<1>7. Ahead(r)'
  <2>1. \A t \in Listed(agenda'[r]) : t.do \notin Root
    BY <1>1, <1>2, <1>3 DEF Root
  <2>2. ASSUME r \notin chained, NEW t \in Listed(agenda'[r]), t.do \in Single
        PROVE  Wanted(View(r)', t) \subseteq held'[r]
    <3>1. t \in Listed(agenda[r])
      BY <1>2, <1>3, <2>2 DEF Single
    <3> QED
      BY <1>1, <2>2, <3>1
  <2> QED
    BY <1>1, <2>1, <2>2 DEF Ahead
<1>8. NewsRight(r)'
  <2>1. ASSUME NEW d \in Cards
        PROVE  Way(r, d)' = Way(r, d) \cup {k \in {way} : d \in told}
    <3>1. \A t \in Todo(r) \cup Todo(r)' : t.do # "tell"
      BY <1>1, <1>2, <1>3
    <3> QED
      BY <1>2, <3>1 DEF Way
  <2>2. ASSUME NEW d \in Cards, Active(Committed, d)
        PROVE  Right(Committed, View(r)', d, Way(r, d)')
    <3>1. PICK T \in SUBSET Crossing : T = {k \in {way} : d \in told}
      OBVIOUS
    <3>2. Right(Committed, View(r), d, Way(r, d)) /\ Carried(r, d, T)
      BY <1>1, <2>2, <3>1 DEF Holder, NewsRight
    <3>3. Right(Committed, View(r)', d, Way(r, d) \cup T)
      BY <3>2, CarriedIsRight
    <3> QED
      BY <2>1, <3>1, <3>3
  <2> QED
    BY <1>1, <1>4, <2>2 DEF NewsRight, Right
<1>9. RulesClose(r)'
  <2>1. ASSUME NEW t \in Todo(r)', t.do = "reopen", NEW d \in Cards,
               Active(Committed, d), ~Active(View(r)', d)
        PROVE  \E k \in Crossing : <<k, d>> \in news'[r] \cap rules'
    <3>1. t \in Listed(agenda[r]) /\ t \in Todo(r)
      BY <1>1, <1>2, <1>3, <2>1
    <3>2. \E k \in Crossing : <<k, d>> \in news[r] \cap rules
      BY <1>1, <2>1, <3>1 DEF Holder, RulesClose
    <3> QED
      BY <1>1, <1>2, <3>2
  <2> QED
    BY <1>4, <2>1 DEF RulesClose
<1> QED
  BY <1>1, <1>5, <1>6, <1>7, <1>8, <1>9 DEF Underway, Holder

\* Told tells of the captured cards that made the crossing, once each.
LEMMA CloseOwn ==
  ASSUME RunTypeOK, GraphInv, NEW r \in Requests, Underway(r), Close(r)
  PROVE  Underway(r)'
<1> DEFINE v == View(r)
           w == View(r)'
           S == Changing(View(r), task[r])
           told == Told(r, "unblocked", Waiting(View(r), S), View(r)')
<1>1. Holding(r, {"complete", "auto", "archive"})
  BY DEF Close
<1>2. /\ graph = r /\ Holder(r) /\ task[r] \in Todo(r) /\ task[r] \in Job
      /\ task[r].do \in {"complete", "auto", "archive"}
      /\ UNCHANGED <<flags, edges, rules, held>>
      /\ task[r].do \in Root \cup {"tell"} => agenda[r] = <<>>
      /\ \A t \in Listed(agenda[r]) : t.do \notin Root \cup {"tell"}
      /\ Todo(r) = Listed(agenda[r]) \cup {task[r]}
  BY <1>1, BeforeWrite
<1>3. S \in SUBSET Cards
  BY <1>2, JobShape, WantedIsCards
<1>4. PICK f \in {"done", "archived"} :
        /\ plus' = [plus EXCEPT ![r] = @ \cup ({f} \X S)]
        /\ minus' = [minus EXCEPT ![r] = @ \ ({f} \X S)]
        /\ HandOff(r, "unblocked", Told(r, "unblocked", Waiting(v, S), With(v, S, f)))
        /\ UNCHANGED <<link, unlink>>
  BY DEF Close
<1>5. w = With(v, S, f)
  <2>1. PICK X : X = {f} \X S
    OBVIOUS
  <2>2. plus'[r] = plus[r] \cup X /\ minus'[r] = minus[r] \ X
    BY <1>4, <2>1 DEF RunTypeOK, DepTypeOK
  <2>3. PICK F, E : F = (flags \ minus[r]) \cup plus[r] /\ E = (edges \ unlink[r]) \cup link[r]
    OBVIOUS
  <2>4. v = [flags |-> F, edges |-> E]
    BY <2>3 DEF View
  <2>5. w = [flags |-> F \cup X, edges |-> E]
    <3>1. (flags \ minus'[r]) \cup plus'[r] = F \cup X
      BY <2>2, <2>3
    <3> QED
      BY <1>2, <1>4, <2>3, <3>1 DEF View
  <2>6. With(v, S, f) = [v EXCEPT !.flags = @ \cup X]
    BY <2>1 DEF With
  <2> HIDE DEF v, w
  <2> QED
    BY <2>4, <2>5, <2>6
<1>6. /\ \A d : Active(w, d) <=> Active(v, d) /\ d \notin S
      /\ \A d : Blockers(w, d) = Blockers(v, d) \ S
      /\ w.edges = v.edges
  BY <1>3, <1>5, ClosingShuts DEF Flag
<1>7. HandOff(r, "unblocked", told) /\ told \in SUBSET Cards /\ "unblocked" \in Crossing
  BY <1>4, <1>5 DEF Told, Waiting, Crossing
<1>8. Own(r)'
  BY <1>2, <1>4 DEF Holder, Own, RunTypeOK, DepTypeOK
<1>9. ASSUME NEW t \in Listed(agenda[r]), t.do \in Single
      PROVE  /\ UNCHANGED <<link[r], unlink[r]>>
             /\ r \notin chained => Wanted(w, t) \subseteq Wanted(v, t)
  <2>1. r \notin chained => task[r].do = "complete"
    <3>1. agenda[r] # <<>>
      BY <1>9, ListedNone
    <3> QED
      BY <1>2, <3>1 DEF Holder, Disciplined, Root, Holding, Close
  <2>2. task[r].do = "complete" => t.do = "complete"
    BY <1>2, <1>9 DEF Holder, Disciplined, Single
  <2>3. t.do = "complete" => Wanted(w, t) \subseteq Wanted(v, t)
    BY <1>3, <1>5, ClosingWantsLess DEF Flag
  <2> QED
    BY <1>4, <2>1, <2>2, <2>3
<1>10. ASSUME NEW t \in Listed(agenda[r]), t.do = "reopen", NEW d \in Cards,
              Active(v, d), ~Active(w, d)
       PROVE  \E k \in Crossing : <<k, d>> \in news[r] \cap rules
  <2>1. task[r].do = "auto"
    <3>1. agenda[r] # <<>>
      BY <1>10, ListedNone
    <3> QED
      BY <1>2, <1>10, <3>1 DEF Holder, Disciplined, Root
  <2>2. d \in S /\ S \subseteq task[r].on
    BY <1>2, <1>6, <1>10, WantedIsCards
  <2> QED
    BY <1>2, <2>1, <2>2 DEF Holder, Disciplined
<1>11. ASSUME NEW d \in Cards
       PROVE  Carried(r, d, {k \in {"unblocked"} : d \in told})
  <2>1. <<"unblocked", d>> \in news[r] => "unblocked" \in Way(r, d)
    BY DEF Way, Crossing
  <2>2. d \in told <=> /\ d \in Waiting(v, S) /\ Active(w, d) /\ Blockers(w, d) = {}
                       /\ <<"unblocked", d>> \notin news[r]
    BY DEF Told
  <2>3. d \in Waiting(v, S) => Blockers(v, d) # {}
    BY <1>3 DEF Waiting, Blockers
  <2>4. Active(v, d) /\ Freed(v, w, d) => d \in Waiting(v, S) /\ Blockers(w, d) = {}
    BY <1>6 DEF Freed, Waiting, Blockers
  <2>5. ~Freed(w, v, d)
    BY <1>6 DEF Freed
  <2> HIDE DEF told, v, w, S
  <2>6. Active(w, d) => Active(v, d)
    BY <1>6
  <2> QED
    BY <2>1, <2>2, <2>3, <2>4, <2>5, <2>6 DEF Carried, v, w
<1>12. {"complete", "auto", "archive"} \cap {"comment", "none", "tell"} = {}
  OBVIOUS
<1> HIDE DEF told
<1> QED
  BY <1>1, <1>7, <1>8, <1>9, <1>10, <1>11, <1>12, AfterHandOff

LEMMA OpenOwn ==
  ASSUME RunTypeOK, GraphInv, NEW r \in Requests, Underway(r), Open(r)
  PROVE  Underway(r)'
<1> DEFINE v == View(r)
           w == View(r)'
           S == Changing(View(r), task[r])
           told == Told(r, "blocked", Ready(View(r), S), View(r)')
<1>1. Holding(r, {"reopen", "restore"})
  BY DEF Open
<1>2. /\ graph = r /\ Holder(r) /\ task[r] \in Todo(r) /\ task[r] \in Job
      /\ task[r].do \in {"reopen", "restore"}
      /\ UNCHANGED <<flags, edges, rules, held>>
      /\ task[r].do \in Root \cup {"tell"} => agenda[r] = <<>>
      /\ \A t \in Listed(agenda[r]) : t.do \notin Root \cup {"tell"}
      /\ Todo(r) = Listed(agenda[r]) \cup {task[r]}
      /\ S \subseteq held[r]
  BY <1>1, BeforeWrite
<1>3. S \in SUBSET Cards
  BY <1>2, JobShape, WantedIsCards
<1>4. PICK f \in {"done", "archived"} :
        /\ plus' = [plus EXCEPT ![r] = @ \ ({f} \X S)]
        /\ minus' = [minus EXCEPT ![r] = @ \cup ({f} \X S)]
        /\ HandOff(r, "blocked", Told(r, "blocked", Ready(v, S), Without(v, S, f)))
        /\ UNCHANGED <<link, unlink>>
        /\ task[r].do = "reopen" => f = "done"
  BY DEF Open
<1>5. w = Without(v, S, f)
  <2>1. PICK X : X = {f} \X S
    OBVIOUS
  <2>2. plus'[r] = plus[r] \ X /\ minus'[r] = minus[r] \cup X
    BY <1>4, <2>1 DEF RunTypeOK, DepTypeOK
  <2>3. PICK F, E : F = (flags \ minus[r]) \cup plus[r] /\ E = (edges \ unlink[r]) \cup link[r]
    OBVIOUS
  <2>4. v = [flags |-> F, edges |-> E]
    BY <2>3 DEF View
  <2>5. w = [flags |-> F \ X, edges |-> E]
    <3>1. (flags \ minus'[r]) \cup plus'[r] = F \ X
      BY <2>2, <2>3
    <3> QED
      BY <1>2, <1>4, <2>3, <3>1 DEF View
  <2>6. Without(v, S, f) = [v EXCEPT !.flags = @ \ X]
    BY <2>1 DEF Without
  <2> HIDE DEF v, w
  <2> QED
    BY <2>4, <2>5, <2>6
<1>6. /\ \A d : Active(v, d) => Active(w, d)
      /\ \A d : Active(w, d) => Active(v, d) \/ d \in S
      /\ \A d : Blockers(v, d) \subseteq Blockers(w, d)
      /\ \A d : \A b \in Blockers(w, d) : b \in Blockers(v, d) \/ (b \in S /\ <<b, d>> \in v.edges)
  BY <1>3, <1>5, OpeningOpens DEF Flag
<1>7. HandOff(r, "blocked", told) /\ told \in SUBSET Cards /\ "blocked" \in Crossing
  BY <1>4, <1>5 DEF Told, Ready, Crossing
<1>8. Own(r)'
  BY <1>2, <1>4 DEF Holder, Own, RunTypeOK, DepTypeOK
<1>9. ASSUME NEW t \in Listed(agenda[r]), t.do \in Single
      PROVE  /\ UNCHANGED <<link[r], unlink[r]>>
             /\ r \notin chained => Wanted(w, t) \subseteq Wanted(v, t)
  <2>1. task[r].do = "reopen"
    <3>1. agenda[r] # <<>>
      BY <1>9, ListedNone
    <3> QED
      BY <1>2, <3>1 DEF Root
  <2>2. t.do = "reopen"
    BY <1>2, <1>9, <2>1 DEF Holder, Disciplined, Single
  <2>3. Wanted(w, t) \subseteq Wanted(v, t)
    BY <1>3, <1>4, <1>5, <2>1, <2>2, OpeningWantsLess
  <2> QED
    BY <1>4, <2>3
<1>10. ASSUME NEW d \in Cards
       PROVE  ~(Active(v, d) /\ ~Active(w, d))
  BY <1>6
<1>11. ASSUME NEW d \in Cards, Active(Committed, d)
       PROVE  Carried(r, d, {k \in {"blocked"} : d \in told})
  <2>1. <<"blocked", d>> \in news[r] => "blocked" \in Way(r, d)
    BY DEF Way, Crossing
  <2>2. d \in told <=> /\ d \in Ready(v, S) /\ Active(w, d) /\ Blockers(w, d) # {}
                       /\ <<"blocked", d>> \notin news[r]
    BY DEF Told
  <2>3. d \in Ready(v, S) => Blockers(v, d) = {}
    BY DEF Ready
  <2>4. Freed(w, v, d) => d \in Ready(v, S) /\ Blockers(w, d) # {}
    BY <1>6 DEF Freed, Ready
  <2>5. ~Freed(v, w, d)
    BY <1>6 DEF Freed
  <2>6. Active(v, d) \/ \E k \in Way(r, d) : <<k, d>> \in rules
    <3>1. CASE task[r].do = "reopen"
      <4>1. Active(v, d) \/ \E k \in Crossing : <<k, d>> \in news[r] \cap rules
        BY <1>2, <1>11, <3>1 DEF Holder, RulesClose
      <4> QED
        BY <4>1 DEF Way
    <3>2. CASE task[r].do = "restore"
      <4>1. Clean(r)
        BY <1>2, <3>2 DEF Holder, Disciplined, Root
      <4> QED
        BY <1>11, <4>1, CleanView
    <3> QED
      BY <1>2, <3>1, <3>2
  <2> HIDE DEF told, v, w, S
  <2> QED
    BY <2>1, <2>2, <2>3, <2>4, <2>5, <2>6 DEF Carried, v, w
<1>12. {"reopen", "restore"} \cap {"comment", "none", "tell"} = {}
  OBVIOUS
<1> HIDE DEF told
<1> QED
  BY <1>1, <1>7, <1>8, <1>9, <1>10, <1>11, <1>12, AfterHandOff

\* A batch becomes its cards' own tasks.  The rows they want are among those
\* the batch has locked.
LEMMA BatchOwn ==
  ASSUME RunTypeOK, GraphInv, NEW r \in Requests, Underway(r), Batch(r)
  PROVE  Underway(r)'
<1>1. Holding(r, {"completeAll", "reopenAll"}) /\ UNCHANGED <<plus, minus, link, unlink, news>>
  BY DEF Batch, writes
<1>2. /\ graph = r /\ Holder(r) /\ phase[r] = "lock" /\ phase'[r] = "next"
      /\ UNCHANGED <<flags, edges, rules, graph, task, want, held, chained>>
      /\ task[r] \in Todo(r) /\ task[r] \in Job /\ task[r].do \in {"completeAll", "reopenAll"}
      /\ want[r] \subseteq held[r] /\ agenda[r] = <<>>
      /\ Todo(r)' = Listed(agenda'[r])
  BY <1>1, BeforeWrite DEF Root
<1>3. Listed(agenda'[r]) = Cardwise(task[r])
  BY <1>2, BatchEffect, ListedNone
<1>4. Clean(r) /\ Clean(r)' /\ View(r)' = Committed' /\ View(r)' = View(r)
  BY <1>1, <1>2 DEF Holder, Disciplined, Root, Clean, View, Committed
<1>5. ASSUME NEW u \in Cardwise(task[r])
      PROVE  /\ u.do = IF task[r].do = "completeAll" THEN "complete" ELSE "reopen"
             /\ \E c \in task[r].on : u.on = {c}
  <2>1. PICK c \in task[r].on :
          u = [do |-> IF task[r].do = "completeAll" THEN "complete" ELSE "reopen", on |-> {c}, edge |-> <<>>]
    BY <1>5 DEF Cardwise
  <2> QED
    BY <2>1
<1>6. Disciplined(r)'
  <2>1. link'[r] = {} /\ unlink'[r] = {}
    BY <1>4 DEF Clean
  <2> QED
    BY <1>2, <1>3, <1>5, <2>1 DEF Disciplined, Root, Single
<1>7. Fresh(r)' /\ Own(r)'
  BY <1>2, <1>4 DEF Fresh, Own, Clean
<1>8. Ahead(r)'
  <2>1. ASSUME NEW u \in Cardwise(task[r])
        PROVE  Wanted(View(r), u) \subseteq Wanted(View(r), task[r])
    <3> DEFINE v == View(r)
               S == Changing(v, u)
    <3>1. S \subseteq task[r].on
      BY <1>5, <2>1 DEF Changing
    <3>2. task[r].on \subseteq Cards
      BY <1>2, JobShape
    <3>3. Waiting(v, S) \subseteq Waiting(v, task[r].on) /\ Ready(v, S) \subseteq Ready(v, task[r].on)
      BY <3>1 DEF Waiting, Ready
    <3>4. /\ task[r].on \cup Waiting(v, task[r].on) \subseteq Wanted(v, task[r])
          /\ task[r].do = "reopenAll" => Ready(v, task[r].on) \subseteq Wanted(v, task[r])
      BY <1>2 DEF Wanted
    <3>5. /\ Wanted(v, u) \subseteq S \cup Waiting(v, S) \cup Ready(v, S)
          /\ u.do = "complete" => Wanted(v, u) \subseteq S \cup Waiting(v, S)
      BY <1>5, <2>1 DEF Wanted
    <3> HIDE DEF v, S
    <3>6. u.do = IF task[r].do = "completeAll" THEN "complete" ELSE "reopen"
      BY <1>5, <2>1
    <3>7. Wanted(v, u) \subseteq Wanted(v, task[r])
      BY <1>2, <3>1, <3>3, <3>4, <3>5, <3>6
    <3> QED
      BY <3>7 DEF v
  <2>2. Wanted(View(r), task[r]) \subseteq held[r]
    BY <1>2 DEF Holder, Fresh
  <2> QED
    BY <1>2, <1>3, <1>4, <1>5, <2>1, <2>2 DEF Ahead, Root
<1>9. NewsRight(r)'
  <2>1. \A d : Way(r, d)' = {}
    BY <1>2, <1>3, <1>4, <1>5 DEF Way, Clean
  <2> QED
    BY <1>4, <2>1 DEF NewsRight, Right
<1>10. RulesClose(r)'
  BY <1>4 DEF RulesClose
<1> QED
  BY <1>2, <1>6, <1>7, <1>8, <1>9, <1>10 DEF Underway, Holder

\* A relation is stored, or removed, by a request that does nothing else; its
\* dependent alone can cross.
LEMMA RelateOwn ==
  ASSUME RunTypeOK, GraphInv, NEW r \in Requests, Underway(r), Relate(r) \/ Unrelate(r)
  PROVE  Underway(r)'
<1> DEFINE e == task[r].edge
           v == View(r)
           w == View(r)'
<1>1. PICK K : Holding(r, K) /\ K \in {{"relate"}, {"unrelate"}}
  BY DEF Relate, Unrelate
<1>2. K \cap {"comment", "none", "tell"} = {}
  BY <1>1
<1>3. /\ graph = r /\ Holder(r) /\ UNCHANGED <<flags, edges, rules, held, chained>>
      /\ task[r] \in Todo(r) /\ task[r] \in Job /\ task[r].do \in K
      /\ agenda[r] = <<>>
  BY <1>1, <1>2, BeforeWrite DEF Root
<1>4. UNCHANGED <<plus, minus>> /\ Listed(agenda[r]) = {}
  BY <1>3, ListedNone DEF Relate, Unrelate
<1>5. Clean(r)
  BY <1>1, <1>3 DEF Holder, Disciplined, Root
<1>6. e \in Edge /\ e[1] \in Cards /\ e[2] \in Cards /\ e = <<e[1], e[2]>>
  BY <1>1, <1>3, JobShape DEF Link, Edge
<1>7. Own(r)'
  BY <1>3, <1>4 DEF Holder, Own
<1>8. w.flags = v.flags /\ \A d : Active(w, d) <=> Active(v, d)
  BY <1>3, <1>4 DEF View, Active, Is
<1>9. \A d : Way(r, d) = {}
  BY <1>1, <1>3, <1>4, <1>5 DEF Way, Clean, Holder, Disciplined, Todo
<1> DEFINE Only(way, told) ==
             /\ HandOff(r, way, told) /\ way \in Crossing /\ told \in SUBSET Cards
             /\ \A d \in Cards : Carried(r, d, {k \in {way} : d \in told})
<1>10. ASSUME Relate(r)
       PROVE  \E told : Only("blocked", told)
  <2> DEFINE ready == {d \in {e[2]} : Blockers(v, d) = {}}
             after == [v EXCEPT !.edges = @ \cup {e}]
             told == Told(r, "blocked", ready, after)
  <2>1. HandOff(r, "blocked", told) /\ link' = [link EXCEPT ![r] = @ \cup {e}] /\ UNCHANGED unlink
    BY <1>10 DEF Relate
  <2>2. after = w
    <3>1. link'[r] = link[r] \cup {e}
      BY <2>1 DEF RunTypeOK, DepTypeOK
    <3>2. w.edges = v.edges \cup {e}
      BY <1>3, <2>1, <3>1 DEF View
    <3>3. v = [flags |-> v.flags, edges |-> v.edges] /\ w = [flags |-> w.flags, edges |-> w.edges]
      BY DEF View
    <3> HIDE DEF v, w, e
    <3> QED
      BY <1>8, <3>2, <3>3
  <2>3. w.edges = v.edges \cup {e}
    <3>1. link'[r] = link[r] \cup {e}
      BY <2>1 DEF RunTypeOK, DepTypeOK
    <3> QED
      BY <1>3, <2>1, <3>1 DEF View
  <2> HIDE DEF e, v, w
  <2>4. \A d : Blockers(v, d) \subseteq Blockers(w, d) /\ (d # e[2] => Blockers(w, d) = Blockers(v, d))
    BY <1>6, <1>8, <2>3 DEF Blockers
  <2>5. \A d : d \in told <=> /\ d = e[2] /\ Active(w, d) /\ Blockers(v, d) = {}
                              /\ Blockers(w, d) # {} /\ <<"blocked", d>> \notin news[r]
    BY <2>2 DEF Told
  <2>6. \A d : <<"blocked", d>> \notin news[r]
    BY <1>5 DEF Clean
  <2>7. told \in SUBSET Cards /\ "blocked" \in Crossing
    BY <1>6, <2>5 DEF Crossing
  <2> HIDE DEF told
  <2>8. ASSUME NEW d \in Cards
        PROVE  Carried(r, d, {k \in {"blocked"} : d \in told})
    <3>1. ~Freed(v, w, d)
      BY <2>4 DEF Freed
    <3>2. Freed(w, v, d) /\ Active(w, d) => d \in told
      BY <2>4, <2>5, <2>6 DEF Freed
    <3> QED
      BY <1>8, <2>5, <3>1, <3>2 DEF Carried, v, w
  <2> QED
    BY <2>1, <2>7, <2>8
<1>11. ASSUME Unrelate(r)
       PROVE  \E told : Only("unblocked", told)
  <2> DEFINE after == [v EXCEPT !.edges = @ \ {e}]
             told == Told(r, "unblocked", Waiting(v, {e[1]}) \cap {e[2]}, after)
  <2>1. HandOff(r, "unblocked", told) /\ unlink' = [unlink EXCEPT ![r] = @ \cup {e}] /\ UNCHANGED link
    BY <1>11 DEF Unrelate
  <2>2. w.edges = v.edges \ {e}
    <3>1. unlink'[r] = unlink[r] \cup {e} /\ link[r] = {}
      BY <1>5, <2>1 DEF RunTypeOK, DepTypeOK, Clean
    <3> QED
      BY <1>3, <2>1, <3>1 DEF View
  <2>3. after = w
    <3>1. v = [flags |-> v.flags, edges |-> v.edges] /\ w = [flags |-> w.flags, edges |-> w.edges]
      BY DEF View
    <3> HIDE DEF v, w, e
    <3> QED
      BY <1>8, <2>2, <3>1
  <2> HIDE DEF e, v, w
  <2>4. \A d : Blockers(w, d) \subseteq Blockers(v, d) /\ (d # e[2] => Blockers(w, d) = Blockers(v, d))
    BY <1>6, <1>8, <2>2 DEF Blockers
  <2>5. \A d : d \in told <=> /\ d \in Waiting(v, {e[1]}) /\ d = e[2] /\ Active(w, d)
                              /\ Blockers(w, d) = {} /\ <<"unblocked", d>> \notin news[r]
    BY <2>3 DEF Told
  <2>6. \A d : <<"unblocked", d>> \notin news[r]
    BY <1>5 DEF Clean
  <2>7. \A d : d \in Waiting(v, {e[1]}) => Blockers(v, d) # {}
    BY <1>6 DEF Waiting, Blockers
  <2>8. ASSUME NEW d \in Cards, Active(v, d), Blockers(v, d) # {}, Blockers(w, d) = {}
        PROVE  d = e[2] /\ d \in Waiting(v, {e[1]})
    <3>1. d = e[2]
      BY <2>4, <2>8
    <3>2. PICK b \in Cards : <<b, d>> \in v.edges /\ Active(v, b)
      BY <2>8 DEF Blockers
    <3>3. <<b, d>> = e
      BY <1>8, <2>2, <2>8, <3>2 DEF Blockers
    <3>4. b = e[1]
      BY <1>6, <3>3
    <3> QED
      BY <2>8, <3>1, <3>2, <3>4 DEF Waiting
  <2>9. told \in SUBSET Cards /\ "unblocked" \in Crossing
    BY <1>6, <2>5 DEF Crossing
  <2> HIDE DEF told
  <2>10. ASSUME NEW d \in Cards
        PROVE  Carried(r, d, {k \in {"unblocked"} : d \in told})
    <3>1. ~Freed(w, v, d)
      BY <2>4 DEF Freed
    <3>2. Active(v, d) /\ Freed(v, w, d) => d \in told
      BY <1>8, <2>5, <2>6, <2>8 DEF Freed
    <3> QED
      BY <1>8, <2>5, <2>7, <3>1, <3>2 DEF Carried, v, w
  <2> QED
    BY <2>1, <2>9, <2>10
<1>12. PICK way, told : Only(way, told)
  BY <1>10, <1>11
<1> HIDE DEF e, v, w
<1> QED
  BY <1>1, <1>2, <1>4, <1>7, <1>12, AfterHandOff

\* A delete leaves the cards it freed to one handoff, still to come.
LEMMA DeleteOwn ==
  ASSUME RunTypeOK, GraphInv, NEW r \in Requests, Underway(r), Delete(r)
  PROVE  Underway(r)'
<1> DEFINE v == View(r)
           w == View(r)'
           S == Changing(View(r), task[r])
           lost == Lost(r)
           told == ToldByDelete(r)
<1>1. Holding(r, {"delete"}) /\ UNCHANGED <<minus, link, news>>
  BY DEF Delete
<1>2. /\ graph = r /\ Holder(r) /\ phase'[r] = "next"
      /\ UNCHANGED <<flags, edges, rules, graph, task, want, held, chained>>
      /\ task[r] \in Todo(r) /\ task[r] \in Job /\ task[r].do = "delete"
      /\ phase[r] = "lock" /\ agenda[r] = <<>>
      /\ Todo(r)' = Listed(agenda'[r])
  BY <1>1, BeforeWrite DEF Root
<1>3. S \in SUBSET Cards
  BY <1>2, JobShape, WantedIsCards
<1>4. Clean(r) /\ r \in chained /\ v = Committed
  BY <1>2, CleanView DEF Holder, Disciplined, Root
<1>5. /\ Listed(agenda'[r]) = Handoffs(told)
      /\ \A t \in Handoffs(told) : agenda'[r] = <<{t}>>
  BY <1>2, DeleteEffect, ListedNone
<1>6. \A t \in Handoffs(told) : t.do = "tell" /\ t.on = told
  BY DEF Handoffs
<1>7. w.flags = v.flags \cup ({"gone"} \X S) /\ w.edges = v.edges \ lost
  <2>1. /\ plus' = [plus EXCEPT ![r] = @ \cup ({"gone"} \X S)]
        /\ unlink' = [unlink EXCEPT ![r] = @ \cup lost]
    BY DEF Delete, Lost
  <2>2. PICK X : X = {"gone"} \X S
    OBVIOUS
  <2>3. plus'[r] = plus[r] \cup X /\ unlink'[r] = unlink[r] \cup lost /\ link'[r] = {} /\ link[r] = {}
    BY <1>1, <1>4, <2>1, <2>2 DEF RunTypeOK, DepTypeOK, Clean
  <2>4. w.flags = v.flags \cup X
    BY <1>1, <1>2, <2>3 DEF View
  <2>5. w.edges = v.edges \ lost
    BY <1>2, <2>3 DEF View
  <2> QED
    BY <2>2, <2>4, <2>5
<1>8. AfterDelete(r).flags = w.flags /\ AfterDelete(r).edges = w.edges
  BY <1>7 DEF AfterDelete, With, View
<1>9. \A d : Active(w, d) <=> Active(v, d) /\ d \notin S
  BY <1>7 DEF Active, Is, Flag
<1>10. lost = {e \in v.edges : e[1] \in S \/ e[2] \in S}
  BY DEF Lost
<1>11. told = {d \in Waiting(v, S) : /\ Active(w, d) /\ Blockers(w, d) = {}
                                     /\ <<"unblocked", d>> \notin news[r]}
  BY <1>8 DEF ToldByDelete, Told, Active, Is, Blockers
<1> HIDE DEF v, w, S, lost, told
<1>12. \A d : Blockers(w, d) \subseteq Blockers(v, d) \ S
  BY <1>7, <1>9 DEF Blockers
<1>13. ASSUME NEW d \in Cards, d \notin S
       PROVE  Blockers(w, d) = Blockers(v, d) \ S
  <2>1. ASSUME NEW b \in Blockers(v, d) \ S
        PROVE  b \in Blockers(w, d)
    <3>1. <<b, d>> \in v.edges /\ <<b, d>>[1] = b /\ <<b, d>>[2] = d /\ b \in Cards /\ Active(v, b)
      BY <2>1 DEF Blockers
    <3>2. <<b, d>> \notin lost
      BY <1>10, <1>13, <2>1, <3>1
    <3> QED
      BY <1>7, <1>9, <2>1, <3>1, <3>2 DEF Blockers
  <2> QED
    BY <1>12, <2>1
<1>14. Disciplined(r)'
  BY <1>1, <1>2, <1>4, <1>5, <1>6 DEF Disciplined, Lone, Clean, Root, Single
<1>15. Fresh(r)' /\ Own(r)' /\ Ahead(r)'
  BY <1>1, <1>2, <1>4 DEF Fresh, Own, Ahead, Clean
<1>16. NewsRight(r)'
  <2>1. ASSUME NEW d \in Cards
        PROVE  Way(r, d)' = {k \in {"unblocked"} : d \in told}
    <3>1. \A k : <<k, d>> \notin news'[r]
      BY <1>1, <1>4 DEF Clean
    <3>2. d \in told => \E t \in Handoffs(told) : t.do = "tell" /\ d \in t.on
      <4>1. told # {} => [do |-> "tell", on |-> told, edge |-> <<>>] \in Handoffs(told)
        BY DEF Handoffs
      <4> QED
        BY <1>6, <4>1
    <3>3. (\E t \in Todo(r)' : t.do = "tell" /\ d \in t.on) <=> d \in told
      BY <1>2, <1>5, <1>6, <3>2
    <3> QED
      BY <3>1, <3>3 DEF Way
  <2>2. ASSUME NEW d \in Cards, Active(Committed, d)
        PROVE  Right(Committed, w, d, Way(r, d)')
    <3>1. PICK K : K = {k \in {"unblocked"} : d \in told}
      OBVIOUS
    <3>2. Right(Committed, v, d, {})
      BY <1>4 DEF Right
    <3>3. d \in told => Active(w, d) /\ Blockers(v, d) # {} /\ Blockers(w, d) = {}
      BY <1>3, <1>11 DEF Waiting, Blockers
    <3>4. Active(v, d) /\ Active(w, d) /\ Freed(v, w, d) => d \in told
      <4> SUFFICES ASSUME Active(v, d), Active(w, d), Blockers(v, d) # {}, Blockers(w, d) = {}
                   PROVE  d \in told
        BY DEF Freed
      <4>1. PICK b : b \in Blockers(v, d) /\ b \in S
        BY <1>9, <1>13
      <4>2. d \in Waiting(v, S)
        BY <4>1 DEF Waiting, Blockers
      <4> QED
        BY <1>4, <1>11, <4>2 DEF Clean
    <3>5. ~Freed(w, v, d)
      BY <1>12 DEF Freed
    <3>6. K \in SUBSET Crossing /\ ("unblocked" \in K <=> d \in told) /\ "blocked" \notin K
      BY <3>1 DEF Crossing
    <3>7. Active(w, d) => Active(v, d)
      BY <1>9
    <3>8. Right(Committed, w, d, {} \cup K)
      BY <3>2, <3>3, <3>4, <3>5, <3>6, <3>7, CrossingIsRight
    <3> QED
      BY <2>1, <3>1, <3>8
  <2>3. Committed' = Committed
    BY <1>2 DEF Committed
  <2> QED
    BY <1>2, <2>2, <2>3 DEF NewsRight, Right, w
<1>17. RulesClose(r)'
  BY <1>2, <1>5, <1>6 DEF RulesClose
<1> QED
  BY <1>2, <1>14, <1>15, <1>16, <1>17 DEF Underway, Holder

\* The handoff of a delete says what was to come.
LEMMA TellOwn ==
  ASSUME RunTypeOK, GraphInv, NEW r \in Requests, Underway(r), Tell(r)
  PROVE  Underway(r)'
<1> DEFINE told == task[r].on
<1>1. Holding(r, {"tell"}) /\ UNCHANGED <<plus, minus, link, unlink>> /\ HandOff(r, "unblocked", told)
  BY DEF Tell
<1>2. /\ graph = r /\ Holder(r) /\ phase'[r] = "next" /\ phase[r] = "lock"
      /\ UNCHANGED <<flags, edges, rules, graph, task, want, held, chained>>
      /\ task[r] \in Todo(r) /\ task[r] \in Job /\ task[r].do = "tell" /\ agenda[r] = <<>>
      /\ Todo(r)' = Listed(agenda'[r]) /\ Todo(r) = Listed(agenda[r]) \cup {task[r]}
  BY <1>1, BeforeWrite
<1>3. told \in SUBSET Cards /\ "unblocked" \in Crossing
  BY <1>2, JobShape DEF Crossing
<1>4. Todo(r) = {task[r]} /\ news[r] = {} /\ r \in chained
  BY <1>2, ListedNone DEF Holder, Disciplined
<1>5. news'[r] = {"unblocked"} \X told /\ Listed(agenda'[r]) = Autos("unblocked", told)
  <2> HIDE DEF told
  <2>1. /\ news'[r] = news[r] \cup ({"unblocked"} \X told)
        /\ Listed(agenda'[r]) = Autos("unblocked", told) \cup Listed(agenda[r])
    BY <1>1, <1>3, HandOffEffect
  <2> QED
    BY <1>2, <1>4, <2>1, ListedNone
<1>6. \A t \in Autos("unblocked", told) :
        t.do = "auto" /\ \A d \in t.on : d \in told /\ <<"unblocked", d>> \in rules
  <2> SUFFICES ASSUME NEW c \in {x \in told : <<"unblocked", x>> \in rules},
                      NEW t, t = [do |-> "auto", on |-> {c}, edge |-> <<>>]
               PROVE  t.do = "auto" /\ \A d \in t.on : d \in told /\ <<"unblocked", d>> \in rules
    BY DEF Autos
  <2> QED
    OBVIOUS
<1>7. View(r)' = View(r) /\ Committed' = Committed
  BY <1>1, <1>2 DEF View, Committed
<1>8. Disciplined(r)'
  <2>1. \A t \in Todo(r)' : t.do = "auto" /\ \A d \in t.on : \E k \in Crossing : <<k, d>> \in news'[r] \cap rules'
    BY <1>2, <1>3, <1>5, <1>6
  <2> QED
    BY <1>2, <2>1 DEF Disciplined, Root, Single
<1>9. Fresh(r)' /\ Own(r)' /\ Ahead(r)'
  BY <1>1, <1>2, <1>4 DEF Holder, Fresh, Own, Ahead
<1>10. NewsRight(r)'
  <2>1. ASSUME NEW d \in Cards
        PROVE  Way(r, d)' = Way(r, d)
    <3>1. Way(r, d) = {k \in {"unblocked"} : d \in told}
      BY <1>2, <1>4 DEF Way
    <3>2. \A t \in Todo(r)' : t.do # "tell"
      BY <1>2, <1>5, <1>6
    <3>3. \A k : <<k, d>> \in news'[r] <=> k = "unblocked" /\ d \in told
      BY <1>5
    <3> QED
      BY <1>3, <3>1, <3>2, <3>3 DEF Way
  <2> QED
    BY <1>2, <1>7, <2>1 DEF Holder, NewsRight, Right
<1>11. RulesClose(r)'
  BY <1>2, <1>5, <1>6 DEF RulesClose
<1> QED
  BY <1>2, <1>8, <1>9, <1>10, <1>11 DEF Underway, Holder

\* A comment's request never holds the graph.
LEMMA CommentOwn ==
  ASSUME RunTypeOK, NEW r \in Requests, Underway(r), Comment(r)
  PROVE  Underway(r)'
<1>1. /\ phase[r] = "lock" /\ phase'[r] = "next" /\ task[r].do = "comment"
      /\ UNCHANGED <<graph, plus, minus, link, unlink, news>>
  BY DEF Comment, Holding, writes, RunTypeOK, DepTypeOK
<1>2. graph # r
  BY <1>1 DEF Underway, Holder, Disciplined, Todo
<1>3. Bystander(r)'
  BY <1>1, <1>2 DEF Underway, Bystander, Clean
<1> QED
  BY <1>1, <1>2, <1>3 DEF Underway

LEMMA EndOwn ==
  ASSUME RunTypeOK, NEW r \in Requests, Commit(r) \/ Abort(r)
  PROVE  Underway(r)'
<1>1. graph' # r /\ phase'[r] = "over"
  BY RequestsAssumption DEF Commit, Abort, End, RunTypeOK, DepTypeOK
<1>2. Clean(r)'
  BY DEF Commit, Abort, End, RunTypeOK, DepTypeOK, Clean
<1> QED
  BY <1>1, <1>2 DEF Underway, Bystander

-----------------------------------------------------------------------------
(* The purge, of cards that block nothing. *)

Harmless == \A c \in doomed : Is(Committed, "archived", c)

\* Who is active stays as it was, and so does what blocks a card that is left:
\* the rows of a doomed card are free, so no request has restored it.
LEMMA PurgeView ==
  ASSUME RunTypeOK, NEW r \in Requests, Own(r), Purge, Harmless
  PROVE  /\ \A d : Active(View(r)', d) <=> Active(View(r), d)
         /\ \A d : Active(Committed', d) <=> Active(Committed, d)
         /\ \A d : Active(Committed, d) \/ Active(View(r), d) => d \notin doomed
         /\ \A d : Blockers(View(r)', d) \subseteq Blockers(View(r), d)
         /\ \A d : d \notin doomed => /\ Blockers(View(r)', d) = Blockers(View(r), d)
                                      /\ Blockers(Committed', d) = Blockers(Committed, d)
         /\ View(r).flags \subseteq View(r)'.flags
         /\ \A f \in {"done", "archived"} : \A d : <<f, d>> \in View(r)'.flags => <<f, d>> \in View(r).flags
         /\ View(r)'.edges \subseteq View(r).edges
         /\ link[r] = {} => \A b, d : <<b, d>> \in View(r)'.edges => d \notin doomed
<1> DEFINE v == View(r)
           w == View(r)'
           c == Committed
           e == Committed'
<1>1. PICK X : X = {"gone"} \X doomed
  OBVIOUS
<1>2. /\ flags' = flags \cup X
      /\ edges' = {a \in edges : a[1] \notin doomed /\ a[2] \notin doomed}
      /\ UNCHANGED <<plus, minus, link, unlink>>
      /\ \A d \in doomed : d \notin held[r]
  BY <1>1 DEF Purge, writes, Free
<1>3. /\ c.flags = flags /\ e.flags = flags \cup X
      /\ c.edges = edges /\ e.edges = edges'
  BY <1>2 DEF Committed
<1>4. \A d \in doomed : <<"archived", d>> \in v.flags /\ <<"archived", d>> \in flags
  <2> SUFFICES ASSUME NEW d \in doomed
               PROVE  <<"archived", d>> \in v.flags /\ <<"archived", d>> \in flags
    OBVIOUS
  <2>1. <<"archived", d>> \in flags
    BY DEF Harmless, Is, Committed
  <2>2. <<"archived", d>> \notin minus[r]
    <3>1. <<"archived", d>>[2] = d
      OBVIOUS
    <3> QED
      BY <1>2, <3>1 DEF Own
  <2> QED
    BY <2>1, <2>2 DEF View
<1>5. w.flags = v.flags \cup X
  <2>1. X \cap minus[r] = {}
    <3>1. \A x \in X : x[2] \in doomed
      BY <1>1
    <3> QED
      BY <1>2, <3>1 DEF Own
  <2> QED
    BY <1>2, <2>1 DEF View
<1>6. /\ w.edges = (edges' \ unlink[r]) \cup link[r] /\ v.edges = (edges \ unlink[r]) \cup link[r]
      /\ edges' \subseteq edges
  BY <1>2 DEF View
<1> HIDE DEF v, w, c, e
<1>7. \A d : (Active(v, d) => d \notin doomed) /\ (Active(c, d) => d \notin doomed)
  BY <1>3, <1>4 DEF Active, Is, Flag
<1>8. \A f, d : <<f, d>> \in X <=> f = "gone" /\ d \in doomed
  BY <1>1
<1>9. \A d : (Active(w, d) <=> Active(v, d)) /\ (Active(e, d) <=> Active(c, d))
  <2>1. \A d : (Active(w, d) => Active(v, d)) /\ (Active(e, d) => Active(c, d))
    BY <1>3, <1>5 DEF Active, Is
  <2>2. \A d : (Active(v, d) => Active(w, d)) /\ (Active(c, d) => Active(e, d))
    BY <1>3, <1>5, <1>7, <1>8 DEF Active, Is
  <2> QED
    BY <2>1, <2>2
<1>10. \A d : Blockers(w, d) \subseteq Blockers(v, d)
  BY <1>6, <1>9 DEF Blockers
<1>11. ASSUME NEW d, d \notin doomed
       PROVE  Blockers(w, d) = Blockers(v, d) /\ Blockers(e, d) = Blockers(c, d)
  <2>1. \A b : b \notin doomed => (<<b, d>> \in edges' <=> <<b, d>> \in edges)
    <3>1. \A b : <<b, d>>[1] = b /\ <<b, d>>[2] = d
      OBVIOUS
    <3> QED
      BY <1>2, <1>11, <3>1
  <2>2. \A b : Active(v, b) => (<<b, d>> \in w.edges <=> <<b, d>> \in v.edges)
    BY <1>6, <1>7, <2>1
  <2>3. \A b : Active(c, b) => (<<b, d>> \in e.edges <=> <<b, d>> \in c.edges)
    BY <1>3, <1>7, <2>1
  <2> QED
    BY <1>9, <2>2, <2>3 DEF Blockers
<1>12. v.flags \subseteq w.flags /\ \A f \in {"done", "archived"} : \A d : <<f, d>> \in w.flags => <<f, d>> \in v.flags
  BY <1>5, <1>8
<1>13. w.edges \subseteq v.edges
  BY <1>6
<1>14. link[r] = {} => \A b, d : <<b, d>> \in w.edges => d \notin doomed
  <2>1. \A b, d : <<b, d>>[2] = d
    OBVIOUS
  <2> QED
    BY <1>2, <1>6, <2>1
<1>15. /\ \A d : Active(w, d) <=> Active(v, d)
       /\ \A d : Active(e, d) <=> Active(c, d)
       /\ \A d : Active(c, d) \/ Active(v, d) => d \notin doomed
       /\ \A d : d \notin doomed => Blockers(w, d) = Blockers(v, d) /\ Blockers(e, d) = Blockers(c, d)
  BY <1>7, <1>9, <1>11
<1> QED
  BY <1>10, <1>12, <1>13, <1>14, <1>15 DEF v, w, c, e

\* No task wants more rows than before.
LEMMA PurgeWantsLess ==
  ASSUME RunTypeOK, NEW r \in Requests, Own(r), Purge, Harmless, NEW t,
         t.do \in {"reopenAll", "reopen", "restore"} => link[r] = {}
  PROVE  Wanted(View(r)', t) \subseteq Wanted(View(r), t)
<1> DEFINE v == View(r)
           w == View(r)'
           A == IF t.do \in {"completeAll", "reopenAll"} THEN t.on ELSE Changing(v, t)
           B == IF t.do \in {"completeAll", "reopenAll"} THEN t.on ELSE Changing(w, t)
<1>1. /\ \A d : Active(w, d) <=> Active(v, d)
      /\ \A d : d \notin doomed => Blockers(w, d) = Blockers(v, d)
      /\ v.flags \subseteq w.flags
      /\ \A f \in {"done", "archived"} : \A d : <<f, d>> \in w.flags => <<f, d>> \in v.flags
      /\ w.edges \subseteq v.edges
      /\ link[r] = {} => \A b, d : <<b, d>> \in w.edges => d \notin doomed
  BY PurgeView
<1> HIDE DEF v, w
<1>2. Changing(w, t) \subseteq Changing(v, t)
  BY <1>1 DEF Changing, Is
<1>3. B \subseteq A
  BY <1>2
<1>4. Waiting(w, B) \subseteq Waiting(v, A)
  <2> HIDE DEF A, B
  <2> QED
    BY <1>1, <1>3 DEF Waiting
<1>5. link[r] = {} => Ready(w, B) \subseteq Ready(v, A)
  <2> HIDE DEF A, B
  <2> QED
    BY <1>1, <1>3 DEF Ready
<1>6. /\ Wanted(v, t) = A \cup (IF t.do \in {"completeAll", "reopenAll", "complete", "auto", "reopen", "archive"}
                                THEN Waiting(v, A) ELSE {})
                        \cup (IF t.do \in {"reopenAll", "reopen", "restore"} THEN Ready(v, A) ELSE {})
      /\ Wanted(w, t) = B \cup (IF t.do \in {"completeAll", "reopenAll", "complete", "auto", "reopen", "archive"}
                                THEN Waiting(w, B) ELSE {})
                        \cup (IF t.do \in {"reopenAll", "reopen", "restore"} THEN Ready(w, B) ELSE {})
  BY DEF Wanted
<1> HIDE DEF A, B
<1>7. Wanted(w, t) \subseteq Wanted(v, t)
  BY <1>3, <1>4, <1>5, <1>6
<1> QED
  BY <1>7 DEF v, w

LEMMA PurgeRuns ==
  ASSUME RunTypeOK, NEW r \in Requests, Underway(r), Purge, Harmless
  PROVE  Underway(r)'
<1>1. /\ UNCHANGED <<rules, graph, phase, agenda, task, want, held>>
      /\ UNCHANGED <<plus, minus, link, unlink, news, chained>>
  BY DEF Purge, work, writes
<1>2. CASE graph # r
  BY <1>1, <1>2 DEF Underway, Bystander, Clean, LocksInOrder
<1>3. CASE graph = r
  <2>1. Holder(r)
    BY <1>3 DEF Underway
  <2>2. Todo(r)' = Todo(r) /\ Listed(agenda'[r]) = Listed(agenda[r])
    BY <1>1 DEF Todo
  <2>3. (\A t : Lone(r, t)' <=> Lone(r, t)) /\ (Clean(r)' <=> Clean(r)) /\ (LocksInOrder(r)' <=> LocksInOrder(r))
    BY <1>1 DEF Lone, Clean, LocksInOrder
  <2>4. \A d : Way(r, d)' = Way(r, d)
    BY <1>1, <2>2 DEF Way
  <2>5. \A t \in Todo(r) : Wanted(View(r)', t) \subseteq Wanted(View(r), t)
    <3>1. \A t \in Todo(r) : t.do \in {"reopenAll", "reopen", "restore"} => link[r] = {}
      BY <2>1 DEF Holder, Disciplined, Root, Single, Clean
    <3>2. Own(r)
      BY <2>1 DEF Holder
    <3> QED
      BY <3>1, <3>2, PurgeWantsLess
  <2>6. Disciplined(r)'
    BY <1>1, <2>1, <2>2, <2>3 DEF Holder, Disciplined
  <2>7. Fresh(r)' /\ Own(r)'
    BY <1>1, <2>1, <2>5 DEF Holder, Fresh, Own, Todo
  <2>8. Ahead(r)'
    <3>1. \A t \in Listed(agenda[r]) : t \in Todo(r)
      BY DEF Todo
    <3> QED
      BY <1>1, <2>1, <2>2, <2>3, <2>5, <3>1 DEF Holder, Ahead
  <2>9. /\ \A d : Active(View(r)', d) <=> Active(View(r), d)
        /\ \A d : Active(Committed', d) <=> Active(Committed, d)
        /\ \A d : Active(Committed, d) =>
             Blockers(View(r)', d) = Blockers(View(r), d) /\ Blockers(Committed', d) = Blockers(Committed, d)
    BY <2>1, PurgeView DEF Holder
  <2>10. NewsRight(r)'
    <3>1. ASSUME NEW d \in Cards, Active(Committed', d)
          PROVE  Right(Committed', View(r)', d, Way(r, d)')
      <4>1. Active(Committed, d) /\ Right(Committed, View(r), d, Way(r, d))
        BY <2>1, <2>9, <3>1 DEF Holder, NewsRight
      <4>2. /\ Active(View(r)', d) <=> Active(View(r), d)
            /\ Blockers(View(r)', d) = Blockers(View(r), d)
            /\ Blockers(Committed', d) = Blockers(Committed, d)
        BY <2>9, <4>1
      <4> QED
        BY <2>4, <4>1, <4>2 DEF Right
    <3> QED
      BY <1>1, <3>1 DEF NewsRight, Right
  <2>11. RulesClose(r)'
    BY <1>1, <2>1, <2>2, <2>9 DEF Holder, RulesClose
  <2> QED
    BY <1>1, <1>3, <2>6, <2>7, <2>8, <2>10, <2>11 DEF Underway, Holder
<1> QED
  BY <1>2, <1>3

-----------------------------------------------------------------------------
(* Every step. *)

LEMMA InitRuns ==
  ASSUME DepInit
  PROVE  RunInv
BY RequestsAssumption DEF DepInit, RunInv, Underway, Bystander, Clean

LEMMA StepRuns ==
  ASSUME RunTypeOK, GraphInv, RunInv, [DepNext]_depVars, Purge => Harmless
  PROVE  RunInv'
<1> SUFFICES ASSUME NEW r \in Requests
             PROVE  Underway(r)'
  BY DEF RunInv
<1>1. Underway(r)
  BY DEF RunInv
<1>2. CASE UNCHANGED depVars \/ SelectDoomed
  <2>1. Untouched(r)
    BY <1>2 DEF SelectDoomed, depVars, work, writes, Untouched
  <2> QED
    BY <1>1, <2>1, UntouchedKeeps
<1>3. CASE Purge
  BY <1>1, <1>3, PurgeRuns
<1>4. ASSUME NEW s \in Requests, s # r,
             Begin(s) \/ TakeGraph(s) \/ NextTask(s) \/ TakeCard(s) \/ Write(s)
      PROVE  Underway(r)'
  <2>1. Untouched(r)
    BY <1>4, LockElsewhere, WriteElsewhere
  <2> QED
    BY <1>1, <2>1, UntouchedKeeps
<1>5. ASSUME NEW s \in Requests, s # r, Commit(s) \/ Abort(s)
      PROVE  Underway(r)'
  BY <1>5, EndElsewhere
<1>6. CASE Begin(r) \/ TakeGraph(r) \/ NextTask(r) \/ TakeCard(r)
  BY <1>1, <1>6, BeginOwn, TakeGraphOwn, NextTaskOwn, TakeCardOwn
<1>7. CASE Write(r)
  BY <1>1, <1>7, CloseOwn, OpenOwn, BatchOwn, RelateOwn, DeleteOwn, TellOwn, CommentOwn DEF Write
<1>8. CASE Commit(r) \/ Abort(r)
  BY <1>8, EndOwn
<1> QED
  BY <1>2, <1>3, <1>4, <1>5, <1>6, <1>7, <1>8 DEF DepNext

\* The types, with those of the tasks on the agendas.
THEOREM TypesInvariance == DepSpec => []RunTypeOK
<1>1. DepInit => RunTypeOK
  BY InitTyped
<1>2. RunTypeOK /\ [DepNext]_depVars => RunTypeOK'
  BY StepTyped
<1> QED
  BY <1>1, <1>2, PTL DEF DepSpec

\* Where every request stands, as long as the purge takes only archived cards.
THEOREM RunInvariance == DepSpec /\ PurgesBlockNothing => []RunInv
<1>1. DepInit => RunInv
  BY InitRuns
<1>2. /\ RunTypeOK /\ GuardedGraph /\ RunInv /\ [DepNext]_depVars
      /\ [Purge => \A c \in doomed : Is(Committed, "archived", c)]_depVars
      => RunInv'
  <2>1. UNCHANGED depVars => ~Purge \/ Harmless
    BY DEF Purge, depVars
  <2> QED
    BY <2>1, StepRuns DEF GuardedGraph, Harmless
<1> QED
  BY <1>1, <1>2, TypesInvariance, GraphInvariance, PTL DEF DepSpec, PurgesBlockNothing

-----------------------------------------------------------------------------
(* No deadlock among requests that lock up front. *)

\* The least and the greatest of a finite set of cards.
Smallest(M, X) == M \in X /\ \A S \in X : S \subseteq M => S = M

LEMMA SmallestSet ==
  ASSUME NEW S, IsFiniteSet(S), NEW X, X \subseteq SUBSET S, X # {}
  PROVE  \E M : Smallest(M, X)
<1>1. IsWellFoundedOn(StrictSubsetOrdering(S), FiniteSubsetsOf(S))
  BY FS_StrictSubsetOrderingWellFounded
<1>2. FiniteSubsetsOf(S) = SUBSET S
  BY FS_FiniteSubsetsOfFinite
<1>3. \E M \in X : \A T \in X : ~ (<<T, M>> \in StrictSubsetOrdering(S))
  BY <1>1, <1>2, WFMin
<1> QED
  BY <1>3 DEF StrictSubsetOrdering, Smallest

LEMMA FiniteHasGreatest ==
  ASSUME NEW S, S \subseteq Nat, IsFiniteSet(S), S # {}
  PROVE  \E g \in S : \A n \in S : n <= g
<1> DEFINE From(m) == {n \in S : n >= m}
           X == {From(m) : m \in S}
<1>1. X \subseteq SUBSET S /\ X # {}
  OBVIOUS
<1>2. \A T \in X : \E m \in S : T = From(m)
  OBVIOUS
<1>3. \A m \in S : From(m) \in X
  OBVIOUS
<1> HIDE DEF X
<1>4. PICK M : Smallest(M, X)
  BY <1>1, SmallestSet
<1>5. PICK g \in S : M = From(g)
  BY <1>2, <1>4 DEF Smallest
<1>6. ASSUME NEW n \in S, n > g
      PROVE  FALSE
  <2>1. g \in Nat /\ n \in Nat
    OBVIOUS
  <2>2. \A k \in Nat : k >= n => k >= g
    BY <1>6, <2>1
  <2>3. From(n) \subseteq From(g)
    BY <2>2
  <2>4. g \in From(g) /\ g \notin From(n)
    BY <1>6, <2>1
  <2> QED
    BY <1>3, <1>4, <1>5, <2>3, <2>4 DEF Smallest
<1> QED
  BY <1>6

\* A request that locks up front and waits for a row waits for its least one,
\* which comes after all it holds.
LEMMA PlainWaits ==
  ASSUME RunTypeOK, GraphInv, RunInv, NEW r \in Requests, r \notin chained, phase[r] = "lock"
  PROVE  /\ LocksInOrder(r)
         /\ Due(r) = {c \in want[r] \ held[r] : \A e \in want[r] \ held[r] : c <= e}
<1>1. Underway(r)
  BY DEF RunInv
<1>2. CASE graph = r
  <2>1. Holder(r) /\ task[r] \in Todo(r)
    BY <1>1, <1>2 DEF Underway, Todo
  <2>2. task[r].do \notin Unordered
    BY <2>1 DEF Holder, Disciplined, Unordered
  <2> QED
    BY <2>1, <2>2 DEF Holder, Ahead, Due
<1>3. CASE graph # r
  BY <1>1, <1>3 DEF Underway, Bystander, GraphInv, Due, Unordered
<1> QED
  BY <1>2, <1>3

\* In a ring of such requests the greatest row waited for is held by one that
\* waits for a greater one.
LEMMA NoRing ==
  ASSUME RunTypeOK, GraphInv, RunInv
  PROVE  PlainWritesNeverDeadlock
<1> SUFFICES ASSUME NEW S \in SUBSET Requests, Deadlocked(S), S \cap chained = {}
             PROVE  FALSE
  BY DEF PlainWritesNeverDeadlock
<1> DEFINE L == {r \in S : phase[r] = "lock"}
           M == UNION {Due(r) : r \in L}
<1>1. ASSUME NEW r \in S
      PROVE  phase[r] \in {"graph", "lock"} /\ (phase[r] = "graph" => graph # r /\ held[r] = {})
  <2>1. Underway(r)
    BY DEF RunInv
  <2>2. phase[r] \in {"graph", "lock"}
    BY DEF Deadlocked, WaitsFor
  <2> QED
    BY <2>1, <2>2 DEF Underway, Holder, Disciplined, Bystander
<1>2. L # {}
  <2>1. PICK r \in S, s \in S : WaitsFor(r, s)
    BY DEF Deadlocked
  <2>2. phase[r] = "lock" \/ phase[s] = "lock"
    BY <1>1, <2>1 DEF WaitsFor
  <2> QED
    BY <2>2
<1>3. ASSUME NEW r \in L
      PROVE  \E s \in L : Due(r) # {} /\ Due(r) \subseteq held[s]
  <2>1. PICK s \in S : Due(r) # {} /\ Due(r) \subseteq held[s]
    BY DEF Deadlocked, WaitsFor
  <2>2. phase[s] = "lock"
    BY <1>1, <2>1
  <2> QED
    BY <2>1, <2>2
<1>4. M \subseteq Cards /\ M # {}
  BY <1>2, <1>3 DEF Due, RunTypeOK, DepTypeOK
<1>5. \A r \in L : Due(r) \subseteq M
  OBVIOUS
<1>6. \A c \in M : \E r \in L : c \in Due(r)
  OBVIOUS
<1>7. \A r \in L : r \in Requests /\ r \notin chained /\ phase[r] = "lock"
  OBVIOUS
<1> HIDE DEF L, M
<1>8. M \subseteq Nat /\ IsFiniteSet(M)
  BY <1>4, CardsAssumption, FS_Subset
<1>9. PICK g \in M : \A n \in M : n <= g
  BY <1>4, <1>8, FiniteHasGreatest
<1>10. PICK r \in L : g \in Due(r)
  BY <1>6
<1>11. PICK s \in L : g \in held[s]
  BY <1>3, <1>10
<1>12. PICK c : c \in Due(s)
  BY <1>3
<1>13. LocksInOrder(s) /\ c \in want[s] \ held[s]
  BY <1>7, <1>12, PlainWaits
<1>14. g < c
  BY <1>11, <1>13 DEF LocksInOrder
<1>15. c \in M /\ c <= g
  BY <1>5, <1>9, <1>12
<1> QED
  BY <1>8, <1>14, <1>15

\* No ring of waiting requests without one that deletes cards or ran a rule
\* (card-write-lock.ts:7-13), for any number of requests and of cards.
THEOREM UpfrontLocksAreSafe == DepSpec /\ PurgesBlockNothing => []PlainWritesNeverDeadlock
<1>1. RunTypeOK /\ GuardedGraph /\ RunInv => PlainWritesNeverDeadlock
  BY NoRing DEF GuardedGraph
<1> QED
  BY <1>1, TypesInvariance, GraphInvariance, RunInvariance, PTL

-----------------------------------------------------------------------------
(* What a commit has told. *)

LEMMA CommitTells ==
  ASSUME RunTypeOK, GraphInv, RunInv, NEW r \in Requests, Commit(r),
         NEW d \in Cards, Active(Committed, d), Active(Committed', d),
         NEW way, way = {k \in Crossing : <<k, d>> \in news[r]}
  PROVE  /\ Freed(Committed, Committed', d) => "unblocked" \in way
         /\ Freed(Committed', Committed, d) => "blocked" \in way
         /\ way = {"unblocked"} /\ <<"unblocked", d>> \notin rules => Freed(Committed, Committed', d)
         /\ way = {"blocked"} /\ <<"blocked", d>> \notin rules => Freed(Committed', Committed, d)
<1>1. Underway(r) /\ phase[r] = "next" /\ agenda[r] = <<>>
  BY DEF RunInv, Commit
<1>2. Committed' = View(r)
  BY DEF Commit, Committed, View
<1>3. CASE graph = r
  <2>1. Todo(r) = {}
    BY <1>1, ListedNone DEF Todo
  <2>2. Way(r, d) = way
    BY <2>1 DEF Way
  <2>3. Right(Committed, Committed', d, way)
    BY <1>1, <1>2, <1>3, <2>2 DEF Underway, Holder, NewsRight
  <2>4. way = {} \/ way = {"unblocked"} \/ way = {"blocked"} \/ way = Crossing
    BY DEF Crossing
  <2>5. /\ way = {"unblocked"} => Blockers(Committed, d) # {}
        /\ way = {"blocked"} => Blockers(Committed, d) = {}
        /\ way = {} => (Blockers(Committed, d) = {} <=> Blockers(Committed', d) = {})
        /\ way = {"unblocked"} /\ <<"unblocked", d>> \notin rules => Blockers(Committed', d) = {}
        /\ way = {"blocked"} /\ <<"blocked", d>> \notin rules => Blockers(Committed', d) # {}
    BY <2>3 DEF Right
  <2> QED
    BY <2>4, <2>5 DEF Freed, Crossing
<1>4. CASE graph # r
  <2>1. Clean(r)
    BY <1>1, <1>4 DEF Underway, Bystander
  <2>2. Committed' = Committed /\ way = {}
    BY <1>2, <2>1, CleanView DEF Clean
  <2> QED
    BY <2>2 DEF Freed
<1> QED
  BY <1>3, <1>4

\* A transaction tells of every active card it carried over the line, and of no
\* other that none of its rules moved (card-relations.ts).
THEOREM HandoffsAreComplete == DepSpec /\ PurgesBlockNothing => HandoffsAreTold
<1>1. RunTypeOK /\ GuardedGraph /\ RunInv =>
        [\A r \in Requests : Commit(r) =>
           \A d \in Cards : Active(Committed, d) /\ Active(Committed', d) =>
             LET way == {k \in Crossing : <<k, d>> \in news[r]}
                 only(k) == way = {k} /\ <<k, d>> \notin rules
             IN /\ Freed(Committed, Committed', d) => "unblocked" \in way
                /\ Freed(Committed', Committed, d) => "blocked" \in way
                /\ only("unblocked") => Freed(Committed, Committed', d)
                /\ only("blocked") => Freed(Committed', Committed, d)]_depVars
  <2> SUFFICES ASSUME RunTypeOK, GuardedGraph, RunInv, NEW r \in Requests, Commit(r),
                      NEW d \in Cards, Active(Committed, d), Active(Committed', d)
               PROVE  LET way == {k \in Crossing : <<k, d>> \in news[r]}
                          only(k) == way = {k} /\ <<k, d>> \notin rules
                      IN /\ Freed(Committed, Committed', d) => "unblocked" \in way
                         /\ Freed(Committed', Committed, d) => "blocked" \in way
                         /\ only("unblocked") => Freed(Committed, Committed', d)
                         /\ only("blocked") => Freed(Committed', Committed, d)
    OBVIOUS
  <2>1. PICK way : way = {k \in Crossing : <<k, d>> \in news[r]}
    OBVIOUS
  <2>2. /\ Freed(Committed, Committed', d) => "unblocked" \in way
        /\ Freed(Committed', Committed, d) => "blocked" \in way
        /\ way = {"unblocked"} /\ <<"unblocked", d>> \notin rules => Freed(Committed, Committed', d)
        /\ way = {"blocked"} /\ <<"blocked", d>> \notin rules => Freed(Committed', Committed, d)
    BY <2>1, CommitTells DEF GuardedGraph
  <2> QED
    BY <2>1, <2>2
<1> QED
  BY <1>1, TypesInvariance, GraphInvariance, RunInvariance, PTL DEF HandoffsAreTold
=============================================================================
