------------------------ MODULE WorkerProcessProofs ------------------------
(* Theorems about WorkerProcess for every set of schedulers, every choice  *)
(* of first delays and of listeners that give a failed connection back;    *)
(* about BoardMirror for every set of cards, batch size and budget; and    *)
(* about KeyedTaskQueue for every set of keys and any concurrency.         *)
EXTENDS MCWorkerProcess, FiniteSetTheorems, WellFoundedInduction, TLAPS

-----------------------------------------------------------------------------
(* The inductive invariant. *)

\* The flags of each scheduler agree with what is in flight.
SchedShape ==
  \A s \in Schedulers :
    /\ s \in running => active[s] = 1
    /\ s \notin running => active[s] = 0
    /\ s \notin stopped => (s \in running <=> s \notin timer) /\ stopPromise[s] = "none"
    /\ s \in stopped => /\ s \notin timer /\ s \notin pending
                        /\ s \in running => stopPromise[s] = "waiting"
                        /\ s \notin running => stopPromise[s] = "resolved"
    /\ s \in pending => s \in running
    /\ s \in owed /\ s \notin stopped => s \in pending

\* Who owns each connection: connect() until it settles, release() after.
ListenShape ==
  \A l \in Listeners :
    /\ phase[l] = "connecting" => l \notin held /\ returns[l] = 0
    /\ phase[l] \in {"listening", "unlistening"} => l \in held /\ returns[l] = 0
    /\ phase[l] = "settled" <=> ready[l] # "pending"
    /\ ready[l] = "null" => l \notin held /\ returns[l] <= 1
    /\ ready[l] = "client" /\ release[l] = "done" => l \notin held /\ returns[l] = 1
    /\ ready[l] = "client" /\ release[l] # "done" => l \in held /\ returns[l] = 0
    /\ release[l] = "unlistening" => ready[l] = "client"
    /\ release[l] = "done" => phase[l] = "settled"

\* How far the shutdown is says what has been stopped.
ShutdownShape ==
  shutdown = "resources" =>
    /\ \A s \in Schedulers : stopPromise[s] = "resolved"
    /\ \A l \in Listeners : release[l] = "done"

IInv == TypeOK /\ SchedShape /\ ListenShape /\ ShutdownShape

-----------------------------------------------------------------------------
\* The worker starts in the invariant.
LEMMA InitIInv == Init => IInv
  BY OwnersAssumption, ImmediateAssumption DEF Init, SchedInit, ListenInit, IInv, TypeOK, SchedTypeOK,
     ListenTypeOK, SchedShape, ListenShape, ShutdownShape

\* A turn of a scheduler keeps its shape; with every stop resolved there is
\* no such turn.
LEMMA TurnKeepsShape ==
  ASSUME IInv, NEW s \in Schedulers, TimerFires(s) \/ TaskSettles(s) \/ Trigger(s)
  PROVE  /\ SchedTypeOK' /\ SchedShape'
         /\ ~ (\A r \in Schedulers : stopPromise[r] = "resolved")
<1> USE DEF IInv
<1>1. CASE TimerFires(s)
  BY <1>1 DEF TimerFires, StartRun, TypeOK, SchedTypeOK, SchedShape
<1>2. CASE TaskSettles(s)
  <2>1. CASE s \in stopped
    BY <1>2, <2>1 DEF TaskSettles, EndRun, TypeOK, SchedTypeOK, SchedShape
  <2>2. CASE s \notin stopped /\ s \in pending
    BY <1>2, <2>2 DEF TaskSettles, EndRun, TypeOK, SchedTypeOK, SchedShape
  <2>3. CASE s \notin stopped /\ s \notin pending
    BY <1>2, <2>3 DEF TaskSettles, EndRun, TypeOK, SchedTypeOK, SchedShape
  <2> QED
    BY <2>1, <2>2, <2>3
<1>3. CASE Trigger(s)
  BY <1>3 DEF Trigger, StartRun, TypeOK, SchedTypeOK, SchedShape
<1> QED
  BY <1>1, <1>2, <1>3

\* stop() keeps the shape of the schedulers it stops.
LEMMA StopKeepsShape ==
  ASSUME IInv, NEW S \in SUBSET Schedulers, Stop(S)
  PROVE  SchedTypeOK' /\ SchedShape'
BY DEF IInv, Stop, TypeOK, SchedTypeOK, SchedShape

\* A step of a listener keeps its shape and leaves a finished release() alone.
LEMMA ListenerKeepsShape ==
  ASSUME IInv, NEW l \in Listeners, ListenStep(l) \/ ConnectionLost(l)
  PROVE  /\ ListenTypeOK' /\ ListenShape'
         /\ \A m \in Listeners : release[m] = "done" => release'[m] = "done"
<1> USE DEF IInv, TypeOK, ListenTypeOK, ListenShape
<1>1. CASE Connected(l) \/ ConnectFails(l)
  BY <1>1 DEF Connected, ConnectFails, Settle
<1>2. CASE ListenSucceeds(l) \/ ListenFails(l)
  BY <1>2 DEF ListenSucceeds, ListenFails, AfterListen, Settle, ReturnClient
<1>3. CASE ConnectUnlistened(l)
  BY <1>3 DEF ConnectUnlistened, Settle, Unlisten, ReturnClient
<1>4. CASE ReleaseResumes(l)
  BY <1>4 DEF ReleaseResumes
<1>5. CASE ReleaseUnlistened(l)
  BY <1>5 DEF ReleaseUnlistened, Unlisten, ReturnClient
<1>6. CASE ConnectionLost(l)
  BY <1>6 DEF ConnectionLost
<1> QED
  BY <1>1, <1>2, <1>3, <1>4, <1>5, <1>6 DEF ListenStep

\* release() keeps the shape of the listeners it releases.
LEMMA ReleaseKeepsShape ==
  ASSUME IInv, NEW L \in SUBSET Listeners, Release(L)
  PROVE  /\ ListenTypeOK' /\ ListenShape'
         /\ \A m \in Listeners : release[m] = "done" => release'[m] = "done"
BY DEF IInv, Release, TypeOK, ListenTypeOK, ListenShape

\* The strengthened invariant holds throughout: one step per action, each by
\* the lemma of the part it moves.
THEOREM Invariance == Spec => []IInv
<1>1. IInv /\ [Next]_vars => IInv'
  <2> SUFFICES ASSUME IInv, [Next]_vars
               PROVE  IInv'
    OBVIOUS
  <2> USE DEF IInv
  <2>1. ASSUME NEW l \in Listeners, Notified(l)
        PROVE  IInv'
    <3>1. l \in Schedulers /\ Trigger(l)
      BY <2>1, OwnersAssumption DEF Notified
    <3>2. SchedTypeOK' /\ SchedShape' /\ shutdown # "resources"
      BY <3>1, TurnKeepsShape DEF ShutdownShape
    <3> QED
      BY <2>1, <3>2 DEF Notified, listenVars, TypeOK, ListenTypeOK, ListenShape, ShutdownShape
  <2>2. ASSUME NEW l \in Listeners, ListenerTurn(l) \/ ListenerBreaks(l)
        PROVE  IInv'
    <3>1. /\ ListenTypeOK' /\ ListenShape'
          /\ \A m \in Listeners : release[m] = "done" => release'[m] = "done"
      BY <2>2, ListenerKeepsShape DEF ListenerTurn, ListenerBreaks
    <3>2. UNCHANGED <<schedVars, shutdown>>
      BY <2>2 DEF ListenerTurn, ListenerBreaks
    <3> QED
      BY <3>1, <3>2 DEF schedVars, TypeOK, SchedTypeOK, SchedShape, ShutdownShape
  <2>3. ASSUME NEW s \in Schedulers, Turn(s)
        PROVE  IInv'
    <3>1. SchedTypeOK' /\ SchedShape' /\ shutdown # "resources"
      BY <2>3, TurnKeepsShape DEF Turn, ShutdownShape
    <3> QED
      BY <2>3, <3>1 DEF Turn, listenVars, TypeOK, ListenTypeOK, ListenShape, ShutdownShape
  <2>4. CASE DeliveriesEnqueued
    <3>1. SchedTypeOK' /\ SchedShape' /\ shutdown # "resources"
      BY <2>4, OwnersAssumption, TurnKeepsShape DEF DeliveriesEnqueued, ShutdownShape
    <3> QED
      BY <2>4, <3>1
         DEF DeliveriesEnqueued, listenVars, TypeOK, ListenTypeOK, ListenShape, ShutdownShape
  <2>5. CASE Signal
    <3>1. SchedTypeOK' /\ SchedShape'
      BY <2>5, StopKeepsShape DEF Signal
    <3>2. ListenTypeOK' /\ ListenShape'
      BY <2>5, ReleaseKeepsShape, OwnersAssumption DEF Signal
    <3> QED
      BY <2>5, <3>1, <3>2 DEF Signal, TypeOK, ShutdownShape
  <2>6. CASE ReleaseMirror
    <3>1. /\ ListenTypeOK' /\ ListenShape'
          /\ \A m \in Listeners : release[m] = "done" => release'[m] = "done"
      BY <2>6, ReleaseKeepsShape, OwnersAssumption DEF ReleaseMirror
    <3> QED
      BY <2>6, <3>1 DEF ReleaseMirror, schedVars, TypeOK, SchedTypeOK, SchedShape, ShutdownShape
  <2>7. CASE CloseResources \/ PoolEnds \/ SecondSignal \/ UNCHANGED vars
    BY <2>7 DEF CloseResources, PoolEnds, SecondSignal, vars, schedVars, listenVars, TypeOK,
       SchedTypeOK, ListenTypeOK, SchedShape, ListenShape, ShutdownShape
  <2> QED
    BY <2>1, <2>2, <2>3, <2>4, <2>5, <2>6, <2>7 DEF Next
<1> QED
  BY InitIInv, <1>1, PTL DEF Spec

\* Type correctness of every reachable state.
THEOREM TypeCorrect == Spec => []TypeOK
<1>1. IInv => TypeOK
  BY DEF IInv
<1> QED
  BY <1>1, Invariance, PTL

\* The product invariant of every sweeper: a run never overlaps itself.
THEOREM SingleFlight == Spec => []NeverOverlaps
<1>1. ASSUME IInv, NEW s \in Schedulers
      PROVE  active[s] <= 1 /\ (s \in running <=> active[s] = 1)
  <2>1. s \in running => active[s] = 1
    BY <1>1 DEF IInv, SchedShape
  <2>2. s \notin running => active[s] = 0
    BY <1>1 DEF IInv, SchedShape
  <2> QED
    BY <2>1, <2>2
<1>2. IInv => NeverOverlaps
  BY <1>1 DEF NeverOverlaps
<1> QED
  BY <1>2, Invariance, PTL

\* No interleaving of wakes, timers and failures leaves a scheduler dead.
THEOREM NeverStalls == Spec => []StaysAlive
<1>1. IInv => StaysAlive
  BY DEF IInv, SchedShape, StaysAlive
<1> QED
  BY <1>1, Invariance, PTL

\* A listener's connection is returned at most once, by whoever comes last.
THEOREM NoDoubleReturn == Spec => []ReturnedOnce
<1>1. IInv => ReturnedOnce
  BY DEF IInv, TypeOK, ListenTypeOK, ListenShape, ReturnedOnce
<1> QED
  BY <1>1, Invariance, PTL

\* A stop() that has resolved leaves no task behind, and no wake starts one.
THEOREM StopsAreDrained == Spec => []StopDrains
<1>1. ASSUME IInv, NEW s \in Schedulers, stopPromise[s] = "resolved"
      PROVE  active[s] = 0
  <2>1. s \in stopped /\ s \notin running
    BY <1>1 DEF IInv, SchedShape
  <2> QED
    BY <1>1, <2>1 DEF IInv, SchedShape
<1>2. IInv => StopDrains
  BY <1>1 DEF StopDrains
<1> QED
  BY <1>2, Invariance, PTL

\* A release() that has resolved leaves nothing checked out, whatever connect()
\* was doing when it was called.
THEOREM ReleasesAreFinal == Spec => []ReleaseIsFinal
<1>1. IInv => ReleaseIsFinal
  BY DEF IInv, TypeOK, ListenTypeOK, ListenShape, ReleaseIsFinal
<1> QED
  BY <1>1, Invariance, PTL

\* The pool is closed only after the last task and the last connection.
THEOREM PoolIsLast == Spec => []PoolOutlivesWork
<1>1. IInv => PoolOutlivesWork
  <2> SUFFICES ASSUME IInv, shutdown = "resources"
               PROVE  /\ \A s \in Schedulers : active[s] = 0 /\ s \in stopped
                      /\ \A l \in Listeners : l \notin held /\ phase[l] = "settled"
    BY DEF PoolOutlivesWork
  <2>1. ASSUME NEW s \in Schedulers
        PROVE  active[s] = 0 /\ s \in stopped
    <3>1. stopPromise[s] = "resolved"
      BY DEF IInv, ShutdownShape
    <3>2. s \in stopped /\ s \notin running
      BY <3>1 DEF IInv, SchedShape
    <3> QED
      BY <3>2 DEF IInv, SchedShape
  <2>2. ASSUME NEW l \in Listeners
        PROVE  l \notin held /\ phase[l] = "settled"
    BY DEF IInv, TypeOK, ListenTypeOK, ListenShape, ShutdownShape
  <2> QED
    BY <2>1, <2>2
<1> QED
  BY <1>1, Invariance, PTL

-----------------------------------------------------------------------------
(* Why a shutdown ends.  That it does is a matter of fairness; what the     *)
(* fairness works on is proved: there is always a step to take, and every   *)
(* step uses up some of a stock that nothing refills.                       *)

\* Once the signal came every scheduler is stopped and the outbox listener is
\* being released.
ClosingShape == Closing => stopped = Schedulers /\ release[Outbox] # "none"

LEMMA ClosingInvariance == Spec => []ClosingShape
<1>1. Init => ClosingShape
  BY DEF Init, ClosingShape, Closing
<1>2. IInv /\ ClosingShape /\ [Next]_vars => ClosingShape'
  <2> SUFFICES ASSUME IInv, ClosingShape, [Next]_vars, Closing'
               PROVE  stopped' = Schedulers /\ release'[Outbox] # "none"
    BY DEF ClosingShape
  <2> USE DEF ClosingShape, Closing
  <2>t. /\ stopped \subseteq Schedulers /\ Outbox \in Listeners
        /\ release \in [Listeners -> {"none", "waiting", "unlistening", "done"}]
    BY OwnersAssumption DEF IInv, TypeOK, SchedTypeOK, ListenTypeOK
  <2>1. ASSUME NEW s \in Schedulers, Trigger(s) \/ Turn(s)
        PROVE  stopped' = stopped
    BY <2>1 DEF Trigger, Turn, TimerFires, TaskSettles
  <2>2. ASSUME NEW l \in Listeners, ListenerTurn(l) \/ ListenerBreaks(l)
        PROVE  stopped' = stopped /\ shutdown' = shutdown
               /\ (release[Outbox] # "none" => release'[Outbox] # "none")
    <3>1. CASE ListenerBreaks(l)
      BY <3>1 DEF ListenerBreaks, ConnectionLost, schedVars
    <3>2. CASE ListenerTurn(l)
      BY <3>2, <2>t DEF ListenerTurn, ListenStep, Connected, ConnectFails, ListenSucceeds, ListenFails,
         ConnectUnlistened, ReleaseResumes, ReleaseUnlistened, schedVars
    <3> QED
      BY <2>2, <3>1, <3>2
  <2>3. CASE Signal
    BY <2>3, <2>t DEF Signal, Stop, Release
  <2>4. CASE ReleaseMirror
    BY <2>4, <2>t DEF ReleaseMirror, Release, schedVars
  <2>5. CASE CloseResources \/ PoolEnds \/ SecondSignal \/ UNCHANGED vars
    BY <2>5 DEF CloseResources, PoolEnds, SecondSignal, vars, schedVars, listenVars
  <2>6. ASSUME NEW l \in Listeners, Notified(l)
        PROVE  stopped' = stopped /\ UNCHANGED <<listenVars, shutdown>>
    BY <2>6, <2>1, OwnersAssumption DEF Notified
  <2>7. CASE DeliveriesEnqueued
    BY <2>7, <2>1, OwnersAssumption DEF DeliveriesEnqueued, listenVars
  <2>8. ASSUME NEW s \in Schedulers, Turn(s)
        PROVE  stopped' = stopped /\ UNCHANGED <<listenVars, shutdown>>
    BY <2>8, <2>1 DEF Turn
  <2> QED
    BY <2>2, <2>3, <2>4, <2>5, <2>6, <2>7, <2>8 DEF Next, listenVars
<1> QED
  BY <1>1, <1>2, Invariance, PTL DEF Spec

\* A shutdown is never stuck: while it lasts a task can settle, a connect() or
\* release() can go on, or close() can reach its next stage.
THEOREM ShutdownNeverStuck == Spec => []NeverStuck
<1>1. IInv /\ ClosingShape => NeverStuck
  <2> SUFFICES ASSUME IInv, ClosingShape, Closing, ~WorkAhead
               PROVE  FALSE
    BY DEF NeverStuck
  <2>1. shutdown # "resources"
    <3> SUFFICES ASSUME shutdown = "resources"
                 PROVE  held = {}
      BY DEF WorkAhead
    <3> QED
      BY DEF IInv, TypeOK, ListenTypeOK, ListenShape, ShutdownShape
  <2>2. \A s \in Schedulers : stopPromise[s] = "resolved"
    BY DEF WorkAhead, ClosingShape, IInv, SchedShape
  <2>3. \A l \in Listeners : ready[l] # "pending" /\ release[l] \in {"none", "done"}
    BY DEF WorkAhead, IInv, TypeOK, ListenTypeOK, ListenShape
  <2>4. release[Mirror] = "done" /\ release[Outbox] = "done"
    BY <2>2, <2>3, OwnersAssumption DEF WorkAhead, ClosingShape
  <2>5. shutdown = "stopping"
    BY <2>1 DEF Closing
  <2> QED
    BY <2>2, <2>4, <2>5, OwnersAssumption DEF WorkAhead
<1> QED
  BY <1>1, Invariance, ClosingInvariance, PTL

\* Every step of a shutdown but the break of a connection uses up work, and
\* none adds any.
THEOREM ShutdownDescends == Spec => ShutdownUsesUpWork
<1>1. ASSUME IInv, ClosingShape, Closing, [Next]_vars, vars' # vars
      PROVE  Descends /\ (Advances \/ \E l \in Listeners : ListenerBreaks(l))
  <2> USE <1>1
  <2>t. /\ Outbox \in Listeners /\ Mirror \in Listeners
        /\ phase \in [Listeners -> {"connecting", "listening", "unlistening", "settled"}]
        /\ release \in [Listeners -> {"none", "waiting", "unlistening", "done"}]
    BY OwnersAssumption DEF IInv, TypeOK, ListenTypeOK
  <2>s. stopped = Schedulers
    BY DEF ClosingShape
  <2> USE DEF ConnectLeft, ReleaseLeft
  <2>n. UNCHANGED <<phase, release>> =>
          \A l \in Listeners : ConnectLeft(l)' <= ConnectLeft(l) /\ ReleaseLeft(l)' <= ReleaseLeft(l)
    BY <2>t
  <2>1. ASSUME NEW l \in Listeners, Notified(l)
        PROVE  FALSE
    BY <2>1, <2>s, OwnersAssumption DEF Notified, Trigger
  <2>2. CASE DeliveriesEnqueued
    BY <2>2, <2>s, OwnersAssumption DEF DeliveriesEnqueued, Trigger
  <2>3. ASSUME NEW s \in Schedulers, Turn(s)
        PROVE  Descends /\ Advances
    <3>1. s \in running /\ running' = running \ {s} /\ UNCHANGED <<phase, release, shutdown>>
      BY <2>3, <2>s DEF Turn, TimerFires, TaskSettles, EndRun, listenVars
    <3> QED
      BY <3>1, <2>n DEF Descends, Advances
  <2>4. ASSUME NEW l \in Listeners, ListenerTurn(l)
        PROVE  Descends /\ Advances
    <3>1. UNCHANGED <<running, shutdown>>
      BY <2>4 DEF ListenerTurn, schedVars
    <3>2. CASE Connected(l) \/ ConnectFails(l)
      BY <3>1, <3>2, <2>t DEF Connected, ConnectFails, Settle, Descends, Advances
    <3>3. CASE ListenSucceeds(l) \/ ListenFails(l)
      BY <3>1, <3>3, <2>t DEF ListenSucceeds, ListenFails, AfterListen, Settle, Descends, Advances
    <3>4. CASE ConnectUnlistened(l)
      BY <3>1, <3>4, <2>t DEF ConnectUnlistened, Settle, Descends, Advances
    <3>5. CASE ReleaseResumes(l) \/ ReleaseUnlistened(l)
      BY <3>1, <3>5, <2>t DEF ReleaseResumes, ReleaseUnlistened, Descends, Advances
    <3> QED
      BY <2>4, <3>2, <3>3, <3>4, <3>5 DEF ListenerTurn, ListenStep
  <2>5. ASSUME NEW l \in Listeners, ListenerBreaks(l)
        PROVE  Descends
    BY <2>5, <2>n DEF ListenerBreaks, ConnectionLost, schedVars, Descends
  <2>6. CASE Signal
    BY <2>6 DEF Signal, Closing
  <2>7. CASE ReleaseMirror
    BY <2>7, <2>t DEF ReleaseMirror, Release, schedVars, Descends, Advances
  <2>8. CASE CloseResources \/ PoolEnds \/ SecondSignal
    BY <2>8, <2>n DEF CloseResources, PoolEnds, SecondSignal, schedVars, listenVars, Descends, Advances
  <2> QED
    BY <2>1, <2>2, <2>3, <2>4, <2>5, <2>6, <2>7, <2>8 DEF Next
<1>2. IInv /\ ClosingShape /\ [Next]_vars =>
        [Closing => Descends /\ (Advances \/ \E l \in Listeners : ListenerBreaks(l))]_vars
  BY <1>1
<1> QED
  BY <1>2, Invariance, ClosingInvariance, PTL DEF Spec, ShutdownUsesUpWork

\* A wake that came during a run is not lost when the run ends, in whatever
\* order timers, other wakes and a signal arrive: with a task that ends, it is
\* serviced.
THEOREM WakesAreCarried == Spec => WakeIsCarried
<1>1. IInv /\ [Next]_vars =>
        [\A s \in owed \ stopped :
           s \in running /\ s \in running' /\ (TaskSettles(s) => s \notin owed')]_schedVars
  <2> SUFFICES ASSUME IInv, Next, NEW s \in owed \ stopped
               PROVE  s \in running /\ s \in running' /\ (TaskSettles(s) => s \notin owed')
    BY DEF vars
  <2>1. s \in Schedulers /\ s \in running /\ s \in pending
    BY DEF IInv, TypeOK, SchedTypeOK, SchedShape
  <2>2. TaskSettles(s) => s \in running' /\ s \notin owed'
    BY <2>1 DEF TaskSettles
  <2>3. ASSUME NEW x, Trigger(x)
        PROVE  s \in running'
    BY <2>1, <2>3 DEF Trigger, StartRun
  <2>4. ASSUME NEW x \in Schedulers, Turn(x)
        PROVE  s \in running'
    <3>1. CASE x = s
      BY <2>1, <2>2, <2>4, <3>1 DEF Turn, TimerFires
    <3>2. CASE x # s
      BY <2>1, <2>4, <3>2 DEF Turn, TimerFires, StartRun, TaskSettles, EndRun
    <3> QED
      BY <3>1, <3>2
  <2>5. s \in running'
    BY <2>1, <2>3, <2>4
    DEF Next, Notified, DeliveriesEnqueued, ListenerTurn, ListenerBreaks, Signal, Stop,
        ReleaseMirror, CloseResources, PoolEnds, SecondSignal, schedVars
  <2> QED
    BY <2>1, <2>2, <2>5
<1> QED
  BY <1>1, Invariance, PTL DEF Spec, WakeIsCarried

-----------------------------------------------------------------------------
(* Board mirrors.                                                          *)

Requests == {"asked", "gap"}
Reconciling == mirrorStep \in {"reconcile", "clear"}

MirrorTypes == MirrorTypeOK /\ IsFiniteSet(mirrorTail)

\* No cursor is ahead of the clock, nor a run's ahead of the row's.
MirrorClocks ==
  /\ cursorAt <= mirrorClock
  /\ mirrorStep # "idle" => mirrorCopy.cursor <= cursorAt
  /\ \A e \in mirrorTail \cup openRows : e[1] <= mirrorClock

\* What a run has read of the marks, and what of it still stands.
CopiedMarks ==
  /\ mirrorStep \in {"start", "reconcile", "clear"} =>
       mirrorCopy.marks \cap Requests \subseteq mirrorMarks
  /\ Reconciling => mirrorCopy.marks \cap Requests # {}
  /\ mirrorStep # "idle" /\ "gap" \in mirrorMarks => "gap" \in mirrorCopy.marks
  /\ mirrorStep = "tail" => "gap" \notin mirrorMarks

\* Cards are at hand only where they are converged, parked ones never.
MirrorJobs ==
  /\ mirrorStep \notin {"reconcile", "apply"} => mirrorTodo = {} /\ sourceSeen = Nothing
  /\ sourceSeen # Nothing => sourceSeen[1] \in mirrorTodo
  /\ mirrorStep = "apply" => \A c \in mirrorTodo : dirtyTries[c] < MaxDirty

\* Why a row, to come or there, or a request will lead to the card, at each stage
\* of a run.  A reconcile will clear the request, so a request is no reason while
\* it runs.
Announced(c) ==
  \/ Unannounced(c)
  \/ Reconciling /\ Ahead(c, mirrorCopy.cursor)
  \/ mirrorStep = "tail" /\ ("asked" \in mirrorMarks \/ Ahead(c, mirrorCopy.cursor))
  \/ /\ ~Reconciling /\ mirrorStep # "tail"
     /\ mirrorMarks \cap Requests # {} \/ Ahead(c, cursorAt)

Traced(c) ==
  \/ dirtyTries[c] # NoRow
  \/ mirrorStep = "reconcile" /\ c \in mirrorTodo
  \/ Announced(c)

Lags(c) == targetRev[c] # sourceRev[c] /\ c \notin unheard

LaggardsAreTraced == \A c \in SourceCards : Lags(c) => Traced(c)

\* What was read and is outdated by now will be read again.
ReadsAreTraced ==
  sourceSeen # Nothing =>
    (sourceSeen[2] # sourceRev[sourceSeen[1]] /\ sourceSeen[1] \notin unheard
       => Announced(sourceSeen[1]))

MirrorInv ==
  /\ MirrorTypes /\ MirrorClocks /\ CopiedMarks /\ MirrorJobs
  /\ ~forgotten => LaggardsAreTraced /\ ReadsAreTraced

\* A set of numbers below a bound has a greatest one, and any set a least one.
LEMMA LeastExists ==
  ASSUME NEW S, S \subseteq Nat, S # {}
  PROVE  \E x \in S : \A y \in S : x <= y
<1>1. PICK x \in S : \A y \in S : ~ (<<y, x>> \in OpToRel(<, Nat))
  BY NatLessThanWellFounded, WFMin, Zenon
<1>2. \A y \in S : x <= y
  <2> TAKE y \in S
  <2>1. ~ (y < x)
    <3> SUFFICES ASSUME y < x PROVE FALSE
      OBVIOUS
    <3>1. <<y, x>> \in OpToRel(<, Nat)
      BY Zenon DEF OpToRel
    <3> QED
      BY <1>1, <3>1, Zenon
  <2> QED
    BY <2>1
<1> QED
  BY <1>2

LEMMA GreatestExists ==
  ASSUME NEW S, S \subseteq Nat, S # {}, NEW n \in Nat, \A x \in S : x <= n
  PROVE  \E x \in S : \A y \in S : y <= x
<1> DEFINE R == {n - x : x \in S}
<1>1. R \subseteq Nat /\ R # {}
  <2>1. \A x \in S : n - x \in Nat
    OBVIOUS
  <2> QED
    BY <2>1
<1> HIDE DEF R
<1>2. PICK r \in R : \A y \in R : r <= y
  BY <1>1, LeastExists
<1>3. PICK x \in S : r = n - x
  BY DEF R
<1>4. ASSUME NEW y \in S PROVE y <= x
  <2>1. n - y \in R
    BY DEF R
  <2> QED
    BY <1>2, <1>3, <2>1
<1> QED
  BY <1>4

-----------------------------------------------------------------------------
(* What a tail transaction reads.                                          *)

Batch == {e \in Beyond(mirrorCopy.cursor) :
            Cardinality({f \in Beyond(mirrorCopy.cursor) : f[1] < e[1]}) < TailBatch}

\* The cursor goes to the last event of the batch, and none is left out before it.
LEMMA BatchIsAPrefix ==
  ASSUME MirrorInv, EnqueueDirtySignals
  PROVE  /\ \A e \in Batch : e \in mirrorTail /\ mirrorCopy.cursor < e[1]
         /\ Batch = {} => cursorAt' = cursorAt /\ Beyond(mirrorCopy.cursor) = {}
         /\ Batch # {} => \E e \in Batch : /\ cursorAt' = e[1]
                                          /\ \A f \in Beyond(mirrorCopy.cursor) :
                                               f[1] <= e[1] => f \in Batch
<1> DEFINE B == Beyond(mirrorCopy.cursor)
<1> DEFINE Earlier(e) == {f \in B : f[1] < e[1]}
<1>1. /\ \A e \in mirrorTail : e[1] \in Nat /\ e[1] <= mirrorClock
      /\ IsFiniteSet(mirrorTail) /\ mirrorClock \in Nat /\ TailBatch \in Nat /\ TailBatch > 0
  BY MirrorAssumption DEF MirrorInv, MirrorTypes, MirrorTypeOK, MirrorClocks
<1>2. B \subseteq mirrorTail /\ \A e \in B : mirrorCopy.cursor < e[1]
  BY DEF Beyond
<1>3. IsFiniteSet(B) /\ \A e \in B : IsFiniteSet(Earlier(e)) /\ Cardinality(Earlier(e)) \in Nat
  <2>1. IsFiniteSet(B)
    BY <1>1, <1>2, FS_Subset
  <2>2. \A e \in B : Earlier(e) \in SUBSET B
    OBVIOUS
  <2> HIDE DEF Earlier, B
  <2>3. \A e \in B : IsFiniteSet(Earlier(e))
    BY <2>1, <2>2, FS_Subset
  <2> QED
    BY <2>1, <2>3, FS_CardinalityType
<1>4. Batch = {e \in B : Cardinality(Earlier(e)) < TailBatch}
  BY DEF Batch
<1>5. cursorAt' = IF Batch = {} THEN cursorAt
                  ELSE CHOOSE t \in {e[1] : e \in Batch} : \A e \in Batch : e[1] <= t
  BY DEF EnqueueDirtySignals, Batch
<1> HIDE DEF B, Earlier
<1>6. B # {} => Batch # {}
  <2> SUFFICES ASSUME B # {} PROVE Batch # {}
    OBVIOUS
  <2>1. {e[1] : e \in B} \subseteq Nat /\ {e[1] : e \in B} # {}
    BY <1>1, <1>2
  <2>2. PICK x \in {e[1] : e \in B} : \A y \in {e[1] : e \in B} : x <= y
    BY <2>1, LeastExists
  <2>3. PICK e \in B : x = e[1]
    BY <2>2
  <2>4. \A f \in B : ~(f[1] < e[1])
    BY <1>1, <1>2, <2>2, <2>3
  <2>5. Earlier(e) = {}
    BY <2>4 DEF Earlier
  <2>6. Cardinality(Earlier(e)) = 0
    BY <2>5, FS_EmptySet
  <2> QED
    BY <1>1, <1>4, <2>3, <2>6
<1>7. ASSUME Batch # {}
      PROVE  \E e \in Batch : cursorAt' = e[1] /\ \A f \in Batch : f[1] <= e[1]
  <2> DEFINE S == {e[1] : e \in Batch}
  <2>1. S \subseteq Nat /\ S # {} /\ \A x \in S : x <= mirrorClock
    BY <1>1, <1>2, <1>4, <1>7
  <2>2. \E t \in S : \A y \in S : y <= t
    BY <1>1, <2>1, GreatestExists
  <2>3. \E t \in S : \A e \in Batch : e[1] <= t
    BY <2>2
  <2>4. cursorAt' \in S /\ \A e \in Batch : e[1] <= cursorAt'
    BY <1>5, <1>7, <2>3
  <2> QED
    BY <2>4
<1>8. ASSUME NEW e \in Batch, NEW f \in B, f[1] <= e[1] PROVE f \in Batch
  <2>1. e \in B /\ e[1] \in Nat /\ f[1] \in Nat /\ \A g \in B : g[1] \in Nat
    BY <1>1, <1>2, <1>4
  <2>2. Earlier(f) \in SUBSET Earlier(e)
    BY <1>8, <2>1 DEF Earlier
  <2>3. Cardinality(Earlier(f)) <= Cardinality(Earlier(e))
    BY <1>3, <2>1, <2>2, FS_Subset
  <2> QED
    BY <1>1, <1>3, <1>4, <2>1, <2>3
<1>9. \A e \in Batch : e \in mirrorTail /\ mirrorCopy.cursor < e[1]
  BY <1>2, <1>4
<1>10. Batch = {} => cursorAt' = cursorAt /\ B = {}
  BY <1>5, <1>6
<1>11. ASSUME Batch # {}
       PROVE  \E e \in Batch : cursorAt' = e[1] /\ \A f \in B : f[1] <= e[1] => f \in Batch
  BY <1>7, <1>8, <1>11
<1> QED
  BY <1>9, <1>10, <1>11 DEF B

-----------------------------------------------------------------------------
(* The parts that do not speak of traces.                                  *)

LEMMA MirrorTypesKept ==
  ASSUME MirrorInv, MirrorNext PROVE MirrorTypes'
<1> USE DEF mirrorRow, mirrorDirty, mirrorRun, mirrorSource, mirrorEnv
<1>1. /\ MaxDirty \in Nat /\ MaxDirty > 0 /\ NoRow \in Nat /\ NoRow = MaxDirty + 1
  BY MirrorAssumption DEF NoRow
<1>2. MirrorTypeOK /\ IsFiniteSet(mirrorTail)
  BY DEF MirrorInv, MirrorTypes
<1>3. ASSUME NEW c \in SourceCards, EditCommits(c) PROVE MirrorTypes'
  <2>1. sourceRev' \in [SourceCards -> Nat] /\ sourceRev'[c] \in Nat
    BY <1>2, <1>3 DEF EditCommits, MirrorTypeOK
  <2>2. unannounced' \subseteq Nat \X SourceCards
    BY <1>2, <1>3, <2>1 DEF EditCommits, MirrorTypeOK
  <2> QED
    BY <1>2, <1>3, <2>1, <2>2 DEF EditCommits, MirrorTypes, MirrorTypeOK
<1>4. ASSUME NEW a \in unannounced, AnnounceStarts(a) PROVE MirrorTypes'
  <2>1. a[2] \in SourceCards /\ mirrorClock' \in Nat
    BY <1>2, <1>4 DEF AnnounceStarts, MirrorTypeOK
  <2>2. openRows' \subseteq Nat \X SourceCards /\ unannounced' \subseteq Nat \X SourceCards
    BY <1>2, <1>4, <2>1 DEF AnnounceStarts, MirrorTypeOK
  <2> QED
    BY <1>2, <1>4, <2>1, <2>2 DEF AnnounceStarts, MirrorTypes, MirrorTypeOK
<1>20. ASSUME NEW e \in openRows, AnnounceCommits(e) PROVE MirrorTypes'
  <2>1. e \in Nat \X SourceCards /\ e[2] \in SourceCards
    BY <1>2 DEF MirrorTypeOK
  <2>2. IsFiniteSet(mirrorTail \cup {e})
    BY <1>2, FS_AddElement
  <2>3. openRows' \subseteq Nat \X SourceCards /\ mirrorTail' \subseteq Nat \X SourceCards
    BY <1>2, <1>20, <2>1 DEF AnnounceCommits, MirrorTypeOK
  <2>4. unheard' \subseteq SourceCards
    BY <1>2, <1>20, <2>1 DEF AnnounceCommits, MirrorTypeOK
  <2> QED
    BY <1>2, <1>20, <2>2, <2>3, <2>4 DEF AnnounceCommits, MirrorTypes, MirrorTypeOK
<1>21. ASSUME AnnouncementsLost PROVE MirrorTypes'
  <2>1. PICK A \in SUBSET unannounced, R \in SUBSET openRows :
          /\ unannounced' = unannounced \ A
          /\ openRows' = openRows \ R
          /\ unheard' = unheard \cup {x[2] : x \in A \cup R}
    BY <1>21 DEF AnnouncementsLost
  <2>2. {x[2] : x \in A \cup R} \subseteq SourceCards
    BY <1>2 DEF MirrorTypeOK
  <2>3. /\ unannounced' \subseteq Nat \X SourceCards /\ openRows' \subseteq Nat \X SourceCards
        /\ unheard' \subseteq SourceCards
    BY <1>2, <2>1, <2>2 DEF MirrorTypeOK
  <2> QED
    BY <1>2, <1>21, <2>3 DEF AnnouncementsLost, MirrorFault, MirrorTypes, MirrorTypeOK
<1>5. ASSUME RetentionPasses PROVE MirrorTypes'
  BY <1>2, <1>5, FS_EmptySet
     DEF RetentionPasses, MirrorAct, Marks, MirrorTypes, MirrorTypeOK
<1>6. ASSUME NEW cause \in Causes, SwitchOff(cause) \/ Resume(cause) PROVE MirrorTypes'
  <2>1. CASE SwitchOff(cause)
    <3>1. mirrorOff' \subseteq Causes /\ mirrorActs' \in Nat
      BY <1>2, <2>1 DEF SwitchOff, MirrorAct, MirrorTypeOK
    <3> QED
      BY <1>2, <2>1, <3>1 DEF SwitchOff, MirrorTypes, MirrorTypeOK
  <2>2. CASE Resume(cause)
    <3>1. mirrorOff' \subseteq Causes /\ mirrorMarks' \subseteq Marks /\ cursorAt' \in Nat
      BY <1>2, <2>2 DEF Resume, Marks, MirrorTypeOK
    <3> QED
      BY <1>2, <2>2, <3>1 DEF Resume, MirrorTypes, MirrorTypeOK
  <2> QED
    BY <1>6, <2>1, <2>2
<1>7. ASSUME Upgrade \/ BackoffPasses PROVE MirrorTypes'
  BY <1>2, <1>7 DEF Upgrade, BackoffPasses, MirrorTypes, MirrorTypeOK
<1>8. ASSUME NEW c \in SourceCards, DirtyWaitPasses(c) PROVE MirrorTypes'
  BY <1>2, <1>8 DEF DirtyWaitPasses, MirrorTypes, MirrorTypeOK
<1>9. ASSUME Observe PROVE MirrorTypes'
  BY <1>2, <1>9 DEF Observe, MirrorSteps, MirrorTypes, MirrorTypeOK
<1>10. ASSUME StartDrain PROVE MirrorTypes'
  <2>1. dirtyTries' \in [SourceCards -> 0..NoRow] /\ dirtyWaits' \subseteq SourceCards
    BY <1>1, <1>2, <1>10 DEF StartDrain, MirrorTypeOK
  <2>2. mirrorTodo' \subseteq SourceCards /\ mirrorStep' \in MirrorSteps
    BY <1>2, <1>10 DEF StartDrain, MirrorSteps, MirrorTypeOK
  <2> QED
    BY <1>2, <1>10, <2>1, <2>2 DEF StartDrain, MirrorTypes, MirrorTypeOK
<1>11. ASSUME ReadSource PROVE MirrorTypes'
  <2>1. PICK c \in mirrorTodo : sourceSeen' = <<c, sourceRev[c]>>
    BY <1>11 DEF ReadSource
  <2>2. sourceSeen' \in SourceCards \X Nat
    BY <1>2, <2>1 DEF MirrorTypeOK
  <2> QED
    BY <1>2, <1>11, <2>2 DEF ReadSource, MirrorTypes, MirrorTypeOK
<1>12. ASSUME sourceSeen # Nothing
       PROVE  sourceSeen[1] \in SourceCards /\ sourceSeen[2] \in Nat
  BY <1>2, <1>12 DEF MirrorTypeOK
<1>13. ASSUME WriteCopy PROVE MirrorTypes'
  <2>1. sourceSeen[1] \in SourceCards /\ sourceSeen[2] \in Nat
    BY <1>12, <1>13 DEF WriteCopy
  <2>2. targetRev' \in [SourceCards -> Nat]
    BY <1>2, <1>13, <2>1 DEF WriteCopy, MirrorTypeOK
  <2>3. dirtyTries' \in [SourceCards -> 0..NoRow] /\ dirtyWaits' \subseteq SourceCards
    BY <1>1, <1>2, <1>13, <2>1 DEF WriteCopy, MirrorTypeOK
  <2>4. mirrorTodo' \subseteq SourceCards /\ sourceSeen' = Nothing /\ unheard' \subseteq SourceCards
    BY <1>2, <1>13 DEF WriteCopy, MirrorTypeOK
  <2> QED
    BY <1>2, <1>13, <2>2, <2>3, <2>4 DEF WriteCopy, MirrorTypes, MirrorTypeOK
<1>14. ASSUME FailCard PROVE MirrorTypes'
  <2>1. sourceSeen[1] \in SourceCards /\ sourceSeen # Nothing
    BY <1>12, <1>14 DEF FailCard
  <2>2. mirrorStep = "apply" => dirtyTries[sourceSeen[1]] < MaxDirty
    BY <2>1 DEF MirrorInv, MirrorJobs
  <2>3. CASE mirrorStep = "apply"
    <3>1. PICK n \in {dirtyTries[sourceSeen[1]] + 1, MaxDirty} :
            /\ dirtyTries' = [dirtyTries EXCEPT ![sourceSeen[1]] = n]
            /\ dirtyWaits' = IF n < MaxDirty THEN dirtyWaits \cup {sourceSeen[1]}
                                             ELSE dirtyWaits \ {sourceSeen[1]}
      BY <1>14, <2>3 DEF FailCard
    <3>2. dirtyTries[sourceSeen[1]] \in 0..NoRow
      BY <1>2, <2>1 DEF MirrorTypeOK
    <3>3. n \in 0..NoRow
      BY <1>1, <2>2, <2>3, <3>1, <3>2
    <3>4. dirtyTries' \in [SourceCards -> 0..NoRow] /\ dirtyWaits' \subseteq SourceCards
      BY <1>2, <2>1, <3>1, <3>3 DEF MirrorTypeOK
    <3> QED
      BY <1>2, <1>14, <3>4 DEF FailCard, MirrorFault, MirrorTypes, MirrorTypeOK
  <2>4. CASE mirrorStep # "apply"
    <3>1. dirtyTries' \in [SourceCards -> 0..NoRow] /\ dirtyWaits' \subseteq SourceCards
      BY <1>1, <1>2, <1>14, <2>1, <2>4 DEF FailCard, MirrorTypeOK
    <3> QED
      BY <1>2, <1>14, <3>1 DEF FailCard, MirrorFault, MirrorTypes, MirrorTypeOK
  <2> QED
    BY <2>3, <2>4
<1>15. ASSUME ReconcileDone \/ ClearRequest \/ Checkpoint \/ RunEnds PROVE MirrorTypes'
  BY <1>2, <1>15 DEF ReconcileDone, ClearRequest, Checkpoint, RunEnds, MirrorSteps,
                     MirrorTypes, MirrorTypeOK
<1>16. ASSUME SelectDirty PROVE MirrorTypes'
  BY <1>2, <1>16 DEF SelectDirty, MirrorSteps, MirrorTypes, MirrorTypeOK
<1>17. ASSUME EnqueueDirtySignals PROVE MirrorTypes'
  <2>1. cursorAt' \in Nat
    <3>1. CASE Batch = {}
      BY <1>2, <1>17, <3>1, BatchIsAPrefix DEF MirrorTypeOK
    <3>2. CASE Batch # {}
      <4>1. PICK e \in mirrorTail : cursorAt' = e[1]
        BY <1>17, <3>2, BatchIsAPrefix
      <4> QED
        BY <1>2, <4>1 DEF MirrorTypeOK
    <3> QED
      BY <3>1, <3>2
  <2>2. dirtyTries' \in [SourceCards -> 0..NoRow] /\ dirtyWaits' \subseteq SourceCards
    <3>1. PICK cards : /\ dirtyTries' = [c \in SourceCards |->
                                           IF c \in cards THEN 0 ELSE dirtyTries[c]]
                       /\ dirtyWaits' = dirtyWaits \ cards
      BY <1>17 DEF EnqueueDirtySignals
    <3> QED
      BY <1>1, <1>2, <3>1 DEF MirrorTypeOK
  <2>3. mirrorMarks' \subseteq Marks /\ mirrorStep' \in MirrorSteps
    BY <1>2, <1>17 DEF EnqueueDirtySignals, MirrorSteps, MirrorTypeOK
  <2>4. /\ UNCHANGED <<targetRev, mirrorOff, mirrorRun, mirrorEnv, forgotten,
                       mirrorFaults, mirrorActs>>
    BY <1>17 DEF EnqueueDirtySignals
  <2> QED
    BY <1>2, <2>1, <2>2, <2>3, <2>4 DEF MirrorTypes, MirrorTypeOK
<1>18. ASSUME FailDrain PROVE MirrorTypes'
  BY <1>2, <1>18 DEF FailDrain, MirrorFault, Forgets, Marks, MirrorSteps, MirrorTypes, MirrorTypeOK
<1>19. ASSUME WorkerDies PROVE MirrorTypes'
  BY <1>2, <1>19 DEF WorkerDies, MirrorFault, Forgets, MirrorSteps, MirrorTypes, MirrorTypeOK
<1> QED
  BY <1>3, <1>4, <1>5, <1>6, <1>7, <1>8, <1>9, <1>10, <1>11, <1>13, <1>14, <1>15, <1>16,
     <1>17, <1>18, <1>19, <1>20, <1>21 DEF MirrorNext, MirrorWork, Announce

LEMMA MirrorClocksKept ==
  ASSUME MirrorInv, MirrorNext PROVE MirrorClocks'
<1> USE DEF mirrorRow, mirrorDirty, mirrorRun, mirrorSource, mirrorEnv
<1>1. /\ mirrorClock \in Nat /\ cursorAt \in Nat /\ mirrorCopy.cursor \in Nat
      /\ \A e \in mirrorTail \cup openRows : e[1] \in Nat
  BY DEF MirrorInv, MirrorTypes, MirrorTypeOK
<1>2. MirrorClocks
  BY DEF MirrorInv
<1>3. ASSUME NEW a \in unannounced, AnnounceStarts(a) PROVE MirrorClocks'
  BY <1>1, <1>2, <1>3 DEF AnnounceStarts, MirrorClocks
<1>4. ASSUME NEW e \in openRows, AnnounceCommits(e) PROVE MirrorClocks'
  BY <1>2, <1>4 DEF AnnounceCommits, MirrorClocks
<1>15. ASSUME AnnouncementsLost PROVE MirrorClocks'
  <2>1. openRows' \subseteq openRows
    BY <1>15 DEF AnnouncementsLost
  <2> QED
    BY <1>2, <1>15, <2>1 DEF AnnouncementsLost, MirrorClocks
<1>5. ASSUME RetentionPasses PROVE MirrorClocks'
  BY <1>2, <1>5 DEF RetentionPasses, MirrorClocks
<1>6. ASSUME NEW cause \in Causes, Resume(cause) PROVE MirrorClocks'
  BY <1>1, <1>2, <1>6 DEF Resume, MirrorClocks
<1>7. ASSUME Observe PROVE MirrorClocks'
  BY <1>1, <1>2, <1>7 DEF Observe, MirrorClocks
<1>8. ASSUME EnqueueDirtySignals PROVE MirrorClocks'
  <2>1. mirrorCopy.cursor <= cursorAt
    BY <1>2, <1>8 DEF EnqueueDirtySignals, MirrorClocks
  <2>2. cursorAt' <= mirrorClock /\ mirrorCopy.cursor <= cursorAt'
    <3>1. CASE Batch = {}
      BY <1>2, <1>8, <2>1, <3>1, BatchIsAPrefix DEF MirrorClocks
    <3>2. CASE Batch # {}
      <4>1. PICK e \in mirrorTail : cursorAt' = e[1] /\ mirrorCopy.cursor < e[1]
        BY <1>8, <3>2, BatchIsAPrefix
      <4> QED
        BY <1>1, <1>2, <4>1 DEF MirrorClocks
    <3> QED
      BY <3>1, <3>2
  <2>3. UNCHANGED <<mirrorCopy, mirrorTail, openRows, mirrorClock>>
    BY <1>8 DEF EnqueueDirtySignals
  <2> QED
    BY <1>2, <2>2, <2>3 DEF MirrorClocks
<1>9. ASSUME UNCHANGED <<cursorAt, mirrorClock, mirrorCopy, mirrorTail, openRows>>,
             mirrorStep' # "idle" => mirrorStep # "idle"
      PROVE  MirrorClocks'
  BY <1>2, <1>9 DEF MirrorClocks
<1>10. ASSUME NEW cause \in Causes, SwitchOff(cause) PROVE MirrorClocks'
  BY <1>9, <1>10 DEF SwitchOff
<1>11. ASSUME NEW c \in SourceCards, EditCommits(c) \/ DirtyWaitPasses(c) PROVE MirrorClocks'
  BY <1>9, <1>11 DEF EditCommits, DirtyWaitPasses
<1>12. ASSUME Upgrade \/ BackoffPasses \/ FailDrain \/ WorkerDies PROVE MirrorClocks'
  BY <1>9, <1>12 DEF Upgrade, BackoffPasses, FailDrain, WorkerDies
<1>13. ASSUME StartDrain \/ ReadSource \/ ReconcileDone \/ ClearRequest PROVE MirrorClocks'
  BY <1>9, <1>13 DEF StartDrain, ReadSource, ReconcileDone, ClearRequest
<1>14. ASSUME Checkpoint \/ SelectDirty \/ RunEnds \/ WriteCopy \/ FailCard PROVE MirrorClocks'
  BY <1>9, <1>14 DEF Checkpoint, SelectDirty, RunEnds, WriteCopy, FailCard
<1> QED
  BY <1>3, <1>4, <1>5, <1>6, <1>7, <1>8, <1>10, <1>11, <1>12, <1>13, <1>14, <1>15
     DEF MirrorNext, MirrorWork, Announce

LEMMA CopiedMarksKept ==
  ASSUME MirrorInv, MirrorNext PROVE CopiedMarks'
<1> USE DEF mirrorRow, mirrorDirty, mirrorRun, mirrorSource, mirrorEnv, CopiedMarks, Reconciling, Requests
<1>1. CopiedMarks
  BY DEF MirrorInv
<1>2. ASSUME UNCHANGED <<mirrorMarks, mirrorCopy, mirrorStep>> PROVE CopiedMarks'
  BY <1>1, <1>2
<1>3. ASSUME NEW c \in SourceCards, EditCommits(c) \/ DirtyWaitPasses(c) PROVE CopiedMarks'
  BY <1>2, <1>3 DEF EditCommits, DirtyWaitPasses
<1>4. ASSUME Announce \/ AnnouncementsLost PROVE CopiedMarks'
  BY <1>2, <1>4 DEF Announce, AnnounceStarts, AnnounceCommits, AnnouncementsLost
<1>5. ASSUME NEW cause \in Causes, SwitchOff(cause) PROVE CopiedMarks'
  BY <1>2, <1>5 DEF SwitchOff
<1>6. ASSUME Upgrade \/ ReadSource \/ FailCard \/ WriteCopy PROVE CopiedMarks'
  BY <1>2, <1>6 DEF Upgrade, ReadSource, FailCard, WriteCopy
<1>7. ASSUME RetentionPasses PROVE CopiedMarks'
  BY <1>1, <1>7 DEF RetentionPasses
<1>8. ASSUME NEW cause \in Causes, Resume(cause) PROVE CopiedMarks'
  BY <1>1, <1>8 DEF Resume
<1>9. ASSUME BackoffPasses PROVE CopiedMarks'
  BY <1>1, <1>9 DEF BackoffPasses
<1>10. ASSUME Observe PROVE CopiedMarks'
  BY <1>1, <1>10 DEF Observe
<1>11. ASSUME StartDrain PROVE CopiedMarks'
  BY <1>1, <1>11 DEF StartDrain
<1>12. ASSUME ReconcileDone \/ SelectDirty \/ RunEnds \/ WorkerDies PROVE CopiedMarks'
  BY <1>1, <1>12 DEF ReconcileDone, SelectDirty, RunEnds, WorkerDies
<1>13. ASSUME ClearRequest \/ Checkpoint PROVE CopiedMarks'
  BY <1>1, <1>13 DEF ClearRequest, Checkpoint
<1>14. ASSUME EnqueueDirtySignals PROVE CopiedMarks'
  BY <1>1, <1>14 DEF EnqueueDirtySignals
<1>15. ASSUME FailDrain PROVE CopiedMarks'
  BY <1>1, <1>15 DEF FailDrain
<1> QED
  BY <1>3, <1>4, <1>5, <1>6, <1>7, <1>8, <1>9, <1>10, <1>11, <1>12, <1>13, <1>14, <1>15
     DEF MirrorNext, MirrorWork

LEMMA MirrorJobsKept ==
  ASSUME MirrorInv, MirrorNext PROVE MirrorJobs'
<1> USE DEF mirrorRow, mirrorDirty, mirrorRun, mirrorSource, mirrorEnv, MirrorJobs
<1>1. MirrorJobs
  BY DEF MirrorInv
<1>2. /\ MirrorTypeOK /\ MaxDirty \in Nat /\ MaxDirty > 0 /\ NoRow = MaxDirty + 1
      /\ \A c \in SourceCards : dirtyTries[c] \in Nat
  BY MirrorAssumption DEF MirrorInv, MirrorTypes, MirrorTypeOK, NoRow
<1>3. ASSUME UNCHANGED <<mirrorTodo, sourceSeen, mirrorStep, dirtyTries>> PROVE MirrorJobs'
  BY <1>1, <1>3
<1>4. ASSUME NEW c \in SourceCards, EditCommits(c) \/ DirtyWaitPasses(c) PROVE MirrorJobs'
  BY <1>3, <1>4 DEF EditCommits, DirtyWaitPasses
<1>5. ASSUME Announce \/ AnnouncementsLost PROVE MirrorJobs'
  BY <1>3, <1>5 DEF Announce, AnnounceStarts, AnnounceCommits, AnnouncementsLost
<1>6. ASSUME NEW cause \in Causes, SwitchOff(cause) \/ Resume(cause) PROVE MirrorJobs'
  BY <1>3, <1>6 DEF SwitchOff, Resume
<1>7. ASSUME Upgrade \/ BackoffPasses \/ RetentionPasses PROVE MirrorJobs'
  BY <1>3, <1>7 DEF Upgrade, BackoffPasses, RetentionPasses
<1>8. ASSUME Observe PROVE MirrorJobs'
  BY <1>1, <1>8 DEF Observe
<1>9. ASSUME StartDrain PROVE MirrorJobs'
  BY <1>1, <1>9 DEF StartDrain
<1>10. ASSUME ReadSource PROVE MirrorJobs'
  <2>1. PICK c \in mirrorTodo : sourceSeen' = <<c, sourceRev[c]>>
    BY <1>10 DEF ReadSource
  <2> QED
    BY <1>1, <1>10, <2>1 DEF ReadSource
<1>11. ASSUME WriteCopy \/ FailCard PROVE MirrorJobs'
  <2>1. /\ sourceSeen # Nothing /\ sourceSeen' = Nothing /\ mirrorStep' = mirrorStep
        /\ mirrorTodo' = mirrorTodo \ {sourceSeen[1]}
        /\ \A c \in SourceCards \ {sourceSeen[1]} : dirtyTries'[c] = dirtyTries[c]
    BY <1>2, <1>11 DEF WriteCopy, FailCard, MirrorTypeOK
  <2>2. mirrorTodo \subseteq SourceCards /\ mirrorStep \in {"reconcile", "apply"}
    BY <1>1, <1>2, <2>1 DEF MirrorTypeOK
  <2> QED
    BY <1>1, <2>1, <2>2
<1>12. ASSUME ReconcileDone \/ ClearRequest \/ Checkpoint PROVE MirrorJobs'
  BY <1>1, <1>12 DEF ReconcileDone, ClearRequest, Checkpoint
<1>13. ASSUME SelectDirty PROVE MirrorJobs'
  BY <1>1, <1>13 DEF SelectDirty
<1>14. ASSUME RunEnds PROVE MirrorJobs'
  BY <1>1, <1>14 DEF RunEnds
<1>15. ASSUME EnqueueDirtySignals PROVE MirrorJobs'
  <2>1. mirrorStep = "tail" /\ mirrorStep' = "checkpoint" /\ UNCHANGED <<mirrorTodo, sourceSeen>>
    BY <1>15 DEF EnqueueDirtySignals
  <2> QED
    BY <1>1, <2>1
<1>16. ASSUME FailDrain \/ WorkerDies PROVE MirrorJobs'
  BY <1>16 DEF FailDrain, WorkerDies
<1> QED
  BY <1>4, <1>5, <1>6, <1>7, <1>8, <1>9, <1>10, <1>11, <1>12, <1>13, <1>14, <1>15, <1>16
     DEF MirrorNext, MirrorWork

-----------------------------------------------------------------------------
(* Traces.                                                                 *)

Tracing == LaggardsAreTraced /\ ReadsAreTraced

\* A step that moves neither revisions nor jobs keeps traces if it keeps reasons.
LEMMA ReasonsKeepTraces ==
  ASSUME Tracing,
         UNCHANGED <<targetRev, sourceRev, unheard, dirtyTries, mirrorTodo, mirrorStep, sourceSeen>>,
         \A c \in SourceCards : Announced(c) => Announced(c)',
         sourceSeen # Nothing => sourceSeen[1] \in SourceCards
  PROVE  Tracing'
BY DEF Tracing, LaggardsAreTraced, ReadsAreTraced, Lags, Traced

\* So does one that leaves nothing at hand.
LEMMA IdleKeepsTraces ==
  ASSUME sourceSeen' = Nothing, \A c \in SourceCards : Lags(c)' => Traced(c)' PROVE Tracing'
BY DEF Tracing, LaggardsAreTraced, ReadsAreTraced

LEMMA OthersKeepTraces ==
  ASSUME MirrorInv, Tracing,
         \/ \E c \in SourceCards : EditCommits(c) \/ DirtyWaitPasses(c)
         \/ Announce \/ AnnouncementsLost
         \/ \E cause \in Causes : SwitchOff(cause) \/ Resume(cause)
         \/ Upgrade \/ BackoffPasses \/ RetentionPasses
  PROVE  Tracing'
<1> USE DEF mirrorRow, mirrorDirty, mirrorRun, mirrorSource, mirrorEnv
<1>1. MirrorTypeOK /\ MirrorClocks /\ MirrorJobs
  BY DEF MirrorInv, MirrorTypes
<1>2. sourceSeen # Nothing => sourceSeen[1] \in SourceCards
  BY <1>1 DEF MirrorTypeOK
<1>3. ASSUME UNCHANGED <<targetRev, sourceRev, unheard, dirtyTries, mirrorTodo, mirrorStep,
                         sourceSeen, unannounced, openRows, mirrorTail, cursorAt,
                         mirrorCopy>>,
             mirrorMarks' \cap Requests = mirrorMarks \cap Requests
      PROVE  Tracing'
  <2>1. \A c \in SourceCards : Announced(c) => Announced(c)'
    BY <1>3 DEF Announced, Unannounced, Reconciling, Ahead, Requests
  <2> QED
    BY <1>2, <1>3, <2>1, ReasonsKeepTraces
<1>4. ASSUME NEW c \in SourceCards, DirtyWaitPasses(c) PROVE Tracing'
  BY <1>3, <1>4 DEF DirtyWaitPasses
<1>5. ASSUME NEW cause \in Causes, SwitchOff(cause) PROVE Tracing'
  BY <1>3, <1>5 DEF SwitchOff
<1>6. ASSUME Upgrade \/ BackoffPasses PROVE Tracing'
  BY <1>3, <1>6 DEF Upgrade, BackoffPasses, Requests
<1>7. ASSUME NEW cause \in Causes, Resume(cause) PROVE Tracing'
  <2>1. \A c \in SourceCards : Announced(c) => Announced(c)'
    BY <1>7 DEF Resume, Announced, Unannounced, Reconciling, Ahead, Requests
  <2> QED
    BY <1>2, <1>7, <2>1, ReasonsKeepTraces DEF Resume
<1>8. ASSUME RetentionPasses PROVE Tracing'
  <2>1. sourceSeen' = Nothing /\ \A c \in SourceCards : Announced(c)'
    BY <1>1, <1>8 DEF RetentionPasses, MirrorJobs, Announced, Reconciling, Requests
  <2> QED
    BY <2>1, IdleKeepsTraces DEF Traced
<1>9. ASSUME NEW e \in SourceCards, EditCommits(e) PROVE Tracing'
  <2>1. /\ UNCHANGED <<targetRev, mirrorRow, mirrorDirty, mirrorRun, mirrorStep,
                       openRows, mirrorTail, unheard>>
        /\ unannounced' = unannounced \cup {<<sourceRev'[e], e>>}
        /\ sourceRev' = [sourceRev EXCEPT ![e] = @ + 1]
    BY <1>9 DEF EditCommits
  <2>2. Announced(e)'
    <3>1. <<sourceRev'[e], e>> \in unannounced' /\ <<sourceRev'[e], e>>[2] = e
      BY <2>1
    <3>2. Unannounced(e)'
      BY <3>1 DEF Unannounced
    <3> QED
      BY <3>2 DEF Announced
  <2>3. \A c \in SourceCards : Announced(c) => Announced(c)'
    BY <2>1 DEF Announced, Unannounced, Reconciling, Ahead
  <2>4. \A c \in SourceCards : c # e => sourceRev'[c] = sourceRev[c]
    BY <1>1, <2>1 DEF MirrorTypeOK
  <2>5. LaggardsAreTraced'
    <3>1. ASSUME NEW c \in SourceCards, Lags(c)' PROVE Traced(c)'
      <4>1. CASE c = e
        BY <2>2, <4>1 DEF Traced
      <4>2. CASE c # e
        <5>1. Traced(c)
          BY <2>1, <2>4, <3>1, <4>2 DEF Tracing, LaggardsAreTraced, Lags
        <5> QED
          BY <2>1, <2>3, <5>1 DEF Traced
      <4> QED
        BY <4>1, <4>2
    <3> QED
      BY <3>1 DEF LaggardsAreTraced
  <2>6. ReadsAreTraced'
    BY <1>2, <2>1, <2>2, <2>3, <2>4 DEF Tracing, ReadsAreTraced
  <2> QED
    BY <2>5, <2>6 DEF Tracing
<1>10. ASSUME UNCHANGED <<targetRev, sourceRev, dirtyTries, mirrorTodo, mirrorStep, sourceSeen>>,
              unheard \subseteq unheard',
              \A c \in SourceCards : Announced(c) /\ c \notin unheard' => Announced(c)'
       PROVE  Tracing'
  <2>1. ASSUME NEW c \in SourceCards, Lags(c)' PROVE Traced(c)'
    <3>1. Traced(c) /\ c \notin unheard'
      BY <1>10, <2>1 DEF Tracing, LaggardsAreTraced, Lags
    <3> QED
      BY <1>10, <3>1 DEF Traced
  <2>2. ReadsAreTraced'
    BY <1>2, <1>10 DEF Tracing, ReadsAreTraced
  <2> QED
    BY <2>1, <2>2 DEF Tracing, LaggardsAreTraced
<1>11. ASSUME NEW a \in unannounced, AnnounceStarts(a) PROVE Tracing'
  <2>1. /\ UNCHANGED <<targetRev, mirrorRow, mirrorDirty, mirrorRun, sourceRev, mirrorTail,
                       unheard, mirrorStep>>
        /\ unannounced' = unannounced \ {a}
        /\ openRows' = openRows \cup {<<mirrorClock', a[2]>>}
    BY <1>11 DEF AnnounceStarts
  <2>2. ASSUME NEW c \in SourceCards, Unannounced(c) PROVE Unannounced(c)'
    <3>1. PICK x \in unannounced \cup openRows : x[2] = c
      BY <2>2 DEF Unannounced
    <3>2. CASE x = a
      <4>1. <<mirrorClock', a[2]>> \in openRows' /\ <<mirrorClock', a[2]>>[2] = c
        BY <2>1, <3>1, <3>2
      <4> QED
        BY <4>1 DEF Unannounced
    <3>3. CASE x # a
      BY <2>1, <3>1, <3>3 DEF Unannounced
    <3> QED
      BY <3>2, <3>3
  <2>3. \A c \in SourceCards : Announced(c) => Announced(c)'
    BY <2>1, <2>2 DEF Announced, Reconciling, Ahead
  <2> QED
    BY <1>10, <2>1, <2>3
<1>12. ASSUME NEW e \in openRows, AnnounceCommits(e) PROVE Tracing'
  <2>1. /\ e \in Nat \X SourceCards /\ e[1] \in Nat /\ cursorAt \in Nat
        /\ mirrorCopy.cursor \in Nat
        /\ mirrorStep # "idle" => mirrorCopy.cursor <= cursorAt
    BY <1>1 DEF MirrorTypeOK, MirrorClocks
  <2>2. /\ UNCHANGED <<targetRev, mirrorRow, mirrorDirty, mirrorRun, sourceRev, unannounced,
                       mirrorStep>>
        /\ openRows' = openRows \ {e}
        /\ mirrorTail' = mirrorTail \cup {e}
        /\ unheard' = IF e[1] <= cursorAt THEN unheard \cup {e[2]} ELSE unheard
    BY <1>12 DEF AnnounceCommits
  <2>3. \A c \in SourceCards : c # e[2] /\ Unannounced(c) => Unannounced(c)'
    BY <2>2 DEF Unannounced
  <2>4. ASSUME NEW c \in SourceCards, c # e[2], Announced(c) PROVE Announced(c)'
    BY <2>2, <2>3, <2>4 DEF Announced, Reconciling, Ahead
  <2>5. e[2] \notin unheard' => Announced(e[2])'
    <3>1. SUFFICES ASSUME e[2] \notin unheard' PROVE Announced(e[2])'
      OBVIOUS
    <3>2. cursorAt < e[1]
      BY <2>1, <2>2, <3>1
    <3>3. Ahead(e[2], cursorAt)'
      BY <2>2, <3>2 DEF Ahead
    <3>4. mirrorStep # "idle" => Ahead(e[2], mirrorCopy.cursor)'
      BY <2>1, <2>2, <3>2 DEF Ahead
    <3> QED
      BY <2>2, <3>3, <3>4 DEF Announced, Reconciling
  <2>6. \A c \in SourceCards : Announced(c) /\ c \notin unheard' => Announced(c)'
    BY <2>4, <2>5
  <2> QED
    BY <1>10, <2>2, <2>6
<1>13. ASSUME AnnouncementsLost PROVE Tracing'
  <2>1. PICK A \in SUBSET unannounced, R \in SUBSET openRows :
          /\ unannounced' = unannounced \ A
          /\ openRows' = openRows \ R
          /\ unheard' = unheard \cup {x[2] : x \in A \cup R}
    BY <1>13 DEF AnnouncementsLost
  <2>2. UNCHANGED <<targetRev, mirrorRow, mirrorDirty, mirrorRun, sourceRev, mirrorTail, mirrorStep>>
    BY <1>13 DEF AnnouncementsLost
  <2>3. \A c \in SourceCards : Unannounced(c) /\ c \notin unheard' => Unannounced(c)'
    BY <2>1 DEF Unannounced
  <2>4. \A c \in SourceCards : Announced(c) /\ c \notin unheard' => Announced(c)'
    BY <2>2, <2>3 DEF Announced, Reconciling, Ahead
  <2> QED
    BY <1>10, <2>1, <2>2, <2>4
<1> QED
  BY <1>4, <1>5, <1>6, <1>7, <1>8, <1>9, <1>11, <1>12, <1>13 DEF Announce

\* A run that is broken off has forgotten nothing unless it says so.
LEMMA BreaksKeepTraces ==
  ASSUME MirrorInv, Tracing, FailDrain \/ WorkerDies, ~Forgets PROVE Tracing'
<1> USE DEF mirrorRow, mirrorDirty, mirrorRun, mirrorSource, mirrorEnv
<1>1. /\ UNCHANGED <<targetRev, mirrorEnv, dirtyTries, cursorAt>>
      /\ mirrorMarks \subseteq mirrorMarks' /\ sourceSeen' = Nothing
      /\ mirrorStep' \in {"checkpoint", "idle"}
  BY DEF FailDrain, WorkerDies
<1>2. ASSUME NEW c \in SourceCards, Lags(c)' PROVE Traced(c)'
  <2>1. Traced(c)
    BY <1>1, <1>2 DEF Tracing, LaggardsAreTraced, Lags
  <2>2. CASE dirtyTries[c] # NoRow
    BY <1>1, <2>2 DEF Traced
  <2>3. CASE Reconciling
    <3>1. mirrorMarks \cap Requests # {}
      BY <2>3 DEF MirrorInv, CopiedMarks, Reconciling
    <3> QED
      BY <1>1, <3>1 DEF Traced, Announced, Reconciling
  <2>4. CASE mirrorStep = "tail" /\ dirtyTries[c] = NoRow
    <3>1. Unannounced(c) \/ "asked" \in mirrorMarks \/ Ahead(c, mirrorCopy.cursor)
      BY <2>1, <2>4 DEF Traced, Announced, Reconciling
    <3>2. Unannounced(c) \/ "asked" \in mirrorMarks \/ Ahead(c, cursorAt)
      BY <2>4, <3>1 DEF Forgets
    <3> QED
      BY <1>1, <3>2 DEF Traced, Announced, Unannounced, Reconciling, Requests, Ahead
  <2>5. CASE ~Reconciling /\ mirrorStep # "tail" /\ dirtyTries[c] = NoRow
    <3>1. Unannounced(c) \/ mirrorMarks \cap Requests # {} \/ Ahead(c, cursorAt)
      BY <2>1, <2>5 DEF Traced, Announced, Reconciling
    <3> QED
      BY <1>1, <3>1 DEF Traced, Announced, Unannounced, Reconciling, Ahead
  <2> QED
    BY <2>2, <2>3, <2>4, <2>5
<1> QED
  BY <1>1, <1>2, IdleKeepsTraces

\* A card that is converged was read in time or will be read again; a card that
\* fails becomes dirty or stays so.
LEMMA CopiesKeepTraces ==
  ASSUME MirrorInv, Tracing, ReadSource \/ WriteCopy \/ FailCard PROVE Tracing'
<1> USE DEF mirrorRow, mirrorDirty, mirrorRun, mirrorSource, mirrorEnv
<1>1. /\ MirrorTypeOK /\ MirrorJobs
      /\ MaxDirty \in Nat /\ MaxDirty > 0 /\ NoRow = MaxDirty + 1
  BY MirrorAssumption DEF MirrorInv, MirrorTypes, NoRow
<1>2. UNCHANGED <<mirrorSource, cursorAt, mirrorMarks, mirrorCopy, mirrorStep>>
  BY DEF ReadSource, WriteCopy, FailCard
<1>3. \A c \in SourceCards : Announced(c)' <=> Announced(c)
  BY <1>2 DEF Announced, Unannounced, Reconciling, Ahead
<1>6. /\ ReadSource \/ FailCard => unheard' = unheard
      /\ WriteCopy /\ unheard' # unheard =>
           unheard' = unheard \ {sourceSeen[1]} /\ sourceSeen[2] = sourceRev[sourceSeen[1]]
  BY DEF ReadSource, WriteCopy, FailCard
<1>4. CASE ReadSource
  <2>1. PICK c \in mirrorTodo : sourceSeen' = <<c, sourceRev[c]>>
    BY <1>4 DEF ReadSource
  <2>2. ReadsAreTraced'
    BY <1>2, <2>1 DEF ReadsAreTraced
  <2>3. LaggardsAreTraced'
    BY <1>2, <1>3, <1>4, <1>6 DEF ReadSource, Tracing, LaggardsAreTraced, Lags, Traced
  <2> QED
    BY <2>2, <2>3 DEF Tracing
<1>5. CASE WriteCopy \/ FailCard
  <2>1. /\ sourceSeen # Nothing /\ sourceSeen' = Nothing
        /\ mirrorTodo' = mirrorTodo \ {sourceSeen[1]}
    BY <1>5 DEF WriteCopy, FailCard
  <2>2. PICK c \in SourceCards : c = sourceSeen[1]
    BY <1>1, <2>1 DEF MirrorTypeOK
  <2>3. /\ c \in mirrorTodo /\ mirrorStep \in {"reconcile", "apply"}
        /\ mirrorStep = "apply" => dirtyTries[c] < MaxDirty
        /\ dirtyTries[c] \in 0..NoRow
    BY <1>1, <2>1, <2>2 DEF MirrorTypeOK, MirrorJobs
  <2>4. ASSUME NEW d \in SourceCards, d # c, Lags(d)' PROVE Traced(d)'
    <3>1. targetRev'[d] = targetRev[d] /\ dirtyTries'[d] = dirtyTries[d]
      BY <1>1, <1>5, <2>2, <2>4 DEF WriteCopy, FailCard, MirrorTypeOK
    <3>2. Traced(d)
      BY <1>2, <1>5, <1>6, <2>2, <2>4, <3>1 DEF Tracing, LaggardsAreTraced, Lags
    <3> QED
      BY <1>2, <1>3, <2>1, <2>2, <2>4, <3>1, <3>2 DEF Traced
  <2>5. ASSUME WriteCopy, Lags(c)' PROVE Traced(c)'
    <3>1. targetRev'[c] = sourceSeen[2]
      BY <1>1, <2>2, <2>5 DEF WriteCopy, MirrorTypeOK
    <3>2. sourceSeen[2] # sourceRev[c] /\ c \notin unheard
      BY <1>2, <1>6, <2>2, <2>5, <3>1 DEF Lags
    <3>3. Announced(c)
      BY <2>1, <2>2, <3>2 DEF Tracing, ReadsAreTraced
    <3> QED
      BY <1>3, <3>3 DEF Traced
  <2>6. ASSUME FailCard PROVE Traced(c)'
    <3>1. dirtyTries'[c] # NoRow
      BY <1>1, <2>2, <2>3, <2>6 DEF FailCard, MirrorTypeOK
    <3> QED
      BY <3>1 DEF Traced
  <2> QED
    BY <1>5, <2>1, <2>4, <2>5, <2>6, IdleKeepsTraces
<1> QED
  BY <1>4, <1>5

\* A stage of a run hands its reasons on to the next one.
LEMMA StagesKeepTraces ==
  ASSUME MirrorInv, Tracing,
         \/ Observe \/ StartDrain \/ ReconcileDone \/ ClearRequest
         \/ Checkpoint \/ SelectDirty \/ RunEnds
  PROVE  Tracing'
<1> USE DEF mirrorRow, mirrorDirty, mirrorRun, mirrorSource, mirrorEnv
<1>1. MirrorTypeOK /\ MirrorClocks /\ CopiedMarks /\ MirrorJobs
  BY DEF MirrorInv, MirrorTypes
<1>2. /\ UNCHANGED <<targetRev, mirrorEnv, cursorAt, sourceSeen>>
      /\ sourceSeen = Nothing
  BY <1>1 DEF Observe, StartDrain, ReconcileDone, ClearRequest, Checkpoint, SelectDirty, RunEnds,
             MirrorJobs
<1>3. ASSUME NEW c \in SourceCards, Lags(c)' PROVE Traced(c)
  BY <1>2, <1>3 DEF Tracing, LaggardsAreTraced, Lags
<1>4. CASE Observe
  <2>1. \A c \in SourceCards : Traced(c) => Traced(c)'
    BY <1>4 DEF Observe, Traced, Announced, Unannounced, Reconciling, Ahead
  <2> QED
    BY <1>2, <1>3, <2>1, IdleKeepsTraces
<1>5. CASE StartDrain
  <2>1. mirrorCopy.cursor <= cursorAt /\ mirrorCopy.cursor \in Nat /\ cursorAt \in Nat
    BY <1>1, <1>5 DEF StartDrain, MirrorClocks, MirrorTypeOK
  <2>2. \A e \in mirrorTail : e[1] \in Nat
    BY <1>1 DEF MirrorTypeOK
  <2>3. ASSUME NEW c \in SourceCards, Traced(c) PROVE Traced(c)'
    <3>1. CASE mirrorCopy.marks \cap {"asked", "gap"} = {}
      <4>1. /\ mirrorStep' = "tail"
            /\ UNCHANGED <<dirtyTries, mirrorMarks, mirrorCopy, mirrorTail>>
        BY <1>5, <3>1 DEF StartDrain
      <4>2. "gap" \notin mirrorMarks
        BY <1>1, <1>5, <3>1 DEF StartDrain, CopiedMarks
      <4>3. \/ dirtyTries[c] # NoRow \/ Unannounced(c)
            \/ "asked" \in mirrorMarks \/ Ahead(c, cursorAt)
        BY <1>5, <2>3, <4>2 DEF StartDrain, Traced, Announced, Reconciling, Requests
      <4>4. Ahead(c, cursorAt) => Ahead(c, mirrorCopy.cursor)
        BY <2>1, <2>2 DEF Ahead
      <4>5. Ahead(c, mirrorCopy.cursor) => Ahead(c, mirrorCopy.cursor)'
        BY <4>1 DEF Ahead
      <4> QED
        BY <1>2, <4>1, <4>3, <4>4, <4>5 DEF Traced, Announced, Unannounced, Reconciling
    <3>2. CASE mirrorCopy.marks \cap {"asked", "gap"} # {}
      BY <1>5, <3>2 DEF StartDrain, Traced
    <3> QED
      BY <3>1, <3>2
  <2> QED
    BY <1>2, <1>3, <2>3, IdleKeepsTraces
<1>6. CASE ReconcileDone
  <2>1. \A c \in SourceCards : Traced(c) => Traced(c)'
    BY <1>6 DEF ReconcileDone, Traced, Announced, Unannounced, Reconciling, Ahead
  <2> QED
    BY <1>2, <1>3, <2>1, IdleKeepsTraces
<1>7. CASE ClearRequest
  <2>1. \A c \in SourceCards : Traced(c) => Traced(c)'
    BY <1>7 DEF ClearRequest, Traced, Announced, Unannounced, Reconciling, Ahead
  <2> QED
    BY <1>2, <1>3, <2>1, IdleKeepsTraces
<1>8. CASE Checkpoint
  <2>1. mirrorMarks' \cap Requests = mirrorMarks \cap Requests
    BY <1>1, <1>8 DEF Checkpoint, CopiedMarks, Requests
  <2>2. \A c \in SourceCards : Traced(c) => Traced(c)'
    BY <1>8, <2>1 DEF Checkpoint, Traced, Announced, Unannounced, Reconciling, Ahead
  <2> QED
    BY <1>2, <1>3, <2>2, IdleKeepsTraces
<1>9. CASE SelectDirty \/ RunEnds
  <2>1. \A c \in SourceCards : Traced(c) => Traced(c)'
    BY <1>9 DEF SelectDirty, RunEnds, Traced, Announced, Unannounced, Reconciling, Ahead
  <2> QED
    BY <1>2, <1>3, <2>1, IdleKeepsTraces
<1> QED
  BY <1>4, <1>5, <1>6, <1>7, <1>8, <1>9

\* What the tail goes past is dirty.
LEMMA TailKeepsTraces ==
  ASSUME MirrorInv, Tracing, EnqueueDirtySignals PROVE Tracing'
<1> USE DEF mirrorRow, mirrorDirty, mirrorRun, mirrorSource, mirrorEnv
<1>1. MirrorTypeOK /\ MirrorJobs /\ NoRow # 0
  BY MirrorAssumption DEF MirrorInv, MirrorTypes, NoRow
<1>2. /\ mirrorStep = "tail" /\ mirrorStep' = "checkpoint"
      /\ UNCHANGED <<targetRev, mirrorEnv, sourceSeen>>
      /\ dirtyTries' = [c \in SourceCards |->
                          IF c \in {e[2] : e \in Batch} THEN 0 ELSE dirtyTries[c]]
      /\ "asked" \in mirrorMarks => "asked" \in mirrorMarks'
  BY DEF EnqueueDirtySignals, Batch
<1>3. sourceSeen' = Nothing
  BY <1>1, <1>2 DEF MirrorJobs
<1>4. ASSUME NEW c \in SourceCards, Lags(c)' PROVE Traced(c)'
  <2>1. \/ dirtyTries[c] # NoRow \/ Unannounced(c)
        \/ "asked" \in mirrorMarks \/ Ahead(c, mirrorCopy.cursor)
    BY <1>2, <1>4 DEF Tracing, LaggardsAreTraced, Lags, Traced, Announced, Reconciling
  <2>2. CASE dirtyTries[c] # NoRow
    BY <1>1, <1>2, <2>2 DEF Traced
  <2>3. CASE "asked" \in mirrorMarks
    BY <1>2, <2>3 DEF Traced, Announced, Reconciling, Requests
  <2>4. CASE Ahead(c, mirrorCopy.cursor)
    <3>1. PICK e \in mirrorTail : e[2] = c /\ mirrorCopy.cursor < e[1]
      BY <2>4 DEF Ahead
    <3>2. e \in Beyond(mirrorCopy.cursor)
      BY <3>1 DEF Beyond
    <3>3. PICK b \in Batch : /\ cursorAt' = b[1]
                             /\ \A f \in Beyond(mirrorCopy.cursor) : f[1] <= b[1] => f \in Batch
      BY <3>2, BatchIsAPrefix
    <3>4. b \in mirrorTail /\ b[1] \in Nat /\ e[1] \in Nat
      BY <1>1, <3>1, <3>3, BatchIsAPrefix DEF MirrorTypeOK
    <3>5. CASE e \in Batch
      <4>1. dirtyTries'[c] = 0
        BY <1>2, <3>1, <3>5
      <4> QED
        BY <1>1, <4>1 DEF Traced
    <3>6. CASE e \notin Batch
      <4>1. cursorAt' < e[1]
        BY <3>2, <3>3, <3>4, <3>6
      <4>2. Ahead(c, cursorAt)'
        BY <1>2, <3>1, <4>1 DEF Ahead
      <4> QED
        BY <1>2, <4>2 DEF Traced, Announced, Reconciling
    <3> QED
      BY <3>5, <3>6
  <2>5. CASE Unannounced(c)
    BY <1>2, <2>5 DEF Traced, Announced, Unannounced
  <2> QED
    BY <2>1, <2>2, <2>3, <2>4, <2>5
<1> QED
  BY <1>3, <1>4, IdleKeepsTraces

LEMMA MirrorInvariance == MirrorSafe => []MirrorInv
<1>1. MirrorInit => MirrorInv
  <2> SUFFICES ASSUME MirrorInit PROVE MirrorInv
    OBVIOUS
  <2>1. MirrorTypes
    <3>1. NoRow \in Nat
      BY MirrorAssumption DEF NoRow
    <3>2. /\ sourceRev \in [SourceCards -> Nat] /\ targetRev \in [SourceCards -> Nat]
          /\ dirtyTries \in [SourceCards -> 0..NoRow] /\ dirtyWaits \subseteq SourceCards
      BY <3>1 DEF MirrorInit
    <3>3. /\ mirrorTail \subseteq Nat \X SourceCards
          /\ unannounced \subseteq Nat \X SourceCards /\ openRows \subseteq Nat \X SourceCards
          /\ {mirrorClock, cursorAt, mirrorFaults, mirrorActs} \subseteq Nat
          /\ mirrorOff \subseteq Causes /\ mirrorMarks \subseteq Marks
      BY DEF MirrorInit
    <3>4. /\ mirrorStep \in MirrorSteps /\ mirrorCopy \in [cursor : Nat, marks : SUBSET Marks]
          /\ mirrorTodo \subseteq SourceCards /\ unheard \subseteq SourceCards
          /\ sourceSeen \in {Nothing} \cup (SourceCards \X Nat) /\ forgotten \in BOOLEAN
      BY DEF MirrorInit, MirrorSteps
    <3>5. IsFiniteSet(mirrorTail)
      BY FS_EmptySet DEF MirrorInit
    <3> QED
      BY <3>2, <3>3, <3>4, <3>5 DEF MirrorTypes, MirrorTypeOK
  <2>2. MirrorClocks /\ CopiedMarks /\ MirrorJobs
    BY DEF MirrorInit, MirrorClocks, CopiedMarks, Reconciling, MirrorJobs
  <2>3. LaggardsAreTraced /\ ReadsAreTraced
    BY DEF MirrorInit, LaggardsAreTraced, ReadsAreTraced, Lags
  <2> QED
    BY <2>1, <2>2, <2>3 DEF MirrorInv
<1>2. ASSUME MirrorInv, MirrorNext PROVE MirrorInv'
  <2>1. ASSUME ~forgotten' PROVE Tracing'
    <3>1. FailDrain \/ WorkerDies => ~Forgets /\ ~forgotten
      BY <2>1 DEF FailDrain, WorkerDies
    <3>2. FailDrain \/ WorkerDies \/ forgotten' = forgotten
      BY <1>2 DEF MirrorNext, MirrorWork, FailCard, DirtyWaitPasses, EditCommits, Announce,
                  AnnounceStarts, AnnounceCommits, AnnouncementsLost,
                  SwitchOff, Resume, Upgrade, BackoffPasses, RetentionPasses, Observe, StartDrain,
                  ReadSource, WriteCopy, ReconcileDone, ClearRequest, EnqueueDirtySignals,
                  Checkpoint, SelectDirty, RunEnds
    <3>3. Tracing
      BY <1>2, <2>1, <3>1, <3>2 DEF MirrorInv, Tracing
    <3> QED
      BY <1>2, <3>1, <3>3, OthersKeepTraces, BreaksKeepTraces, CopiesKeepTraces,
         StagesKeepTraces, TailKeepsTraces DEF MirrorNext, MirrorWork
  <2> QED
    BY <1>2, <2>1, MirrorTypesKept, MirrorClocksKept, CopiedMarksKept, MirrorJobsKept
       DEF MirrorInv, Tracing
<1>3. MirrorInv /\ UNCHANGED mirrorVars => MirrorInv'
  BY DEF MirrorInv, MirrorTypes, MirrorTypeOK, MirrorClocks, CopiedMarks, Reconciling, MirrorJobs,
         LaggardsAreTraced, ReadsAreTraced, Lags, Traced, Announced, Unannounced, Ahead,
         mirrorVars, mirrorRow, mirrorDirty, mirrorRun, mirrorSource, mirrorEnv
<1> QED
  BY <1>1, <1>2, <1>3, PTL DEF MirrorSafe

\* Rows, marks and jobs of a mirror keep their types, for any cards and budgets.
THEOREM MirrorTyped == MirrorSafe => []MirrorTypeOK
<1>1. MirrorInv => MirrorTypeOK
  BY DEF MirrorInv, MirrorTypes
<1> QED
  BY <1>1, MirrorInvariance, PTL

\* Through edits and the rows that announce them after the fact, pauses, gaps,
\* failures and crashes, a copy that lags is always on the way to be noticed, but
\* for a row that was lost or late and not reconciled since, and a forgotten
\* request: the safety beneath the convergence of the mirror.
THEOREM NoEditIsMissed == MirrorSafe => []NothingIsMissed
<1>1. MirrorInv => NothingIsMissed
  BY DEF MirrorInv, CopiedMarks, LaggardsAreTraced, Lags, Traced, Announced, Reconciling,
         Requests, NothingIsMissed
<1> QED
  BY <1>1, MirrorInvariance, PTL

-----------------------------------------------------------------------------
(* The keyed task queue: its keys wait in line, a strict order in which each *)
(* knows who is ahead of it.                                                *)

InLine(W, o) ==
  /\ IsFiniteSet(W) /\ W \subseteq Keys
  /\ o \in [Keys -> SUBSET Keys]
  /\ \A k \in Keys \ W : o[k] = {}
  /\ \A k \in W : o[k] \subseteq W \ {k}
  /\ \A j, k \in W : j # k => j \in o[k] \/ k \in o[j]
  /\ \A k \in W : \A j \in o[k] : o[j] \subseteq o[k]

KeyedInv ==
  /\ InLine(waitingKeys, aheadOf)
  /\ activeKeys \subseteq Keys /\ IsFiniteSet(activeKeys)
  /\ RoomIsUsed

\* Whoever is ahead has fewer ahead of it.
LEMMA FewerAhead ==
  ASSUME NEW W, NEW o, InLine(W, o), NEW k \in W
  PROVE  /\ Cardinality(o[k]) \in Nat /\ Cardinality(o[k]) <= Cardinality(W)
         /\ \A j \in o[k] : j \in W /\ Cardinality(o[j]) < Cardinality(o[k])
<1>1. /\ IsFiniteSet(W) /\ o[k] \in SUBSET W
      /\ \A j \in o[k] : j \in W /\ o[j] \in SUBSET o[k] /\ j \notin o[j]
  BY DEF InLine
<1>2. IsFiniteSet(o[k]) /\ Cardinality(o[k]) <= Cardinality(W)
  BY <1>1, FS_Subset
<1>3. Cardinality(o[k]) \in Nat
  BY <1>2, FS_CardinalityType
<1>4. ASSUME NEW j \in o[k]
      PROVE  Cardinality(o[j]) < Cardinality(o[k])
  <2>1. o[j] \in SUBSET o[k] /\ o[j] # o[k]
    BY <1>1
  <2>2. /\ IsFiniteSet(o[j]) /\ Cardinality(o[j]) <= Cardinality(o[k])
        /\ Cardinality(o[k]) = Cardinality(o[j]) => o[k] = o[j]
    BY <1>2, <2>1, FS_Subset
  <2>3. Cardinality(o[j]) \in Nat
    BY <2>2, FS_CardinalityType
  <2> QED
    BY <1>3, <2>1, <2>2, <2>3
<1> QED
  BY <1>1, <1>2, <1>3, <1>4

\* Some of the keys in line come first and last.
LEMMA EndsOfLine ==
  ASSUME NEW W, NEW o, InLine(W, o), NEW S \in SUBSET W, S # {}
  PROVE  /\ \E k \in S : o[k] \cap S = {}
         /\ \E k \in S : S \ {k} \subseteq o[k]
<1> DEFINE N == {Cardinality(o[k]) : k \in S}
<1>1. N \subseteq Nat /\ N # {} /\ \A n \in N : n <= Cardinality(W)
  BY FewerAhead
<1>2. Cardinality(W) \in Nat
  BY FS_CardinalityType DEF InLine
<1>3. PICK least \in N : \A n \in N : least <= n
  BY <1>1, LeastExists
<1>4. PICK greatest \in N : \A n \in N : n <= greatest
  BY <1>1, <1>2, GreatestExists
<1>5. PICK k \in S : least = Cardinality(o[k])
  OBVIOUS
<1>6. o[k] \cap S = {}
  <2> SUFFICES ASSUME NEW j \in o[k], j \in S
               PROVE  FALSE
    OBVIOUS
  <2>1. Cardinality(o[j]) < Cardinality(o[k]) /\ Cardinality(o[j]) \in Nat /\ Cardinality(o[k]) \in Nat
    BY FewerAhead
  <2>2. Cardinality(o[k]) <= Cardinality(o[j])
    BY <1>3, <1>5
  <2> QED
    BY <2>1, <2>2
<1>7. PICK z \in S : greatest = Cardinality(o[z])
  OBVIOUS
<1>8. S \ {z} \subseteq o[z]
  <2> SUFFICES ASSUME NEW j \in S \ {z}, j \notin o[z]
               PROVE  FALSE
    OBVIOUS
  <2>1. z \in o[j]
    BY DEF InLine
  <2>2. Cardinality(o[z]) < Cardinality(o[j]) /\ Cardinality(o[j]) \in Nat /\ Cardinality(o[z]) \in Nat
    BY <2>1, FewerAhead
  <2>3. Cardinality(o[j]) <= Cardinality(o[z])
    BY <1>4, <1>7
  <2> QED
    BY <2>2, <2>3
<1> QED
  BY <1>6, <1>8

\* drain fills the room there is and no more.
LEMMA DrainFills ==
  ASSUME NEW W, NEW o, InLine(W, o),
         NEW A, A \subseteq Keys, IsFiniteSet(A), Cardinality(A) <= Concurrency
  PROVE  LET T == Started(W, o, A)
         IN  /\ IsFiniteSet(A \cup T)
             /\ Cardinality(A \cup T) <= Concurrency
             /\ W \ T \subseteq A \cup T \/ Cardinality(A \cup T) = Concurrency
<1> DEFINE T == Started(W, o, A)
<1>1. T \in SUBSET W /\ T \cap A = {} /\ IsFiniteSet(W)
  BY DEF Started, InLine
<1>2. IsFiniteSet(T) /\ Cardinality(T) \in Nat /\ Cardinality(A) \in Nat
  BY <1>1, FS_Subset, FS_CardinalityType
<1>3. IsFiniteSet(A \cup T) /\ Cardinality(A \cup T) = Cardinality(A) + Cardinality(T)
  <2>1. Cardinality(A \cap T) = 0
    BY <1>1, FS_EmptySet
  <2>2. /\ IsFiniteSet(A \cup T)
        /\ Cardinality(A \cup T) = Cardinality(A) + Cardinality(T) - Cardinality(A \cap T)
    BY <1>2, FS_Union
  <2> QED
    BY <1>2, <2>1, <2>2
<1>4. \A k \in W : IsFiniteSet(o[k] \ A) /\ Cardinality(o[k] \ A) \in Nat
  <2> TAKE k \in W
  <2>1. o[k] \ A \in SUBSET W
    BY DEF InLine
  <2> QED
    BY <1>1, <2>1, FS_Subset, FS_CardinalityType
<1>5. Cardinality(A \cup T) <= Concurrency
  <2>1. CASE T = {}
    BY <2>1
  <2>2. CASE T # {}
    <3>1. PICK z \in T : T \ {z} \subseteq o[z]
      BY <1>1, <2>2, EndsOfLine
    <3>2. T \ {z} \in SUBSET (o[z] \ A)
      BY <1>1, <3>1
    <3>3. Cardinality(o[z] \ A) + Cardinality(A) < Concurrency
      BY DEF Started
    <3>4. Cardinality(T \ {z}) = Cardinality(T) - 1
      BY <1>2, FS_RemoveElement
    <3>5. Cardinality(T \ {z}) <= Cardinality(o[z] \ A)
      BY <1>1, <1>4, <3>2, FS_Subset
    <3>6. Cardinality(o[z] \ A) \in Nat
      BY <1>1, <1>4
    <3> HIDE DEF T
    <3> QED
      BY <1>2, <1>3, <3>3, <3>4, <3>5, <3>6, ConcurrencyAssumption
  <2> QED
    BY <2>1, <2>2
<1>6. ASSUME ~ (W \ T \subseteq A \cup T)
      PROVE  Cardinality(A \cup T) >= Concurrency
  <2> DEFINE S == (W \ A) \ T
  <2>1. S \in SUBSET W /\ S # {}
    BY <1>6
  <2>e. \E k \in S : o[k] \cap S = {}
    <3> HIDE DEF S
    <3> QED
      BY <2>1, EndsOfLine
  <2>2. PICK k \in S : o[k] \cap S = {}
    BY <2>e
  <2>3. o[k] \ A \in SUBSET T
    BY <2>2 DEF InLine
  <2>4. Cardinality(o[k] \ A) <= Cardinality(T)
    BY <1>2, <2>3, FS_Subset
  <2>5. ~ (Cardinality(o[k] \ A) + Cardinality(A) < Concurrency)
    BY DEF Started
  <2>6. Cardinality(o[k] \ A) \in Nat
    BY <1>4
  <2> HIDE DEF T, S
  <2> QED
    BY <1>2, <1>3, <2>4, <2>5, <2>6, ConcurrencyAssumption
<1> QED
  <2>1. Cardinality(A \cup T) \in Nat
    BY <1>2, <1>3
  <2> HIDE DEF T
  <2>2. W \ T \subseteq A \cup T \/ Cardinality(A \cup T) = Concurrency
    BY <1>5, <1>6, <2>1, ConcurrencyAssumption
  <2> QED
    BY <1>3, <1>5, <2>2 DEF T

\* A drain leaves the others in line, and fills the room.
LEMMA DrainKeepsLine ==
  ASSUME NEW W, NEW o, InLine(W, o),
         NEW A, A \subseteq Keys, IsFiniteSet(A), Cardinality(A) <= Concurrency,
         Drained(W, o, A)
  PROVE  KeyedInv'
<1> DEFINE T == Started(W, o, A)
           rest == [k \in Keys |-> IF k \in T THEN {} ELSE o[k] \ T]
<1>1. waitingKeys' = W \ T /\ aheadOf' = rest /\ activeKeys' = A \cup T
  BY DEF Drained
<1>2. T \subseteq W /\ W \subseteq Keys
  BY DEF Started, InLine
<1>3. InLine(W \ T, rest)
  <2> HIDE DEF T
  <2>1. IsFiniteSet(W \ T)
    BY FS_Difference DEF InLine
  <2>2. rest \in [Keys -> SUBSET Keys] /\ \A k \in Keys \ (W \ T) : rest[k] = {}
    BY <1>2 DEF InLine
  <2>3. \A k \in W \ T : rest[k] = o[k] \ T
    BY <1>2
  <2> HIDE DEF rest
  <2> QED
    BY <1>2, <2>1, <2>2, <2>3 DEF InLine
<1>4. /\ IsFiniteSet(A \cup T)
      /\ Cardinality(A \cup T) <= Concurrency
      /\ W \ T \subseteq A \cup T \/ Cardinality(A \cup T) = Concurrency
  BY DrainFills
<1> HIDE DEF T, rest
<1> QED
  BY <1>1, <1>2, <1>3, <1>4 DEF KeyedInv, RoomIsUsed

\* A key set while it waits keeps its place; a new one goes to the end.
LEMMA EnqueueJoinsLine ==
  ASSUME NEW W, NEW o, InLine(W, o), NEW k \in Keys
  PROVE  InLine(W \cup {k}, IF k \in W THEN o ELSE [o EXCEPT ![k] = W])
<1>1. CASE k \in W
  <2>1. W \cup {k} = W
    BY <1>1
  <2> QED
    BY <1>1, <2>1
<1>2. CASE k \notin W
  <2>1. IsFiniteSet(W \cup {k})
    BY FS_AddElement DEF InLine
  <2> DEFINE p == [o EXCEPT ![k] = W]
  <2>2. /\ p \in [Keys -> SUBSET Keys] /\ p[k] = W
        /\ \A j \in Keys \ {k} : p[j] = o[j]
    BY DEF InLine
  <2> HIDE DEF p
  <2>3. InLine(W \cup {k}, p)
    BY <1>2, <2>1, <2>2 DEF InLine
  <2> QED
    BY <1>2, <2>3 DEF p
<1> QED
  BY <1>1, <1>2

\* The line and the bound hold throughout.
LEMMA KeyedInvariance == KeyedSafe => []KeyedInv
<1>1. KeyedInit => KeyedInv
  BY FS_EmptySet, ConcurrencyAssumption DEF KeyedInit, KeyedInv, InLine, RoomIsUsed
<1>2. KeyedInv /\ [KeyedNext]_keyedVars => KeyedInv'
  <2> SUFFICES ASSUME KeyedInv, [KeyedNext]_keyedVars
               PROVE  KeyedInv'
    OBVIOUS
  <2> USE DEF KeyedInv, RoomIsUsed
  <2>1. ASSUME NEW k \in Keys, EnqueueKey(k)
        PROVE  KeyedInv'
    BY <2>1, EnqueueJoinsLine, DrainKeepsLine DEF EnqueueKey
  <2>2. ASSUME NEW k \in Keys, KeyedTaskSettles(k)
        PROVE  KeyedInv'
    <3>1. /\ IsFiniteSet(activeKeys \ {k}) /\ Cardinality(activeKeys) \in Nat
          /\ Cardinality(activeKeys \ {k}) = Cardinality(activeKeys) - 1
      BY <2>2, FS_RemoveElement, FS_CardinalityType DEF KeyedTaskSettles
    <3>2. Cardinality(activeKeys \ {k}) <= Concurrency
      BY <3>1, ConcurrencyAssumption
    <3> QED
      BY <2>2, <3>1, <3>2, DrainKeepsLine DEF KeyedTaskSettles
  <2>3. CASE UNCHANGED keyedVars
    BY <2>3 DEF keyedVars, InLine
  <2> QED
    BY <2>1, <2>2, <2>3 DEF KeyedNext
<1> QED
  BY <1>1, <1>2, PTL DEF KeyedSafe

\* Type correctness of the keyed queue.
THEOREM KeyedTyped == KeyedSafe => []KeyedTypeOK
<1>1. KeyedInv => KeyedTypeOK
  BY DEF KeyedInv, InLine, KeyedTypeOK
<1> QED
  BY <1>1, KeyedInvariance, PTL

\* At most Concurrency tasks run, and no key waits beside a free slot but for
\* its own task.
THEOREM NoSlotIsWasted == KeyedSafe => []RoomIsUsed
<1>1. KeyedInv => RoomIsUsed
  BY DEF KeyedInv
<1> QED
  BY <1>1, KeyedInvariance, PTL

\* A drain starts nobody who is behind a key that it leaves waiting, unless that
\* key's own task is running.
LEMMA DrainIsInOrder ==
  ASSUME NEW W, NEW o, InLine(W, o),
         NEW A, A \subseteq Keys, IsFiniteSet(A), Drained(W, o, A),
         NEW k \in W, k \in waitingKeys'
  PROVE  /\ aheadOf'[k] \subseteq o[k]
         /\ (activeKeys' \ A) \subseteq o[k] \/ k \in activeKeys'
<1> DEFINE T == Started(W, o, A)
<1>1. /\ k \notin T /\ activeKeys' = A \cup T /\ k \in Keys
      /\ aheadOf' = [j \in Keys |-> IF j \in T THEN {} ELSE o[j] \ T]
  BY DEF Drained, InLine
<1>2. aheadOf'[k] \subseteq o[k]
  BY <1>1
<1>3. ASSUME k \notin A, NEW j \in T, j \notin o[k]
      PROVE  FALSE
  <2>1. j \in W /\ k \in o[j] /\ o[k] \subseteq o[j]
    BY <1>1, <1>3 DEF Started, InLine
  <2>2. o[k] \ A \in SUBSET (o[j] \ A) /\ IsFiniteSet(o[j])
    <3>1. o[j] \in SUBSET W /\ IsFiniteSet(W)
      BY <2>1 DEF InLine
    <3> QED
      BY <2>1, <3>1, FS_Subset
  <2>3. /\ IsFiniteSet(o[j] \ A) /\ IsFiniteSet(o[k] \ A)
        /\ Cardinality(o[k] \ A) <= Cardinality(o[j] \ A)
    BY <2>2, FS_Subset, FS_Difference
  <2>4. Cardinality(o[k] \ A) \in Nat /\ Cardinality(o[j] \ A) \in Nat /\ Cardinality(A) \in Nat
    BY <2>3, FS_CardinalityType
  <2>5. Cardinality(o[j] \ A) + Cardinality(A) < Concurrency
    BY <1>3 DEF Started
  <2>6. ~ (Cardinality(o[k] \ A) + Cardinality(A) < Concurrency)
    BY <1>1, <1>3 DEF Started
  <2> QED
    BY <2>3, <2>4, <2>5, <2>6, ConcurrencyAssumption
<1> QED
  BY <1>1, <1>2, <1>3

\* A key that waits is never overtaken, but while its own task runs.
THEOREM NobodyIsOvertaken == KeyedSafe => NobodyCutsIn
<1>1. ASSUME KeyedInv, KeyedNext, NEW k \in waitingKeys, k \in waitingKeys'
      PROVE  /\ aheadOf'[k] \subseteq aheadOf[k]
             /\ (activeKeys' \ activeKeys) \subseteq aheadOf[k] \/ k \in activeKeys'
  <2> USE <1>1
  <2>1. ASSUME NEW n \in Keys, EnqueueKey(n)
        PROVE  /\ aheadOf'[k] \subseteq aheadOf[k]
               /\ (activeKeys' \ activeKeys) \subseteq aheadOf[k] \/ k \in activeKeys'
    <3> DEFINE W == waitingKeys \cup {n}
               o == IF n \in waitingKeys THEN aheadOf ELSE [aheadOf EXCEPT ![n] = waitingKeys]
    <3>1. InLine(W, o)
      BY EnqueueJoinsLine DEF KeyedInv
    <3>2. o[k] = aheadOf[k] /\ k \in W
      BY DEF KeyedInv, InLine
    <3>3. Drained(W, o, activeKeys)
      BY <2>1 DEF EnqueueKey
    <3> HIDE DEF W, o
    <3> QED
      BY <3>1, <3>2, <3>3, DrainIsInOrder DEF KeyedInv
  <2>2. ASSUME NEW n \in Keys, KeyedTaskSettles(n)
        PROVE  /\ aheadOf'[k] \subseteq aheadOf[k]
               /\ (activeKeys' \ activeKeys) \subseteq aheadOf[k] \/ k \in activeKeys'
    <3>1. /\ Drained(waitingKeys, aheadOf, activeKeys \ {n})
          /\ IsFiniteSet(activeKeys \ {n}) /\ activeKeys \ {n} \subseteq Keys
      BY <2>2, FS_RemoveElement DEF KeyedTaskSettles, KeyedInv
    <3>2. /\ aheadOf'[k] \subseteq aheadOf[k]
          /\ (activeKeys' \ (activeKeys \ {n})) \subseteq aheadOf[k] \/ k \in activeKeys'
      BY <3>1, DrainIsInOrder DEF KeyedInv
    <3> QED
      BY <3>2
  <2> QED
    BY <2>1, <2>2 DEF KeyedNext
<1>2. KeyedInv /\ [KeyedNext]_keyedVars =>
        [\A k \in waitingKeys \cap waitingKeys' :
           /\ aheadOf'[k] \subseteq aheadOf[k]
           /\ (activeKeys' \ activeKeys) \subseteq aheadOf[k] \/ k \in activeKeys']_keyedVars
  BY <1>1
<1> QED
  BY <1>2, KeyedInvariance, PTL DEF KeyedSafe, NobodyCutsIn

-----------------------------------------------------------------------------
(* The composition that TLC runs.                                           *)

\* Each part of the composition is a behaviour of its own module, so what is
\* proved of the modules holds of what the run checks.
LEMMA PartsOfWorker == MCSpec => Spec /\ MirrorSafe /\ KeyedSafe
<1>1. MCInit => Init /\ MirrorInit /\ KeyedInit
  BY DEF MCInit
<1>2. [MCNext]_MCVars => [Next]_vars /\ [MirrorNext]_mirrorVars /\ [KeyedNext]_keyedVars
  BY DEF MCNext, MCVars, Process, Mirroring, Fanning
<1> QED
  BY <1>1, <1>2, PTL DEF MCSpec, Spec, MirrorSafe, KeyedSafe

\* Type correctness of the composition: the process, the mirror's rows and the
\* keys in line.
THEOREM WorkerTyped == MCSpec => []WorkerTypeOK
<1>1. TypeOK /\ MirrorTypeOK /\ KeyedTypeOK => WorkerTypeOK
  BY DEF WorkerTypeOK
<1> QED
  BY <1>1, PartsOfWorker, TypeCorrect, MirrorTyped, KeyedTyped, PTL
=============================================================================
