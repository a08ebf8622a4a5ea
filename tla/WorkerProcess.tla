--------------------------- MODULE WorkerProcess ---------------------------
(***************************************************************************)
(* The background worker: apps/api/src/worker-server.ts and the owners of  *)
(* its schedulers.  The outbox dispatcher and the board mirror scheduler   *)
(* are woken by their own NOTIFY listener, the webhook scheduler by an     *)
(* outbox drain that processed rows.  A signal closes the application,     *)
(* which stops the schedulers and then the resources they use.             *)
(***************************************************************************)
EXTENDS SweepScheduler, NotifyListener

VARIABLE
  shutdown \* "up", "stopping", "resources" (closeServiceResources), "ended", "forced"

vars == <<schedVars, listenVars, shutdown>>

\* startRealtimeOutboxDispatcher, startBoardMirrorScheduler and
\* startWebhookDeliveryScheduler; a listener has the name of its owner.
Outbox == "outbox"
Mirror == "mirror"
Webhook == "webhook"

ASSUME OwnersAssumption ==
  /\ {Outbox, Mirror, Webhook} \subseteq Schedulers
  /\ {Outbox, Mirror} = Listeners

TypeOK ==
  /\ SchedTypeOK
  /\ ListenTypeOK
  /\ shutdown \in {"up", "stopping", "resources", "ended", "forced"}

Init ==
  /\ SchedInit
  /\ ListenInit
  /\ shutdown = "up"

Alive == shutdown \in {"up", "stopping", "resources"}

\* NOTIFY reaches a session that LISTENs and calls the owner's trigger().
Notified(l) ==
  /\ Alive /\ l \in listening
  /\ Trigger(l)
  /\ UNCHANGED <<listenVars, shutdown>>

\* A drain that processed rows wakes the webhook scheduler before it settles.
DeliveriesEnqueued ==
  /\ Alive /\ Outbox \in running
  /\ Trigger(Webhook)
  /\ UNCHANGED <<listenVars, shutdown>>

Turn(s) ==
  /\ Alive
  /\ TimerFires(s) \/ TaskSettles(s)
  /\ UNCHANGED <<listenVars, shutdown>>

ListenerTurn(l) ==
  /\ Alive
  /\ ListenStep(l)
  /\ UNCHANGED <<schedVars, shutdown>>

ListenerBreaks(l) ==
  /\ Alive
  /\ ConnectionLost(l)
  /\ UNCHANGED <<schedVars, shutdown>>

\* The first signal: onClose calls every stop() in one turn.  The outbox owner
\* releases its listener along with its scheduler, the mirror owner after it.
Signal ==
  /\ shutdown = "up"
  /\ shutdown' = "stopping"
  /\ Stop(Schedulers)
  /\ Release({Outbox})

ReleaseMirror ==
  /\ Alive
  /\ stopPromise[Mirror] = "resolved" /\ release[Mirror] = "none"
  /\ Release({Mirror})
  /\ UNCHANGED <<schedVars, shutdown>>

\* Slip: the pool is closed as soon as the listeners are released.
CloseResourcesEarly ==
  /\ shutdown = "stopping"
  /\ \A l \in Listeners : release[l] = "done"
  /\ shutdown' = "resources"
  /\ UNCHANGED <<schedVars, listenVars>>

\* Promise.allSettled over the stops is over: close() resolves and
\* closeServiceResources calls pool.end().
CloseResources ==
  /\ shutdown = "stopping"
  /\ \A s \in Schedulers : stopPromise[s] = "resolved"
  /\ \A l \in Listeners : release[l] = "done"
  /\ shutdown' = "resources"
  /\ UNCHANGED <<schedVars, listenVars>>

\* pool.end() resolves once every client is back.
PoolEnds ==
  /\ shutdown = "resources"
  /\ \A l \in Listeners : l \notin held
  /\ shutdown' = "ended"
  /\ UNCHANGED <<schedVars, listenVars>>

\* A second signal during shutdown exits at once.
SecondSignal ==
  /\ shutdown \in {"stopping", "resources"}
  /\ shutdown' = "forced"
  /\ UNCHANGED <<schedVars, listenVars>>

Next ==
  \/ \E l \in Listeners : Notified(l) \/ ListenerTurn(l) \/ ListenerBreaks(l)
  \/ \E s \in Schedulers : Turn(s)
  \/ DeliveriesEnqueued \/ Signal \/ ReleaseMirror \/ CloseResources
  \/ PoolEnds \/ SecondSignal

Spec == Init /\ [][Next]_vars

\* Timers fire, tasks and queries settle (every query has a timeout), and the
\* shutdown sequence runs on; signals and notifications may never come.
Fairness ==
  /\ \A s \in Schedulers : WF_vars(Turn(s))
  /\ \A l \in Listeners : WF_vars(ListenerTurn(l))
  /\ WF_vars(ReleaseMirror) /\ WF_vars(CloseResources) /\ WF_vars(PoolEnds)

FairSpec == Spec /\ Fairness

-----------------------------------------------------------------------------
(* Properties of the process as a whole. *)

\* The database pool outlives its users: when its end begins, no sweep is in
\* flight, no listener connection is out, and none of them can come back.
PoolOutlivesWork ==
  shutdown = "resources" =>
    /\ \A s \in Schedulers : active[s] = 0 /\ s \in stopped
    /\ \A l \in Listeners : l \notin held /\ phase[l] = "settled"

\* A signal leads to the end of the process, whatever was under way.
ShutdownCompletes == shutdown = "stopping" ~> shutdown \in {"ended", "forced"}

Closing == shutdown \in {"stopping", "resources"}

\* What a fair step needs in order to be taken: a task to settle, a connect()
\* or release() to go on, or the next stage of close() with its wait over.
WorkAhead ==
  \/ running # {}
  \/ \E l \in Listeners :
       \/ phase[l] # "settled"
       \/ release[l] = "unlistening"
       \/ release[l] = "waiting" /\ ready[l] # "pending"
  \/ stopPromise[Mirror] = "resolved" /\ release[Mirror] = "none"
  \/ /\ shutdown = "stopping"
     /\ \A s \in Schedulers : stopPromise[s] = "resolved"
     /\ \A l \in Listeners : release[l] = "done"
  \/ shutdown = "resources" /\ held = {}

\* A shutdown is never stuck: no await of it waits for a step that cannot come.
NeverStuck == Closing => WorkAhead

\* How many steps a connect() or a release() still has, at most.
ConnectLeft(l) ==
  CASE phase[l] = "connecting" -> 3 [] phase[l] = "listening" -> 2
    [] phase[l] = "unlistening" -> 1 [] OTHER -> 0
ReleaseLeft(l) ==
  CASE release[l] = "none" -> 3 [] release[l] = "waiting" -> 2
    [] release[l] = "unlistening" -> 1 [] OTHER -> 0

\* Nothing that has ended starts anew.
Descends ==
  /\ running' \subseteq running
  /\ \A l \in Listeners :
       ConnectLeft(l)' <= ConnectLeft(l) /\ ReleaseLeft(l)' <= ReleaseLeft(l)
  /\ shutdown = "resources" => shutdown' # "stopping"

\* Something ends.
Advances ==
  \/ running' # running
  \/ \E l \in Listeners :
       ConnectLeft(l)' < ConnectLeft(l) \/ ReleaseLeft(l)' < ReleaseLeft(l)
  \/ shutdown' # shutdown

\* Every step of a shutdown uses up some of the work that was left when the
\* signal came, except the break of a connection, which adds none: no wake,
\* timer or late connect() can keep the process alive.
ShutdownUsesUpWork ==
  [][Closing => Descends /\ (Advances \/ \E l \in Listeners : ListenerBreaks(l))]_vars
=============================================================================
