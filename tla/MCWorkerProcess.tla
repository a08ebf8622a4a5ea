-------------------------- MODULE MCWorkerProcess --------------------------
(***************************************************************************)
(* Small instances of the worker process, and of two of the tasks it runs: *)
(* the drain of the board mirrors and the fan-out of feed notifications.   *)
(* A task sees nothing of the scheduler that runs it, so one initial state *)
(* for each checks what their product would.                               *)
(***************************************************************************)
EXTENDS WorkerProcess, BoardMirror, KeyedTaskQueue

CONSTANTS card, card2, k1, k2, k3, k4

\* The owners that matter to each other: two with a listener, one woken by a
\* sibling, and one that waits for its first delay.
TheSchedulers == {Outbox, Mirror, Webhook, "digest"}
StartAtOnce == {Outbox, Mirror, Webhook}
TheListeners == {Outbox, Mirror}
KeepsNone == {Mirror}
OneCard == {card}
TwoCards == {card, card2}
FourKeys == {k1, k2, k3, k4}

VARIABLE part \* what is under check; it never changes

MCVars == <<vars, mirrorVars, keyedVars, part>>

MCInit == Init /\ MirrorInit /\ KeyedInit /\ part \in {"process", "mirror", "keyed"}

\* A mirror sees at most three of the edits, pauses and silences that may come.
MirrorBounds == mirrorActs' + mirrorClock' + Cardinality(unannounced') <= 3

Process == part = "process" /\ UNCHANGED <<mirrorVars, keyedVars, part>>
Mirroring == part = "mirror" /\ UNCHANGED <<vars, keyedVars, part>>
Fanning == part = "keyed" /\ UNCHANGED <<vars, mirrorVars, part>>

MCNext ==
  \/ Process /\ Next
  \/ Mirroring /\ MirrorNext /\ MirrorBounds
  \/ Fanning /\ KeyedNext

\* Fairness, MirrorFairness and KeyedFairness, each of its own part.
MCFairness ==
  /\ \A s \in Schedulers : WF_MCVars(Process /\ Turn(s))
  /\ \A l \in Listeners : WF_MCVars(Process /\ ListenerTurn(l))
  /\ WF_MCVars(Process /\ ReleaseMirror)
  /\ WF_MCVars(Process /\ CloseResources)
  /\ WF_MCVars(Process /\ PoolEnds)
  /\ WF_MCVars(Mirroring /\ MirrorWork)
  /\ WF_MCVars(Mirroring /\ Announce)
  /\ WF_MCVars(Mirroring /\ BackoffPasses)
  /\ \A c \in SourceCards : WF_MCVars(Mirroring /\ DirtyWaitPasses(c))
  /\ \A k \in Keys : WF_MCVars(Fanning /\ KeyedTaskSettles(k))

MCSpec == MCInit /\ [][MCNext]_MCVars /\ MCFairness

\* The timers, listeners and stops, the mirror's rows and the waiting tasks
\* stay within their types.
WorkerTypeOK == TypeOK /\ MirrorTypeOK /\ KeyedTypeOK
=============================================================================
