---------------------------- MODULE EventOutbox ----------------------------
(***************************************************************************)
(* The durable event outbox: apps/api/src/realtime/outbox.ts and the       *)
(* publication path of apps/api/src/realtime/emit.ts.                      *)
(*                                                                         *)
(* A mutation publishes an event.  A process that owns Socket.IO           *)
(* broadcasts it inline and then inserts its row with realtimeDispatched   *)
(* set; an io-less process only inserts the row.  Other rows carry that    *)
(* flag from the start because no room may hear them: their audience is    *)
(* told user by user, or only the integrations are.  Dispatchers claim     *)
(* rows under a lease, broadcast those not yet dispatched, queue their MCP *)
(* and webhook deliveries, and mark them done.  An operator may free a     *)
(* lease or cancel an event.                                               *)
(*                                                                         *)
(* Every await of processRealtimeOutbox is a step of its own, so that two  *)
(* dispatchers, a stalled one whose lease ran out, and the purge of old    *)
(* rows interleave with it.  Time is not counted: a lease is "free",       *)
(* "held" or "expired", and a held lease may expire at any moment, which   *)
(* covers a stall or a crash of any length.  The attempts counter and      *)
(* lastError are only reported, never read, and are left out.              *)
(***************************************************************************)
EXTENDS Naturals, FiniteSets

CONSTANTS
  Events,     \* row ids; uuidv7 and created_at order them, as naturals do
  Workers,    \* dispatchers, one per API process
  BatchLimit, \* DEFAULT_PROCESS_LIMIT
  MaxFaults,  \* bound on failed steps and abandoned runs
  MaxInterventions \* bound on the operator's requests

ASSUME EventsAssumption == Events \subseteq Nat /\ IsFiniteSet(Events)
ASSUME LimitAssumption == BatchLimit \in Nat \ {0}
ASSUME FaultsAssumption == {MaxFaults, MaxInterventions} \subseteq Nat

VARIABLES
  (* the event_outbox table and its delivery tables *)
  rows,       \* events whose row is in event_outbox
  dispatched, \* rows with realtime_dispatched
  enqueued,   \* rows with webhooks_enqueued
  lease,      \* processing_lease_expires_at: "free" is null or never taken
  deliveries, \* delivery rows per consumer table and event
  (* the run of each dispatcher *)
  pc,         \* "idle" or in a "drain"
  todo,       \* what is left of the claimed batch
  stage,      \* position inside processEvent for the oldest member of todo
  seenDispatched, \* realtimeDispatched as selected in the claim transaction
  completed,  \* completedIds
  (* publication and history *)
  pub,        \* how far emitToBoard got: "new", "sent" (inline broadcast), "stored", "lost"
  inline,     \* events published by a process that owns Socket.IO
  quiet,      \* events whose row was inserted dispatched though no room heard them
  broadcasts, \* how often each event was broadcast
  dropped,    \* rows the stuck purge deleted
  late,       \* events whose lease ran out or was freed, or whose flag write failed
  faults,     \* failures so far
  (* the operator *)
  adminAct,   \* the request that has read the row and not written it yet
  cancelled,  \* rows an operator marked done before they were
  interventions \* requests so far

tableVars == <<rows, dispatched, enqueued, lease>>
runVars == <<pc, todo, stage, seenDispatched, completed>>
pubVars == <<pub, inline, quiet>>
adminVars == <<adminAct, cancelled, interventions>>
outsideVars == <<pubVars, adminVars>>
vars == <<tableVars, deliveries, runVars, outsideVars, broadcasts, dropped, late, faults>>

Consumers == {"mcp", "webhook"}
Stages == {"broadcast", "flag", "mcp", "webhook"}

TypeOK ==
  /\ rows \subseteq Events
  /\ dispatched \subseteq Events
  /\ enqueued \subseteq Events
  /\ lease \in [Events -> {"free", "held", "expired"}]
  /\ deliveries \in [Consumers -> [Events -> Nat]]
  /\ pc \in [Workers -> {"idle", "drain"}]
  /\ todo \in [Workers -> SUBSET Events]
  /\ stage \in [Workers -> Stages]
  /\ seenDispatched \in [Workers -> SUBSET Events]
  /\ completed \in [Workers -> SUBSET Events]
  /\ pub \in [Events -> {"new", "sent", "stored", "lost"}]
  /\ inline \subseteq Events
  /\ quiet \subseteq Events
  /\ broadcasts \in [Events -> Nat]
  /\ dropped \subseteq Events
  /\ late \subseteq Events
  /\ faults \in Nat
  /\ adminAct \in [Events -> {"none", "retry", "cancel"}]
  /\ cancelled \subseteq Events
  /\ interventions \in Nat

Init ==
  /\ rows = {} /\ dispatched = {} /\ enqueued = {}
  /\ lease = [e \in Events |-> "free"]
  /\ deliveries = [c \in Consumers |-> [e \in Events |-> 0]]
  /\ pc = [w \in Workers |-> "idle"]
  /\ todo = [w \in Workers |-> {}]
  /\ stage = [w \in Workers |-> "broadcast"]
  /\ seenDispatched = [w \in Workers |-> {}]
  /\ completed = [w \in Workers |-> {}]
  /\ pub = [e \in Events |-> "new"]
  /\ inline = {} /\ quiet = {}
  /\ broadcasts = [e \in Events |-> 0]
  /\ dropped = {} /\ late = {} /\ faults = 0
  /\ adminAct = [e \in Events |-> "none"] /\ cancelled = {} /\ interventions = 0

-----------------------------------------------------------------------------
(* Publication. *)

\* emitToBoard in a process that owns Socket.IO broadcasts before it awaits
\* the insert.
BroadcastInline(e) ==
  /\ pub[e] = "new"
  /\ pub' = [pub EXCEPT ![e] = "sent"]
  /\ inline' = inline \cup {e}
  /\ broadcasts' = [broadcasts EXCEPT ![e] = @ + 1]
  /\ UNCHANGED <<quiet, adminVars, tableVars, deliveries, runVars, dropped, late, faults>>

\* publishRealtimeEvent inserts the row; realtimeDispatched says whether the
\* inline broadcast happened.
InsertRow(e) ==
  /\ pub[e] \in {"new", "sent"}
  /\ pub' = [pub EXCEPT ![e] = "stored"]
  /\ rows' = rows \cup {e}
  /\ dispatched' = IF pub[e] = "sent" THEN dispatched \cup {e} ELSE dispatched
  /\ UNCHANGED <<inline, quiet, adminVars, enqueued, lease, deliveries, runVars,
                 broadcasts, dropped, late, faults>>

\* Slip: the row is inserted like any other.
InsertLoudly(e) ==
  /\ pub[e] = "new"
  /\ pub' = [pub EXCEPT ![e] = "stored"]
  /\ quiet' = quiet \cup {e}
  /\ rows' = rows \cup {e}
  /\ UNCHANGED <<inline, adminVars, dispatched, enqueued, lease, deliveries, runVars,
                 broadcasts, dropped, late, faults>>

\* A row that is dispatched from the start, and of which no room ever hears.
InsertQuietly(e) ==
  /\ pub[e] = "new"
  /\ pub' = [pub EXCEPT ![e] = "stored"]
  /\ quiet' = quiet \cup {e}
  /\ rows' = rows \cup {e}
  /\ dispatched' = dispatched \cup {e}
  /\ UNCHANGED <<inline, adminVars, enqueued, lease, deliveries, runVars, broadcasts,
                 dropped, late, faults>>

\* emitFilteredUserPayloads: the users who may know are told one by one, here or
\* through the direct outbox; the row is for the integrations.
EmitFiltered(e) == InsertQuietly(e)

\* recordDependencyTransition, and recordScheduleBoundary like it: a row for the
\* integrations only, inserted by the mutation's own transaction.
RecordTransition(e) == InsertQuietly(e)

\* The insert fails, the workspace is gone, or the process dies first: the
\* failure is logged and the mutation stands (publication is fail-open).
LoseInsert(e) ==
  /\ pub[e] \in {"new", "sent"}
  /\ pub' = [pub EXCEPT ![e] = "lost"]
  /\ UNCHANGED <<inline, quiet, adminVars, tableVars, deliveries, runVars, broadcasts,
                 dropped, late, faults>>

-----------------------------------------------------------------------------
(* The drain: processRealtimeOutbox and processEvent. *)

Oldest(S) == CHOOSE e \in S : \A f \in S : e <= f

\* The first BatchLimit members of S in (created_at, id) order.
FirstOf(S) == {e \in S : Cardinality({f \in S : f < e}) < BatchLimit}

\* Slips: the claim ignores leases, or looks at one of the two flags only.
ClaimableUnderLease == {e \in rows : e \notin dispatched \/ e \notin enqueued}
ClaimableUndispatched == {e \in rows \ dispatched : lease[e] # "held"}

Claimable == {e \in rows : /\ e \notin dispatched \/ e \notin enqueued
                           /\ lease[e] # "held"}

\* Rows another run may be writing at this moment: SKIP LOCKED passes over them.
InHandsOfOthers(w) == UNION {todo[v] \cup completed[v] : v \in Workers \ {w}}

Claim(w) ==
  /\ pc[w] = "idle"
  /\ \E locked \in SUBSET (Claimable \cap InHandsOfOthers(w)) :
       LET batch == FirstOf(Claimable \ locked) IN
       /\ batch # {}
       /\ lease' = [e \in Events |-> IF e \in batch THEN "held" ELSE lease[e]]
       /\ todo' = [todo EXCEPT ![w] = batch]
       /\ seenDispatched' = [seenDispatched EXCEPT ![w] = dispatched \cap batch]
  /\ pc' = [pc EXCEPT ![w] = "drain"]
  /\ UNCHANGED <<stage, completed, rows, dispatched, enqueued, deliveries,
                 outsideVars, broadcasts, dropped, late, faults>>

Current(w) == Oldest(todo[w])

At(w, s) == todo[w] # {} /\ stage[w] = s

Goto(w, s) ==
  /\ stage' = [stage EXCEPT ![w] = s]
  /\ UNCHANGED <<pc, todo, seenDispatched, completed>>

\* On to the next event of the batch.
NextEvent(w) ==
  /\ todo' = [todo EXCEPT ![w] = @ \ {Current(w)}]
  /\ stage' = [stage EXCEPT ![w] = "broadcast"]
  /\ UNCHANGED <<pc, seenDispatched>>

\* processEvent returns: the id joins completedIds.
Complete(w) ==
  /\ NextEvent(w)
  /\ completed' = [completed EXCEPT ![w] = @ \cup {Current(w)}]

\* The run is over and its memory gone.
Finish(w) ==
  /\ pc' = [pc EXCEPT ![w] = "idle"]
  /\ todo' = [todo EXCEPT ![w] = {}]
  /\ stage' = [stage EXCEPT ![w] = "broadcast"]
  /\ seenDispatched' = [seenDispatched EXCEPT ![w] = {}]
  /\ completed' = [completed EXCEPT ![w] = {}]

\* if (!event.realtimeDispatched) broadcast, from the flag as it was claimed.
Broadcast(w) ==
  /\ At(w, "broadcast")
  /\ Current(w) \notin seenDispatched[w]
  /\ broadcasts' = [broadcasts EXCEPT ![Current(w)] = @ + 1]
  /\ Goto(w, "flag")
  /\ UNCHANGED <<tableVars, deliveries, outsideVars, dropped, late, faults>>

SkipBroadcast(w) ==
  /\ At(w, "broadcast")
  /\ Current(w) \in seenDispatched[w]
  /\ Goto(w, "mcp")
  /\ UNCHANGED <<tableVars, deliveries, outsideVars, broadcasts, dropped, late, faults>>

\* The flag is written on its own, and the same UPDATE clears the lease
\* although the event is still being processed.
RecordDispatched(w) ==
  /\ At(w, "flag")
  /\ dispatched' = dispatched \cup ({Current(w)} \cap rows)
  /\ lease' = [lease EXCEPT ![Current(w)] = IF Current(w) \in rows THEN "free" ELSE @]
  /\ Goto(w, "mcp")
  /\ UNCHANGED <<rows, enqueued, deliveries, outsideVars, broadcasts, dropped, late, faults>>

\* Slip: no foreign key ties a delivery to its outbox row.
InsertUnchecked(c, e) ==
  deliveries' = [deliveries EXCEPT ![c][e] = IF @ = 0 THEN 1 ELSE @]

\* An insert into a delivery table: the foreign key needs the outbox row, the
\* unique index makes a second insert do nothing.
Insert(c, e) ==
  /\ e \in rows
  /\ deliveries' = IF deliveries[c][e] = 0
                   THEN [deliveries EXCEPT ![c][e] = 1] ELSE deliveries

\* enqueueMcpEventDeliveries.  Its test !event.webhooksEnqueued always holds: a
\* row with webhooks_enqueued also has realtime_dispatched (FlagsTellTheTruth)
\* and the claim selects no row with both.
EnqueueMcp(w) ==
  /\ At(w, "mcp")
  /\ Insert("mcp", Current(w))
  /\ Goto(w, "webhook")
  /\ UNCHANGED <<tableVars, outsideVars, broadcasts, dropped, late, faults>>

\* The insert of enqueueWebhookDeliveriesForOutboxEvent; processEvent returns.
EnqueueWebhook(w) ==
  /\ At(w, "webhook")
  /\ Insert("webhook", Current(w))
  /\ Complete(w)
  /\ UNCHANGED <<tableVars, outsideVars, broadcasts, dropped, late, faults>>

\* The awaited calls that can throw: the broadcast, the flag write, the inserts.
AtCall(w) ==
  \/ At(w, "broadcast") /\ Current(w) \notin seenDispatched[w]
  \/ At(w, "flag")
  \/ At(w, "mcp")
  \/ At(w, "webhook")

\* processEvent throws: the catch block clears the lease and the loop goes on.
\* A delivery insert for a purged row always throws; the others may fail.
Fail(w) ==
  /\ AtCall(w)
  /\ \/ /\ stage[w] \in {"mcp", "webhook"} /\ Current(w) \notin rows
        /\ UNCHANGED faults
     \/ /\ faults < MaxFaults
        /\ faults' = faults + 1
  /\ lease' = [lease EXCEPT ![Current(w)] = IF Current(w) \in rows THEN "free" ELSE @]
  /\ late' = IF stage[w] = "flag" THEN late \cup {Current(w)} ELSE late
  /\ NextEvent(w)
  /\ UNCHANGED <<completed, rows, dispatched, enqueued, deliveries, outsideVars,
                 broadcasts, dropped>>

\* One UPDATE marks every completed event done and clears its lease.
MarkDone(w) ==
  /\ pc[w] = "drain" /\ todo[w] = {}
  /\ dispatched' = dispatched \cup (completed[w] \cap rows)
  /\ enqueued' = enqueued \cup (completed[w] \cap rows)
  /\ lease' = [e \in Events |-> IF e \in completed[w] \cap rows THEN "free" ELSE lease[e]]
  /\ Finish(w)
  /\ UNCHANGED <<rows, deliveries, outsideVars, broadcasts, dropped, late, faults>>

\* The process dies, or an UPDATE outside the try block rejects and the run
\* ends: what the run held in memory is gone, its leases stay.
Abandon(w) ==
  /\ pc[w] = "drain"
  /\ faults < MaxFaults
  /\ faults' = faults + 1
  /\ Finish(w)
  /\ UNCHANGED <<tableVars, deliveries, outsideVars, broadcasts, dropped, late>>

-----------------------------------------------------------------------------
(* Time and retention. *)

\* PROCESSING_LEASE_SECONDS pass, whether or not the holder is still at work.
LeaseExpires(e) ==
  /\ lease[e] = "held"
  /\ lease' = [lease EXCEPT ![e] = "expired"]
  /\ late' = late \cup {e}
  /\ UNCHANGED <<rows, dispatched, enqueued, deliveries, runVars, outsideVars,
                 broadcasts, dropped, faults>>

\* cleanupRealtimeOutbox: a processed row past its retention.
Cleanup(e) ==
  /\ e \in rows /\ e \in dispatched /\ e \in enqueued
  /\ rows' = rows \ {e}
  /\ UNCHANGED <<dispatched, enqueued, lease, deliveries, runVars, outsideVars,
                 broadcasts, dropped, late, faults>>

\* purgeStuckOutboxRows: any row past the backstop retention.
PurgeStuck(e) ==
  /\ e \in rows
  /\ rows' = rows \ {e}
  /\ dropped' = dropped \cup {e}
  /\ UNCHANGED <<dispatched, enqueued, lease, deliveries, runVars, outsideVars,
                 broadcasts, late, faults>>

-----------------------------------------------------------------------------
(* The operator.  Both routes read the flags, and later write by id, whoever  *)
(* holds the lease by then.                                                   *)

OperatorChecks(e, what) ==
  /\ e \in rows /\ (e \notin dispatched \/ e \notin enqueued)
  /\ adminAct[e] = "none"
  /\ interventions < MaxInterventions
  /\ interventions' = interventions + 1
  /\ adminAct' = [adminAct EXCEPT ![e] = what]
  /\ UNCHANGED <<cancelled, pubVars, tableVars, deliveries, runVars, broadcasts,
                 dropped, late, faults>>

\* The lease is cleared under the run that may hold it.
OperatorRetries(e) ==
  /\ adminAct[e] = "retry"
  /\ adminAct' = [adminAct EXCEPT ![e] = "none"]
  /\ lease' = [lease EXCEPT ![e] = IF e \in rows THEN "free" ELSE @]
  /\ late' = IF e \in rows /\ lease[e] = "held" THEN late \cup {e} ELSE late
  /\ UNCHANGED <<cancelled, interventions, pubVars, rows, dispatched, enqueued, deliveries,
                 runVars, broadcasts, dropped, faults>>

\* Both flags are set, so that no dispatcher claims the row any more; a run that
\* has it in its batch delivers it all the same.
OperatorCancels(e) ==
  /\ adminAct[e] = "cancel"
  /\ adminAct' = [adminAct EXCEPT ![e] = "none"]
  /\ dispatched' = dispatched \cup ({e} \cap rows)
  /\ enqueued' = enqueued \cup ({e} \cap rows)
  /\ lease' = [lease EXCEPT ![e] = IF e \in rows THEN "free" ELSE @]
  /\ cancelled' = cancelled \cup (({e} \cap rows) \ enqueued)
  /\ UNCHANGED <<interventions, pubVars, rows, deliveries, runVars, broadcasts, dropped,
                 late, faults>>

-----------------------------------------------------------------------------
Publish ==
  \E e \in Events :
    BroadcastInline(e) \/ InsertRow(e) \/ EmitFiltered(e) \/ RecordTransition(e) \/ LoseInsert(e)

Operate ==
  \E e \in Events :
    \/ OperatorRetries(e) \/ OperatorCancels(e)
    \/ \E what \in {"retry", "cancel"} : OperatorChecks(e, what)

Step(w) ==
  \/ Broadcast(w) \/ SkipBroadcast(w) \/ RecordDispatched(w)
  \/ EnqueueMcp(w) \/ EnqueueWebhook(w)
  \/ Fail(w) \/ MarkDone(w)

Next ==
  \/ Publish \/ Operate
  \/ \E w \in Workers : Claim(w) \/ Step(w) \/ Abandon(w)
  \/ \E e \in Events : LeaseExpires(e) \/ Cleanup(e) \/ PurgeStuck(e)

Spec == Init /\ [][Next]_vars

\* The poll loop re-runs every drain, a run goes on until it returns, and
\* time passes; publication, faults, the operator and retention promise nothing.
Fairness ==
  /\ \A w \in Workers : WF_vars(Claim(w)) /\ WF_vars(Step(w))
  /\ \A e \in Events : WF_vars(LeaseExpires(e))

FairSpec == Spec /\ Fairness

-----------------------------------------------------------------------------
(* Properties. *)

\* The rooms that are to hear of it did, and its deliveries are queued.
WasTold(e) == e \in quiet \/ broadcasts[e] > 0
Delivered(e) == WasTold(e) /\ \A c \in Consumers : deliveries[c][e] > 0

\* A flag tells the truth, also when it comes from a stalled run, an inline
\* publication or a filtered one: what is marked dispatched was broadcast, unless
\* no room may hear it, and then none ever does (emit.ts:179, card-relations.ts:283);
\* what is marked enqueued has its delivery rows; only an operator's cancellation
\* marks what did not happen.  The enqueued flag comes with the dispatched one, so
\* no claimed row is enqueued already.
FlagsTellTheTruth ==
  /\ enqueued \subseteq dispatched
  /\ \A e \in dispatched : WasTold(e) \/ e \in cancelled
  /\ \A e \in quiet : broadcasts[e] = 0
  /\ \A e \in enqueued : Delivered(e) \/ e \in cancelled

\* Integrations never hear of an event before the clients in its room do: the
\* delivery rows of an event that is for a room exist only once it was broadcast.
BroadcastPrecedesDelivery ==
  \A c \in Consumers, e \in Events : deliveries[c][e] > 0 => WasTold(e)

\* A second broadcast of an event needs a lease that ran out, a lease an operator
\* freed, or a flag write that failed after the broadcast.  Clearing the lease early,
\* a failed enqueue and its retry, another dispatcher, a cancellation and the purge
\* never cause one.
NoNeedlessRebroadcast ==
  \A e \in Events \ late : broadcasts[e] <= 1

\* An event broadcast inline is never broadcast again, whatever fails.
InlineIsBroadcastOnce ==
  \A e \in inline : broadcasts[e] = 1

\* A row leaves the table undelivered only through the stuck backstop, which warns,
\* or after an operator's cancellation, which is audited.
NoneVanishes ==
  \A e \in Events : pub[e] = "stored" /\ e \notin rows
                      => Delivered(e) \/ e \in dropped \cup cancelled

\* A retry after a failed enqueue resumes at the enqueue: from the moment the
\* flag write is over, the row itself says dispatched.
PastFlag(w, e) ==
  \/ e \in completed[w]
  \/ At(w, "mcp") /\ e = Current(w)
  \/ At(w, "webhook") /\ e = Current(w)

EnqueueRetryNeverRebroadcasts ==
  \A w \in Workers, e \in rows : PastFlag(w, e) => e \in dispatched

\* The dispatchers together do what EventDelivery promises.
Promise == INSTANCE EventDelivery WITH
  accepted <- {e \in Events : pub[e] = "stored"},
  unheard  <- quiet,
  heard    <- {e \in Events : broadcasts[e] > 0},
  queued   <- {e \in Events : \A c \in Consumers : deliveries[c][e] > 0},
  settled  <- enqueued \ cancelled,
  purged   <- dropped

\* Every step of the outbox is a step of EventDelivery or none.
ImplementsSafely == Promise!SafeSpec

\* And under the fairness of the poll loop each open event moves on until it is
\* settled, purged or cancelled, however its runs stall or fail, as long as failures do
\* not go on for ever.
ImplementsEventDelivery == Promise!Spec
=============================================================================
