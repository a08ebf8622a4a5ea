---------------------------- MODULE DirectOutbox ----------------------------
(***************************************************************************)
(* The direct outbox of apps/api/src/realtime/outbox.ts: events for one    *)
(* user or one client that a process without Socket.IO could not hand over *)
(* itself.  It is the twin of EventOutbox with one consumer, and its flags *)
(* are written once per batch, after all broadcasts.                       *)
(***************************************************************************)
EXTENDS Naturals, FiniteSets

CONSTANTS
  DirectEvents, \* row ids; created_at and id order them, as naturals do
  Dispatchers,  \* processes that drain the table
  DirectLimit,  \* DEFAULT_PROCESS_LIMIT
  MaxDirectFaults \* bound on failed steps, abandoned runs and stalls

ASSUME DirectEventsAssumption == DirectEvents \subseteq Nat /\ IsFiniteSet(DirectEvents)
ASSUME DirectLimitAssumption == DirectLimit \in Nat \ {0}
ASSUME DirectFaultsAssumption == MaxDirectFaults \in Nat

VARIABLES
  directPub,   \* "new", "handed" to Socket.IO inline, "stored", or "lost"
  directRows,  \* events whose row is in direct_realtime_outbox
  directSent,  \* rows with realtime_dispatched
  directLease, \* "free", "held" or "expired"
  left,        \* per dispatcher, what is left of the claimed batch
  heard,       \* per dispatcher, completedIds
  directCasts, \* history: broadcasts by the dispatchers
  directLate,  \* history: leases that ran out, batches that were not marked
  directFaults

directTable == <<directRows, directSent, directLease>>
directVars == <<directPub, directTable, left, heard, directCasts, directLate, directFaults>>

DirectTypeOK ==
  /\ directPub \in [DirectEvents -> {"new", "handed", "stored", "lost"}]
  /\ directRows \subseteq DirectEvents
  /\ directSent \subseteq DirectEvents
  /\ directLease \in [DirectEvents -> {"free", "held", "expired"}]
  /\ left \in [Dispatchers -> SUBSET DirectEvents]
  /\ heard \in [Dispatchers -> SUBSET DirectEvents]
  /\ directCasts \in [DirectEvents -> Nat]
  /\ directLate \subseteq DirectEvents
  /\ directFaults \in 0..MaxDirectFaults

DirectInit ==
  /\ directPub = [e \in DirectEvents |-> "new"]
  /\ directRows = {} /\ directSent = {} /\ directLate = {} /\ directFaults = 0
  /\ directLease = [e \in DirectEvents |-> "free"]
  /\ left = [w \in Dispatchers |-> {}]
  /\ heard = [w \in Dispatchers |-> {}]
  /\ directCasts = [e \in DirectEvents |-> 0]

-----------------------------------------------------------------------------
\* emitToUser and emitToClient: the process that owns Socket.IO hands the event
\* over and stores nothing; any other inserts a row per recipient, a chunk at a
\* time, or logs that it could not.
Address(S, as) ==
  /\ S # {} /\ \A e \in S : directPub[e] = "new"
  /\ directPub' = [e \in DirectEvents |-> IF e \in S THEN as ELSE directPub[e]]
  /\ directRows' = IF as = "stored" THEN directRows \cup S ELSE directRows
  /\ UNCHANGED <<directSent, directLease, left, heard, directCasts, directLate, directFaults>>

Idle(w) == left[w] = {} /\ heard[w] = {}

DirectDue == {e \in directRows \ directSent : directLease[e] # "held"}

\* The oldest due rows; SKIP LOCKED passes over those in another's hands.
DirectClaim(w) ==
  /\ Idle(w)
  /\ \E locked \in SUBSET UNION {left[v] \cup heard[v] : v \in Dispatchers \ {w}} :
       LET due == DirectDue \ locked
           batch == {e \in due : Cardinality({f \in due : f < e}) < DirectLimit}
       IN /\ batch # {}
          /\ left' = [left EXCEPT ![w] = batch]
          /\ directLease' = [e \in DirectEvents |-> IF e \in batch THEN "held" ELSE directLease[e]]
  /\ UNCHANGED <<directPub, directRows, directSent, heard, directCasts, directLate, directFaults>>

\* The oldest member of what is left.
IsFirst(e, w) == e \in left[w] /\ \A f \in left[w] : e <= f

DirectCast(w, e) ==
  /\ IsFirst(e, w)
  /\ directCasts' = [directCasts EXCEPT ![e] = @ + 1]
  /\ left' = [left EXCEPT ![w] = @ \ {e}]
  /\ heard' = [heard EXCEPT ![w] = @ \cup {e}]
  /\ UNCHANGED <<directPub, directTable, directLate, directFaults>>

DirectFault == directFaults < MaxDirectFaults /\ directFaults' = directFaults + 1

\* Slip: a broadcast that threw still joins completedIds.
DirectFailAsHeard(w, e) ==
  /\ IsFirst(e, w) /\ DirectFault
  /\ left' = [left EXCEPT ![w] = @ \ {e}]
  /\ heard' = [heard EXCEPT ![w] = @ \cup {e}]
  /\ UNCHANGED <<directPub, directTable, directCasts, directLate>>

\* The broadcast throws: the catch block clears the lease and the loop goes on.
DirectFail(w, e) ==
  /\ IsFirst(e, w) /\ DirectFault
  /\ left' = [left EXCEPT ![w] = @ \ {e}]
  /\ directLease' = [directLease EXCEPT ![e] = IF e \in directRows THEN "free" ELSE @]
  /\ UNCHANGED <<directPub, directRows, directSent, heard, directCasts, directLate>>

\* One UPDATE marks the whole batch; without a completed event there is none.
DirectMark(w) ==
  /\ left[w] = {} /\ heard[w] # {}
  /\ directSent' = directSent \cup (heard[w] \cap directRows)
  /\ directLease' = [e \in DirectEvents |->
                       IF e \in heard[w] \cap directRows THEN "free" ELSE directLease[e]]
  /\ heard' = [heard EXCEPT ![w] = {}]
  /\ UNCHANGED <<directPub, directRows, left, directCasts, directLate, directFaults>>

\* The process dies or an UPDATE rejects: everything heard in this batch stays
\* unmarked, the leases stay held.
DirectAbandon(w) ==
  /\ ~Idle(w) /\ DirectFault
  /\ left' = [left EXCEPT ![w] = {}]
  /\ heard' = [heard EXCEPT ![w] = {}]
  /\ directLate' = directLate \cup heard[w]
  /\ UNCHANGED <<directPub, directTable, directCasts>>

\* PROCESSING_LEASE_SECONDS pass; under a run that still works it is a stall.
DirectLeaseExpires(e) ==
  /\ directLease[e] = "held"
  /\ IF \E w \in Dispatchers : e \in left[w] \cup heard[w]
     THEN DirectFault ELSE UNCHANGED directFaults
  /\ directLease' = [directLease EXCEPT ![e] = "expired"]
  /\ directLate' = directLate \cup {e}
  /\ UNCHANGED <<directPub, directRows, directSent, left, heard, directCasts>>

\* cleanupDirectRealtimeOutbox: a dispatched row past its retention, and any row
\* past that of the stuck backstop, where an operator is told.
DirectCleanup(e) ==
  /\ e \in directRows
  /\ directRows' = directRows \ {e}
  /\ directLate' = IF e \in directSent THEN directLate ELSE directLate \cup {e}
  /\ UNCHANGED <<directPub, directSent, directLease, left, heard, directCasts, directFaults>>

-----------------------------------------------------------------------------
DirectRun(w) ==
  \/ DirectClaim(w) \/ DirectMark(w)
  \/ \E e \in DirectEvents : DirectCast(w, e) \/ DirectFail(w, e)

DirectNext ==
  \/ \E S \in SUBSET DirectEvents, as \in {"handed", "stored", "lost"} : Address(S, as)
  \/ \E w \in Dispatchers : DirectRun(w) \/ DirectAbandon(w)
  \/ \E e \in DirectEvents : DirectLeaseExpires(e) \/ DirectCleanup(e)

DirectSpec == DirectInit /\ [][DirectNext]_directVars

\* The dispatchers poll, runs go on and time passes.
DirectFairness ==
  /\ \A w \in Dispatchers : WF_directVars(DirectRun(w))
  /\ \A e \in DirectEvents : WF_directVars(DirectLeaseExpires(e))

-----------------------------------------------------------------------------
DirectPromise == INSTANCE LeaseQueue WITH
  Items   <- DirectEvents,
  known   <- {e \in DirectEvents : directPub[e] = "stored"},
  open    <- directRows \ directSent,
  done    <- directSent,
  sends   <- directCasts,
  excused <- directLate

\* A direct event is broadcast, once unless its batch could not be marked or
\* its lease ran out; the mark is never set without the broadcast, also when it
\* comes from a stalled run; and every stored event is settled in the end,
\* although a batch is marked only after all its broadcasts.
ImplementsDirectQueue == DirectPromise!Spec

ImplementsDirectQueueSafely == DirectPromise!SafeSpec
=============================================================================
