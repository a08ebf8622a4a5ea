---------------------------- MODULE McpDelivery ----------------------------
(***************************************************************************)
(* Deliveries to one MCP event subscription: mcp_event_delivery rows and   *)
(* their drain in apps/api/src/lib/mcp-events.ts, the subscription's life  *)
(* in modules/integrations/mcp-events.routes.ts.                           *)
(*                                                                         *)
(* Unlike a webhook, an attempt is counted when the row is claimed, rows   *)
(* are posted one at a time, oldest first, and the right to receive them   *)
(* is resolved once per batch.  A subscription that lapsed and is renewed  *)
(* starts a new epoch, startsAt in the code, and gets no older occurrence. *)
(* Other subscriptions share only the batch and are left out.              *)
(***************************************************************************)
EXTENDS Naturals, FiniteSets

CONSTANTS
  Deliveries, \* row ids; created_at orders them, as naturals do
  Workers,    \* processes that run the delivery scheduler
  MaxAttempts, BatchLimit, \* MAX_DELIVERY_ATTEMPTS, DELIVERY_BATCH
  MaxEpochs, MaxFaults     \* bounds on renewals and failures

ASSUME DeliveriesAssumption == Deliveries \subseteq Nat /\ IsFiniteSet(Deliveries)
ASSUME LimitsAssumption == {MaxAttempts, BatchLimit} \subseteq Nat \ {0}
ASSUME BoundsAssumption == {MaxEpochs, MaxFaults} \subseteq Nat

VARIABLES
  status, attempts, due, \* the rows; due: nextAttemptAt is past
  born,      \* the epoch each occurrence belongs to
  sub,       \* the subscription: "absent", "active" or "expired"
  epoch,     \* how often it was started afresh
  access,    \* its connection and its access are live
  batch,     \* rows a worker claimed and has not dealt with
  snap,      \* their attempts as claimed
  step,      \* where its drain is
  gate,      \* the epoch it may post into, 0 if none
  posts, accepted, \* history: POSTs sent, and accepted by the receiver
  tried,     \* history: rows whose outcome was recorded
  disturbed, \* history: rows whose lease ran out, whose record or answer was lost
  faults

rowVars == <<status, attempts, due, born>>
subVars == <<sub, epoch, access>>
runVars == <<batch, snap, step, gate>>
history == <<posts, accepted, tried, disturbed>>
vars == <<rowVars, subVars, runVars, history, faults>>

Pending == {"queued", "delivering"}
Terminal == {"success", "failed"}
Outcomes == {"delivered", "rejected", "retry", "skipped"}
Steps == {"load", "authorize", "revoke", "next"} \cup Outcomes

TypeOK ==
  /\ status \in [Deliveries -> Pending \cup Terminal \cup {"none", "gone"}]
  /\ attempts \in [Deliveries -> Nat]
  /\ due \subseteq Deliveries
  /\ born \in [Deliveries -> Nat]
  /\ sub \in {"absent", "active", "expired"}
  /\ epoch \in Nat /\ access \in BOOLEAN
  /\ batch \in [Workers -> SUBSET Deliveries]
  /\ snap \in [Workers -> [Deliveries -> Nat]]
  /\ step \in [Workers -> Steps]
  /\ gate \in [Workers -> Nat]
  /\ posts \in [Deliveries -> Nat]
  /\ accepted \in [Deliveries -> Nat]
  /\ tried \subseteq Deliveries
  /\ disturbed \subseteq Deliveries
  /\ faults \in Nat

Init ==
  /\ status = [d \in Deliveries |-> "none"]
  /\ attempts = [d \in Deliveries |-> 0]
  /\ due = {}
  /\ born = [d \in Deliveries |-> 0]
  /\ sub = "absent" /\ epoch = 0 /\ access = TRUE
  /\ batch = [w \in Workers |-> {}]
  /\ snap = [w \in Workers |-> [d \in Deliveries |-> 0]]
  /\ step = [w \in Workers |-> "load"]
  /\ gate = [w \in Workers |-> 0]
  /\ posts = [d \in Deliveries |-> 0]
  /\ accepted = [d \in Deliveries |-> 0]
  /\ tried = {} /\ disturbed = {} /\ faults = 0

Exists(d) == status[d] \notin {"none", "gone"}
\* Slip: the rows are taken in another order than by age.
Newest(S) == CHOOSE d \in S : \A e \in S : e <= d

Oldest(S) == CHOOSE d \in S : \A e \in S : d <= e

FirstOf(S) == {d \in S : Cardinality({e \in S : e < d}) < BatchLimit}

Fault == faults < MaxFaults /\ faults' = faults + 1
Cascade == status' = [d \in Deliveries |-> IF Exists(d) THEN "gone" ELSE status[d]]

-----------------------------------------------------------------------------
(* The subscription. *)

\* subscribe: a refresh keeps startsAt, a new or lapsed one starts now.
Subscribe ==
  /\ access
  /\ \/ sub = "active" /\ epoch' = epoch
     \/ sub # "active" /\ epoch < MaxEpochs /\ epoch' = epoch + 1
  /\ sub' = "active"
  /\ UNCHANGED <<rowVars, access, runVars, history, faults>>

\* expiresAt passes.
Expire ==
  /\ sub = "active"
  /\ sub' = "expired"
  /\ UNCHANGED <<rowVars, epoch, access, runVars, history, faults>>

\* unsubscribe, or cleanupMcpEvents long after the expiry: rows go along.
Unsubscribe ==
  /\ sub # "absent"
  /\ sub' = "absent"
  /\ Cascade
  /\ UNCHANGED <<attempts, due, born, epoch, access, runVars, history, faults>>

\* The key or grant is revoked, a membership ends, or access comes back.
AccessChanges ==
  /\ access' = ~access
  /\ UNCHANGED <<rowVars, sub, epoch, runVars, history, faults>>

\* enqueueOccurrence, for a subscription loaded at the start of the outbox
\* drain: by the insert it may have lapsed, or a later epoch may have begun.
Enqueue(d) ==
  /\ status[d] = "none" /\ sub # "absent"
  /\ \A e \in Deliveries : e < d => status[e] # "none"
  /\ \E e \in 1..epoch : born' = [born EXCEPT ![d] = e]
  /\ status' = [status EXCEPT ![d] = "queued"]
  /\ due' = due \cup {d}
  /\ UNCHANGED <<attempts, subVars, runVars, history, faults>>

-----------------------------------------------------------------------------
(* The drain: processMcpEventDeliveries. *)

\* Slip: the claim ignores the lease.
ClaimableUnderLease == {d \in Deliveries : status[d] \in Pending}

Claimable == {d \in due : status[d] \in Pending}

Count(claimed) ==
  attempts' = [d \in Deliveries |-> IF d \in claimed THEN attempts[d] + 1 ELSE attempts[d]]

\* Rows another worker may be writing at this moment: SKIP LOCKED.
InHandsOfOthers(w) == UNION {batch[v] : v \in Workers \ {w}}

\* The oldest due rows; the new nextAttemptAt is their lease.
Claim(w) ==
  /\ batch[w] = {}
  /\ \E locked \in SUBSET (Claimable \cap InHandsOfOthers(w)) :
       LET claimed == FirstOf(Claimable \ locked) IN
       /\ claimed # {}
       /\ status' = [d \in Deliveries |-> IF d \in claimed THEN "delivering" ELSE status[d]]
       /\ Count(claimed)
       /\ snap' = [snap EXCEPT ![w] = [d \in Deliveries |-> IF d \in claimed THEN attempts[d] + 1 ELSE 0]]
       /\ due' = due \ claimed
       /\ batch' = [batch EXCEPT ![w] = claimed]
  /\ step' = [step EXCEPT ![w] = "load"]
  /\ gate' = [gate EXCEPT ![w] = 0]
  /\ UNCHANGED <<born, subVars, history, faults>>

At(w, s) == batch[w] # {} /\ step[w] = s
Goto(w, s) == step' = [step EXCEPT ![w] = s]
Current(w) == Oldest(batch[w])

\* The subscription row as it is now; without one the batch is passed over.
LoadSubscription(w) ==
  /\ At(w, "load")
  /\ IF sub = "absent" THEN batch' = [batch EXCEPT ![w] = {}] ELSE UNCHANGED batch
  /\ Goto(w, IF sub = "active" THEN "authorize" ELSE "next")
  /\ gate' = [gate EXCEPT ![w] = IF sub = "active" THEN epoch ELSE 0]
  /\ UNCHANGED <<rowVars, subVars, snap, history, faults>>

\* gateFor: lost access ends the subscription and closes the gate.
Authorize(w) ==
  /\ At(w, "authorize")
  /\ IF access THEN Goto(w, "next") /\ UNCHANGED gate
     ELSE Goto(w, "revoke") /\ gate' = [gate EXCEPT ![w] = 0]
  /\ UNCHANGED <<rowVars, subVars, batch, snap, history, faults>>

EndSubscription(w) ==
  /\ At(w, "revoke")
  /\ sub' = IF sub = "active" THEN "expired" ELSE sub
  /\ Goto(w, "next")
  /\ UNCHANGED <<rowVars, epoch, access, batch, snap, gate, history, faults>>

\* The check itself fails: no gate, the rows wait for their lease.
AuthorizeFails(w) ==
  /\ At(w, "authorize") \/ At(w, "revoke")
  /\ Fault
  /\ batch' = [batch EXCEPT ![w] = {}]
  /\ UNCHANGED <<rowVars, subVars, snap, step, gate, history>>

\* Nothing is sent when the gate is shut, the occurrence is older than the
\* subscription, or, at any moment, its card is out of the subscriber's reach.
Skip(w) ==
  /\ At(w, "next")
  /\ Goto(w, "skipped")
  /\ UNCHANGED <<rowVars, subVars, batch, snap, gate, history, faults>>

\* Slip: startsAt is not looked at.
MayPostAnything(w) == gate[w] # 0

\* The guard of attemptDelivery.
MayPost(w) == gate[w] # 0 /\ gate[w] <= born[Current(w)]

\* The receiver accepts and answers, its answer is lost, it rejects for good,
\* or it fails in a way worth a retry.
Post(w) ==
  /\ At(w, "next") /\ MayPost(w)
  /\ posts' = [posts EXCEPT ![Current(w)] = @ + 1]
  /\ \/ /\ Goto(w, "delivered")
        /\ accepted' = [accepted EXCEPT ![Current(w)] = @ + 1]
        /\ UNCHANGED <<disturbed, faults>>
     \/ /\ Goto(w, "retry")
        /\ Fault
        /\ accepted' = [accepted EXCEPT ![Current(w)] = @ + 1]
        /\ disturbed' = disturbed \cup {Current(w)}
     \/ /\ Goto(w, "rejected") \/ Goto(w, "retry")
        /\ UNCHANGED <<accepted, disturbed, faults>>
  /\ UNCHANGED <<rowVars, subVars, batch, snap, gate, tried>>

NextRow(w) ==
  /\ batch' = [batch EXCEPT ![w] = @ \ {Current(w)}]
  /\ Goto(w, "next")
  /\ UNCHANGED <<snap, gate>>

\* Slips: a failure is retried for ever, or an exhausted one counts as done.
RecordedForEver(w) ==
  IF step[w] = "delivered" THEN "success" ELSE IF step[w] = "retry" THEN "queued" ELSE "failed"
RecordedAsSuccess(w) ==
  IF step[w] = "retry" /\ snap[w][Current(w)] < MaxAttempts THEN "queued"
  ELSE IF step[w] = "skipped" THEN "failed" ELSE "success"

Recorded(w) ==
  IF step[w] = "delivered" THEN "success"
  ELSE IF step[w] = "retry" /\ snap[w][Current(w)] < MaxAttempts
       THEN "queued" ELSE "failed"

\* recordOutcome: by id, whatever the row says by now.
Record(w) ==
  /\ batch[w] # {} /\ step[w] \in Outcomes
  /\ status' = [status EXCEPT ![Current(w)] = IF Exists(Current(w)) THEN Recorded(w) ELSE @]
  /\ due' = due \ {Current(w)}
  /\ tried' = tried \cup {Current(w)}
  /\ NextRow(w)
  /\ UNCHANGED <<attempts, born, subVars, posts, accepted, disturbed, faults>>

\* Anything throws, a secret that cannot be decrypted or the UPDATE: the row
\* keeps its lease and the stream goes on.
RowFails(w) ==
  /\ batch[w] # {} /\ step[w] \in Outcomes \cup {"next"}
  /\ Fault
  /\ NextRow(w)
  /\ UNCHANGED <<rowVars, subVars, history>>

Crash(w) ==
  /\ batch[w] # {}
  /\ Fault
  /\ batch' = [batch EXCEPT ![w] = {}]
  /\ UNCHANGED <<rowVars, subVars, snap, step, gate, history>>

-----------------------------------------------------------------------------
(* Time and retention. *)

BackoffEnds(d) ==
  /\ status[d] = "queued" /\ d \notin due
  /\ due' = due \cup {d}
  /\ UNCHANGED <<status, attempts, born, subVars, runVars, history, faults>>

\* Two minutes pass: after a crash or an error, or a stall of a worker.
LeaseExpires(d) ==
  /\ status[d] = "delivering" /\ d \notin due
  /\ IF \E w \in Workers : d \in batch[w] THEN Fault ELSE UNCHANGED faults
  /\ due' = due \cup {d}
  /\ disturbed' = disturbed \cup {d}
  /\ UNCHANGED <<status, attempts, born, subVars, runVars, posts, accepted, tried>>

\* Slip: retention takes pending rows along.
CleanupAny(d) ==
  /\ Exists(d)
  /\ status' = [status EXCEPT ![d] = "gone"]
  /\ UNCHANGED <<attempts, due, born, subVars, runVars, history, faults>>

Cleanup(d) ==
  /\ status[d] \in Terminal
  /\ status' = [status EXCEPT ![d] = "gone"]
  /\ UNCHANGED <<attempts, due, born, subVars, runVars, history, faults>>

-----------------------------------------------------------------------------
Drain(w) ==
  \/ LoadSubscription(w) \/ Authorize(w) \/ EndSubscription(w)
  \/ Skip(w) \/ Post(w) \/ Record(w)

Next ==
  \/ Subscribe \/ Expire \/ Unsubscribe \/ AccessChanges
  \/ \E d \in Deliveries : Enqueue(d) \/ BackoffEnds(d) \/ LeaseExpires(d) \/ Cleanup(d)
  \/ \E w \in Workers : Claim(w) \/ Drain(w) \/ AuthorizeFails(w) \/ RowFails(w) \/ Crash(w)

Spec == Init /\ [][Next]_vars

\* The scheduler polls, a drain runs on, and time passes.
Fairness ==
  /\ \A w \in Workers : WF_vars(Claim(w)) /\ WF_vars(Drain(w))
  /\ \A d \in Deliveries : WF_vars(BackoffEnds(d)) /\ WF_vars(LeaseExpires(d))

FairSpec == Spec /\ Fairness

-----------------------------------------------------------------------------
(* Properties. *)

\* The budget bounds what a receiver gets, faults aside.
BudgetBoundsPosts == \A d \in Deliveries \ disturbed : posts[d] <= MaxAttempts

\* MCP_EVENTS.md: network failures and 5xx answers "are attempted at most
\* five times", with no exception for a worker that dies.
AttemptedAtMostMax == \A d \in Deliveries : posts[d] <= MaxAttempts

\* What stays true of that sentence when workers die: each POST was counted
\* when its row was claimed, however many drains hold the row by now.
EveryPostIsCounted == \A d \in Deliveries : posts[d] <= attempts[d]

\* And a claim beyond the budget has cost a failure of its own: a stale drain
\* that queues the row again, with the count it once read, cannot do so for ever.
OverrunsNeedFaults == \A d \in Deliveries : attempts[d] <= MaxAttempts + faults

\* A row says success only if the receiver accepted one of its POSTs, whatever
\* stale workers recorded since.
SuccessIsReal == \A d \in Deliveries : status[d] = "success" => accepted[d] > 0

\* The receiver accepts an occurrence twice only after a lost answer or a lease
\* that ran out: other workers, refreshes and gates never post it again.
DuplicateNeedsCause == \A d \in Deliveries \ disturbed : accepted[d] <= 1

\* An answer for good, or any other end, is not followed by another attempt.
DoneStaysDone ==
  [][\A d \in Deliveries \ disturbed :
       status[d] \in Terminal => status'[d] \in {status[d], "gone"}]_vars

\* A renewed subscription gets nothing from before its renewal: such an
\* occurrence, even one that was waiting for its retry, is posted only by a
\* drain that opened its gate before the renewal.
NoReplay ==
  [][\A d \in Deliveries : posts'[d] > posts[d] /\ born[d] < epoch =>
       \E w \in Workers : d \in batch[w] /\ gate[w] < epoch]_vars

\* A list watcher sees a card arrive before it departs: with one worker, a row
\* is accepted while an older one waits only if that one was tried before, or
\* waits for the lease of a drain that failed.
OldestFirst ==
  \A d, e \in Deliveries :
    d < e /\ status[d] \in Pending /\ accepted[e] > 0
      => \/ d \in tried \/ d \in disturbed
         \/ status[d] = "delivering" /\ \A w \in Workers : d \notin batch[w]

\* A pending row ends in success or failure, or its subscription goes.
EventuallySettled ==
  \A d \in Deliveries : status[d] \in Pending ~> status[d] \in Terminal \/ sub = "absent"
=============================================================================
