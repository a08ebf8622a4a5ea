-------------------------- MODULE WebhookDelivery --------------------------
(***************************************************************************)
(* Outbound webhooks: the webhook_delivery rows of                         *)
(* apps/api/src/lib/webhooks.ts, with the two routes that deliver inside a *)
(* request (modules/integrations) and the operator's retry and cancel      *)
(* (admin/ops.routes.ts).                                                  *)
(*                                                                         *)
(* A sweep claims due rows, whose nextAttemptAt then doubles as the lease, *)
(* and delivers each one: load the endpoint, check the plan, POST, record. *)
(* Every await is a step, every UPDATE is by id and unconditional, and the *)
(* number of the attempt comes from the row as it was claimed.  Dates are  *)
(* abstracted to due: the rows whose nextAttemptAt is past.                *)
(***************************************************************************)
EXTENDS Naturals, FiniteSets

CONSTANTS
  Deliveries, \* ids of possible rows of one endpoint
  Tests,      \* those that are chat:test messages
  Sweeps,     \* processes that run the delivery scheduler
  Requests,   \* API requests that deliver a row themselves
  MaxAttempts, BatchLimit, \* MAX_ATTEMPTS, DELIVERY_LIMIT
  MaxFaults, MaxInterventions \* bounds on failures and on what people do

ASSUME TestsAssumption == Tests \subseteq Deliveries
ASSUME AgentsAssumption == Sweeps \cap Requests = {}
ASSUME LimitsAssumption == {MaxAttempts, BatchLimit} \subseteq Nat \ {0}
ASSUME BoundsAssumption == {MaxFaults, MaxInterventions} \subseteq Nat

VARIABLES
  status,    \* of the row; "none" before the insert, "gone" once deleted
  attempts,
  due,       \* rows whose nextAttemptAt is past
  endpoint,  \* "enabled", "disabled" or "deleted"
  paid,      \* the plan of the organisation includes webhooks
  noted,     \* a plan_action says that a downgrade disabled the endpoint
  enabling,  \* a request to enable the endpoint is past its plan check
  stage,     \* per agent and delivery, the next step of deliverWebhookDelivery
  snap,      \* the attempts of the row as the agent read it
  operator,  \* per delivery, the operator action past its status check
  accepted,  \* history: POSTs the receiver accepted
  disturbed, \* history: a fault hit the delivery, or a person touched it
  faults, interventions

rowVars == <<status, attempts, due>>
worldVars == <<endpoint, paid, noted, enabling>>
jobVars == <<stage, snap>>
vars == <<rowVars, worldVars, jobVars, operator, accepted, disturbed, faults, interventions>>

Agents == Sweeps \cup Requests
Pending == {"queued", "delivering"}
Terminal == {"success", "failed"}
Stages == {"idle", "row", "rowDisabled", "load", "plan", "post", "ok", "bad", "refuse"}

Budget(d) == IF d \in Tests THEN 1 ELSE MaxAttempts

TypeOK ==
  /\ status \in [Deliveries -> Pending \cup Terminal \cup {"none", "gone"}]
  /\ attempts \in [Deliveries -> Nat]
  /\ due \subseteq Deliveries
  /\ endpoint \in {"enabled", "disabled", "deleted"}
  /\ {paid, noted, enabling} \subseteq BOOLEAN
  /\ stage \in [Agents -> [Deliveries -> Stages]]
  /\ snap \in [Agents -> [Deliveries -> Nat]]
  /\ operator \in [Deliveries -> {"none", "retry", "cancel"}]
  /\ accepted \in [Deliveries -> Nat]
  /\ disturbed \subseteq Deliveries
  /\ faults \in Nat /\ interventions \in Nat

Init ==
  /\ status = [d \in Deliveries |-> "none"]
  /\ attempts = [d \in Deliveries |-> 0]
  /\ due = {}
  /\ endpoint = "enabled" /\ paid = TRUE /\ noted = FALSE /\ enabling = FALSE
  /\ stage = [a \in Agents |-> [d \in Deliveries |-> "idle"]]
  /\ snap = [a \in Agents |-> [d \in Deliveries |-> 0]]
  /\ operator = [d \in Deliveries |-> "none"]
  /\ accepted = [d \in Deliveries |-> 0]
  /\ disturbed = {}
  /\ faults = 0 /\ interventions = 0

Exists(d) == status[d] \notin {"none", "gone"}
Goto(a, d, s) == stage' = [stage EXCEPT ![a][d] = s]
Working(d) == \E a \in Agents : stage[a][d] # "idle"

Fault == faults < MaxFaults /\ faults' = faults + 1
Intervene == interventions < MaxInterventions /\ interventions' = interventions + 1

-----------------------------------------------------------------------------
(* Rows come and are claimed. *)

\* enqueueWebhookDeliveriesForOutboxEvent, for the endpoints enabled on a paid
\* plan when the drain loaded them: both may have changed by the insert.
Enqueue(d) ==
  /\ status[d] = "none" /\ d \notin Tests /\ endpoint # "deleted"
  /\ status' = [status EXCEPT ![d] = "queued"]
  /\ due' = due \cup {d}
  /\ UNCHANGED <<attempts, worldVars, jobVars, operator, accepted, disturbed,
                 faults, interventions>>

\* Slip: the claim ignores the lease.
ClaimableUnderLease == {d \in Deliveries : status[d] \in Pending}
Claimable == {d \in due : status[d] \in Pending}

\* claimWebhookDeliveries: the oldest due rows not locked by another statement;
\* any of them may be locked.  The scheduler is single-flight.
Claim(s, batch) ==
  /\ \A d \in Deliveries : stage[s][d] = "idle"
  /\ batch # {} /\ batch \subseteq Claimable /\ Cardinality(batch) <= BatchLimit
  /\ status' = [d \in Deliveries |-> IF d \in batch THEN "delivering" ELSE status[d]]
  /\ due' = due \ batch
  /\ stage' = [stage EXCEPT ![s] = [d \in Deliveries |-> IF d \in batch THEN "load" ELSE "idle"]]
  /\ snap' = [snap EXCEPT ![s] = [d \in Deliveries |-> IF d \in batch THEN attempts[d] ELSE @[d]]]
  /\ UNCHANGED <<attempts, worldVars, operator, accepted, disturbed, faults, interventions>>

-----------------------------------------------------------------------------
(* deliverWebhookDelivery. *)

LoadEndpoint(a, d) ==
  /\ stage[a][d] = "load"
  /\ Goto(a, d, IF endpoint = "enabled" THEN "plan" ELSE "refuse")
  /\ UNCHANGED <<rowVars, worldVars, snap, operator, accepted, disturbed, faults, interventions>>

\* Slip: the plan is not checked again.
CheckNoPlan(a, d) ==
  /\ stage[a][d] = "plan"
  /\ Goto(a, d, "post")
  /\ UNCHANGED <<rowVars, worldVars, snap, operator, accepted, disturbed, faults, interventions>>

CheckPlan(a, d) ==
  /\ stage[a][d] = "plan"
  /\ Goto(a, d, IF paid THEN "post" ELSE "refuse")
  /\ UNCHANGED <<rowVars, worldVars, snap, operator, accepted, disturbed, faults, interventions>>

\* Slip: any answer counts as a success.
PostTrusting(a, d) ==
  /\ stage[a][d] = "post"
  /\ Goto(a, d, "ok")
  /\ \/ accepted' = [accepted EXCEPT ![d] = @ + 1]
     \/ UNCHANGED accepted
  /\ UNCHANGED <<rowVars, worldVars, snap, operator, disturbed, faults, interventions>>

\* The receiver accepts and the answer arrives, or the answer is lost on the
\* way, or the POST is refused or never gets there.
Post(a, d) ==
  /\ stage[a][d] = "post"
  /\ \/ /\ Goto(a, d, "ok")
        /\ accepted' = [accepted EXCEPT ![d] = @ + 1]
        /\ UNCHANGED <<disturbed, faults>>
     \/ /\ Goto(a, d, "bad")
        /\ Fault
        /\ accepted' = [accepted EXCEPT ![d] = @ + 1]
        /\ disturbed' = disturbed \cup {d}
     \/ /\ Goto(a, d, "bad")
        /\ UNCHANGED <<accepted, disturbed, faults>>
  /\ UNCHANGED <<rowVars, worldVars, snap, operator, interventions>>

Refuse(a, d) ==
  /\ stage[a][d] = "refuse"
  /\ status' = [status EXCEPT ![d] = IF Exists(d) THEN "failed" ELSE @]
  /\ Goto(a, d, "idle")
  /\ UNCHANGED <<attempts, due, worldVars, snap, operator, accepted, disturbed,
                 faults, interventions>>

RecordSuccess(a, d) ==
  /\ stage[a][d] = "ok"
  /\ IF Exists(d)
     THEN /\ status' = [status EXCEPT ![d] = "success"]
          /\ attempts' = [attempts EXCEPT ![d] = snap[a][d] + 1]
          /\ due' = due \cup {d}
     ELSE UNCHANGED rowVars
  /\ Goto(a, d, "idle")
  /\ UNCHANGED <<worldVars, snap, operator, accepted, disturbed, faults, interventions>>

\* Slip: the budget is compared with the attempts before this one.
RecordFailureLate(a, d) ==
  /\ stage[a][d] = "bad"
  /\ IF Exists(d)
     THEN /\ status' = [status EXCEPT ![d] = IF snap[a][d] >= Budget(d) THEN "failed" ELSE "queued"]
          /\ attempts' = [attempts EXCEPT ![d] = snap[a][d] + 1]
          /\ due' = due \ {d}
     ELSE UNCHANGED rowVars
  /\ Goto(a, d, "idle")
  /\ UNCHANGED <<worldVars, snap, operator, accepted, disturbed, faults, interventions>>

\* Slip: a failed attempt is requeued without being counted.
RecordFailureUncounted(a, d) ==
  /\ stage[a][d] = "bad"
  /\ IF Exists(d)
     THEN status' = [status EXCEPT ![d] = "queued"] /\ due' = due \ {d}
     ELSE UNCHANGED <<status, due>>
  /\ Goto(a, d, "idle")
  /\ UNCHANGED <<attempts, worldVars, snap, operator, accepted, disturbed, faults, interventions>>

\* A refused or failed POST: retried after a backoff while the budget lasts.
RecordFailure(a, d) ==
  /\ stage[a][d] = "bad"
  /\ IF Exists(d)
     THEN /\ status' = [status EXCEPT ![d] =
               IF snap[a][d] + 1 >= Budget(d) THEN "failed" ELSE "queued"]
          /\ attempts' = [attempts EXCEPT ![d] = snap[a][d] + 1]
          /\ due' = due \ {d}
     ELSE UNCHANGED rowVars
  /\ Goto(a, d, "idle")
  /\ UNCHANGED <<worldVars, snap, operator, accepted, disturbed, faults, interventions>>

\* The UPDATE rejects: after a 2xx the catch block records a failed attempt; in
\* the catch block or on a refusal the error ends the job.
RecordFails(a, d) ==
  /\ stage[a][d] \in {"ok", "bad", "refuse"}
  /\ Fault
  /\ Goto(a, d, IF stage[a][d] = "ok" THEN "bad" ELSE "idle")
  /\ disturbed' = disturbed \cup {d}
  /\ UNCHANGED <<rowVars, worldVars, snap, operator, accepted, interventions>>

\* The process dies, with every job it had.
Crash(a) ==
  /\ \E d \in Deliveries : stage[a][d] # "idle"
  /\ Fault
  /\ stage' = [stage EXCEPT ![a] = [d \in Deliveries |-> "idle"]]
  /\ UNCHANGED <<rowVars, worldVars, snap, operator, accepted, disturbed, interventions>>

-----------------------------------------------------------------------------
(* Time and retention. *)

\* A backoff ends.
BackoffEnds(d) ==
  /\ status[d] = "queued" /\ d \notin due
  /\ due' = due \cup {d}
  /\ UNCHANGED <<status, attempts, worldVars, jobVars, operator, accepted,
                 disturbed, faults, interventions>>

\* DELIVERY_LEASE_MS pass: after a crash, or a stall if somebody is at work.
LeaseExpires(d) ==
  /\ status[d] = "delivering" /\ d \notin due
  /\ IF Working(d) THEN Fault ELSE UNCHANGED faults
  /\ due' = due \cup {d}
  /\ disturbed' = disturbed \cup {d}
  /\ UNCHANGED <<status, attempts, worldVars, jobVars, operator, accepted, interventions>>

\* cleanupWebhookDeliveries: only terminal rows.
Cleanup(d) ==
  /\ status[d] \in Terminal
  /\ status' = [status EXCEPT ![d] = "gone"]
  /\ UNCHANGED <<attempts, due, worldVars, jobVars, operator, accepted,
                 disturbed, faults, interventions>>

-----------------------------------------------------------------------------
(* People. *)

Idle(r) == \A d \in Deliveries : stage[r][d] = "idle"

\* A retry request reads the endpoint it will deliver to.
AskRetry(r, d) ==
  /\ Idle(r) /\ paid /\ endpoint # "deleted"
  /\ Intervene
  /\ Goto(r, d, IF endpoint = "enabled" THEN "row" ELSE "rowDisabled")
  /\ disturbed' = disturbed \cup {d}
  /\ UNCHANGED <<rowVars, worldVars, snap, operator, accepted, faults>>

\* Then it reads the row, which must be failed, and delivers it without a claim.
ReadRow(r, d) ==
  /\ stage[r][d] \in {"row", "rowDisabled"}
  /\ IF status[d] = "failed"
     THEN /\ Goto(r, d, IF stage[r][d] = "row" THEN "plan" ELSE "refuse")
          /\ snap' = [snap EXCEPT ![r][d] = attempts[d]]
     ELSE Goto(r, d, "idle") /\ UNCHANGED snap
  /\ UNCHANGED <<rowVars, worldVars, operator, accepted, disturbed, faults, interventions>>

\* A chat test inserts a row, queued and due, and delivers it itself.
SendTest(r, d) ==
  /\ Idle(r) /\ paid /\ endpoint = "enabled"
  /\ d \in Tests /\ status[d] = "none"
  /\ Intervene
  /\ status' = [status EXCEPT ![d] = "queued"]
  /\ due' = due \cup {d}
  /\ Goto(r, d, "plan")
  /\ snap' = [snap EXCEPT ![r][d] = 0]
  /\ disturbed' = disturbed \cup {d}
  /\ UNCHANGED <<attempts, worldVars, operator, accepted, faults>>

\* The operator routes read the status, and later write by id.
OperatorChecks(d, what) ==
  /\ operator[d] = "none"
  /\ \/ what = "retry" /\ status[d] = "failed"
     \/ what = "cancel" /\ status[d] \in Pending
  /\ Intervene
  /\ operator' = [operator EXCEPT ![d] = what]
  /\ disturbed' = disturbed \cup {d}
  /\ UNCHANGED <<rowVars, worldVars, jobVars, accepted, faults>>

OperatorActs(d) ==
  /\ operator[d] # "none"
  /\ IF ~Exists(d) THEN UNCHANGED rowVars
     ELSE \/ /\ operator[d] = "retry"
             /\ status' = [status EXCEPT ![d] = "queued"]
             /\ attempts' = [attempts EXCEPT ![d] = 0]
             /\ due' = due \cup {d}
          \/ /\ operator[d] = "cancel"
             /\ status' = [status EXCEPT ![d] = "failed"]
             /\ UNCHANGED <<attempts, due>>
  /\ operator' = [operator EXCEPT ![d] = "none"]
  /\ UNCHANGED <<worldVars, jobVars, accepted, disturbed, faults, interventions>>

\* An administrator disables the endpoint, or asks to enable it: the plan is
\* checked first, and the UPDATE comes later.
DisableEndpoint ==
  /\ endpoint = "enabled" /\ endpoint' = "disabled"
  /\ UNCHANGED <<rowVars, paid, noted, enabling, jobVars, operator, accepted, disturbed,
                 faults, interventions>>

AskEnable ==
  /\ paid /\ ~enabling /\ endpoint # "deleted"
  /\ enabling' = TRUE
  /\ UNCHANGED <<rowVars, endpoint, paid, noted, jobVars, operator, accepted, disturbed,
                 faults, interventions>>

EnableEndpoint ==
  /\ enabling /\ enabling' = FALSE
  /\ endpoint' = IF endpoint = "deleted" THEN endpoint ELSE "enabled"
  /\ UNCHANGED <<rowVars, paid, noted, jobVars, operator, accepted, disturbed, faults, interventions>>

\* Its deletion cascades to the rows.
DeleteEndpoint ==
  /\ endpoint # "deleted" /\ endpoint' = "deleted"
  /\ status' = [d \in Deliveries |-> IF Exists(d) THEN "gone" ELSE status[d]]
  /\ UNCHANGED <<attempts, due, paid, noted, enabling, jobVars, operator, accepted, disturbed,
                 faults, interventions>>

\* convertClientPlan, in one transaction: a downgrade disables the endpoint and
\* notes it, an upgrade enables what was noted.
ChangePlan ==
  /\ \/ /\ paid /\ paid' = FALSE
        /\ endpoint' = IF endpoint = "enabled" THEN "disabled" ELSE endpoint
        /\ noted' = (noted \/ endpoint = "enabled")
     \/ /\ ~paid /\ paid' = TRUE
        /\ endpoint' = IF noted /\ endpoint = "disabled" THEN "enabled" ELSE endpoint
        /\ noted' = FALSE
  /\ UNCHANGED <<rowVars, enabling, jobVars, operator, accepted, disturbed, faults, interventions>>

-----------------------------------------------------------------------------
Job(a, d) ==
  \/ LoadEndpoint(a, d) \/ CheckPlan(a, d) \/ Post(a, d) \/ Refuse(a, d)
  \/ RecordSuccess(a, d) \/ RecordFailure(a, d) \/ ReadRow(a, d)

People(d) ==
  \/ \E r \in Requests : AskRetry(r, d) \/ SendTest(r, d)
  \/ \E what \in {"retry", "cancel"} : OperatorChecks(d, what)
  \/ OperatorActs(d)

Next ==
  \/ \E d \in Deliveries :
       \/ Enqueue(d) \/ BackoffEnds(d) \/ LeaseExpires(d) \/ Cleanup(d) \/ People(d)
       \/ \E a \in Agents : Job(a, d) \/ RecordFails(a, d)
  \/ \E s \in Sweeps, batch \in SUBSET Deliveries : Claim(s, batch)
  \/ \E a \in Agents : Crash(a)
  \/ DisableEndpoint \/ AskEnable \/ EnableEndpoint \/ DeleteEndpoint \/ ChangePlan

Spec == Init /\ [][Next]_vars

\* The scheduler polls, jobs run on, and time passes; a row is locked only for
\* the length of a statement, so no row is passed over for ever.
Fairness ==
  \A d \in Deliveries :
    /\ WF_vars(BackoffEnds(d)) /\ WF_vars(LeaseExpires(d))
    /\ \A a \in Agents : WF_vars(Job(a, d))
    /\ \A s \in Sweeps : WF_vars(\E batch \in SUBSET Deliveries : d \in batch /\ Claim(s, batch))

FairSpec == Spec /\ Fairness

-----------------------------------------------------------------------------
(* Properties. *)

\* A row that a sweep may still pick up has attempts left, whatever stale
\* jobs, requests by hand and operators wrote in between: no attempt numbered
\* above MAX_ATTEMPTS is ever scheduled, and no second attempt at a chat test.
PendingHasBudget ==
  \A d \in Deliveries : status[d] \in Pending => attempts[d] < Budget(d)

\* A chat test is never scheduled again once it was tried, by the request that
\* sent it or by the sweep that may claim its row at the same time.
TestIsOneShot ==
  \A d \in Tests : status[d] \in Pending =>
    attempts[d] = 0

\* A row says success only if the receiver accepted one of its POSTs.
SuccessIsReal == \A d \in Deliveries : status[d] = "success" => accepted[d] > 0

\* The receiver accepts an event twice only after a lost answer, a failed
\* write, a lease that ran out, or a person's intervention; claims, batches,
\* backoffs and other sweeps alone never deliver it twice.
DuplicateNeedsCause == \A d \in Deliveries \ disturbed : accepted[d] <= 1

\* And without one of these causes a finished delivery stays as it ended.
DoneStaysDone ==
  [][\A d \in Deliveries \ disturbed :
       status[d] \in Terminal => status'[d] \in {status[d], "gone"}]_vars

\* After a downgrade nothing more reaches the outbound boundary: not queued
\* work, not a retry by hand, not a test, even if the endpoint was left enabled
\* by a request that had passed its own plan check before the downgrade.
DowngradeHolds ==
  [][\A a \in Agents, d \in Deliveries :
       ~paid /\ stage[a][d] # "post" => stage'[a][d] # "post"]_vars

\* A pending delivery ends in success or failure and is not lost on the way,
\* by retention, a crash or a stall, unless its endpoint is deleted.
EventuallySettled ==
  \A d \in Deliveries : status[d] \in Pending ~> status[d] \in Terminal \/ endpoint = "deleted"
=============================================================================
