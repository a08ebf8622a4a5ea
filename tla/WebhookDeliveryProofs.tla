----------------------- MODULE WebhookDeliveryProofs -----------------------
(* Theorems about WebhookDelivery for every set of rows and tests, every   *)
(* number of sweeps and requests, every limit and every bound on faults    *)
(* and interventions.                                                      *)
EXTENDS WebhookDelivery, TLAPS

-----------------------------------------------------------------------------
(* The inductive invariant. *)

\* What is about to be recorded as a success was accepted.
Earned ==
  /\ \A d \in Deliveries : status[d] = "success" => accepted[d] > 0
  /\ \A a \in Agents, d \in Deliveries : stage[a][d] = "ok" => accepted[d] > 0

\* A row nothing went wrong with is in the hands of one sweep at most, which
\* holds its lease and has posted it only if it is about to record a success.
Held(a, d) ==
  /\ status[d] \in {"delivering", "gone"} /\ d \notin due
  /\ stage[a][d] \notin {"row", "rowDisabled"}
  /\ stage[a][d] # "ok" => accepted[d] = 0
  /\ \A b \in Agents : stage[b][d] # "idle" => b = a

Steady ==
  \A d \in Deliveries \ disturbed :
    /\ operator[d] = "none"
    /\ status[d] \in {"none", "queued"} => accepted[d] = 0
    /\ d \in due => status[d] # "delivering"
    /\ \A a \in Agents : stage[a][d] # "idle" => Held(a, d)
    /\ accepted[d] <= 1

\* A row that is not there yet was never tried.
Fresh == \A d \in Deliveries : status[d] = "none" => attempts[d] = 0

\* The budget of what may still be tried, with Fresh, is inductive by itself: a
\* write that leaves a row pending writes its attempts as well.
Budgeted == PendingHasBudget /\ Fresh

IInv == TypeOK /\ Budgeted /\ Earned /\ Steady

-----------------------------------------------------------------------------
(* A step of one job. *)

LEMMA BudgetIsPositive == \A d \in Deliveries : Budget(d) \in Nat /\ Budget(d) > 0
  BY LimitsAssumption DEF Budget

\* What a change of stage leaves alone.
LEMMA Moved ==
  ASSUME TypeOK, NEW a \in Agents, NEW d \in Deliveries, NEW s \in Stages, Goto(a, d, s)
  PROVE  /\ stage' \in [Agents -> [Deliveries -> Stages]]
         /\ stage'[a][d] = s
         /\ \A b \in Agents, e \in Deliveries :
              b # a \/ e # d => stage'[b][e] = stage[b][e]
  BY DEF TypeOK, Goto

\* A job between two awaits: the row stays, the job goes on or ends.
LEMMA LoadEndpointStep ==
  ASSUME IInv, NEW a \in Agents, NEW d \in Deliveries,
         LoadEndpoint(a, d) \/ CheckPlan(a, d)
  PROVE  IInv'
<1> USE DEF IInv
<1>1. PICK s \in {"plan", "post", "refuse"} : Goto(a, d, s)
  BY DEF LoadEndpoint, CheckPlan
<1>2. /\ UNCHANGED <<rowVars, worldVars, snap, operator, accepted, disturbed, faults, interventions>>
      /\ stage[a][d] \in {"load", "plan"}
  BY DEF LoadEndpoint, CheckPlan
<1>3. /\ stage' \in [Agents -> [Deliveries -> Stages]]
      /\ stage'[a][d] = s
      /\ \A b \in Agents, e \in Deliveries : b # a \/ e # d => stage'[b][e] = stage[b][e]
  BY <1>1, Moved DEF Stages
<1>4. TypeOK'
  BY <1>2, <1>3 DEF TypeOK, rowVars, worldVars
<1>5. Budgeted'
  BY <1>2 DEF Budgeted, PendingHasBudget, Fresh, rowVars
<1>6. Earned'
  BY <1>2, <1>3 DEF Earned, rowVars
<1>7. Steady'
  BY <1>2, <1>3 DEF Steady, Held, rowVars
<1> QED
  BY <1>4, <1>5, <1>6, <1>7

\* A POST is accepted or not; only an accepted one that was answered can be
\* recorded as a success.
LEMMA PostStep ==
  ASSUME IInv, NEW a \in Agents, NEW d \in Deliveries, Post(a, d)
  PROVE  IInv'
<1> USE DEF IInv
<1>1. /\ UNCHANGED <<rowVars, worldVars, snap, operator, interventions>>
      /\ stage[a][d] = "post"
  BY DEF Post
<1>2. PICK s \in {"ok", "bad"} :
        /\ Goto(a, d, s)
        /\ \/ /\ s = "ok" /\ accepted' = [accepted EXCEPT ![d] = @ + 1]
              /\ disturbed' = disturbed
           \/ /\ s = "bad" /\ accepted' = [accepted EXCEPT ![d] = @ + 1]
              /\ disturbed' = disturbed \cup {d}
           \/ /\ s = "bad" /\ accepted' = accepted /\ disturbed' = disturbed
  BY DEF Post
<1>3. faults' \in Nat
  BY DEF Post, Fault, TypeOK
<1>4. /\ stage' \in [Agents -> [Deliveries -> Stages]]
      /\ stage'[a][d] = s
      /\ \A b \in Agents, e \in Deliveries : b # a \/ e # d => stage'[b][e] = stage[b][e]
  BY <1>2, Moved DEF Stages
<1>5. accepted' \in [Deliveries -> Nat] /\ disturbed' \subseteq Deliveries
  <2>1. accepted' \in [Deliveries -> Nat]
    BY <1>2 DEF TypeOK
  <2>2. disturbed' \subseteq Deliveries
    BY <1>2 DEF TypeOK
  <2> QED
    BY <2>1, <2>2
<1>6. \A e \in Deliveries : accepted'[e] >= accepted[e]
  BY <1>2 DEF TypeOK
<1>7. TypeOK'
  BY <1>1, <1>3, <1>4, <1>5 DEF TypeOK, rowVars, worldVars
<1>8. Budgeted'
  BY <1>1 DEF Budgeted, PendingHasBudget, Fresh, rowVars
<1>9. Earned'
  <2>1. s = "ok" => accepted'[d] > 0
    BY <1>2 DEF TypeOK
  <2> QED
    BY <1>1, <1>4, <1>5, <1>6, <2>1 DEF Earned, TypeOK, rowVars
<1>10. Steady'
  <2> SUFFICES ASSUME NEW e \in Deliveries, e \notin disturbed'
               PROVE  /\ operator'[e] = "none"
                      /\ status'[e] \in {"none", "queued"} => accepted'[e] = 0
                      /\ e \in due' => status'[e] # "delivering"
                      /\ \A b \in Agents : stage'[b][e] # "idle" => Held(b, e)'
                      /\ accepted'[e] <= 1
    BY DEF Steady
  <2>0. e \notin disturbed
    BY <1>2
  <2>1. CASE e = d
    <3>1. Held(a, d) /\ accepted[d] = 0 /\ operator[d] = "none"
      BY <1>1, <2>0, <2>1 DEF Steady, Held
    <3>2. accepted'[d] <= 1 /\ (s # "ok" => accepted'[d] = 0)
      BY <1>2, <2>0, <2>1, <3>1 DEF TypeOK
    <3>3. Held(a, d)' /\ \A b \in Agents : stage'[b][d] # "idle" => b = a
      BY <1>1, <1>2, <1>4, <3>1, <3>2 DEF Held, rowVars
    <3> QED
      BY <1>1, <2>1, <3>1, <3>2, <3>3 DEF Held, rowVars
  <2>2. CASE e # d
    <3>1. accepted'[e] = accepted[e]
      BY <1>2, <2>2 DEF TypeOK
    <3> QED
      BY <1>1, <1>4, <2>0, <2>2, <3>1 DEF Steady, Held, rowVars
  <2> QED
    BY <2>1, <2>2
<1> QED
  BY <1>7, <1>8, <1>9, <1>10

\* Any write of an outcome, by a job that may be stale, ends the job.
LEMMA WriteStep ==
  ASSUME IInv, NEW a \in Agents, NEW d \in Deliveries,
         Refuse(a, d) \/ RecordSuccess(a, d) \/ RecordFailure(a, d)
  PROVE  IInv'
<1> USE DEF IInv
<1>1. /\ UNCHANGED <<worldVars, snap, operator, accepted, disturbed, faults, interventions>>
      /\ Goto(a, d, "idle") /\ stage[a][d] \in {"refuse", "ok", "bad"}
  BY DEF Refuse, RecordSuccess, RecordFailure
<1>2. /\ stage' \in [Agents -> [Deliveries -> Stages]]
      /\ stage'[a][d] = "idle"
      /\ \A b \in Agents, e \in Deliveries : b # a \/ e # d => stage'[b][e] = stage[b][e]
  BY <1>1, Moved DEF Stages
<1>3. /\ status' \in [Deliveries -> Pending \cup Terminal \cup {"none", "gone"}]
      /\ attempts' \in [Deliveries -> Nat] /\ due' \subseteq Deliveries
  <2>1. CASE Refuse(a, d)
    BY <2>1 DEF Refuse, TypeOK, Terminal
  <2>2. CASE RecordSuccess(a, d)
    BY <2>2 DEF RecordSuccess, TypeOK, Terminal, rowVars
  <2>3. CASE RecordFailure(a, d)
    <3>1. status' \in [Deliveries -> Pending \cup Terminal \cup {"none", "gone"}]
      BY <2>3 DEF RecordFailure, TypeOK, Terminal, Pending, rowVars
    <3>2. attempts' \in [Deliveries -> Nat]
      BY <2>3 DEF RecordFailure, TypeOK, rowVars
    <3>3. due' \subseteq Deliveries
      BY <2>3 DEF RecordFailure, TypeOK, rowVars
    <3> QED
      BY <3>1, <3>2, <3>3
  <2> QED
    BY <2>1, <2>2, <2>3
<1>4. \A e \in Deliveries : e # d =>
        /\ status'[e] = status[e] /\ attempts'[e] = attempts[e]
        /\ e \in due' <=> e \in due
  BY DEF Refuse, RecordSuccess, RecordFailure, TypeOK, rowVars
<1>5. ~Exists(d) => status'[d] = status[d] /\ attempts'[d] = attempts[d]
  BY DEF Refuse, RecordSuccess, RecordFailure, TypeOK, rowVars
<1>6. Exists(d) =>
        \/ status'[d] = "failed"
        \/ status'[d] = "success" /\ stage[a][d] = "ok"
        \/ status'[d] = "queued" /\ attempts'[d] < Budget(d) /\ stage[a][d] = "bad"
  <2>1. CASE Refuse(a, d)
    BY <2>1 DEF Refuse, TypeOK
  <2>2. CASE RecordSuccess(a, d)
    BY <2>2 DEF RecordSuccess, TypeOK
  <2>3. CASE RecordFailure(a, d)
    BY <2>3, BudgetIsPositive DEF RecordFailure, TypeOK
  <2> QED
    BY <2>1, <2>2, <2>3
<1>7. TypeOK'
  BY <1>1, <1>2, <1>3 DEF TypeOK, worldVars
<1>8. Budgeted'
  BY <1>4, <1>5, <1>6 DEF Budgeted, PendingHasBudget, Fresh, Pending, Exists
<1>9. Earned'
  BY <1>1, <1>2, <1>4, <1>5, <1>6 DEF Earned
<1>10. Steady'
  <2> SUFFICES ASSUME NEW e \in Deliveries, e \notin disturbed
               PROVE  /\ operator'[e] = "none"
                      /\ status'[e] \in {"none", "queued"} => accepted'[e] = 0
                      /\ e \in due' => status'[e] # "delivering"
                      /\ \A b \in Agents : stage'[b][e] # "idle" => Held(b, e)'
                      /\ accepted'[e] <= 1
    BY <1>1 DEF Steady
  <2>1. CASE e = d
    <3>1. Held(a, d)
      BY <1>1, <2>1 DEF Steady
    <3>2. \A b \in Agents : stage'[b][d] = "idle"
      BY <1>2, <3>1 DEF Held
    <3>3. status'[d] # "delivering"
      BY <1>5, <1>6, <3>1, <2>1 DEF Held, Exists
    <3> QED
      BY <1>1, <1>5, <1>6, <2>1, <3>1, <3>2, <3>3 DEF Steady, Held, Exists
  <2>2. CASE e # d
    BY <1>1, <1>2, <1>4, <2>2 DEF Steady, Held
  <2> QED
    BY <2>1, <2>2
<1> QED
  BY <1>7, <1>8, <1>9, <1>10

\* A write that fails disturbs its row.
LEMMA RecordFailsStep ==
  ASSUME IInv, NEW a \in Agents, NEW d \in Deliveries, RecordFails(a, d)
  PROVE  IInv'
<1> USE DEF IInv
<1>1. PICK s \in {"bad", "idle"} : Goto(a, d, s)
  BY DEF RecordFails
<1>2. /\ UNCHANGED <<rowVars, worldVars, snap, operator, accepted, interventions>>
      /\ disturbed' = disturbed \cup {d} /\ faults' \in Nat
  BY DEF RecordFails, Fault, TypeOK
<1>3. /\ stage' \in [Agents -> [Deliveries -> Stages]]
      /\ stage'[a][d] = s
      /\ \A b \in Agents, e \in Deliveries : b # a \/ e # d => stage'[b][e] = stage[b][e]
  BY <1>1, Moved DEF Stages
<1>4. TypeOK'
  BY <1>2, <1>3 DEF TypeOK, rowVars, worldVars
<1>5. Budgeted'
  BY <1>2 DEF Budgeted, PendingHasBudget, Fresh, rowVars
<1>6. Earned'
  BY <1>2, <1>3 DEF Earned, rowVars
<1>7. Steady'
  BY <1>2, <1>3 DEF Steady, Held, rowVars
<1> QED
  BY <1>4, <1>5, <1>6, <1>7

\* A crash leaves every row as it is, and every job of the process idle.
LEMMA CrashStep ==
  ASSUME IInv, NEW a \in Agents, Crash(a)
  PROVE  IInv'
<1> USE DEF IInv
<1>1. /\ stage' = [stage EXCEPT ![a] = [d \in Deliveries |-> "idle"]] /\ faults' \in Nat
      /\ UNCHANGED <<rowVars, worldVars, snap, operator, accepted, disturbed, interventions>>
  BY DEF Crash, Fault, TypeOK
<1>2. \A b \in Agents, e \in Deliveries :
        stage'[b][e] = IF b = a THEN "idle" ELSE stage[b][e]
  BY <1>1 DEF TypeOK
<1>3. TypeOK'
  BY <1>1 DEF TypeOK, Stages, rowVars, worldVars
<1>4. Budgeted'
  BY <1>1 DEF Budgeted, PendingHasBudget, Fresh, rowVars
<1>5. Earned'
  BY <1>1, <1>2 DEF Earned, rowVars
<1>6. Steady'
  BY <1>1, <1>2 DEF Steady, Held, rowVars
<1> QED
  BY <1>3, <1>4, <1>5, <1>6

\* A claim takes due rows, and nobody has a due row undisturbed.
LEMMA ClaimStep ==
  ASSUME IInv, NEW s \in Sweeps, NEW batch \in SUBSET Deliveries, Claim(s, batch)
  PROVE  IInv'
<1> USE DEF IInv
<1>1. /\ status' = [d \in Deliveries |-> IF d \in batch THEN "delivering" ELSE status[d]]
      /\ due' = due \ batch
      /\ UNCHANGED <<attempts, worldVars, operator, accepted, disturbed, faults, interventions>>
      /\ \A d \in batch : d \in due /\ status[d] \in Pending
      /\ s \in Agents
  BY DEF Claim, Claimable, Agents
<1>2. /\ stage' \in [Agents -> [Deliveries -> Stages]]
      /\ \A b \in Agents, e \in Deliveries :
           stage'[b][e] = IF b = s THEN (IF e \in batch THEN "load" ELSE "idle") ELSE stage[b][e]
  BY <1>1 DEF Claim, TypeOK, Stages
<1>3. snap' \in [Agents -> [Deliveries -> Nat]]
  BY <1>1 DEF Claim, TypeOK
<1>4. TypeOK'
  BY <1>1, <1>2, <1>3 DEF TypeOK, Pending, worldVars
<1>5. Budgeted'
  BY <1>1 DEF Budgeted, PendingHasBudget, Fresh, TypeOK
<1>6. Earned'
  BY <1>1, <1>2 DEF Earned, TypeOK
<1>7. Steady'
  <2> SUFFICES ASSUME NEW e \in Deliveries, e \notin disturbed
               PROVE  /\ operator'[e] = "none"
                      /\ status'[e] \in {"none", "queued"} => accepted'[e] = 0
                      /\ e \in due' => status'[e] # "delivering"
                      /\ \A b \in Agents : stage'[b][e] # "idle" => Held(b, e)'
                      /\ accepted'[e] <= 1
    BY <1>1 DEF Steady
  <2>1. CASE e \in batch
    <3>1. status[e] = "queued" /\ accepted[e] = 0 /\ \A b \in Agents : stage[b][e] = "idle"
      BY <1>1, <2>1 DEF Steady, Held, Pending
    <3> QED
      BY <1>1, <1>2, <2>1, <3>1 DEF Steady, Held
  <2>2. CASE e \notin batch
    BY <1>1, <1>2, <2>2 DEF Steady, Held
  <2> QED
    BY <2>1, <2>2
<1> QED
  BY <1>4, <1>5, <1>6, <1>7

-----------------------------------------------------------------------------
(* Time, retention and new rows. *)

LEMMA RowStep ==
  ASSUME IInv, NEW d \in Deliveries,
         Enqueue(d) \/ BackoffEnds(d) \/ LeaseExpires(d) \/ Cleanup(d)
  PROVE  IInv'
<1> USE DEF IInv
<1>1. /\ UNCHANGED <<attempts, worldVars, jobVars, operator, accepted, interventions>>
      /\ disturbed \subseteq disturbed' /\ disturbed' \subseteq Deliveries
      /\ faults' \in Nat
  BY DEF Enqueue, BackoffEnds, LeaseExpires, Cleanup, TypeOK, Fault
<1>2. /\ status' \in [Deliveries -> Pending \cup Terminal \cup {"none", "gone"}]
      /\ due' \subseteq Deliveries
  BY DEF Enqueue, BackoffEnds, LeaseExpires, Cleanup, TypeOK, Pending
<1>3. \A e \in Deliveries : e # d => status'[e] = status[e] /\ (e \in due' <=> e \in due)
  BY DEF Enqueue, BackoffEnds, LeaseExpires, Cleanup, TypeOK
<1>4. \/ status[d] = "none" /\ status'[d] = "queued"
      \/ status[d] = "queued" /\ status'[d] = "queued"
      \/ status'[d] = status[d] /\ d \in disturbed'
      \/ status[d] \in Terminal /\ status'[d] = "gone" /\ (d \in due' <=> d \in due)
  BY DEF Enqueue, BackoffEnds, LeaseExpires, Cleanup, TypeOK
<1>5. TypeOK'
  BY <1>1, <1>2 DEF TypeOK, worldVars, jobVars
<1>6. Budgeted'
  <2>1. status[d] = "none" => attempts[d] < Budget(d)
    BY BudgetIsPositive DEF Budgeted, Fresh
  <2> QED
    BY <1>1, <1>3, <1>4, <2>1 DEF Budgeted, PendingHasBudget, Fresh, Pending, Terminal
<1>7. Earned'
  BY <1>1, <1>3, <1>4 DEF Earned, jobVars
<1>8. Steady'
  BY <1>1, <1>3, <1>4 DEF Steady, Held, jobVars, Terminal
<1> QED
  BY <1>5, <1>6, <1>7, <1>8

-----------------------------------------------------------------------------
(* People: whatever they touch is disturbed, so only the budget and the       *)
(* successes are at stake.                                                    *)

LEMMA RequestStep ==
  ASSUME IInv, NEW r \in Requests, NEW d \in Deliveries,
         AskRetry(r, d) \/ SendTest(r, d)
  PROVE  IInv'
<1> USE DEF IInv
<1>1. r \in Agents
  BY DEF Agents
<1>2. PICK t \in {"row", "rowDisabled", "plan"} : Goto(r, d, t)
  BY DEF AskRetry, SendTest
<1>3. /\ stage' \in [Agents -> [Deliveries -> Stages]]
      /\ stage'[r][d] = t
      /\ \A b \in Agents, e \in Deliveries : b # r \/ e # d => stage'[b][e] = stage[b][e]
  BY <1>1, <1>2, Moved DEF Stages
<1>4. /\ UNCHANGED <<attempts, worldVars, operator, accepted, faults>>
      /\ disturbed' = disturbed \cup {d} /\ interventions' \in Nat
  BY DEF AskRetry, SendTest, Intervene, TypeOK, rowVars
<1>5. /\ status' \in [Deliveries -> Pending \cup Terminal \cup {"none", "gone"}]
      /\ due' \subseteq Deliveries /\ snap' \in [Agents -> [Deliveries -> Nat]]
  <2>1. CASE AskRetry(r, d)
    BY <2>1 DEF AskRetry, TypeOK, rowVars
  <2>2. CASE SendTest(r, d)
    BY <1>1, <2>2 DEF SendTest, TypeOK, Pending
  <2> QED
    BY <2>1, <2>2
<1>6. /\ \A e \in Deliveries : e # d => status'[e] = status[e] /\ (e \in due' <=> e \in due)
      /\ status'[d] = status[d] \/ (status[d] = "none" /\ status'[d] = "queued")
  BY DEF AskRetry, SendTest, TypeOK, rowVars
<1>7. TypeOK'
  BY <1>3, <1>4, <1>5 DEF TypeOK, worldVars
<1>8. Budgeted'
  BY <1>4, <1>6, BudgetIsPositive DEF Budgeted, PendingHasBudget, Fresh
<1>9. Earned'
  BY <1>3, <1>4, <1>6 DEF Earned
<1>10. Steady'
  BY <1>3, <1>4, <1>6 DEF Steady, Held
<1> QED
  BY <1>7, <1>8, <1>9, <1>10

\* The row a retry reads is its own affair: nothing undisturbed is retried.
LEMMA ReadRowStep ==
  ASSUME IInv, NEW r \in Agents, NEW d \in Deliveries, ReadRow(r, d)
  PROVE  IInv'
<1> USE DEF IInv
<1>1. PICK t \in {"plan", "refuse", "idle"} : Goto(r, d, t)
  BY DEF ReadRow
<1>2. /\ UNCHANGED <<rowVars, worldVars, operator, accepted, disturbed, faults, interventions>>
      /\ stage[r][d] \in {"row", "rowDisabled"}
  BY DEF ReadRow
<1>3. /\ stage' \in [Agents -> [Deliveries -> Stages]]
      /\ stage'[r][d] = t
      /\ \A b \in Agents, e \in Deliveries : b # r \/ e # d => stage'[b][e] = stage[b][e]
  BY <1>1, Moved DEF Stages
<1>4. snap' \in [Agents -> [Deliveries -> Nat]]
  BY DEF ReadRow, TypeOK
<1>5. d \in disturbed
  BY <1>2 DEF Steady, Held
<1>6. TypeOK'
  BY <1>2, <1>3, <1>4 DEF TypeOK, rowVars, worldVars
<1>7. Budgeted'
  BY <1>2 DEF Budgeted, PendingHasBudget, Fresh, rowVars
<1>8. Earned'
  BY <1>2, <1>3 DEF Earned, rowVars
<1>9. Steady'
  BY <1>2, <1>3, <1>5 DEF Steady, Held, rowVars
<1> QED
  BY <1>6, <1>7, <1>8, <1>9

LEMMA OperatorChecksStep ==
  ASSUME IInv, NEW d \in Deliveries, NEW what \in {"retry", "cancel"}, OperatorChecks(d, what)
  PROVE  IInv'
<1> USE DEF IInv
<1>1. /\ UNCHANGED <<rowVars, worldVars, jobVars, accepted, faults>>
      /\ operator' = [operator EXCEPT ![d] = what]
      /\ disturbed' = disturbed \cup {d} /\ interventions' \in Nat
  BY DEF OperatorChecks, Intervene, TypeOK
<1>2. TypeOK'
  BY <1>1 DEF TypeOK, rowVars, worldVars, jobVars
<1>3. Budgeted'
  BY <1>1 DEF Budgeted, PendingHasBudget, Fresh, rowVars
<1>4. Earned'
  BY <1>1 DEF Earned, rowVars, jobVars
<1>5. Steady'
  BY <1>1 DEF Steady, Held, TypeOK, rowVars, jobVars
<1> QED
  BY <1>2, <1>3, <1>4, <1>5

\* An operator's write gives the row its budget back or ends it.
LEMMA OperatorActsStep ==
  ASSUME IInv, NEW d \in Deliveries, OperatorActs(d)
  PROVE  IInv'
<1> USE DEF IInv
<1>1. /\ UNCHANGED <<worldVars, jobVars, accepted, disturbed, faults, interventions>>
      /\ operator' = [operator EXCEPT ![d] = "none"]
      /\ d \in disturbed
  BY DEF OperatorActs, Steady
<1>2. /\ status' \in [Deliveries -> Pending \cup Terminal \cup {"none", "gone"}]
      /\ due' \subseteq Deliveries
  BY DEF OperatorActs, TypeOK, Pending, Terminal, rowVars
<1>3. attempts' \in [Deliveries -> Nat]
  BY DEF OperatorActs, TypeOK, rowVars
<1>4. \A e \in Deliveries : e # d =>
        /\ status'[e] = status[e] /\ attempts'[e] = attempts[e]
        /\ e \in due' <=> e \in due
  BY DEF OperatorActs, TypeOK, rowVars
<1>5. \/ status'[d] = status[d] /\ attempts'[d] = attempts[d]
      \/ status'[d] = "queued" /\ attempts'[d] = 0
      \/ status'[d] = "failed"
  BY DEF OperatorActs, TypeOK, rowVars
<1>6. TypeOK'
  BY <1>1, <1>2, <1>3 DEF TypeOK, worldVars, jobVars
<1>7. Budgeted'
  BY <1>4, <1>5, BudgetIsPositive DEF Budgeted, PendingHasBudget, Fresh, Pending
<1>8. Earned'
  BY <1>1, <1>4, <1>5 DEF Earned, jobVars
<1>9. Steady'
  BY <1>1, <1>4 DEF Steady, Held, TypeOK, jobVars
<1> QED
  BY <1>6, <1>7, <1>8, <1>9

\* The endpoint and the plan change around the rows; a deletion takes them along.
LEMMA WorldStep ==
  ASSUME IInv,
         DisableEndpoint \/ AskEnable \/ EnableEndpoint \/ DeleteEndpoint \/ ChangePlan
  PROVE  IInv'
<1> USE DEF IInv
<1>1. /\ UNCHANGED <<attempts, due, jobVars, operator, accepted, disturbed, faults, interventions>>
      /\ \A e \in Deliveries : status'[e] = status[e] \/ (Exists(e) /\ status'[e] = "gone")
      /\ status' \in [Deliveries -> Pending \cup Terminal \cup {"none", "gone"}]
  BY DEF DisableEndpoint, AskEnable, EnableEndpoint, DeleteEndpoint, ChangePlan, TypeOK, rowVars
<1>2. endpoint' \in {"enabled", "disabled", "deleted"}
  BY DEF DisableEndpoint, AskEnable, EnableEndpoint, DeleteEndpoint, ChangePlan, TypeOK
<1>3. paid' \in BOOLEAN /\ noted' \in BOOLEAN /\ enabling' \in BOOLEAN
  <2>1. paid \in BOOLEAN /\ noted \in BOOLEAN /\ enabling \in BOOLEAN
    BY DEF TypeOK
  <2> QED
    BY <2>1, Zenon
    DEF DisableEndpoint, AskEnable, EnableEndpoint, DeleteEndpoint, ChangePlan
<1>4. TypeOK'
  BY <1>1, <1>2, <1>3 DEF TypeOK, jobVars
<1>5. Budgeted'
  BY <1>1 DEF Budgeted, PendingHasBudget, Fresh, Pending
<1>6. Earned'
  BY <1>1 DEF Earned, jobVars
<1>7. Steady'
  BY <1>1 DEF Steady, Held, Exists, jobVars
<1> QED
  BY <1>4, <1>5, <1>6, <1>7

-----------------------------------------------------------------------------
(* The theorems. *)

LEMMA Initially == Init => IInv
<1> SUFFICES ASSUME Init PROVE IInv
  OBVIOUS
<1>1. TypeOK
  <2>1. {paid, noted, enabling} \subseteq BOOLEAN
    BY DEF Init
  <2> QED
    BY <2>1 DEF Init, TypeOK, Stages
<1>2. Budgeted
  BY DEF Init, Budgeted, PendingHasBudget, Fresh, Pending
<1>3. Earned
  BY DEF Init, Earned
<1>4. Steady
  BY DEF Init, Steady, Held
<1> QED
  BY <1>1, <1>2, <1>3, <1>4 DEF IInv

LEMMA Inductive == IInv /\ [Next]_vars => IInv'
<1> SUFFICES ASSUME IInv, [Next]_vars PROVE IInv'
  OBVIOUS
<1>1. ASSUME NEW d \in Deliveries, NEW a \in Agents, Job(a, d) \/ RecordFails(a, d)
      PROVE  IInv'
  BY <1>1, LoadEndpointStep, PostStep, WriteStep, ReadRowStep, RecordFailsStep DEF Job
<1>2. ASSUME NEW d \in Deliveries, People(d)
      PROVE  IInv'
  BY <1>2, RequestStep, OperatorChecksStep, OperatorActsStep DEF People
<1>3. ASSUME NEW d \in Deliveries,
             Enqueue(d) \/ BackoffEnds(d) \/ LeaseExpires(d) \/ Cleanup(d)
      PROVE  IInv'
  BY <1>3, RowStep
<1>4. CASE \E s \in Sweeps, batch \in SUBSET Deliveries : Claim(s, batch)
  BY <1>4, ClaimStep
<1>5. CASE \E a \in Agents : Crash(a)
  BY <1>5, CrashStep
<1>6. CASE DisableEndpoint \/ AskEnable \/ EnableEndpoint \/ DeleteEndpoint \/ ChangePlan
  BY <1>6, WorldStep
<1>7. CASE UNCHANGED vars
  <2> USE <1>7 DEF IInv, vars
  <2>1. TypeOK'
    BY DEF TypeOK, rowVars, worldVars, jobVars
  <2>2. Budgeted' /\ Earned' /\ Steady'
    BY DEF Budgeted, PendingHasBudget, Fresh, Earned, Steady, Held, rowVars, jobVars
  <2> QED
    BY <2>1, <2>2
<1> QED
  BY <1>1, <1>2, <1>3, <1>4, <1>5, <1>6, <1>7 DEF Next

THEOREM Invariance == Spec => []IInv
  BY Initially, Inductive, PTL DEF Spec

\* The type invariant of the deliveries, the jobs and the people around them.
THEOREM TypeCorrect == Spec => []TypeOK
<1>1. IInv => TypeOK
  BY DEF IInv
<1> QED
  BY <1>1, Invariance, PTL

\* Unconditional writes of stale copies never schedule an attempt too many.
THEOREM BudgetHolds == Spec => []PendingHasBudget
<1>1. IInv => PendingHasBudget
  BY DEF IInv, Budgeted
<1> QED
  BY <1>1, Invariance, PTL

\* In particular a chat test that was tried is never scheduled again.
THEOREM TestsAreOneShot == Spec => []TestIsOneShot
<1>1. IInv => TestIsOneShot
  BY TestsAssumption DEF IInv, TypeOK, Budgeted, PendingHasBudget, TestIsOneShot, Budget
<1> QED
  BY <1>1, Invariance, PTL

\* No stale job forges a success.
THEOREM SuccessIsEarned == Spec => []SuccessIsReal
<1>1. IInv => SuccessIsReal
  BY DEF IInv, Earned, SuccessIsReal
<1> QED
  BY <1>1, Invariance, PTL

\* Claims, leases and batches alone never deliver an event twice.
THEOREM DuplicatesHaveCauses == Spec => []DuplicateNeedsCause
<1>1. IInv => DuplicateNeedsCause
  BY DEF IInv, Steady, DuplicateNeedsCause
<1> QED
  BY <1>1, Invariance, PTL

\* An undisturbed row that ended is in nobody's hands, so it stays as it ended.
THEOREM EndsAreFinal == Spec => DoneStaysDone
<1>1. IInv /\ [Next]_vars =>
        [\A d \in Deliveries \ disturbed :
           status[d] \in Terminal => status'[d] \in {status[d], "gone"}]_vars
  <2> SUFFICES ASSUME IInv, Next, NEW d \in Deliveries, d \notin disturbed,
                      status[d] \in Terminal
               PROVE  status'[d] \in {status[d], "gone"}
    BY DEF vars
  <2>1. operator[d] = "none" /\ \A a \in Agents : stage[a][d] = "idle"
    BY DEF IInv, Steady, Held, Terminal
  <2>2. ASSUME NEW e \in Deliveries, NEW a \in Agents, Job(a, e) \/ RecordFails(a, e)
        PROVE  status'[d] \in {status[d], "gone"}
    <3>1. CASE LoadEndpoint(a, e) \/ CheckPlan(a, e) \/ Post(a, e) \/ ReadRow(a, e)
                 \/ RecordFails(a, e)
      BY <3>1 DEF LoadEndpoint, CheckPlan, Post, ReadRow, RecordFails, rowVars
    <3>2. CASE Refuse(a, e) \/ RecordSuccess(a, e) \/ RecordFailure(a, e)
      <4>1. e # d
        BY <2>1, <3>2 DEF Refuse, RecordSuccess, RecordFailure
      <4> QED
        BY <3>2, <4>1 DEF Refuse, RecordSuccess, RecordFailure, IInv, TypeOK, rowVars
    <3> QED
      BY <2>2, <3>1, <3>2 DEF Job
  <2>3. ASSUME NEW e \in Deliveries,
               \/ Enqueue(e) \/ BackoffEnds(e) \/ LeaseExpires(e) \/ Cleanup(e)
               \/ People(e)
        PROVE  status'[d] \in {status[d], "gone"}
    <3>1. CASE Enqueue(e) \/ BackoffEnds(e) \/ LeaseExpires(e) \/ Cleanup(e)
      BY <3>1 DEF Enqueue, BackoffEnds, LeaseExpires, Cleanup, IInv, TypeOK, Terminal
    <3>2. CASE \E r \in Requests : AskRetry(r, e) \/ SendTest(r, e)
      BY <3>2 DEF AskRetry, SendTest, IInv, TypeOK, Terminal, rowVars
    <3>3. CASE \E what \in {"retry", "cancel"} : OperatorChecks(e, what)
      BY <3>3 DEF OperatorChecks, rowVars
    <3>4. CASE OperatorActs(e)
      <4>1. e # d
        BY <2>1, <3>4 DEF OperatorActs
      <4> QED
        BY <3>4, <4>1 DEF OperatorActs, IInv, TypeOK, rowVars
    <3> QED
      BY <2>3, <3>1, <3>2, <3>3, <3>4 DEF People
  <2>4. ASSUME NEW s \in Sweeps, NEW batch \in SUBSET Deliveries, Claim(s, batch)
        PROVE  status'[d] \in {status[d], "gone"}
    BY <2>4 DEF Claim, Claimable, Pending, Terminal
  <2>5. ASSUME NEW a \in Agents, Crash(a)
        PROVE  status'[d] \in {status[d], "gone"}
    BY <2>5 DEF Crash, rowVars
  <2>6. CASE DisableEndpoint \/ AskEnable \/ EnableEndpoint \/ DeleteEndpoint \/ ChangePlan
    BY <2>6 DEF DisableEndpoint, AskEnable, EnableEndpoint, DeleteEndpoint, ChangePlan, rowVars
  <2> QED
    BY <2>2, <2>3, <2>4, <2>5, <2>6 DEF Next
<1> QED
  BY <1>1, Invariance, PTL DEF Spec, DoneStaysDone

\* After a downgrade no job passes the plan check, whatever the endpoint says.
THEOREM DowngradeIsFinal == Spec => DowngradeHolds
<1>1. IInv /\ [Next]_vars =>
        [\A a \in Agents, d \in Deliveries :
           ~paid /\ stage[a][d] # "post" => stage'[a][d] # "post"]_vars
  <2> SUFFICES ASSUME IInv, Next, NEW a \in Agents, NEW d \in Deliveries,
                      ~paid, stage[a][d] # "post"
               PROVE  stage'[a][d] # "post"
    BY DEF vars
  <2>1. ASSUME NEW b \in Agents, NEW e \in Deliveries, NEW s \in Stages \ {"post"},
               Goto(b, e, s)
        PROVE  stage'[a][d] # "post"
    BY <2>1, Moved DEF IInv
  <2>2. ASSUME NEW b \in Agents, NEW e \in Deliveries, Job(b, e) \/ RecordFails(b, e)
        PROVE  stage'[a][d] # "post"
    <3>1. PICK s \in Stages \ {"post"} : Goto(b, e, s)
      BY <2>2 DEF Job, LoadEndpoint, CheckPlan, Post, Refuse, RecordSuccess, RecordFailure,
                  ReadRow, RecordFails, Stages
    <3> QED
      BY <2>1, <3>1
  <2>3. ASSUME NEW e \in Deliveries, People(e)
        PROVE  stage'[a][d] # "post"
    <3>1. CASE \E r \in Requests : AskRetry(r, e) \/ SendTest(r, e)
      <4>1. PICK r \in Requests, s \in Stages \ {"post"} : Goto(r, e, s)
        BY <3>1 DEF AskRetry, SendTest, Stages
      <4> QED
        BY <2>1, <4>1 DEF Agents
    <3>2. CASE UNCHANGED jobVars
      BY <3>2 DEF jobVars
    <3> QED
      BY <2>3, <3>1, <3>2 DEF People, OperatorChecks, OperatorActs
  <2>4. ASSUME NEW s \in Sweeps, NEW batch \in SUBSET Deliveries, Claim(s, batch)
        PROVE  stage'[a][d] # "post"
    BY <2>4 DEF Claim, IInv, TypeOK, Agents
  <2>5. ASSUME NEW b \in Agents, Crash(b)
        PROVE  stage'[a][d] # "post"
    BY <2>5 DEF Crash, IInv, TypeOK
  <2>6. CASE UNCHANGED jobVars
    BY <2>6 DEF jobVars
  <2> QED
    BY <2>2, <2>3, <2>4, <2>5, <2>6
    DEF Next, Enqueue, BackoffEnds, LeaseExpires, Cleanup, DisableEndpoint, AskEnable,
        EnableEndpoint, DeleteEndpoint, ChangePlan
<1> QED
  BY <1>1, Invariance, PTL DEF Spec, DowngradeHolds
=============================================================================
